--------------------------- MODULE LaneRunsProofs ---------------------------
(***************************************************************************)
(* Safety of LaneRuns, for every lane, section, state of GitHub and        *)
(* failure.                                                                *)
(***************************************************************************)
EXTENDS LaneRuns, FiniteSetTheorems, SequenceTheorems, WellFoundedInduction, TLAPS

(*------------------------------ single calls -----------------------------*)

Ops == {"put", "post", "merge", "patch", "remove", "delete"}

\* Calls that leave an item with their key.
Builds == {"put", "post", "merge", "patch"}

\* A call acts on the items of its own key and on no other.
OwnKey(store, c) == Targets(store, c) \subseteq WithKey(store, c.key)

\* What an accepted call does to the store, key by key.
LEMMA ApplyEffect ==
    ASSUME NEW l, NEW store, NEW c, NEW fresh,
           c.op \in Ops, OwnKey(store, c), fresh \notin DOMAIN store
    PROVE  LET g == Apply(l, store, c, fresh)
               targets == Targets(store, c)
           IN  /\ \A i \in DOMAIN store \ targets : i \in DOMAIN g /\ g[i] = store[i]
               /\ \A i \in DOMAIN g :
                    \/ i \in DOMAIN store /\ g[i] = store[i]
                    \/ /\ i \in targets \cup {fresh} /\ g[i].key = c.key
                       /\ DOMAIN g[i] = {"key", "doc"}
               /\ c.op \in {"merge", "patch"} =>
                    /\ DOMAIN g = DOMAIN store
                    /\ \A i \in targets : g[i].key = c.key /\ g[i].doc = Overlay(c.body, store[i].doc)
               /\ c.op = "put" =>
                    DOMAIN g = DOMAIN store \cup (IF targets = {} THEN {fresh} ELSE {})
                    /\ \A i \in DOMAIN g \ (DOMAIN store \ targets) : g[i].key = c.key
               /\ c.op = "post" => DOMAIN g = DOMAIN store \cup {fresh} /\ g[fresh].key = c.key
               /\ c.op \in {"remove", "delete"} => DOMAIN g = DOMAIN store \ targets
<1> DEFINE targets == Targets(store, c)
<1>0. targets \subseteq DOMAIN store
  BY DEF Targets, WithKey
<1>1. CASE c.op = "put"
  BY <1>0, <1>1 DEF Apply, Ops
<1>2. CASE c.op = "post"
  BY <1>0, <1>2 DEF Apply, Ops
<1>3. CASE c.op \in {"merge", "patch"}
  BY <1>0, <1>3 DEF Apply, Ops
<1>4. CASE c.op \in {"remove", "delete"}
  BY <1>0, <1>4 DEF Apply, Ops, Restrict
<1> QED
  BY <1>1, <1>2, <1>3, <1>4 DEF Ops

(*---------------------------- an entry's calls ---------------------------*)

IsSeq(s) == \E S : s \in Seq(S)

\* What any sequence of calls of the entry of k is like: a delete is followed
\* by the create that replaces it, a put or a merge by merges.
IsCalls(s, k, id) ==
    /\ IsSeq(s)
    /\ \A n \in 1..Len(s) :
         /\ s[n].op \in Ops /\ s[n].key = k
         /\ s[n].op \in {"patch", "delete"} => s[n].id = id
    /\ \A n \in 1..(Len(s) - 1) :
         \/ s[n].op \in {"put", "merge"} /\ s[n + 1].op = "merge"
         \/ s[n].op = "delete" /\ s[n + 1].op = "post"

\* Calls that only merge.
Merges(s, k) == IsSeq(s) /\ \A n \in 1..Len(s) : s[n].op = "merge" /\ s[n].key = k

\* Sequences of merges are put together to one.
LEMMA MergesConcat ==
    ASSUME NEW s, NEW t, NEW k, Merges(s, k), Merges(t, k)
    PROVE  Merges(s \o t, k) /\ Len(s \o t) = Len(s) + Len(t) /\ Len(s) \in Nat /\ Len(t) \in Nat
<1>1. PICK S : s \in Seq(S)
  BY DEF Merges, IsSeq
<1>2. PICK T : t \in Seq(T)
  BY DEF Merges, IsSeq
<1>3. s \in Seq(S \cup T) /\ t \in Seq(S \cup T)
  BY <1>1, <1>2
<1>4. s \o t \in Seq(S \cup T) /\ Len(s \o t) = Len(s) + Len(t) /\ Len(s) \in Nat /\ Len(t) \in Nat
  BY <1>3
<1>5. \A n \in 1..Len(s \o t) : (s \o t)[n] = IF n <= Len(s) THEN s[n] ELSE t[n - Len(s)]
  BY <1>3
<1>6. \A n \in 1..Len(s \o t) : n <= Len(s) \/ n - Len(s) \in 1..Len(t)
  BY <1>4
<1> QED
  BY <1>4, <1>5, <1>6 DEF Merges, IsSeq

\* Merges may follow each other in any number.
LEMMA MergesAreCalls ==
    ASSUME NEW s, NEW k, NEW id, Merges(s, k)
    PROVE  /\ IsCalls(s, k, id)
           /\ s # <<>> => /\ Len(s) \in Nat \ {0}
                          /\ s[Len(s)].op \in Builds /\ s[1].op = "merge"
<1>1. PICK S : s \in Seq(S)
  BY DEF Merges, IsSeq
<1> QED
  BY <1>1 DEF Merges, IsCalls, IsSeq, Ops, Builds

\* The first call of an entry suits its action.
Suits(s, l, action) ==
    /\ Len(s) \in Nat \ {0}
    /\ s[1].op = "post" => action = "create"
    /\ s[1].op = "merge" => l \in FixedLanes \/ action = "update"
    /\ s[1].op = "remove" => action = "delete"
    /\ s[1].op \in {"patch", "delete"} => action # "create"
    /\ action # "delete" => s[Len(s)].op \in Builds
    /\ l \in FixedLanes => \A n \in 1..Len(s) : s[n].op = "merge"

\* One call is a sequence of calls of its entry.
LEMMA SingleCall ==
    ASSUME NEW k, NEW id, NEW c, c.op \in Ops, c.key = k, c.op \in {"patch", "delete"} => c.id = id
    PROVE  /\ IsCalls(<<c>>, k, id) /\ Len(<<c>>) = 1 /\ <<c>>[1] = c
           /\ c.op = "merge" => Merges(<<c>>, k)
<1> DEFINE s == <<c>>
<1>1. IsSeq(s)
  <2>1. s \in Seq({c})
    OBVIOUS
  <2> QED
    BY <2>1 DEF IsSeq
<1>2. Len(s) = 1 /\ s[1] = c
  OBVIOUS
<1> HIDE DEF s
<1>3. IsCalls(s, k, id) /\ (c.op = "merge" => Merges(s, k))
  BY <1>1, <1>2 DEF IsCalls, Merges
<1> QED
  BY <1>2, <1>3 DEF s

\* Two calls are one, if the second may follow the first.
LEMMA TwoCalls ==
    ASSUME NEW k, NEW id, NEW b, NEW c, b.key = k, c.key = k,
           \/ b.op \in {"put", "merge"} /\ c.op = "merge"
           \/ b.op = "delete" /\ b.id = id /\ c.op = "post"
    PROVE  IsCalls(<<b, c>>, k, id) /\ Len(<<b, c>>) = 2 /\ <<b, c>>[1] = b /\ <<b, c>>[2] = c
<1> DEFINE s == <<b, c>>
<1>1. IsSeq(s)
  <2>1. s \in Seq({b, c})
    OBVIOUS
  <2> QED
    BY <2>1 DEF IsSeq
<1>2. Len(s) = 2 /\ s[1] = b /\ s[2] = c
  OBVIOUS
<1> HIDE DEF s
<1>3. IsCalls(s, k, id)
  BY <1>1, <1>2 DEF IsCalls, Ops
<1> QED
  BY <1>2, <1>3 DEF s

\* An entry of a plan that a lane can make.
IsEntry(l, c, k, d) ==
    /\ d.action \in {"create", "update", "delete"}
    /\ d.action = "delete" => k \notin DOMAIN c /\ l \in ListingLanes
    /\ d.action # "delete" => k \in DOMAIN c
    /\ l \in FixedLanes => d.action = "update"
    /\ d.action = "update" => d.changes # {} /\ d.changes \subseteq DOMAIN Desired(l, c)[k]

\* When one call carries out an entry of the given action.
LEMMA SingleSuits ==
    ASSUME NEW l, NEW action, NEW k, NEW id, NEW c,
           c.op \in Ops, c.key = k, c.op \in {"patch", "delete"} => c.id = id,
           c.op = "post" => action = "create",
           c.op = "merge" => l \in FixedLanes \/ action = "update",
           c.op = "remove" => action = "delete",
           c.op \in {"patch", "delete"} => action # "create",
           action # "delete" => c.op \in Builds,
           l \in FixedLanes => c.op = "merge"
    PROVE  IsCalls(<<c>>, k, id) /\ Suits(<<c>>, l, action)
<1>1. IsCalls(<<c>>, k, id) /\ Len(<<c>>) = 1 /\ <<c>>[1] = c
  BY SingleCall
<1> DEFINE s == <<c>>
<1>2. Len(s) = 1 /\ s[1] = c
  BY <1>1
<1> HIDE DEF s
<1>3. Suits(s, l, action)
  BY <1>2 DEF Suits
<1> QED
  BY <1>1, <1>3 DEF s

\* When merges carry out an entry.
LEMMA MergesSuit ==
    ASSUME NEW s, NEW l, NEW k, NEW id, l \in FixedLanes, Merges(s, k), Len(s) # 0
    PROVE  IsCalls(s, k, id) /\ Suits(s, l, "update")
<1>1. s # <<>>
  OBVIOUS
<1>2. IsCalls(s, k, id) /\ Len(s) \in Nat \ {0} /\ s[Len(s)].op \in Builds /\ s[1].op = "merge"
  BY <1>1, MergesAreCalls
<1> QED
  BY <1>2 DEF Suits, Merges

\* No calls at all.
LEMMA NoCalls == ASSUME NEW k PROVE Merges(<<>>, k) /\ Len(<<>>) = 0
<1>1. <<>> \in Seq({}) /\ Len(<<>>) = 0
  OBVIOUS
<1> QED
  BY <1>1 DEF Merges, IsSeq

\* A part of a lane's calls that is sent if there is something to send.
LEMMA PartMerges ==
    ASSUME NEW k, NEW body, NEW empty \in BOOLEAN
    PROVE  LET p == IF empty THEN <<>> ELSE <<Call("merge", k, 0, body)>>
           IN  Merges(p, k) /\ Len(p) = IF empty THEN 0 ELSE 1
<1>1. Call("merge", k, 0, body).op = "merge" /\ Call("merge", k, 0, body).key = k
  BY DEF Call
<1>2. Merges(<<Call("merge", k, 0, body)>>, k) /\ Len(<<Call("merge", k, 0, body)>>) = 1
  BY <1>1, SingleCall DEF Ops
<1> QED
  BY <1>2, NoCalls

\* What writeActions hands out: up to three merges, and not none.
LEMMA ActionsCalls ==
    ASSUME NEW k, NEW d, NEW item, NEW des, NEW id, d.changes # {}, d.changes \subseteq ActionsConfig
    PROVE  LET s == writeActions(k, d, item, des)
           IN  IsCalls(s, k, id) /\ Suits(s, "actions", "update")
<1> DEFINE part(fields, body) ==
               IF d.changes \cap fields = {} THEN <<>> ELSE <<Call("merge", k, 0, body)>>
           p == part({"enabled", "allowed_actions"}, EncodeActionsPermissions(item))
           q == part(ActionsAllowListFields, EncodeActionsAllowed(item))
           r == part(ActionsWorkflowFields, EncodeWorkflowDefaults(item))
<1>1. /\ Merges(p, k) /\ Len(p) = IF d.changes \cap {"enabled", "allowed_actions"} = {} THEN 0 ELSE 1
      /\ Merges(q, k) /\ Len(q) = IF d.changes \cap ActionsAllowListFields = {} THEN 0 ELSE 1
      /\ Merges(r, k) /\ Len(r) = IF d.changes \cap ActionsWorkflowFields = {} THEN 0 ELSE 1
  BY PartMerges
<1>2. writeActions(k, d, item, des) = p \o q \o r
  BY DEF writeActions
<1> HIDE DEF p, q, r
<1>3. Merges(p \o q \o r, k) /\ Len(p \o q \o r) = Len(p) + Len(q) + Len(r)
  <2>1. Merges(p \o q, k) /\ Len(p \o q) = Len(p) + Len(q)
    BY <1>1, MergesConcat
  <2> QED
    BY <1>1, <2>1, MergesConcat
<1>4. Len(p \o q \o r) # 0
  BY <1>1, <1>3 DEF ActionsConfig
<1>5. "actions" \in FixedLanes
  BY DEF FixedLanes
<1> DEFINE s == p \o q \o r
<1>6. Merges(s, k) /\ Len(s) # 0
  BY <1>3, <1>4
<1> HIDE DEF s
<1>7. IsCalls(s, k, id) /\ Suits(s, "actions", "update")
  BY <1>5, <1>6, MergesSuit
<1> QED
  BY <1>2, <1>7 DEF s

\* What writeSecurity hands out: up to four merges, and not none.
LEMMA SecurityCalls ==
    ASSUME NEW k, NEW d, NEW item, NEW des, NEW id, d.changes # {},
           d.changes \subseteq SecurityConfig, d.changes \subseteq DOMAIN des
    PROVE  LET s == writeSecurity(k, d, item, des)
           IN  IsCalls(s, k, id) /\ Suits(s, "security", "update")
<1> DEFINE part(body) == IF DOMAIN body = {} THEN <<>> ELSE <<Call("merge", k, 0, body)>>
           own(x) == part(Only(des, d.changes \cap {x}))
           p == own("automated_security_fixes")
           q == own("private_vulnerability_reporting")
           r == own("vulnerability_alerts")
           t == part(EncodeSecurity(des, d.changes))
<1>1. \A x : DOMAIN Only(des, d.changes \cap {x}) = d.changes \cap {x}
  BY DEF Only, Restrict
<1>2. DOMAIN EncodeSecurity(des, d.changes) = d.changes \cap SecurityAndAnalysisFields
  BY DEF EncodeSecurity
<1>3. \A body : Merges(part(body), k) /\ Len(part(body)) = IF DOMAIN body = {} THEN 0 ELSE 1
  BY PartMerges
<1>4. writeSecurity(k, d, item, des) = p \o q \o r \o t
  BY DEF writeSecurity
<1>5. /\ Merges(p, k) /\ Len(p) = IF "automated_security_fixes" \in d.changes THEN 1 ELSE 0
      /\ Merges(q, k) /\ Len(q) = IF "private_vulnerability_reporting" \in d.changes THEN 1 ELSE 0
      /\ Merges(r, k) /\ Len(r) = IF "vulnerability_alerts" \in d.changes THEN 1 ELSE 0
      /\ Merges(t, k) /\ Len(t) = IF d.changes \cap SecurityAndAnalysisFields = {} THEN 0 ELSE 1
  BY <1>1, <1>2, <1>3
<1> HIDE DEF p, q, r, t
<1>6. /\ Merges(p \o q \o r \o t, k)
      /\ Len(p \o q \o r \o t) = Len(p) + Len(q) + Len(r) + Len(t)
  <2>1. Merges(p \o q, k) /\ Len(p \o q) = Len(p) + Len(q)
    BY <1>5, MergesConcat
  <2>2. Merges(p \o q \o r, k) /\ Len(p \o q \o r) = Len(p \o q) + Len(r)
    BY <1>5, <2>1, MergesConcat
  <2> QED
    BY <1>5, <2>1, <2>2, MergesConcat
<1>7. Len(p \o q \o r \o t) # 0
  BY <1>5, <1>6 DEF SecurityConfig
<1>8. "security" \in FixedLanes
  BY DEF FixedLanes
<1> DEFINE s == p \o q \o r \o t
<1>9. Merges(s, k) /\ Len(s) # 0
  BY <1>6, <1>7
<1> HIDE DEF s
<1>10. IsCalls(s, k, id) /\ Suits(s, "security", "update")
  BY <1>8, <1>9, MergesSuit
<1> QED
  BY <1>4, <1>10 DEF s

\* Two one-element sequences make a pair.
LEMMA Pair == ASSUME NEW a, NEW b PROVE <<a>> \o <<b>> = <<a, b>>
<1> DEFINE s == <<a>>
           t == <<b>>
           u == <<a, b>>
<1>1. /\ s \in Seq({a, b}) /\ Len(s) = 1 /\ s[1] = a
      /\ t \in Seq({a, b}) /\ Len(t) = 1 /\ t[1] = b
      /\ u \in Seq({a, b}) /\ Len(u) = 2 /\ u[1] = a /\ u[2] = b
  OBVIOUS
<1> HIDE DEF s, t, u
<1>2. s \o t \in Seq({a, b}) /\ Len(s \o t) = 2 /\ (s \o t)[1] = a /\ (s \o t)[2] = b
  <2>1. s \o t \in Seq({a, b}) /\ Len(s \o t) = 2
    BY <1>1, ConcatProperties
  <2>2. \A i \in 1..2 : (s \o t)[i] = IF i <= Len(s) THEN s[i] ELSE t[i - Len(s)]
    BY <1>1, <2>1, ConcatProperties
  <2>3. (s \o t)[1] = s[1] /\ (s \o t)[2] = t[1]
    BY <1>1, <2>2
  <2> QED
    BY <1>1, <2>1, <2>3
<1>3. \A i \in 1..2 : (s \o t)[i] = u[i]
  BY <1>1, <1>2
<1>4. s \o t = u
  BY <1>1, <1>2, <1>3, SeqEqual
<1> QED
  BY <1>4 DEF s, t, u

\* The calls of a plan's entry, in each of the fifteen lanes.
LEMMA MutateSuits ==
    ASSUME NEW l \in LaneNames, NEW c, NEW k, NEW d, IsEntry(l, c, k, d),
           ~Pending(l, k, d, c), l = "secrets" => d.action # "update",
           l # "deploy_keys" => \A x \in DOMAIN c : DOMAIN Desired(l, c)[x] \subseteq JSONFields(l, c[x])
    PROVE  LET s == Mutate(l, k, d, c)
           IN  IsCalls(s, k, d.id) /\ Suits(s, l, d.action)
<1> DEFINE item == IF k \in DOMAIN c THEN c[k] ELSE [p \in {} |-> 0]
           des  == IF k \in DOMAIN c THEN Desired(l, c)[k] ELSE [p \in {} |-> 0]
           s    == Mutate(l, k, d, c)
           fits(calls) == IsCalls(calls, k, d.id) /\ Suits(calls, l, d.action)
<1>0. \A op, id, body : LET call == Call(op, k, id, body)
                        IN  call.op = op /\ call.key = k /\ call.id = id
  BY DEF Call
<1>1. ASSUME NEW op \in Ops, NEW id, NEW body,
             op \in {"patch", "delete"} => id = d.id,
             op = "post" => d.action = "create",
             op = "merge" => l \in FixedLanes \/ d.action = "update",
             op = "remove" => d.action = "delete",
             op \in {"patch", "delete"} => d.action # "create",
             d.action # "delete" => op \in Builds,
             l \in FixedLanes => op = "merge"
      PROVE  fits(<<Call(op, k, id, body)>>)
  <2> DEFINE call == Call(op, k, id, body)
  <2>1. call.op = op /\ call.key = k /\ call.id = id
    BY <1>0
  <2> HIDE DEF call
  <2>2. IsCalls(<<call>>, k, d.id) /\ Suits(<<call>>, l, d.action)
    BY <1>1, <2>1, SingleSuits
  <2> QED
    BY <2>2 DEF call
<1>2. d.action = "delete" => fits(<<Bare("remove", k, 0)>>) /\ fits(<<Bare("delete", k, d.id)>>)
  BY <1>1 DEF Bare, Ops, IsEntry, FixedLanes, ListingLanes
<1> USE DEF IsEntry
<1>3. CASE l = "repository"
  <2>1. s = RepoMutate(k, d, item, des)
    BY <1>3 DEF Mutate
  <2>2. \A body : fits(<<Call("merge", k, 0, body)>>)
    BY <1>1, <1>3 DEF Ops, Builds, FixedLanes
  <2> QED
    BY <2>1, <2>2 DEF RepoMutate
<1>4. CASE l \in {"teams", "collaborators", "environments"}
  <2>1. /\ l = "teams" => s = TeamsMutate(k, d, item, des)
        /\ l = "collaborators" => s = CollaboratorsMutate(k, d, item, des)
        /\ l = "environments" => s = EnvironmentsMutate(k, d, item, des)
    BY <1>4 DEF Mutate
  <2>2. \A body : fits(<<Call("put", k, 0, body)>>)
    BY <1>1, <1>4 DEF Ops, Builds, FixedLanes
  <2> QED
    BY <1>2, <1>4, <2>1, <2>2 DEF TeamsMutate, CollaboratorsMutate, EnvironmentsMutate
<1>5. CASE l = "variables"
  <2>1. s = VariablesMutate(k, d, item, des)
    BY <1>5 DEF Mutate
  <2>2. \A body : /\ d.action = "create" => fits(<<Call("post", k, 0, body)>>)
                  /\ d.action = "update" => fits(<<Call("merge", k, 0, body)>>)
    BY <1>1 DEF Ops, Builds
  <2> QED
    BY <1>2, <2>1, <2>2 DEF VariablesMutate
<1>6. CASE l \in {"webhooks", "rulesets"}
  <2>1. /\ l = "webhooks" => s = WebhooksMutate(k, d, item, des)
        /\ l = "rulesets" => s = RulesetsMutate(k, d, item, des)
    BY <1>6 DEF Mutate
  <2>2. \A body : /\ d.action = "create" => fits(<<Call("post", k, 0, body)>>)
                  /\ d.action = "update" => fits(<<Call("patch", k, d.id, body)>>)
    BY <1>1, <1>6 DEF Ops, Builds, FixedLanes
  <2> QED
    BY <1>2, <1>6, <2>1, <2>2 DEF WebhooksMutate, RulesetsMutate
<1>7. CASE l \in {"autolinks", "deploy_keys"}
  <2> DEFINE gone == Bare("delete", k, d.id)
             made(body) == Call("post", k, 0, body)
  <2>1. PICK body :
          s = (IF d.action = "create" THEN <<>> ELSE <<gone>>)
              \o (IF d.action = "delete" THEN <<>> ELSE <<made(body)>>)
    BY <1>7 DEF Mutate, AutolinksMutate, DeployKeysMutate
  <2>2. CASE d.action = "create"
    <3>1. s = <<made(body)>>
      BY <2>1, <2>2
    <3> QED
      BY <1>1, <2>2, <3>1 DEF Ops, Builds
  <2>3. CASE d.action = "delete"
    <3>1. s = <<gone>>
      BY <2>1, <2>3
    <3> QED
      BY <1>2, <2>3, <3>1
  <2>4. CASE d.action = "update"
    <3> DEFINE both == <<gone, made(body)>>
    <3>1. s = both
      BY <2>1, <2>4, Pair
    <3>2. gone.key = k /\ gone.op = "delete" /\ gone.id = d.id
          /\ made(body).key = k /\ made(body).op = "post"
      BY DEF Bare, Call
    <3> HIDE DEF gone, made
    <3>3. IsCalls(both, k, d.id) /\ Len(both) = 2 /\ both[1] = gone /\ both[2] = made(body)
      BY <3>2, TwoCalls
    <3> HIDE DEF both
    <3>4. Suits(both, l, d.action)
      BY <1>7, <2>4, <3>2, <3>3 DEF Suits, Builds, FixedLanes
    <3> QED
      BY <3>1, <3>3, <3>4
  <2> QED
    BY <2>2, <2>3, <2>4
<1>8. CASE l = "branches"
  <2> DEFINE first == Call("put", k, 0, EncodeProtection(NormalizeBranch(item)))
             second == Call("merge", k, 0, Only(des, {"required_signatures"}))
  <2>1. s = <<first>> \o (IF "required_signatures" \in d.changes THEN <<second>> ELSE <<>>)
    BY <1>8 DEF Mutate, applyBranchProtection
  <2>2. CASE "required_signatures" \notin d.changes
    <3>1. s = <<first>>
      BY <2>1, <2>2
    <3> QED
      BY <1>1, <1>8, <3>1 DEF Ops, Builds, FixedLanes
  <2>3. CASE "required_signatures" \in d.changes
    <3> DEFINE both == <<first, second>>
    <3>1. s = both
      BY <2>1, <2>3, Pair
    <3>2. first.key = k /\ first.op = "put" /\ second.key = k /\ second.op = "merge"
      BY DEF Call
    <3> HIDE DEF first, second
    <3>3. IsCalls(both, k, d.id) /\ Len(both) = 2 /\ both[1] = first /\ both[2] = second
      BY <3>2, TwoCalls
    <3> HIDE DEF both
    <3>4. Suits(both, l, d.action)
      BY <1>8, <3>2, <3>3 DEF Suits, Builds, FixedLanes
    <3> QED
      BY <3>1, <3>3, <3>4
  <2> QED
    BY <2>2, <2>3
<1>9. CASE l \in {"actions", "security"}
  <2>1. d.action = "update" /\ k \in DOMAIN c /\ d.changes # {} /\ d.changes \subseteq DOMAIN des
        /\ d.changes \subseteq JSONFields(l, c[k])
    BY <1>9 DEF FixedLanes
  <2>2. /\ l = "actions" => s = writeActions(k, d, item, des)
        /\ l = "security" => s = writeSecurity(k, d, item, des)
    BY <1>9 DEF Mutate
  <2>3. /\ l = "actions" => d.changes \subseteq ActionsConfig
        /\ l = "security" => d.changes \subseteq SecurityConfig
    BY <2>1 DEF JSONFields
  <2> HIDE DEF item, des, s
  <2> QED
    BY <1>9, <2>1, <2>2, <2>3, ActionsCalls, SecurityCalls DEF s
<1>10. CASE l = "pages"
  <2>1. s = PagesMutate(k, d, item, des)
    BY <1>10 DEF Mutate
  <2>2. d.action # "delete"
    BY <1>10 DEF ListingLanes
  <2>3. \A body : /\ d.action = "create" => fits(<<Call("post", k, 0, body)>>)
                  /\ d.action = "update" => fits(<<Call("merge", k, 0, body)>>)
    BY <1>1 DEF Ops, Builds
  <2> QED
    BY <2>1, <2>2, <2>3 DEF PagesMutate
<1>11. CASE l = "custom_properties"
  <2>1. s = CustomPropertiesMutate(k, d, item, des)
    BY <1>11 DEF Mutate
  <2> QED
    BY <1>1, <1>11, <2>1 DEF CustomPropertiesMutate, Ops, Builds, FixedLanes
<1>12. CASE l = "secrets"
  <2>1. d.action = "delete" /\ s = SecretsMutate(k, d, item, des)
    BY <1>12 DEF Mutate, Pending
  <2> QED
    BY <1>2, <2>1 DEF SecretsMutate
<1> QED
  BY <1>3, <1>4, <1>5, <1>6, <1>7, <1>8, <1>9, <1>10, <1>11, <1>12 DEF LaneNames

(*----------------------------- live state --------------------------------*)

\* A nonempty set of numbers up to a bound has a last one.
LEMMA LastOf ==
    ASSUME NEW n \in Nat, NEW S \in SUBSET (0..n), S # {}
    PROVE  \E i \in S : \A j \in S : j <= i
<1> DEFINE less == OpToRel(<, Nat)
           T == {n - i : i \in S}
<1>1. \A i, j \in Nat : i < j => <<i, j>> \in less
  BY DEF OpToRel
<1>2. IsWellFoundedOn(less, Nat)
  BY NatLessThanWellFounded
<1>3. T \in SUBSET Nat /\ T # {}
  <2>1. \A i \in S : i \in 0..n /\ n - i \in Nat
    OBVIOUS
  <2>2. \E i \in S : n - i \in T
    OBVIOUS
  <2> QED
    BY <2>1, <2>2
<1> HIDE DEF less
<1>4. PICK x \in T : \A y \in T : ~(<<y, x>> \in less)
  BY <1>2, <1>3, WFMin
<1>5. \A y \in T : ~(y < x)
  BY <1>1, <1>3, <1>4
<1>6. PICK i \in S : x = n - i
  BY <1>4
<1>7. \A j \in S : j <= i
  BY <1>5, <1>6
<1> QED
  BY <1>7

\* The index has the last item of every key there is.
LEMMA Indexed ==
    ASSUME NEW n \in Nat, NEW store, DOMAIN store \subseteq 1..n, NEW k
    PROVE  /\ k \in DOMAIN IndexBy(store) <=> WithKey(store, k) # {}
           /\ k \in DOMAIN IndexBy(store) =>
                /\ IndexBy(store)[k].id \in WithKey(store, k)
                /\ IndexBy(store)[k].doc = store[IndexBy(store)[k].id].doc
<1> DEFINE same == {i \in DOMAIN store : store[i].key = k}
           last == CHOOSE i \in same : \A j \in same : j <= i
<1>1. DOMAIN IndexBy(store) = {store[i].key : i \in DOMAIN store}
  BY DEF IndexBy
<1>2. WithKey(store, k) = same
  BY DEF WithKey
<1>3. ASSUME k \in DOMAIN IndexBy(store)
      PROVE  IndexBy(store)[k] = [id |-> last, doc |-> store[last].doc]
  BY <1>3 DEF IndexBy
<1>4. ASSUME same # {} PROVE last \in same
  <2>1. same \in SUBSET (0..n)
    OBVIOUS
  <2>2. \E i \in same : \A j \in same : j <= i
    BY <1>4, <2>1, LastOf
  <2> QED
    BY <2>2
<1> HIDE DEF last
<1>5. k \in DOMAIN IndexBy(store) <=> same # {}
  BY <1>1
<1> HIDE DEF same
<1> QED
  BY <1>2, <1>3, <1>4, <1>5

\* What a run reads has an item of GitHub's for each key.
LEMMA LiveItems ==
    ASSUME NEW l, NEW c, NEW n \in Nat, NEW store, DOMAIN store \subseteq 1..n, NEW k
    PROVE  /\ k \in DOMAIN Live(l, c, store) <=>
                WithKey(store, k) # {} /\ (l \in ListingLanes \/ k \in DOMAIN c)
           /\ k \in DOMAIN Live(l, c, store) =>
                Live(l, c, store)[k].id \in WithKey(store, k)
<1>1. DOMAIN Live(l, c, store) =
        IF l \in ListingLanes THEN DOMAIN IndexBy(store) ELSE DOMAIN IndexBy(store) \cap DOMAIN c
  BY DEF Live
<1>2. ASSUME k \in DOMAIN Live(l, c, store)
      PROVE  Live(l, c, store)[k].id = IndexBy(store)[k].id
  BY <1>1, <1>2 DEF Live
<1> QED
  BY <1>1, <1>2, Indexed

\* What a desired document holds of its declared item.
LEMMA DesiredFields ==
    ASSUME NEW l, NEW c
    PROVE  /\ DOMAIN Desired(l, c) = DOMAIN c
           /\ \A k \in DOMAIN c :
                /\ DOMAIN Desired(l, c)[k] \subseteq JSONFields(l, c[k])
                /\ l # "custom_properties" =>
                     \A p \in DOMAIN Desired(l, c)[k] \cap OmitEmpty : Desired(l, c)[k][p] # {}
                /\ l \notin {"rulesets", "branches"} =>
                     /\ DOMAIN Desired(l, c)[k] \subseteq DOMAIN c[k]
                     /\ \A p \in DOMAIN Desired(l, c)[k] : Desired(l, c)[k][p] = c[k][p]
                     /\ \A p \in (DOMAIN c[k] \cap JSONFields(l, c[k])) \ OmitEmpty :
                          p \in DOMAIN Desired(l, c)[k]
<1>1. DOMAIN Desired(l, c) = DOMAIN c
  BY DEF Desired
<1>2. ASSUME NEW k \in DOMAIN c
      PROVE  LET item == Normalize(l, c[k]) IN
             Desired(l, c)[k] = IF l = "custom_properties" THEN item ELSE ToMap(item, JSONFields(l, item))
  BY DEF Desired
<1>3. \A item, fields : /\ DOMAIN ToMap(item, fields) \subseteq fields \cap DOMAIN item
                        /\ \A p \in DOMAIN ToMap(item, fields) : ToMap(item, fields)[p] = item[p]
                        /\ \A p \in DOMAIN ToMap(item, fields) \cap OmitEmpty : ToMap(item, fields)[p] # {}
                        /\ \A p \in (DOMAIN item \cap fields) \ OmitEmpty : p \in DOMAIN ToMap(item, fields)
  BY DEF ToMap, Only, Restrict
<1>4. \A item, other : l # "custom_properties" => JSONFields(l, item) = JSONFields(l, other)
  BY DEF JSONFields
<1>5. \A item : l \notin {"rulesets", "branches"} => Normalize(l, item) = item
  BY DEF Normalize
<1>6. CASE l = "custom_properties"
  BY <1>1, <1>2, <1>5, <1>6 DEF JSONFields
<1>7. CASE l # "custom_properties"
  BY <1>1, <1>2, <1>3, <1>4, <1>5, <1>7
<1> QED
  BY <1>6, <1>7

\* The entry of a key, from whether it is live and whether it is declared.
LEMMA PlanEntry ==
    ASSUME NEW live, NEW desired, NEW k \in DOMAIN NamedList(live, desired)
    PROVE  LET d == NamedList(live, desired)[k] IN
           /\ k \in DOMAIN live \/ k \in DOMAIN desired
           /\ k \notin DOMAIN live => /\ d.action = "create" /\ d.id = 0
                                      /\ d.changes = DOMAIN desired[k]
           /\ k \in DOMAIN live => d.id = live[k].id
           /\ k \in DOMAIN live /\ k \notin DOMAIN desired => d.action = "delete"
           /\ k \in DOMAIN live /\ k \in DOMAIN desired =>
                /\ d.changes = Fields(live[k].doc, desired[k])
                /\ d.action = IF d.changes = {} THEN "noop" ELSE "update"
<1>1. DOMAIN NamedList(live, desired) = DOMAIN live \cup DOMAIN desired
  BY DEF NamedList
<1>2. NamedList(live, desired)[k] = SingleResource(k, live, desired)
  BY <1>1 DEF NamedList
<1>3. CASE k \notin DOMAIN live
  BY <1>1, <1>2, <1>3 DEF SingleResource
<1>4. CASE k \in DOMAIN live /\ k \notin DOMAIN desired
  BY <1>1, <1>2, <1>4 DEF SingleResource
<1>5. CASE k \in DOMAIN live /\ k \in DOMAIN desired
  BY <1>1, <1>2, <1>5 DEF SingleResource
<1> QED
  BY <1>3, <1>4, <1>5

(*------------------------------ the invariant ----------------------------*)

Actions == {"create", "update", "delete", "noop"}

Outcomes == {"none", "ok", "failed", "pending"}

RunTypes ==
    /\ lane \in DOMAIN Configs /\ cfg \in Configs[lane]
    /\ phase \in {"idle", "applying"} /\ disturbed \in BOOLEAN
    /\ phase = "idle" => plan = none /\ todo = none /\ result = none /\ ~disturbed
    /\ DOMAIN todo = DOMAIN result /\ DOMAIN result \subseteq DOMAIN plan
    /\ \A k \in DOMAIN plan : plan[k].action \in Actions
    /\ \A k \in DOMAIN result : result[k] \in Outcomes
    /\ quiet \in 0..2 /\ faults \in 0..MaxFaults /\ edits \in 0..MaxEdits

\* Ids are numbers, the plan's among them.
IdsInv == \E n \in Nat : /\ DOMAIN github \subseteq 1..n
                         /\ \A k \in DOMAIN plan : plan[k].id \in 0..n

\* GitHub's items are items, with unique keys, and some are always there.
StoreInv ==
    /\ \A i \in DOMAIN github : IsItem(lane, github[i])
    /\ lane # "deploy_keys" =>
         \A i, j \in DOMAIN github : github[i].key = github[j].key => i = j
    /\ lane \in FixedLanes => \A k \in DOMAIN cfg : WithKey(github, k) # {}

\* The batch is one record, of the repository lane.
BatchInv ==
    \/ batch = {}
    \/ /\ lane = "repository"
       /\ \E of, page :
            /\ batch = {FetchBatchChunk(of, page)}
            /\ FetchBatchChunk(of, page).complete => page = IndexBy(of)["topics"].doc["names"]

\* An id in a plan is of its entry's key as long as there is such an item.
PlanInv ==
    \A k \in DOMAIN plan :
        /\ k \in DOMAIN cfg => plan[k].action # "delete"
        /\ plan[k].id \in DOMAIN github => github[plan[k].id].key = k

\* What an entry has left to send.
CallsInv ==
    \A k \in DOMAIN todo :
        /\ IsCalls(todo[k], k, plan[k].id)
        /\ result[k] = "none" => Len(todo[k]) # 0
        /\ k \in DOMAIN cfg /\ Len(todo[k]) # 0 => todo[k][Len(todo[k])].op \in Builds
        /\ lane \in FixedLanes => \A n \in 1..Len(todo[k]) : todo[k][n].op = "merge"

\* What was applied is there, unless people interfere.
AppliedInv ==
    edits = 0 => \A k \in DOMAIN result :
                    result[k] = "ok" /\ k \in DOMAIN cfg => WithKey(github, k) # {}

IInv == RunTypes /\ IdsInv /\ StoreInv /\ BatchInv /\ PlanInv /\ CallsInv /\ AppliedInv

\* A new id is one that neither GitHub nor the plan ever had.
LEMMA FreshIsNew ==
    ASSUME IdsInv
    PROVE  /\ Fresh \in Nat \ {0} /\ Fresh \notin DOMAIN github
           /\ DOMAIN github \subseteq 1..Fresh
           /\ \A k \in DOMAIN plan : plan[k].id \in 0..(Fresh - 1)
<1> DEFINE S == {0} \cup DOMAIN github \cup {plan[k].id : k \in DOMAIN plan}
           m == CHOOSE n \in S : \A j \in S : j <= n
<1>1. PICK n \in Nat : S \subseteq 0..n
  <2>1. PICK n \in Nat : /\ DOMAIN github \subseteq 1..n
                         /\ \A k \in DOMAIN plan : plan[k].id \in 0..n
    BY DEF IdsInv
  <2> QED
    BY <2>1
<1>2. \E i \in S : \A j \in S : j <= i
  BY <1>1, LastOf
<1>3. m \in S /\ \A j \in S : j <= m
  BY <1>2
<1>4. Fresh = 1 + m
  BY DEF Fresh
<1> HIDE DEF m
<1>5. m \in Nat
  BY <1>1, <1>3
<1>6. \A i \in DOMAIN github : i \in 1..m
  <2>1. \A i \in DOMAIN github : i \in S
    OBVIOUS
  <2>2. 0 \notin DOMAIN github /\ DOMAIN github \subseteq Nat
    BY DEF IdsInv
  <2> QED
    BY <1>1, <1>3, <1>5, <2>1, <2>2
<1>7. \A k \in DOMAIN plan : plan[k].id \in 0..m
  <2>1. \A k \in DOMAIN plan : plan[k].id \in S
    OBVIOUS
  <2> QED
    BY <1>1, <1>3, <1>5, <2>1
<1> HIDE DEF S
<1> QED
  BY <1>4, <1>5, <1>6, <1>7

\* The next call of an entry is about the entry's own key.
LEMMA NextCall ==
    ASSUME IInv, NEW k \in DOMAIN todo, Len(todo[k]) # 0
    PROVE  /\ Head(todo[k]).op \in Ops /\ Head(todo[k]).key = k
           /\ Head(todo[k]) = todo[k][1] /\ OwnKey(github, Head(todo[k]))
           /\ Len(todo[k]) \in Nat \ {0}
           /\ lane \in FixedLanes => Head(todo[k]).op = "merge"
<1>1. IsCalls(todo[k], k, plan[k].id)
  BY DEF IInv, CallsInv
<1>2. Len(todo[k]) \in Nat \ {0} /\ Head(todo[k]) = todo[k][1]
  BY <1>1 DEF IsCalls, IsSeq
<1>3. k \in DOMAIN plan
  BY DEF IInv, RunTypes
<1>4. /\ todo[k][1].op \in Ops /\ todo[k][1].key = k
      /\ todo[k][1].op \in {"patch", "delete"} => todo[k][1].id = plan[k].id
      /\ lane \in FixedLanes => todo[k][1].op = "merge"
  BY <1>1, <1>2 DEF IsCalls, IInv, CallsInv
<1>5. OwnKey(github, todo[k][1])
  BY <1>3, <1>4 DEF OwnKey, Targets, WithKey, IInv, PlanInv
<1> QED
  BY <1>2, <1>4, <1>5

\* The calls that are left when the first was carried out.
LEMMA TailCalls ==
    ASSUME NEW s, NEW k, NEW id, IsCalls(s, k, id), Len(s) # 0
    PROVE  /\ IsCalls(Tail(s), k, id)
           /\ Len(Tail(s)) = Len(s) - 1
           /\ \A n \in 1..(Len(s) - 1) : Tail(s)[n] = s[n + 1]
           /\ Len(s) \in Nat \ {0}
<1>1. PICK S : s \in Seq(S)
  BY DEF IsCalls, IsSeq
<1>2. /\ Tail(s) \in Seq(S) /\ Len(Tail(s)) = Len(s) - 1 /\ Len(s) \in Nat \ {0}
      /\ \A n \in 1..(Len(s) - 1) : Tail(s)[n] = s[n + 1]
  BY <1>1, HeadTailProperties
<1> DEFINE t == Tail(s)
<1>3. /\ IsSeq(t) /\ Len(t) = Len(s) - 1 /\ Len(s) \in Nat \ {0}
      /\ \A n \in 1..(Len(s) - 1) : t[n] = s[n + 1]
  BY <1>2 DEF IsSeq
<1> HIDE DEF t
<1>4. \A n \in 1..Len(t) : n + 1 \in 1..Len(s)
  BY <1>3
<1>5. \A n \in 1..(Len(t) - 1) : n + 1 \in 1..(Len(s) - 1) /\ t[n] = s[n + 1] /\ t[n + 1] = s[n + 2]
  BY <1>3
<1>6. IsCalls(t, k, id)
  <2>1. \A n \in 1..Len(t) : /\ t[n].op \in Ops /\ t[n].key = k
                             /\ t[n].op \in {"patch", "delete"} => t[n].id = id
    BY <1>3, <1>4 DEF IsCalls
  <2>2. ASSUME NEW n \in 1..(Len(t) - 1)
        PROVE  \/ t[n].op \in {"put", "merge"} /\ t[n + 1].op = "merge"
               \/ t[n].op = "delete" /\ t[n + 1].op = "post"
    <3>1. n + 1 \in 1..(Len(s) - 1) /\ (n + 1) + 1 = n + 2
      BY <1>3
    <3> QED
      <4>1. \/ s[n + 1].op \in {"put", "merge"} /\ s[(n + 1) + 1].op = "merge"
            \/ s[n + 1].op = "delete" /\ s[(n + 1) + 1].op = "post"
        BY <3>1 DEF IsCalls
      <4> QED
        BY <1>5, <3>1, <4>1
  <2> QED
    BY <1>3, <2>1, <2>2 DEF IsCalls
<1> QED
  BY <1>3, <1>6 DEF t

\* A call that GitHub accepts keeps the store and the plan's ids in order, does
\* what it says to its own key, and leaves every other key alone.
LEMMA CallKeeps ==
    ASSUME IInv, NEW k \in DOMAIN todo, Len(todo[k]) # 0,
           Accepts(lane, github, Head(todo[k])),
           github' = Apply(lane, github, Head(todo[k]), Fresh),
           UNCHANGED <<lane, cfg, plan>>
    PROVE  /\ IdsInv' /\ StoreInv' /\ PlanInv'
           /\ \A j : j # k => /\ WithKey(github', j) = WithKey(github, j)
                              /\ \A i \in WithKey(github, j) : github'[i] = github[i]
           /\ LET c == Head(todo[k]) IN
              /\ c.op \in Builds => WithKey(github', k) # {}
              /\ c.op = "delete" /\ lane # "deploy_keys" /\ c.id \in DOMAIN github =>
                    WithKey(github', k) = {}
              /\ c.op = "merge" => \A i \in WithKey(github', k) :
                    i \in WithKey(github, k) /\ github'[i].doc = Overlay(c.body, github[i].doc)
<1> DEFINE c == Head(todo[k])
           targets == Targets(github, c)
<1>1. c.op \in Ops /\ c.key = k /\ OwnKey(github, c) /\ (lane \in FixedLanes => c.op = "merge")
  BY NextCall
<1>2. /\ Fresh \in Nat \ {0} /\ Fresh \notin DOMAIN github /\ DOMAIN github \subseteq 1..Fresh
      /\ \A j \in DOMAIN plan : plan[j].id \in 0..(Fresh - 1)
  BY FreshIsNew DEF IInv
<1>3. targets \subseteq WithKey(github, k) /\ WithKey(github, k) \subseteq DOMAIN github
  BY <1>1 DEF OwnKey, WithKey
<1>4. Accepts(lane, github, c) /\ github' = Apply(lane, github, c, Fresh)
  OBVIOUS
<1> HIDE DEF c
<1>5. /\ \A i \in DOMAIN github \ targets : i \in DOMAIN github' /\ github'[i] = github[i]
      /\ \A i \in DOMAIN github' :
            \/ i \in DOMAIN github /\ github'[i] = github[i]
            \/ /\ i \in targets \cup {Fresh} /\ github'[i].key = k
               /\ DOMAIN github'[i] = {"key", "doc"}
      /\ c.op \in {"merge", "patch"} =>
            /\ DOMAIN github' = DOMAIN github
            /\ \A i \in targets : github'[i].key = k /\ github'[i].doc = Overlay(c.body, github[i].doc)
      /\ c.op = "put" =>
            /\ DOMAIN github' = DOMAIN github \cup (IF targets = {} THEN {Fresh} ELSE {})
            /\ \A i \in DOMAIN github' \ (DOMAIN github \ targets) : github'[i].key = k
      /\ c.op = "post" => DOMAIN github' = DOMAIN github \cup {Fresh} /\ github'[Fresh].key = k
      /\ c.op \in {"remove", "delete"} => DOMAIN github' = DOMAIN github \ targets
  <2> HIDE DEF Fresh
  <2> DEFINE g == Apply(lane, github, c, Fresh)
  <2>0. c.op \in Ops /\ OwnKey(github, c) /\ Fresh \notin DOMAIN github
    BY <1>1, <1>2
  <2>1. /\ \A i \in DOMAIN github \ targets : i \in DOMAIN g /\ g[i] = github[i]
        /\ \A i \in DOMAIN g :
              \/ i \in DOMAIN github /\ g[i] = github[i]
              \/ /\ i \in targets \cup {Fresh} /\ g[i].key = c.key
                 /\ DOMAIN g[i] = {"key", "doc"}
        /\ c.op \in {"merge", "patch"} =>
              /\ DOMAIN g = DOMAIN github
              /\ \A i \in targets : g[i].key = c.key /\ g[i].doc = Overlay(c.body, github[i].doc)
        /\ c.op = "put" =>
              /\ DOMAIN g = DOMAIN github \cup (IF targets = {} THEN {Fresh} ELSE {})
              /\ \A i \in DOMAIN g \ (DOMAIN github \ targets) : g[i].key = c.key
        /\ c.op = "post" => DOMAIN g = DOMAIN github \cup {Fresh} /\ g[Fresh].key = c.key
        /\ c.op \in {"remove", "delete"} => DOMAIN g = DOMAIN github \ targets
    BY <2>0, ApplyEffect
  <2> HIDE DEF g, targets
  <2>2. github' = g /\ c.key = k
    BY <1>1, <1>4 DEF g
  <2> QED
    BY <2>1, <2>2
<1>6. /\ c.op \in {"post", "put", "merge", "remove"} => targets = WithKey(github, k)
      /\ c.op \in {"patch", "delete"} => targets = {c.id} \cap DOMAIN github
  BY <1>1 DEF Targets, Ops
<1>7. /\ c.op \notin {"post", "put"} => targets # {}
      /\ c.op = "post" /\ lane # "deploy_keys" => WithKey(github, k) = {}
  BY <1>1, <1>4 DEF Accepts, Clash
<1> HIDE DEF targets, Fresh
<1>8. \A j : j # k => /\ WithKey(github', j) = WithKey(github, j)
                      /\ \A i \in WithKey(github, j) : github'[i] = github[i]
  <2> SUFFICES ASSUME NEW j, j # k
               PROVE  /\ WithKey(github', j) = WithKey(github, j)
                      /\ \A i \in WithKey(github, j) : github'[i] = github[i]
    OBVIOUS
  <2>1. ASSUME NEW i \in WithKey(github, j)
        PROVE  i \in WithKey(github', j) /\ github'[i] = github[i]
    BY <1>3, <1>5, <2>1 DEF WithKey
  <2>2. ASSUME NEW i \in WithKey(github', j) PROVE i \in WithKey(github, j)
    BY <1>5, <2>2 DEF WithKey
  <2> QED
    BY <2>1, <2>2
<1>9. \A i \in DOMAIN github' :
        \/ i \in DOMAIN github /\ github'[i].key = github[i].key
        \/ i = Fresh /\ i \notin DOMAIN github /\ github'[i].key = k
  <2> SUFFICES ASSUME NEW i \in DOMAIN github'
               PROVE  \/ i \in DOMAIN github /\ github'[i].key = github[i].key
                      \/ i = Fresh /\ i \notin DOMAIN github /\ github'[i].key = k
    OBVIOUS
  <2>1. ASSUME i \in targets, github'[i].key = k PROVE i \in DOMAIN github /\ github[i].key = k
    BY <1>3, <2>1 DEF WithKey
  <2> QED
    <3>1. Fresh \notin DOMAIN github
      BY <1>2
    <3>2. \/ i \in DOMAIN github /\ github'[i] = github[i]
          \/ i \in targets \cup {Fresh} /\ github'[i].key = k
      BY <1>5
    <3> QED
      BY <2>1, <3>1, <3>2
<1>10. IdsInv'
  <2>1. DOMAIN github' \subseteq 1..Fresh
    BY <1>2, <1>9
  <2>2. \A j \in DOMAIN plan : plan[j].id \in 0..Fresh
    BY <1>2
  <2> QED
    BY <1>2, <2>1, <2>2 DEF IdsInv
<1>11. PlanInv'
  BY <1>2, <1>9 DEF PlanInv, IInv
<1>12. c.op \in Builds => WithKey(github', k) # {}
  <2>1. CASE c.op = "post"
    BY <1>5, <2>1 DEF WithKey
  <2>2. CASE c.op = "put" /\ targets = {}
    <3>1. Fresh \in DOMAIN github' \ (DOMAIN github \ targets)
      BY <1>2, <1>5, <2>2
    <3> QED
      BY <1>5, <2>2, <3>1 DEF WithKey
  <2>3. CASE c.op \in {"put", "merge", "patch"} /\ targets # {}
    <3>1. PICK i \in targets : i \in DOMAIN github
      BY <1>3, <2>3
    <3>2. i \in DOMAIN github' /\ github'[i].key = k
      BY <1>5, <2>3, <3>1
    <3> QED
      BY <3>2 DEF WithKey
  <2> QED
    BY <1>7, <2>1, <2>2, <2>3 DEF Builds
<1>13. StoreInv'
  <2>1. \A i \in DOMAIN github' : IsItem(lane, github'[i])
    <3> SUFFICES ASSUME NEW i \in DOMAIN github' PROVE IsItem(lane, github'[i])
      OBVIOUS
    <3>1. CASE i \in DOMAIN github /\ github'[i] = github[i]
      BY <3>1 DEF IInv, StoreInv
    <3>2. CASE i \in targets \cup {Fresh} /\ DOMAIN github'[i] = {"key", "doc"}
      <4>1. CASE lane # "repository"
        BY <3>2, <4>1 DEF IsItem
      <4>2. CASE lane = "repository"
        <5>1. c.op = "merge" /\ i \in DOMAIN github /\ i \in targets
          BY <1>1, <1>2, <1>5, <3>2, <4>2 DEF FixedLanes
        <5>2. github'[i].doc = Overlay(c.body, github[i].doc) /\ github'[i].key = github[i].key
          BY <1>5, <1>9, <5>1, <1>2
        <5>3. DOMAIN github[i].doc \subseteq DOMAIN github'[i].doc
          BY <5>2 DEF Overlay
        <5> QED
          BY <3>2, <5>1, <5>2, <5>3 DEF IsItem, IInv, StoreInv
      <4> QED
        BY <4>1, <4>2
    <3> QED
      BY <1>5, <3>1, <3>2
  <2>2. ASSUME lane # "deploy_keys", NEW i \in DOMAIN github', NEW j \in DOMAIN github',
               github'[i].key = github'[j].key
        PROVE  i = j
    <3>1. CASE i \in DOMAIN github /\ j \in DOMAIN github
      BY <1>2, <1>9, <2>2, <3>1 DEF IInv, StoreInv
    <3>2. CASE i \notin DOMAIN github \/ j \notin DOMAIN github
      <4>1. Fresh \in DOMAIN github'
        BY <1>9, <3>2
      <4>2. WithKey(github, k) = {}
        BY <1>1, <1>2, <1>5, <1>6, <1>7, <2>2, <4>1 DEF Ops
      <4> QED
        BY <1>9, <2>2, <3>2, <4>2 DEF WithKey
    <3> QED
      BY <3>1, <3>2
  <2>3. ASSUME lane \in FixedLanes, NEW j \in DOMAIN cfg PROVE WithKey(github', j) # {}
    BY <1>1, <1>8, <1>12, <2>3 DEF IInv, StoreInv, Builds
  <2> QED
    BY <2>1, <2>2, <2>3 DEF StoreInv
<1>14. ASSUME c.op = "delete", lane # "deploy_keys", c.id \in DOMAIN github
       PROVE  WithKey(github', k) = {}
  <2>1. WithKey(github, k) = {c.id} /\ targets = {c.id}
    BY <1>3, <1>6, <1>14 DEF IInv, StoreInv, WithKey
  <2> QED
    BY <1>5, <1>14, <2>1 DEF WithKey
<1>15. ASSUME c.op = "merge", NEW i \in WithKey(github', k)
       PROVE  i \in WithKey(github, k) /\ github'[i].doc = Overlay(c.body, github[i].doc)
  BY <1>2, <1>5, <1>6, <1>9, <1>15 DEF WithKey
<1> QED
  BY <1>8, <1>10, <1>11, <1>12, <1>13, <1>14, <1>15 DEF c

\* Nothing holds before there is anything.
LEMMA InitInv == Init => IInv
<1> SUFFICES ASSUME Init PROVE IInv
  OBVIOUS
<1>1. /\ lane \in DOMAIN Configs /\ cfg \in Configs[lane] /\ github \in Stores[lane]
      /\ plan = none /\ todo = none /\ result = none /\ batch = {} /\ phase = "idle"
      /\ disturbed = FALSE /\ quiet = 0 /\ faults = 0 /\ edits = 0
  BY DEF Init
<1>2. DOMAIN none = {}
  BY DEF none
<1>3. RunTypes
  <2>1. quiet \in 0..2 /\ faults \in 0..MaxFaults /\ edits \in 0..MaxEdits
    BY <1>1, LaneRunsAssumption
  <2> QED
    BY <1>1, <1>2, <2>1 DEF RunTypes
<1>4. IdsInv
  BY <1>1, <1>2, ItemsAssumption DEF IdsInv, ItemsAssumption
<1>5. StoreInv
  BY <1>1, ItemsAssumption DEF StoreInv, ItemsAssumption
<1>6. BatchInv /\ PlanInv /\ CallsInv /\ AppliedInv
  BY <1>1, <1>2 DEF BatchInv, PlanInv, CallsInv, AppliedInv
<1> QED
  BY <1>3, <1>4, <1>5, <1>6 DEF IInv

\* What a run knows of a key, from a read or from the batch record.
LEMMA SeenItems ==
    ASSUME IInv, NEW records \in {{}, batch}, NEW k
    PROVE  LET live == Seen(records) IN
           /\ k \in DOMAIN live => /\ k \in DOMAIN cfg \/ lane \in ListingLanes
                                   /\ WithKey(github, k) # {}
                                   /\ \/ live[k].id \in WithKey(github, k)
                                      \/ live[k].id = 0 /\ lane = "repository"
           /\ k \in DOMAIN cfg /\ k \notin DOMAIN live =>
                WithKey(github, k) = {} /\ lane \notin FixedLanes
<1> DEFINE desired == Desired(lane, cfg)
           live == Seen(records)
<1>1. CASE \E p \in records : usablePrefetch(p, desired)
  <2>1. lane = "repository" /\ lane \in FixedLanes
    BY <1>1 DEF IInv, BatchInv, FixedLanes
  <2>2. DOMAIN live = DOMAIN cfg /\ \A j \in DOMAIN live : live[j].id = 0
    BY <1>1, DesiredFields DEF Seen, liveRepoFrom
  <2> QED
    BY <2>1, <2>2 DEF IInv, StoreInv
<1>2. CASE ~\E p \in records : usablePrefetch(p, desired)
  <2>1. live = Live(lane, cfg, github)
    BY <1>2 DEF Seen
  <2>2. PICK n \in Nat : DOMAIN github \subseteq 1..n
    BY DEF IInv, IdsInv
  <2>3. /\ k \in DOMAIN live <=>
             WithKey(github, k) # {} /\ (lane \in ListingLanes \/ k \in DOMAIN cfg)
        /\ k \in DOMAIN live => live[k].id \in WithKey(github, k)
    BY <2>1, <2>2, LiveItems
  <2> QED
    BY <2>3 DEF IInv, StoreInv
<1> QED
  BY <1>1, <1>2

\* The entries of a plan, as a run can make it.
LEMMA Entries ==
    ASSUME IInv, NEW records \in {{}, batch}, NEW k \in DOMAIN PlanFrom(Seen(records))
    PROVE  LET d == PlanFrom(Seen(records))[k] IN
           /\ d.action \in Actions
           /\ k \in DOMAIN cfg => d.action # "delete"
           /\ d.id \in WithKey(github, k) \cup {0}
           /\ d.action # "noop" => IsEntry(lane, cfg, k, d)
           /\ lane = "secrets" => d.action # "update"
           /\ d.action = "create" => WithKey(github, k) = {}
           /\ d.action \in {"update", "delete"} =>
                /\ WithKey(github, k) # {}
                /\ lane # "repository" => d.id \in WithKey(github, k)
<1> DEFINE desired == Desired(lane, cfg)
           live == Seen(records)
           d == PlanFrom(live)[k]
<1>1. /\ k \in DOMAIN live \/ k \in DOMAIN desired
      /\ k \notin DOMAIN live => d.action = "create" /\ d.id = 0
      /\ k \in DOMAIN live => d.id = live[k].id
      /\ k \in DOMAIN live /\ k \notin DOMAIN desired => d.action = "delete"
      /\ k \in DOMAIN live /\ k \in DOMAIN desired =>
           /\ d.changes = Fields(live[k].doc, desired[k])
           /\ d.action = IF d.changes = {} THEN "noop" ELSE "update"
  BY PlanEntry DEF PlanFrom
<1>2. /\ k \in DOMAIN live => /\ k \in DOMAIN cfg \/ lane \in ListingLanes
                              /\ WithKey(github, k) # {}
                              /\ \/ live[k].id \in WithKey(github, k)
                                 \/ live[k].id = 0 /\ lane = "repository"
      /\ k \in DOMAIN cfg /\ k \notin DOMAIN live =>
           WithKey(github, k) = {} /\ lane \notin FixedLanes
  BY SeenItems
<1>3. /\ DOMAIN desired = DOMAIN cfg
      /\ k \in DOMAIN cfg => DOMAIN desired[k] \subseteq JSONFields(lane, cfg[k])
  BY DesiredFields
<1>4. \A x, y : Fields(x, y) \subseteq DOMAIN y
  BY DEF Fields
<1>5. lane \in FixedLanes => lane \notin ListingLanes
  BY DEF FixedLanes, ListingLanes
<1>6. lane = "secrets" => JSONFields(lane, cfg[k]) = {}
  BY DEF JSONFields
<1> HIDE DEF live, desired, d
<1>7. lane = "secrets" => d.action # "update"
  BY <1>1, <1>3, <1>4, <1>6
<1>8. d.action # "noop" => IsEntry(lane, cfg, k, d)
  BY <1>1, <1>2, <1>3, <1>4, <1>5 DEF IsEntry, desired
<1>9. d.action \in Actions /\ (k \in DOMAIN cfg => d.action # "delete")
  BY <1>1, <1>3 DEF Actions
<1>10. /\ d.id \in WithKey(github, k) \cup {0}
       /\ d.action = "create" => WithKey(github, k) = {}
       /\ d.action \in {"update", "delete"} =>
            WithKey(github, k) # {} /\ (lane # "repository" => d.id \in WithKey(github, k))
  BY <1>1, <1>2, <1>3
<1> QED
  BY <1>7, <1>8, <1>9, <1>10 DEF d, live

\* The calls a run hands out for an entry, none if it waits for a person.
LEMMA Handed ==
    ASSUME IInv, NEW records \in {{}, batch}, NEW k \in Actionable(PlanFrom(Seen(records)))
    PROVE  LET d == PlanFrom(Seen(records))[k]
               s == Mutate(lane, k, d, cfg)
           IN  /\ IsCalls(s, k, d.id)
               /\ IF Pending(lane, k, d, cfg) THEN Len(s) = 0 ELSE Suits(s, lane, d.action)
<1> DEFINE d == PlanFrom(Seen(records))[k]
           s == Mutate(lane, k, d, cfg)
<1>1. k \in DOMAIN PlanFrom(Seen(records)) /\ d.action # "noop"
  BY DEF Actionable
<1>2. IsEntry(lane, cfg, k, d) /\ (lane = "secrets" => d.action # "update")
  BY <1>1, Entries
<1>3. /\ lane \in LaneNames
      /\ \A x \in DOMAIN cfg : DOMAIN Desired(lane, cfg)[x] \subseteq JSONFields(lane, cfg[x])
  BY LaneRunsAssumption, DesiredFields DEF IInv, RunTypes
<1> HIDE DEF d
<1>4. CASE Pending(lane, k, d, cfg)
  <2>1. s = <<>>
    BY <1>4 DEF Mutate
  <2>2. IsCalls(<<>>, k, d.id) /\ Len(<<>>) = 0
    BY NoCalls, MergesAreCalls
  <2> QED
    BY <1>4, <2>1, <2>2 DEF d
<1>5. CASE ~Pending(lane, k, d, cfg)
  <2>1. IsCalls(s, k, d.id) /\ Suits(s, lane, d.action)
    BY <1>2, <1>3, <1>5, MutateSuits
  <2> QED
    BY <1>5, <2>1 DEF d
<1> QED
  BY <1>4, <1>5

(*-------------------------------- the steps ------------------------------*)

\* A run starts with a plan of its own and all calls ahead of it.
LEMMA FetchKeeps ==
    ASSUME IInv, NEW records \in {{}, batch}, Fetch(records)
    PROVE  IInv'
<1> DEFINE made == PlanFrom(Seen(records))
<1>1. /\ phase = "idle" /\ phase' = "applying" /\ plan' = made
      /\ todo' = [k \in Actionable(plan') |-> Mutate(lane, k, plan'[k], cfg)]
      /\ result' = [k \in Actionable(plan') |->
                       IF Pending(lane, k, plan'[k], cfg) THEN "pending" ELSE "none"]
      /\ disturbed' = (\E p \in records : p.of # github)
      /\ batch' = batch \ records
      /\ UNCHANGED <<lane, cfg, github, quiet, faults, edits>>
  BY DEF Fetch
<1>2. \A k \in DOMAIN made :
        /\ made[k].action \in Actions
        /\ k \in DOMAIN cfg => made[k].action # "delete"
        /\ made[k].id \in WithKey(github, k) \cup {0}
  BY Entries
<1>3. \A k \in Actionable(made) :
        LET s == Mutate(lane, k, made[k], cfg) IN
        /\ IsCalls(s, k, made[k].id)
        /\ IF Pending(lane, k, made[k], cfg) THEN Len(s) = 0 ELSE Suits(s, lane, made[k].action)
  BY Handed
<1>4. Actionable(made) \subseteq DOMAIN made
  BY DEF Actionable
<1> HIDE DEF made
<1>5. RunTypes'
  <2>1. \A k \in DOMAIN result' : result'[k] \in Outcomes
    BY <1>1 DEF Outcomes
  <2> QED
    BY <1>1, <1>2, <1>4, <2>1 DEF RunTypes, IInv
<1>6. IdsInv'
  <2>1. PICK n \in Nat : DOMAIN github \subseteq 1..n
    BY DEF IInv, IdsInv
  <2>2. \A k \in DOMAIN made : made[k].id \in 0..n
    BY <1>2, <2>1 DEF WithKey
  <2> QED
    BY <1>1, <2>1, <2>2 DEF IdsInv
<1>7. StoreInv'
  BY <1>1 DEF IInv, StoreInv
<1>8. BatchInv'
  BY <1>1 DEF IInv, BatchInv
<1>9. PlanInv'
  <2>1. 0 \notin DOMAIN github
    BY DEF IInv, IdsInv
  <2> QED
    BY <1>1, <1>2, <2>1 DEF PlanInv, WithKey
<1>10. CallsInv'
  <2> SUFFICES ASSUME NEW k \in Actionable(made)
               PROVE  LET s == Mutate(lane, k, made[k], cfg) IN
                      /\ IsCalls(s, k, made[k].id)
                      /\ ~Pending(lane, k, made[k], cfg) => Len(s) # 0
                      /\ k \in DOMAIN cfg /\ Len(s) # 0 => s[Len(s)].op \in Builds
                      /\ lane \in FixedLanes => \A n \in 1..Len(s) : s[n].op = "merge"
    BY <1>1 DEF CallsInv
  <2> DEFINE s == Mutate(lane, k, made[k], cfg)
  <2>1. /\ IsCalls(s, k, made[k].id)
        /\ IF Pending(lane, k, made[k], cfg) THEN Len(s) = 0 ELSE Suits(s, lane, made[k].action)
        /\ k \in DOMAIN cfg => made[k].action # "delete"
    BY <1>2, <1>3, <1>4
  <2> HIDE DEF s
  <2> QED
    BY <2>1 DEF Suits, s
<1>11. AppliedInv'
  BY <1>1 DEF AppliedInv
<1> QED
  BY <1>5, <1>6, <1>7, <1>8, <1>9, <1>10, <1>11 DEF IInv

\* One call of one entry, answered or not.
LEMMA CallStep ==
    ASSUME IInv, NEW k \in DOMAIN todo, Len(todo[k]) # 0, result[k] = "none",
           UNCHANGED <<lane, cfg, batch, phase, plan, quiet, edits>>,
           phase = "applying", disturbed' \in BOOLEAN, faults' \in 0..MaxFaults,
           \/ github' = github
           \/ /\ Accepts(lane, github, Head(todo[k]))
              /\ github' = Apply(lane, github, Head(todo[k]), Fresh),
           \/ todo' = todo /\ result' = [result EXCEPT ![k] = "failed"]
           \/ /\ github' = Apply(lane, github, Head(todo[k]), Fresh)
              /\ Accepts(lane, github, Head(todo[k]))
              /\ todo' = [todo EXCEPT ![k] = Tail(@)]
              /\ result' = [result EXCEPT ![k] = IF Len(todo[k]) = 1 THEN "ok" ELSE @]
    PROVE  IInv'
<1> DEFINE c == Head(todo[k])
<1>1. /\ Head(todo[k]) = todo[k][1] /\ Len(todo[k]) \in Nat \ {0}
      /\ lane \in FixedLanes => Head(todo[k]).op = "merge"
  BY NextCall
<1>2. /\ IdsInv' /\ StoreInv' /\ PlanInv'
      /\ \A j : j # k => WithKey(github', j) = WithKey(github, j)
      /\ /\ Accepts(lane, github, Head(todo[k]))
         /\ github' = Apply(lane, github, Head(todo[k]), Fresh)
         => (Head(todo[k]).op \in Builds => WithKey(github', k) # {})
  <2>1. CASE github' = Apply(lane, github, Head(todo[k]), Fresh)
             /\ Accepts(lane, github, Head(todo[k]))
    BY <2>1, CallKeeps
  <2>2. CASE github' = github /\ ~(/\ Accepts(lane, github, Head(todo[k]))
                                   /\ github' = Apply(lane, github, Head(todo[k]), Fresh))
    BY <2>2 DEF IInv, IdsInv, StoreInv, PlanInv
  <2> QED
    BY <2>1, <2>2
<1>3. /\ DOMAIN todo' = DOMAIN todo /\ DOMAIN result' = DOMAIN result /\ k \in DOMAIN result
      /\ \A j \in DOMAIN todo : j # k => todo'[j] = todo[j] /\ result'[j] = result[j]
  BY DEF IInv, RunTypes
<1>4. \/ todo'[k] = todo[k] /\ result'[k] = "failed"
      \/ /\ todo'[k] = Tail(todo[k])
         /\ result'[k] = IF Len(todo[k]) = 1 THEN "ok" ELSE "none"
         /\ Accepts(lane, github, Head(todo[k]))
         /\ github' = Apply(lane, github, Head(todo[k]), Fresh)
  BY <1>3
<1>5. RunTypes'
  <2>1. \A j \in DOMAIN result : result'[j] \in Outcomes
    BY <1>3, <1>4 DEF IInv, RunTypes, Outcomes
  <2> QED
    BY <1>3, <2>1 DEF IInv, RunTypes
<1>6. CallsInv'
  <2>1. \A j \in DOMAIN todo : j # k =>
          /\ IsCalls(todo'[j], j, plan[j].id)
          /\ result'[j] = "none" => Len(todo'[j]) # 0
          /\ j \in DOMAIN cfg /\ Len(todo'[j]) # 0 => todo'[j][Len(todo'[j])].op \in Builds
          /\ lane \in FixedLanes => \A n \in 1..Len(todo'[j]) : todo'[j][n].op = "merge"
    BY <1>3 DEF IInv, CallsInv
  <2>2. /\ IsCalls(todo[k], k, plan[k].id)
        /\ k \in DOMAIN cfg => todo[k][Len(todo[k])].op \in Builds
        /\ lane \in FixedLanes => \A n \in 1..Len(todo[k]) : todo[k][n].op = "merge"
    BY DEF IInv, CallsInv
  <2>3. CASE todo'[k] = todo[k] /\ result'[k] = "failed"
    BY <1>3, <2>1, <2>2, <2>3 DEF CallsInv
  <2>4. CASE /\ todo'[k] = Tail(todo[k])
             /\ result'[k] = IF Len(todo[k]) = 1 THEN "ok" ELSE "none"
    <3> DEFINE s == todo[k]
               t == todo'[k]
    <3>1. /\ IsCalls(t, k, plan[k].id) /\ Len(t) = Len(s) - 1
          /\ \A n \in 1..(Len(s) - 1) : t[n] = s[n + 1]
      BY <2>2, <2>4, TailCalls
    <3> HIDE DEF s, t
    <3>2. Len(s) \in Nat \ {0} /\ result'[k] = IF Len(s) = 1 THEN "ok" ELSE "none"
      BY <1>1, <2>4 DEF s
    <3>3. result'[k] = "none" => Len(t) # 0
      BY <3>1, <3>2
    <3>4. k \in DOMAIN cfg /\ Len(t) # 0 => t[Len(t)].op \in Builds
      BY <2>2, <3>1, <3>2 DEF s
    <3>5. lane \in FixedLanes => \A n \in 1..Len(t) : t[n].op = "merge"
      BY <2>2, <3>1, <3>2 DEF s
    <3> QED
      BY <1>3, <2>1, <3>1, <3>3, <3>4, <3>5 DEF CallsInv, t
  <2> QED
    BY <1>4, <2>3, <2>4
<1>7. AppliedInv'
  <2> SUFFICES ASSUME edits = 0, NEW j \in DOMAIN result, result'[j] = "ok", j \in DOMAIN cfg
               PROVE  WithKey(github', j) # {}
    BY <1>3 DEF AppliedInv
  <2>1. CASE j # k
    BY <1>2, <1>3, <2>1 DEF IInv, AppliedInv, RunTypes
  <2>2. CASE j = k
    <3>1. Len(todo[k]) = 1 /\ Accepts(lane, github, Head(todo[k]))
          /\ github' = Apply(lane, github, Head(todo[k]), Fresh)
      BY <1>4, <2>2
    <3>2. Head(todo[k]).op \in Builds
      BY <1>1, <2>2, <3>1 DEF IInv, CallsInv
    <3> QED
      BY <1>2, <2>2, <3>1, <3>2
  <2> QED
    BY <2>1, <2>2
<1>8. BatchInv'
  BY DEF IInv, BatchInv
<1> QED
  BY <1>2, <1>5, <1>6, <1>7, <1>8 DEF IInv

\* Numbering a finite set of ids anew, in their order, loses and adds none.
LEMMA Ranks ==
    ASSUME NEW n \in Nat, NEW D \in SUBSET (1..n)
    PROVE  LET rank(i) == Cardinality({j \in D : j <= i})
               m == Cardinality(D)
           IN  /\ m \in Nat
               /\ \A i \in D : rank(i) \in 1..m
               /\ \A i, j \in D : rank(i) = rank(j) => i = j
               /\ \A r \in 1..m : \E i \in D : rank(i) = r
<1> DEFINE upTo(i) == {j \in D : j <= i}
           rank(i) == Cardinality(upTo(i))
           m == Cardinality(D)
<1>1. IsFiniteSet(D) /\ m \in Nat
  <2>1. IsFiniteSet(1..n)
    BY FS_Interval
  <2>2. IsFiniteSet(D)
    BY <2>1, FS_Subset
  <2> QED
    BY <2>2, FS_CardinalityType
<1>2. ASSUME NEW i \in D PROVE IsFiniteSet(upTo(i)) /\ rank(i) \in 1..m
  <2>1. upTo(i) \in SUBSET D /\ i \in upTo(i)
    OBVIOUS
  <2>2. IsFiniteSet(upTo(i)) /\ rank(i) <= m
    BY <1>1, <2>1, FS_Subset
  <2>3. rank(i) \in Nat /\ rank(i) # 0
    BY <2>1, <2>2, FS_CardinalityType, FS_EmptySet
  <2> HIDE DEF rank, m
  <2> QED
    BY <1>1, <2>2, <2>3
<1>3. ASSUME NEW i \in D, NEW j \in D, rank(i) = rank(j), i < j PROVE FALSE
  <2>0. \A x \in D : x \in Nat
    OBVIOUS
  <2>1. upTo(i) \in SUBSET upTo(j)
    <3>1. i < j
      BY <1>3
    <3>2. \A x \in D : x <= i => x <= j
      BY <2>0, <3>1
    <3> QED
      BY <3>2
  <2>2. upTo(i) = upTo(j)
    BY <1>2, <1>3, <2>1, FS_Subset
  <2>3. j \in upTo(j) /\ j \notin upTo(i)
    BY <1>3
  <2> QED
    BY <2>2, <2>3
<1>4. ASSUME NEW i \in D, NEW j \in D, rank(i) = rank(j) PROVE i = j
  <2>1. i \in 1..n /\ j \in 1..n
    OBVIOUS
  <2>2. ~(i < j) /\ ~(j < i)
    BY <1>3, <1>4
  <2> QED
    BY <2>1, <2>2
<1>5. ASSUME NEW r \in 1..m PROVE \E i \in D : rank(i) = r
  <2> DEFINE f == [i \in D |-> rank(i)]
  <2>1. f \in [D -> 1..m] /\ \A i, j \in D : f[i] = f[j] => i = j
    BY <1>2, <1>4
  <2>2. IsFiniteSet(1..m) /\ Cardinality(1..m) = m
    BY <1>1, FS_Interval
  <2> HIDE DEF f
  <2>3. f \in Injection(D, 1..m)
    BY <2>1 DEF Injection, IsInjective
  <2>4. f \in Surjection(D, 1..m)
    BY <2>2, <2>3, FS_Injection
  <2>5. \E i \in D : f[i] = r
    BY <2>4 DEF Surjection
  <2> QED
    BY <2>5 DEF f
<1> QED
  BY <1>1, <1>2, <1>4, <1>5

\* The end of a run numbers GitHub's items anew.
LEMMA ReportKeeps ==
    ASSUME IInv, Report
    PROVE  IInv'
<1> DEFINE D == DOMAIN github
           rank(i) == Cardinality({j \in D : j <= i})
           m == Cardinality(D)
           at(r) == CHOOSE i \in D : rank(i) = r
<1>1. /\ github' = [r \in 1..m |-> github[at(r)]]
      /\ phase' = "idle" /\ plan' = none /\ todo' = none /\ result' = none /\ disturbed' = FALSE
      /\ quiet' = IF disturbed THEN 0 ELSE IF quiet < 2 THEN quiet + 1 ELSE 2
      /\ UNCHANGED <<lane, cfg, batch, faults, edits>>
  BY DEF Report, EndRun, Renumbered
<1>2. PICK n \in Nat : D \in SUBSET (1..n)
  BY DEF IInv, IdsInv
<1>3. /\ m \in Nat
      /\ \A i \in D : rank(i) \in 1..m
      /\ \A i, j \in D : rank(i) = rank(j) => i = j
      /\ \A r \in 1..m : \E i \in D : rank(i) = r
  BY <1>2, Ranks
<1> HIDE DEF rank, m
<1>4. /\ \A r \in 1..m : at(r) \in D /\ rank(at(r)) = r
      /\ \A i \in D : at(rank(i)) = i
  BY <1>3
<1> HIDE DEF at
<1>5. DOMAIN none = {}
  BY DEF none
<1>6. RunTypes'
  <2>1. quiet' \in 0..2
    BY <1>1 DEF IInv, RunTypes
  <2> QED
    BY <1>1, <1>5, <2>1 DEF IInv, RunTypes
<1>7. IdsInv'
  BY <1>1, <1>3, <1>5 DEF IdsInv
<1>8. StoreInv'
  <2>1. \A r \in DOMAIN github' : r \in 1..m /\ at(r) \in D /\ github'[r] = github[at(r)]
    BY <1>1, <1>4
  <2>2. \A r \in DOMAIN github' : IsItem(lane, github'[r])
    BY <2>1 DEF IInv, StoreInv
  <2>3. ASSUME lane # "deploy_keys", NEW r \in DOMAIN github', NEW q \in DOMAIN github',
               github'[r].key = github'[q].key
        PROVE  r = q
    <3>1. at(r) = at(q)
      BY <2>1, <2>3 DEF IInv, StoreInv
    <3> QED
      BY <1>4, <2>1, <3>1
  <2>4. ASSUME lane \in FixedLanes, NEW k \in DOMAIN cfg PROVE WithKey(github', k) # {}
    <3>1. PICK i \in D : github[i].key = k
      BY <2>4 DEF IInv, StoreInv, WithKey
    <3>2. rank(i) \in DOMAIN github' /\ github'[rank(i)] = github[i]
      BY <1>1, <1>3, <1>4
    <3> QED
      BY <3>1, <3>2 DEF WithKey
  <2> QED
    BY <1>1, <2>2, <2>3, <2>4 DEF StoreInv
<1>9. BatchInv'
  BY <1>1 DEF IInv, BatchInv
<1>10. PlanInv' /\ CallsInv' /\ AppliedInv'
  BY <1>1, <1>5 DEF PlanInv, CallsInv, AppliedInv
<1> QED
  BY <1>6, <1>7, <1>8, <1>9, <1>10 DEF IInv

\* A hang-up fails what was not sent.
LEMMA HangUpKeeps ==
    ASSUME IInv, HangUp
    PROVE  IInv'
<1>1. /\ phase = "applying" /\ faults < MaxFaults /\ disturbed' = TRUE /\ faults' = faults + 1
      /\ result' = [k \in DOMAIN result |-> IF result[k] = "none" THEN "failed" ELSE result[k]]
      /\ UNCHANGED <<lane, cfg, github, batch, phase, plan, todo, before, quiet, edits>>
  BY DEF HangUp
<1>2. faults' \in 0..MaxFaults
  BY <1>1, LaneRunsAssumption DEF IInv, RunTypes
<1>3. \A k \in DOMAIN result' : result'[k] \in Outcomes
  BY <1>1 DEF IInv, RunTypes, Outcomes
<1>4. RunTypes'
  BY <1>1, <1>2, <1>3 DEF IInv, RunTypes
<1>5. IdsInv' /\ StoreInv' /\ BatchInv' /\ PlanInv'
  BY <1>1 DEF IInv, IdsInv, StoreInv, BatchInv, PlanInv
<1>6. CallsInv'
  BY <1>1 DEF IInv, CallsInv, RunTypes
<1>7. AppliedInv'
  BY <1>1 DEF IInv, AppliedInv
<1> QED
  BY <1>4, <1>5, <1>6, <1>7 DEF IInv

\* A crash forgets the run and the batch.
LEMMA CrashKeeps ==
    ASSUME IInv, Crash
    PROVE  IInv'
<1>1. /\ faults < MaxFaults /\ quiet' = 0 /\ faults' = faults + 1 /\ batch' = {}
      /\ phase' = "idle" /\ plan' = none /\ todo' = none /\ result' = none /\ disturbed' = FALSE
      /\ UNCHANGED <<lane, cfg, github, edits>>
  BY DEF Crash, EndRun
<1>2. faults' \in 0..MaxFaults /\ quiet' \in 0..2
  BY <1>1, LaneRunsAssumption DEF IInv, RunTypes
<1>3. DOMAIN none = {}
  BY DEF none
<1>4. RunTypes'
  BY <1>1, <1>2, <1>3 DEF IInv, RunTypes
<1>5. IdsInv'
  BY <1>1, <1>3 DEF IInv, IdsInv
<1>6. StoreInv'
  BY <1>1 DEF IInv, StoreInv
<1>7. BatchInv' /\ PlanInv' /\ CallsInv' /\ AppliedInv'
  BY <1>1, <1>3 DEF BatchInv, PlanInv, CallsInv, AppliedInv
<1> QED
  BY <1>4, <1>5, <1>6, <1>7 DEF IInv

\* A batch is read of the repository as it is.
LEMMA PrefetchKeeps ==
    ASSUME IInv, Prefetch
    PROVE  IInv'
<1> DEFINE names == IndexBy(github)["topics"].doc["names"]
<1>1. PICK page \in SUBSET names :
        /\ IF Cardinality(names) <= TopicsPage THEN page = names ELSE Cardinality(page) = TopicsPage
        /\ batch' = {FetchBatchChunk(github, page)}
  BY DEF Prefetch
<1>2. lane = "repository" /\ phase = "idle"
      /\ UNCHANGED <<lane, cfg, github, phase, plan, todo, result, disturbed, quiet, faults, edits>>
  BY DEF Prefetch, run
<1>3. FetchBatchChunk(github, page).complete <=> Cardinality(names) <= TopicsPage
  BY DEF FetchBatchChunk
<1>4. BatchInv'
  BY <1>1, <1>2, <1>3 DEF BatchInv
<1>5. RunTypes' /\ IdsInv' /\ StoreInv' /\ PlanInv' /\ CallsInv' /\ AppliedInv'
  BY <1>2 DEF IInv, RunTypes, IdsInv, StoreInv, PlanInv, CallsInv, AppliedInv
<1> QED
  BY <1>4, <1>5 DEF IInv

\* People write or delete items, and what they write has a key of its own.
LEMMA EditKeeps ==
    ASSUME IInv, Edit
    PROVE  IInv'
<1>1. /\ edits < MaxEdits /\ edits' = edits + 1 /\ quiet' = 0 /\ disturbed' = (phase = "applying")
      /\ UNCHANGED <<lane, cfg, batch, phase, plan, todo, result, faults>>
  BY DEF Edit, run
<1>2. edits' \in 0..MaxEdits /\ edits' # 0
  BY <1>1, LaneRunsAssumption DEF IInv, RunTypes
<1>3. RunTypes' /\ BatchInv' /\ CallsInv' /\ AppliedInv'
  <2>1. RunTypes'
    BY <1>1, <1>2 DEF IInv, RunTypes
  <2> QED
    BY <1>1, <1>2, <2>1 DEF IInv, BatchInv, CallsInv, AppliedInv
<1>4. /\ Fresh \in Nat \ {0} /\ Fresh \notin DOMAIN github /\ DOMAIN github \subseteq 1..Fresh
      /\ \A k \in DOMAIN plan : plan[k].id \in 0..(Fresh - 1)
  BY FreshIsNew DEF IInv
<1>5. CASE /\ lane \in ListingLanes \cup {"branches", "pages"}
           /\ \E i \in DOMAIN github : github' = Restrict(github, DOMAIN github \ {i})
  <2>1. /\ DOMAIN github' \subseteq DOMAIN github
        /\ \A i \in DOMAIN github' : github'[i] = github[i]
        /\ lane \notin FixedLanes
    BY <1>5 DEF Restrict, ListingLanes, FixedLanes
  <2>2. IdsInv'
    BY <1>1, <2>1 DEF IInv, IdsInv
  <2>3. StoreInv' /\ PlanInv'
    BY <1>1, <2>1 DEF IInv, StoreInv, PlanInv
  <2> QED
    BY <1>3, <2>2, <2>3 DEF IInv
<1>6. CASE \E e \in Edits[lane] :
             github' = [i \in DOMAIN github \cup
                              (IF WithKey(github, e.key) = {} THEN {Fresh} ELSE {}) |->
                          IF i \notin DOMAIN github \/ i \in WithKey(github, e.key)
                          THEN e ELSE github[i]]
  <2>1. PICK e \in Edits[lane] :
             github' = [i \in DOMAIN github \cup
                              (IF WithKey(github, e.key) = {} THEN {Fresh} ELSE {}) |->
                          IF i \notin DOMAIN github \/ i \in WithKey(github, e.key)
                          THEN e ELSE github[i]]
    BY <1>6
  <2> HIDE DEF Fresh
  <2>2. IsItem(lane, e)
    BY ItemsAssumption DEF ItemsAssumption, IInv, RunTypes
  <2>3. \A i \in DOMAIN github : i \in DOMAIN github' /\ github'[i].key = github[i].key
    BY <2>1 DEF WithKey
  <2>4. \A i \in DOMAIN github' :
          \/ i \in DOMAIN github /\ github'[i] \in {e, github[i]}
          \/ i = Fresh /\ WithKey(github, e.key) = {} /\ github'[i] = e
    BY <2>1
  <2>5. IdsInv'
    <3>1. DOMAIN github' \subseteq 1..Fresh /\ \A k \in DOMAIN plan : plan[k].id \in 0..Fresh
      BY <1>4, <2>4
    <3> QED
      BY <1>1, <1>4, <3>1 DEF IdsInv
  <2>6. StoreInv'
    <3>1. \A i \in DOMAIN github' : IsItem(lane, github'[i])
      BY <2>2, <2>4 DEF IInv, StoreInv
    <3>2. ASSUME lane # "deploy_keys", NEW i \in DOMAIN github', NEW j \in DOMAIN github',
                 github'[i].key = github'[j].key
          PROVE  i = j
      BY <2>3, <2>4, <3>2 DEF IInv, StoreInv, WithKey
    <3>3. lane \in FixedLanes => \A k \in DOMAIN cfg : WithKey(github', k) # {}
      BY <2>3 DEF IInv, StoreInv, WithKey
    <3> QED
      BY <1>1, <3>1, <3>2, <3>3 DEF StoreInv
  <2>7. PlanInv'
    <3>1. \A k \in DOMAIN plan : plan[k].id # Fresh
      BY <1>4
    <3> QED
      BY <1>1, <2>3, <2>4, <3>1 DEF IInv, PlanInv
  <2> QED
    BY <1>3, <2>5, <2>6, <2>7 DEF IInv
<1> QED
  BY <1>5, <1>6 DEF Edit

\* A call that an entry has left is about to be answered, or lost.
LEMMA CallsKeep ==
    ASSUME IInv, NEW k \in DOMAIN todo, Send(k) \/ CallFails(k)
    PROVE  IInv'
<1>1. result[k] = "none" /\ k \in DOMAIN result /\ Len(todo[k]) # 0
  BY DEF Send, CallFails, MayGo, IInv, RunTypes, CallsInv
<1>2. phase = "applying"
  BY DEF IInv, RunTypes, none
<1>3. CASE Send(k)
  <2>1. /\ UNCHANGED <<lane, cfg, batch, phase, plan, quiet, edits>>
        /\ disturbed' = disturbed /\ faults' = faults
    BY <1>3 DEF Send
  <2>2. disturbed' \in BOOLEAN /\ faults' \in 0..MaxFaults
    BY <2>1 DEF IInv, RunTypes
  <2>3. CASE Accepts(lane, github, Head(todo[k]))
    <3>1. /\ github' = Apply(lane, github, Head(todo[k]), Fresh)
          /\ todo' = [todo EXCEPT ![k] = Tail(@)]
          /\ result' = [result EXCEPT ![k] = IF Len(todo[k]) = 1 THEN "ok" ELSE @]
      BY <1>3, <2>3 DEF Send
    <3> QED
      BY <1>1, <1>2, <2>1, <2>2, <2>3, <3>1, CallStep
  <2>4. CASE ~Accepts(lane, github, Head(todo[k]))
    <3>1. github' = github /\ todo' = todo /\ result' = [result EXCEPT ![k] = "failed"]
      BY <1>3, <2>4 DEF Send
    <3> QED
      BY <1>1, <1>2, <2>1, <2>2, <3>1, CallStep
  <2> QED
    BY <2>3, <2>4
<1>4. CASE CallFails(k)
  <2>1. /\ UNCHANGED <<lane, cfg, batch, phase, plan, quiet, edits>>
        /\ disturbed' = TRUE /\ faults' = faults + 1 /\ faults < MaxFaults
        /\ todo' = todo /\ result' = [result EXCEPT ![k] = "failed"]
        /\ \/ github' = github
           \/ /\ Accepts(lane, github, Head(todo[k]))
              /\ github' = Apply(lane, github, Head(todo[k]), Fresh)
    BY <1>4 DEF CallFails
  <2>2. disturbed' \in BOOLEAN /\ faults' \in 0..MaxFaults
    BY <2>1, LaneRunsAssumption DEF IInv, RunTypes
  <2> QED
    BY <1>1, <1>2, <2>1, <2>2, CallStep
<1> QED
  BY <1>3, <1>4

\* Every step keeps the invariant.
LEMMA NextInv == IInv /\ [Next]_vars => IInv'
<1> SUFFICES ASSUME IInv, [Next]_vars PROVE IInv'
  OBVIOUS
<1>1. CASE Fetch({}) \/ Fetch(batch)
  BY <1>1, FetchKeeps
<1>2. CASE UNCHANGED vars
  BY <1>2 DEF vars, run, IInv, RunTypes, IdsInv, StoreInv, BatchInv, PlanInv, CallsInv, AppliedInv
<1>3. CASE \E k \in DOMAIN todo : Send(k) \/ CallFails(k)
  BY <1>3, CallsKeep
<1> QED
  BY <1>1, <1>2, <1>3, ReportKeeps, HangUpKeeps, CrashKeeps, PrefetchKeeps, EditKeeps
     DEF Next, Step

(*---------------------------- the batch record ---------------------------*)

\* A record that answers for everything declared and that GitHub still bears
\* out differs from what is declared in the fields a read would show.
LEMMA RecordFields ==
    ASSUME IInv, NEW p \in batch, p.of = github, usablePrefetch(p, Desired(lane, cfg))
    PROVE  LET desired == Desired(lane, cfg)
               given == liveRepoFrom(p, desired)
               live == Live(lane, cfg, github)
           IN  /\ DOMAIN desired = DOMAIN cfg /\ DOMAIN given = DOMAIN cfg /\ DOMAIN live = DOMAIN cfg
               /\ \A k \in DOMAIN cfg : Fields(given[k].doc, desired[k]) = Fields(live[k].doc, desired[k])
<1> DEFINE desired == Desired(lane, cfg)
           given == liveRepoFrom(p, desired)
           live == Live(lane, cfg, github)
           index == IndexBy(github)
<1>1. /\ lane = "repository"
      /\ \E of, page : /\ p = FetchBatchChunk(of, page)
                       /\ p.complete => page = IndexBy(of)["topics"].doc["names"]
  BY DEF IInv, BatchInv
<1>2. /\ p.doc = Only(index["repository"].doc, prefetchedRepoFields)
      /\ p.complete => p.names = index["topics"].doc["names"]
  BY <1>1 DEF FetchBatchChunk
<1>3. PICK n \in Nat : DOMAIN github \subseteq 1..n
  BY DEF IInv, IdsInv
<1>4. lane \notin ListingLanes /\ lane \in FixedLanes
  BY <1>1 DEF ListingLanes, FixedLanes
<1>5. /\ DOMAIN desired = DOMAIN cfg
      /\ DOMAIN cfg \subseteq {"repository", "topics"}
      /\ "topics" \in DOMAIN cfg => DOMAIN desired["topics"] \subseteq {"names"}
      /\ \A k \in DOMAIN cfg : DOMAIN desired[k] \subseteq RepoConfig \cup {"names"}
  <2>1. /\ DOMAIN cfg \subseteq {"repository", "topics"}
        /\ "topics" \in DOMAIN cfg => DOMAIN cfg["topics"] = {"names"}
    BY <1>1, ItemsAssumption DEF IInv, RunTypes, ItemsAssumption
  <2>2. /\ DOMAIN desired = DOMAIN cfg
        /\ \A k \in DOMAIN cfg : /\ DOMAIN desired[k] \subseteq DOMAIN cfg[k]
                                 /\ DOMAIN desired[k] \subseteq JSONFields(lane, cfg[k])
    BY <1>1, DesiredFields
  <2>3. \A item : JSONFields(lane, item) = RepoConfig \cup {"names"}
    BY <1>1 DEF JSONFields
  <2> QED
    BY <2>1, <2>2, <2>3
<1>6. /\ DOMAIN given = DOMAIN cfg
      /\ \A k \in DOMAIN cfg : given[k].doc = IF k = "topics" THEN [names |-> p.names] ELSE p.doc
  BY <1>5 DEF liveRepoFrom
<1>7. /\ DOMAIN live = DOMAIN cfg
      /\ \A k \in DOMAIN cfg :
            /\ k \in DOMAIN index /\ index[k].id \in WithKey(github, k)
            /\ index[k].doc = github[index[k].id].doc
            /\ live[k].doc = Only(index[k].doc, RepoConfig \cup {"names"})
  <2>1. \A k \in DOMAIN cfg :
          /\ k \in DOMAIN index /\ index[k].id \in WithKey(github, k)
          /\ index[k].doc = github[index[k].id].doc
    BY <1>3, <1>4, Indexed DEF IInv, StoreInv
  <2>2. DOMAIN live = DOMAIN cfg
    BY <1>4, <2>1 DEF Live
  <2>3. \A k \in DOMAIN cfg : live[k].doc = repoFromSDK(index[k].doc)
    BY <1>1, <2>2 DEF Live, Decode
  <2> QED
    BY <2>1, <2>2, <2>3 DEF repoFromSDK
<1>8. \A doc, fields : /\ DOMAIN Only(doc, fields) = DOMAIN doc \cap fields
                       /\ \A f \in DOMAIN doc \cap fields : Only(doc, fields)[f] = doc[f]
  BY DEF Only, Restrict
<1> HIDE DEF index, live, given, desired
<1>9. ASSUME NEW k \in DOMAIN cfg
      PROVE  Fields(given[k].doc, desired[k]) = Fields(live[k].doc, desired[k])
  <2>1. CASE k = "repository"
    <3>1. DOMAIN desired[k] \subseteq prefetchedRepoFields
      BY <1>5, <2>1 DEF usablePrefetch, prefetchCovers, desired
    <3>2. given[k].doc = Only(index[k].doc, prefetchedRepoFields)
      BY <1>2, <1>6, <2>1
    <3>3. \A f \in DOMAIN desired[k] :
            /\ f \in DOMAIN given[k].doc <=> f \in DOMAIN live[k].doc
            /\ f \in DOMAIN live[k].doc => given[k].doc[f] = live[k].doc[f]
      <4> DEFINE w == index[k].doc
      <4>1. /\ given[k].doc = Only(w, prefetchedRepoFields)
            /\ live[k].doc = Only(w, RepoConfig \cup {"names"})
        BY <1>7, <3>2
      <4> HIDE DEF w
      <4>2. /\ DOMAIN given[k].doc = DOMAIN w \cap prefetchedRepoFields
            /\ DOMAIN live[k].doc = DOMAIN w \cap (RepoConfig \cup {"names"})
        BY <1>8, <4>1
      <4>3. \A f \in DOMAIN given[k].doc : given[k].doc[f] = w[f]
        BY <1>8, <4>1, <4>2
      <4>4. \A f \in DOMAIN live[k].doc : live[k].doc[f] = w[f]
        BY <1>8, <4>1, <4>2
      <4> QED
        BY <1>5, <3>1, <4>2, <4>3, <4>4
    <3> QED
      BY <3>3 DEF Fields
  <2>2. CASE k = "topics"
    <3>1. p.complete
      BY <1>5, <2>2 DEF usablePrefetch, desired
    <3>2. given[k].doc = [names |-> index[k].doc["names"]]
      BY <1>2, <1>6, <2>2, <3>1
    <3>3. "names" \in DOMAIN index[k].doc
      BY <1>1, <1>7, <2>2 DEF IInv, StoreInv, IsItem, WithKey
    <3>4. DOMAIN live[k].doc = DOMAIN index[k].doc \cap (RepoConfig \cup {"names"})
          /\ live[k].doc["names"] = index[k].doc["names"]
      <4> DEFINE w == index[k].doc
      <4>1. live[k].doc = Only(w, RepoConfig \cup {"names"}) /\ "names" \in DOMAIN w
        BY <1>7, <3>3
      <4> HIDE DEF w
      <4> DEFINE fields == RepoConfig \cup {"names"}
      <4>2. "names" \in DOMAIN w \cap fields
        BY <4>1
      <4> HIDE DEF fields
      <4>3. DOMAIN live[k].doc = DOMAIN w \cap fields /\ live[k].doc["names"] = w["names"]
        <5>1. live[k].doc = Only(w, fields)
          BY <4>1 DEF fields
        <5>2. DOMAIN live[k].doc = DOMAIN w \cap fields
          BY <1>8, <5>1
        <5>3. \A f \in DOMAIN w \cap fields : live[k].doc[f] = w[f]
          BY <1>8, <5>1
        <5> QED
          BY <4>2, <5>2, <5>3
      <4> QED
        BY <4>3 DEF w, fields
    <3>5. DOMAIN desired[k] \subseteq {"names"}
      BY <1>5, <2>2
    <3>6. DOMAIN given[k].doc = {"names"} /\ given[k].doc["names"] = index[k].doc["names"]
      BY <3>2
    <3> QED
      BY <3>3, <3>4, <3>5, <3>6 DEF Fields
  <2> QED
    BY <1>5, <2>1, <2>2
<1> QED
  BY <1>5, <1>6, <1>7, <1>9 DEF given, live, desired

\* So it shows the same things to do.
LEMMA RecordIsTrue ==
    ASSUME IInv, NEW p \in batch, p.of = github, usablePrefetch(p, Desired(lane, cfg))
    PROVE  Actionable(PlanFrom(liveRepoFrom(p, Desired(lane, cfg))))
             = Actionable(PlanFrom(Live(lane, cfg, github)))
<1> DEFINE desired == Desired(lane, cfg)
           given == liveRepoFrom(p, desired)
           live == Live(lane, cfg, github)
<1>1. /\ DOMAIN desired = DOMAIN cfg /\ DOMAIN given = DOMAIN cfg /\ DOMAIN live = DOMAIN cfg
      /\ \A k \in DOMAIN cfg : Fields(given[k].doc, desired[k]) = Fields(live[k].doc, desired[k])
  BY RecordFields
<1> HIDE DEF live, given, desired
<1>2. \A l : DOMAIN l = DOMAIN cfg =>
         Actionable(PlanFrom(l)) = {k \in DOMAIN cfg : Fields(l[k].doc, desired[k]) # {}}
  <2> SUFFICES ASSUME NEW l, DOMAIN l = DOMAIN cfg
               PROVE  Actionable(PlanFrom(l)) = {k \in DOMAIN cfg : Fields(l[k].doc, desired[k]) # {}}
    OBVIOUS
  <2>1. PlanFrom(l) = NamedList(l, desired) /\ DOMAIN NamedList(l, desired) = DOMAIN cfg
    BY <1>1 DEF PlanFrom, NamedList, desired
  <2>2. ASSUME NEW k \in DOMAIN cfg
        PROVE  NamedList(l, desired)[k].action = "noop" <=> Fields(l[k].doc, desired[k]) = {}
    <3>1. k \in DOMAIN NamedList(l, desired)
      BY <2>1
    <3> QED
      BY <1>1, <3>1, PlanEntry
  <2> QED
    BY <2>1, <2>2 DEF Actionable
<1>3. Actionable(PlanFrom(given)) = Actionable(PlanFrom(live))
  BY <1>1, <1>2
<1> QED
  BY <1>3 DEF given, live, desired

(*--------------------------- undisturbed runs ----------------------------*)

\* The next call of an entry finds what it supposes.
Ready(k) ==
    LET op == todo[k][1].op IN
    /\ op = "post" => WithKey(github, k) = {}
    /\ op \in {"merge", "remove"} => WithKey(github, k) # {}
    /\ op \in {"patch", "delete"} => plan[k].id \in WithKey(github, k)

ReadyInv ==
    ~disturbed /\ lane # "deploy_keys" =>
        \A k \in DOMAIN todo : /\ result[k] # "failed"
                               /\ result[k] = "none" => Ready(k)

Selects(doc) == "allowed_actions" \in DOMAIN doc /\ doc["allowed_actions"] = "selected"

\* No call states an allow-list, or the mode is "selected", from the first call
\* on if not before.
HasMode(k) ==
    \/ \A n \in 1..Len(todo[k]) : DOMAIN todo[k][n].body \cap ActionsAllowListFields = {}
    \/ /\ \A n \in 1..Len(todo[k]) :
            "allowed_actions" \in DOMAIN todo[k][n].body => Selects(todo[k][n].body)
       /\ \/ Selects(todo[k][1].body)
          \/ \A i \in WithKey(github, k) : Selects(github[i].doc)

ModeInv ==
    ~disturbed /\ lane = "actions" =>
        \A k \in DOMAIN todo : result[k] = "none" => HasMode(k)

\* A section that states an allow-list of actions also states the mode that
\* GitHub takes one in.  The validator does not ask for it.
ListsNameTheirMode ==
    "actions" \in DOMAIN Configs =>
        \A c \in Configs["actions"] : \A k \in DOMAIN c :
            DOMAIN c[k] \cap ActionsAllowListFields # {} => Selects(c[k])

\* The bodies of a sequence of calls.
OfBodies(s, B) == IsSeq(s) /\ \A n \in 1..Len(s) : s[n].body \in B

\* The bodies of two sequences put together, and the first call of the first.
LEMMA BodiesConcat ==
    ASSUME NEW s, NEW t, NEW B, OfBodies(s, B), OfBodies(t, B)
    PROVE  OfBodies(s \o t, B) /\ (Len(s) # 0 => (s \o t)[1] = s[1] /\ Len(s \o t) # 0)
<1>1. PICK S : s \in Seq(S)
  BY DEF OfBodies, IsSeq
<1>2. PICK T : t \in Seq(T)
  BY DEF OfBodies, IsSeq
<1>3. s \in Seq(S \cup T) /\ t \in Seq(S \cup T)
  BY <1>1, <1>2
<1>4. s \o t \in Seq(S \cup T) /\ Len(s \o t) = Len(s) + Len(t) /\ Len(s) \in Nat /\ Len(t) \in Nat
  BY <1>3
<1>5. \A n \in 1..Len(s \o t) : (s \o t)[n] = IF n <= Len(s) THEN s[n] ELSE t[n - Len(s)]
  BY <1>3
<1>6. \A n \in 1..Len(s \o t) : n <= Len(s) \/ n - Len(s) \in 1..Len(t)
  BY <1>4
<1> QED
  BY <1>4, <1>5, <1>6 DEF OfBodies, IsSeq

\* The body of a part of a lane's calls that is sent if there is something to send.
LEMMA PartBodies ==
    ASSUME NEW k, NEW body, NEW empty \in BOOLEAN, NEW B, empty \/ body \in B
    PROVE  LET p == IF empty THEN <<>> ELSE <<Call("merge", k, 0, body)>>
           IN  OfBodies(p, B) /\ (~empty => Len(p) # 0 /\ p[1].body = body)
<1> DEFINE c == Call("merge", k, 0, body)
<1>1. c.body = body
  BY DEF Call
<1> HIDE DEF c
<1>2. /\ <<c>> \in Seq({c}) /\ Len(<<c>>) = 1 /\ <<c>>[1] = c
      /\ <<>> \in Seq({}) /\ Len(<<>>) = 0
  OBVIOUS
<1>3. (body \in B => OfBodies(<<c>>, B)) /\ OfBodies(<<>>, B)
  <2> DEFINE s == <<c>>
             e == <<>>
  <2>1. IsSeq(s) /\ IsSeq(e) /\ Len(s) = 1 /\ s[1] = c /\ Len(e) = 0
    BY <1>2 DEF IsSeq
  <2> HIDE DEF s, e
  <2>2. (body \in B => OfBodies(s, B)) /\ OfBodies(e, B)
    BY <1>1, <2>1 DEF OfBodies
  <2> QED
    BY <2>2 DEF s, e
<1> QED
  BY <1>1, <1>2, <1>3 DEF c

\* The mode goes first: what writeActions hands out states it before any
\* allow-list, and nothing but "selected".
LEMMA ModeFirst ==
    ASSUME NEW k, NEW d, NEW item, NEW des, d.changes \subseteq DOMAIN item,
           DOMAIN item \cap ActionsAllowListFields # {} => Selects(item)
    PROVE  LET s == writeActions(k, d, item, des) IN
           \/ \A n \in 1..Len(s) : DOMAIN s[n].body \cap ActionsAllowListFields = {}
           \/ /\ Selects(item)
              /\ \A n \in 1..Len(s) : "allowed_actions" \in DOMAIN s[n].body => Selects(s[n].body)
              /\ "allowed_actions" \in d.changes => Selects(s[1].body)
<1> DEFINE mode == EncodeActionsPermissions(item)
           list == EncodeActionsAllowed(item)
           flow == EncodeWorkflowDefaults(item)
           part(fields, body) ==
             IF d.changes \cap fields = {} THEN <<>> ELSE <<Call("merge", k, 0, body)>>
           p == part({"enabled", "allowed_actions"}, mode)
           q == part(ActionsAllowListFields, list)
           r == part(ActionsWorkflowFields, flow)
           s == p \o q \o r
<1>1. writeActions(k, d, item, des) = s
  BY DEF writeActions
<1>2. /\ DOMAIN mode = DOMAIN item \cap {"enabled", "allowed_actions"}
      /\ DOMAIN list \subseteq DOMAIN item \cap ActionsAllowListFields
      /\ DOMAIN flow = DOMAIN item \cap ActionsWorkflowFields
      /\ Selects(item) => Selects(mode)
  BY DEF EncodeActionsPermissions, EncodeActionsAllowed, EncodeWorkflowDefaults, ToMap, Only, Restrict, Selects
<1> HIDE DEF mode, list, flow
<1>3. CASE d.changes \cap ActionsAllowListFields = {}
  <2> DEFINE B == {mode, flow}
  <2>1. OfBodies(p, B) /\ OfBodies(q, B) /\ OfBodies(r, B)
    BY <1>3, PartBodies
  <2> HIDE DEF p, q, r
  <2>2. OfBodies(p \o q, B)
    BY <2>1, BodiesConcat
  <2>3. OfBodies(s, B)
    BY <2>1, <2>2, BodiesConcat
  <2>4. \A body \in B : DOMAIN body \cap ActionsAllowListFields = {}
    BY <1>2 DEF ActionsAllowListFields, ActionsWorkflowFields
  <2> HIDE DEF s, B
  <2> QED
    BY <1>1, <2>3, <2>4 DEF OfBodies
<1>4. CASE d.changes \cap ActionsAllowListFields # {}
  <2> DEFINE B == {mode, list, flow}
  <2>1. OfBodies(p, B) /\ OfBodies(q, B) /\ OfBodies(r, B)
    BY PartBodies
  <2>2. "allowed_actions" \in d.changes => Len(p) # 0 /\ p[1].body = mode
    BY PartBodies
  <2> HIDE DEF p, q, r
  <2>3. OfBodies(p \o q, B) /\ (Len(p) # 0 => (p \o q)[1] = p[1] /\ Len(p \o q) # 0)
    BY <2>1, BodiesConcat
  <2>4. OfBodies(s, B) /\ (Len(p \o q) # 0 => s[1] = (p \o q)[1])
    BY <2>1, <2>3, BodiesConcat
  <2>5. Selects(item) /\ Selects(mode)
    BY <1>2, <1>4
  <2>6. \A body \in B : "allowed_actions" \in DOMAIN body => Selects(body)
    BY <1>2, <2>5 DEF ActionsAllowListFields, ActionsWorkflowFields
  <2> HIDE DEF s, B
  <2> QED
    BY <1>1, <2>2, <2>3, <2>4, <2>5, <2>6 DEF OfBodies
<1> QED
  BY <1>3, <1>4

\* GitHub accepts the next call of an undisturbed run.
LEMMA ReadyIsAccepted ==
    ASSUME IInv, ReadyInv, ModeInv, ~disturbed, lane # "deploy_keys",
           NEW k \in DOMAIN todo, result[k] = "none"
    PROVE  Accepts(lane, github, Head(todo[k]))
<1> DEFINE c == Head(todo[k])
<1>1. Len(todo[k]) # 0 /\ IsCalls(todo[k], k, plan[k].id) /\ Ready(k)
  BY DEF IInv, CallsInv, ReadyInv
<1>2. /\ c = todo[k][1] /\ c.op \in Ops /\ c.key = k /\ 1 \in 1..Len(todo[k])
      /\ lane \in FixedLanes => c.op = "merge"
  BY <1>1, NextCall
<1>3. c.op \in {"patch", "delete"} => c.id = plan[k].id
  BY <1>1, <1>2 DEF IsCalls
<1> HIDE DEF c
<1>4. /\ c.op = "post" => WithKey(github, k) = {}
      /\ c.op \in {"merge", "remove"} => WithKey(github, k) # {}
      /\ c.op \in {"patch", "delete"} => c.id \in WithKey(github, k)
  BY <1>1, <1>2, <1>3 DEF Ready
<1>5. c.op = "post" => ~Clash(lane, github, c)
  BY <1>2, <1>4 DEF Clash
<1>6. c.op \notin {"post", "put"} => Targets(github, c) # {}
  BY <1>2, <1>4 DEF Targets, WithKey, Ops
<1>7. ASSUME lane = "actions", DOMAIN c.body \cap ActionsAllowListFields # {},
             NEW i \in Targets(github, c)
      PROVE  "selected" \in {c.body[p] : p \in DOMAIN c.body \cap {"allowed_actions"}}
                             \cup {github[i].doc["allowed_actions"]}
  <2>1. i \in WithKey(github, k)
    BY <1>2, <1>7 DEF Targets, FixedLanes
  <2>2. Selects(c.body) \/ Selects(github[i].doc)
    BY <1>2, <1>7, <2>1 DEF ModeInv, HasMode
  <2> QED
    BY <2>2 DEF Selects
<1>8. Accepts(lane, github, c)
  BY <1>5, <1>6, <1>7 DEF Accepts
<1> QED
  BY <1>8 DEF c

\* A run that starts undisturbed starts ready.
LEMMA FetchReady ==
    ASSUME IInv, NEW records \in {{}, batch}, Fetch(records)
    PROVE  ReadyInv'
<1> DEFINE made == PlanFrom(Seen(records))
<1>1. /\ plan' = made
      /\ todo' = [k \in Actionable(plan') |-> Mutate(lane, k, plan'[k], cfg)]
      /\ result' = [k \in Actionable(plan') |->
                       IF Pending(lane, k, plan'[k], cfg) THEN "pending" ELSE "none"]
      /\ UNCHANGED <<lane, cfg, github>>
  BY DEF Fetch
<1> SUFFICES ASSUME NEW k \in Actionable(made), ~Pending(lane, k, made[k], cfg)
             PROVE  LET op == Mutate(lane, k, made[k], cfg)[1].op IN
                    /\ op = "post" => WithKey(github, k) = {}
                    /\ op \in {"merge", "remove"} => WithKey(github, k) # {}
                    /\ op \in {"patch", "delete"} => made[k].id \in WithKey(github, k)
  BY <1>1 DEF ReadyInv, Ready, WithKey
<1> DEFINE s == Mutate(lane, k, made[k], cfg)
<1>2. k \in DOMAIN made /\ made[k].action # "noop"
  BY DEF Actionable
<1>3. /\ IsEntry(lane, cfg, k, made[k])
      /\ made[k].action = "create" => WithKey(github, k) = {}
      /\ made[k].action \in {"update", "delete"} =>
           /\ WithKey(github, k) # {}
           /\ lane # "repository" => made[k].id \in WithKey(github, k)
  BY <1>2, Entries
<1>4. Suits(s, lane, made[k].action)
  BY Handed
<1> HIDE DEF s, made
<1>5. 1 \in 1..Len(s) /\ "repository" \in FixedLanes
  BY <1>4 DEF Suits, FixedLanes
<1>6. /\ s[1].op = "post" => made[k].action = "create"
      /\ s[1].op = "merge" => made[k].action = "update"
      /\ s[1].op = "remove" => made[k].action = "delete"
      /\ s[1].op \in {"patch", "delete"} => made[k].action # "create" /\ lane # "repository"
  BY <1>3, <1>4, <1>5 DEF Suits, IsEntry
<1> QED
  BY <1>3, <1>6 DEF s, IsEntry

\* And with the mode its allow-list needs, there or in its first call.
LEMMA FetchMode ==
    ASSUME IInv, ListsNameTheirMode, NEW records \in {{}, batch}, Fetch(records)
    PROVE  ModeInv'
<1> DEFINE live == Live(lane, cfg, github)
           desired == Desired(lane, cfg)
           made == NamedList(live, desired)
<1> SUFFICES ASSUME lane = "actions" PROVE ModeInv'
  BY DEF ModeInv, Fetch
<1>1. Seen(records) = live
  BY DEF Seen, IInv, BatchInv
<1>2. /\ plan' = made /\ UNCHANGED <<lane, cfg, github>>
      /\ todo' = [k \in Actionable(plan') |-> Mutate(lane, k, plan'[k], cfg)]
      /\ DOMAIN todo' = Actionable(made)
  BY <1>1 DEF Fetch, PlanFrom
<1> SUFFICES ASSUME NEW k \in Actionable(made) PROVE HasMode(k)'
  BY <1>2 DEF ModeInv
<1>3. /\ k \in DOMAIN made /\ IsEntry(lane, cfg, k, made[k])
  BY <1>1, Entries DEF Actionable, PlanFrom
<1>4. /\ k \in DOMAIN cfg /\ k \in DOMAIN desired /\ k \in DOMAIN live
      /\ made[k].changes = Fields(live[k].doc, desired[k])
  <2>1. k \in DOMAIN cfg /\ k \in DOMAIN desired /\ made[k].action = "update"
    BY <1>3, DesiredFields DEF IsEntry, FixedLanes
  <2> QED
    BY <1>3, <2>1, PlanEntry
<1>5. /\ DOMAIN desired[k] \subseteq DOMAIN cfg[k]
      /\ \A p \in DOMAIN desired[k] : desired[k][p] = cfg[k][p]
      /\ \A p \in (DOMAIN cfg[k] \cap JSONFields(lane, cfg[k])) \ OmitEmpty : p \in DOMAIN desired[k]
  BY <1>4, DesiredFields
<1>6. DOMAIN cfg[k] \cap ActionsAllowListFields # {} => Selects(cfg[k])
  BY <1>4 DEF ListsNameTheirMode, IInv, RunTypes
<1>7. todo'[k] = writeActions(k, made[k], cfg[k], desired[k])
  <2>1. todo'[k] = Mutate(lane, k, made[k], cfg)
    BY <1>2
  <2>2. ~Pending(lane, k, made[k], cfg)
    BY DEF Pending
  <2> QED
    BY <1>4, <2>1, <2>2 DEF Mutate
<1>8. made[k].changes \subseteq DOMAIN cfg[k]
  BY <1>4, <1>5 DEF Fields
<1> HIDE DEF made
<1>9. \/ \A n \in 1..Len(todo'[k]) : DOMAIN todo'[k][n].body \cap ActionsAllowListFields = {}
      \/ /\ Selects(cfg[k])
         /\ \A n \in 1..Len(todo'[k]) :
               "allowed_actions" \in DOMAIN todo'[k][n].body => Selects(todo'[k][n].body)
         /\ "allowed_actions" \in made[k].changes => Selects(todo'[k][1].body)
  BY <1>6, <1>7, <1>8, ModeFirst
<1>10. ASSUME Selects(cfg[k]), "allowed_actions" \notin made[k].changes, NEW i \in WithKey(github, k)
       PROVE  Selects(github[i].doc)
  <2>1. "allowed_actions" \in DOMAIN desired[k] /\ desired[k]["allowed_actions"] = "selected"
    <3>1. "allowed_actions" \in (DOMAIN cfg[k] \cap JSONFields(lane, cfg[k])) \ OmitEmpty
      BY <1>10 DEF Selects, JSONFields, ActionsConfig, OmitEmpty
    <3> QED
      BY <1>5, <1>10, <3>1 DEF Selects
  <2>2. Selects(live[k].doc)
    BY <1>4, <1>10, <2>1 DEF Fields, Selects
  <2>3. PICK n \in Nat : DOMAIN github \subseteq 1..n
    BY DEF IInv, IdsInv
  <2>4. live[k].id \in WithKey(github, k)
        /\ live[k].doc = Decode(lane, cfg[k], github[live[k].id].doc)
    <3>1. k \in DOMAIN IndexBy(github) /\ IndexBy(github)[k].id \in WithKey(github, k)
          /\ IndexBy(github)[k].doc = github[IndexBy(github)[k].id].doc
      BY <1>4, <2>3, Indexed DEF Live
    <3>2. live[k].id = IndexBy(github)[k].id /\ live[k].doc = Decode(lane, cfg[k], IndexBy(github)[k].doc)
      BY <1>4 DEF Live
    <3> QED
      BY <3>1, <3>2
  <2>5. live[k].id = i
    BY <1>10, <2>4 DEF IInv, StoreInv, WithKey
  <2>6. live[k].doc = ReadActions(cfg[k], github[i].doc)
    BY <2>4, <2>5 DEF Decode
  <2> HIDE DEF live
  <2> QED
    BY <2>2, <2>6 DEF ReadActions, Only, Restrict, Selects
<1> QED
  BY <1>2, <1>9, <1>10 DEF HasMode, WithKey

\* An answered call leaves its entry ready for the next one, and every other
\* entry as ready as it was.
LEMMA SendReady ==
    ASSUME IInv, ReadyInv, ModeInv, NEW k \in DOMAIN todo, Send(k)
    PROVE  ReadyInv' /\ ModeInv'
<1> SUFFICES ASSUME ~disturbed, lane # "deploy_keys" PROVE ReadyInv' /\ ModeInv'
  BY DEF Send, ReadyInv, ModeInv
<1> DEFINE c == Head(todo[k])
<1>1. /\ result[k] = "none" /\ k \in DOMAIN result /\ Len(todo[k]) # 0
      /\ IsCalls(todo[k], k, plan[k].id) /\ Ready(k)
  BY DEF Send, MayGo, IInv, RunTypes, CallsInv, ReadyInv
<1>2. /\ c = todo[k][1] /\ c.op \in Ops /\ 1 \in 1..Len(todo[k])
      /\ lane \in FixedLanes => c.op = "merge"
      /\ c.op \in {"patch", "delete"} => c.id = plan[k].id
  <2>1. c = todo[k][1] /\ c.op \in Ops /\ 1 \in 1..Len(todo[k])
        /\ (lane \in FixedLanes => c.op = "merge")
    BY <1>1, NextCall
  <2>2. todo[k][1].op \in {"patch", "delete"} => todo[k][1].id = plan[k].id
    BY <1>1, <2>1 DEF IsCalls
  <2> QED
    BY <2>1, <2>2
<1>3. Accepts(lane, github, c)
  BY <1>1, ReadyIsAccepted
<1>4. /\ github' = Apply(lane, github, c, Fresh)
      /\ todo' = [todo EXCEPT ![k] = Tail(@)]
      /\ result' = [result EXCEPT ![k] = IF Len(todo[k]) = 1 THEN "ok" ELSE @]
      /\ UNCHANGED <<lane, cfg, plan, disturbed>>
  BY <1>3 DEF Send
<1>5. /\ \A j : j # k => /\ WithKey(github', j) = WithKey(github, j)
                         /\ \A i \in WithKey(github, j) : github'[i] = github[i]
      /\ c.op \in Builds => WithKey(github', k) # {}
      /\ c.op = "delete" /\ c.id \in DOMAIN github => WithKey(github', k) = {}
      /\ c.op = "merge" => \A i \in WithKey(github', k) :
            i \in WithKey(github, k) /\ github'[i].doc = Overlay(c.body, github[i].doc)
  BY <1>1, <1>3, <1>4, CallKeeps
<1>6. /\ Len(Tail(todo[k])) = Len(todo[k]) - 1 /\ Len(todo[k]) \in Nat \ {0}
      /\ \A n \in 1..(Len(todo[k]) - 1) : Tail(todo[k])[n] = todo[k][n + 1]
  BY <1>1, TailCalls
<1>7. /\ DOMAIN todo' = DOMAIN todo /\ DOMAIN result' = DOMAIN result
      /\ DOMAIN result = DOMAIN todo
      /\ \A j \in DOMAIN todo : j # k => todo'[j] = todo[j] /\ result'[j] = result[j]
      /\ todo'[k] = Tail(todo[k])
      /\ result'[k] = IF Len(todo[k]) = 1 THEN "ok" ELSE "none"
  BY <1>1, <1>4 DEF IInv, RunTypes
<1> HIDE DEF c
<1>8. ReadyInv'
  <2>1. ASSUME NEW j \in DOMAIN todo, j # k
        PROVE  result'[j] # "failed" /\ (result'[j] = "none" => Ready(j)')
    BY <1>4, <1>5, <1>7, <2>1 DEF ReadyInv, Ready
  <2>2. ASSUME result'[k] = "none" PROVE Ready(k)'
    <3>1. /\ 1 \in 1..(Len(todo[k]) - 1)
          /\ todo'[k][1] = todo[k][1 + 1]
      BY <1>6, <1>7, <2>2
    <3>2. \/ c.op \in {"put", "merge"} /\ todo'[k][1].op = "merge"
          \/ c.op = "delete" /\ todo'[k][1].op = "post"
      BY <1>1, <1>2, <3>1 DEF IsCalls
    <3>3. c.op = "delete" => c.id \in DOMAIN github
      BY <1>1, <1>2 DEF Ready, WithKey
    <3> QED
      BY <1>5, <3>2, <3>3 DEF Ready, Builds
  <2> QED
    BY <1>7, <2>1, <2>2 DEF ReadyInv
<1>9. ModeInv'
  <2> SUFFICES ASSUME lane = "actions", NEW j \in DOMAIN todo, result'[j] = "none" PROVE HasMode(j)'
    BY <1>4, <1>7 DEF ModeInv
  <2>1. CASE j # k
    <3>1. HasMode(j) /\ todo'[j] = todo[j]
      BY <1>7, <2>1 DEF ModeInv
    <3> QED
      BY <1>5, <2>1, <3>1 DEF HasMode
  <2>2. CASE j = k
    <3>1. HasMode(k) /\ c.op = "merge"
      BY <1>1, <1>2 DEF ModeInv, FixedLanes
    <3>2. \A n \in 1..Len(todo'[k]) : n + 1 \in 1..Len(todo[k]) /\ todo'[k][n] = todo[k][n + 1]
      BY <1>6, <1>7
    <3>3. CASE \A n \in 1..Len(todo[k]) : DOMAIN todo[k][n].body \cap ActionsAllowListFields = {}
      BY <2>2, <3>2, <3>3 DEF HasMode
    <3>4. CASE /\ \A n \in 1..Len(todo[k]) :
                    "allowed_actions" \in DOMAIN todo[k][n].body => Selects(todo[k][n].body)
               /\ \/ Selects(todo[k][1].body)
                  \/ \A i \in WithKey(github, k) : Selects(github[i].doc)
      <4>1. ASSUME NEW i \in WithKey(github', k) PROVE Selects(github'[i].doc)
        <5>1. i \in WithKey(github, k) /\ github'[i].doc = Overlay(c.body, github[i].doc)
          BY <1>5, <3>1, <4>1
        <5>2. /\ "allowed_actions" \in DOMAIN c.body => Selects(c.body)
              /\ Selects(c.body) \/ Selects(github[i].doc)
          BY <1>2, <3>4, <5>1
        <5> QED
          BY <5>1, <5>2 DEF Selects, Overlay
      <4>2. \A n \in 1..Len(todo'[k]) :
              "allowed_actions" \in DOMAIN todo'[k][n].body => Selects(todo'[k][n].body)
        BY <3>2, <3>4
      <4> QED
        BY <2>2, <4>1, <4>2 DEF HasMode
    <3> QED
      BY <3>1, <3>3, <3>4 DEF HasMode
  <2> QED
    BY <2>1, <2>2
<1> QED
  BY <1>8, <1>9

\* Every step keeps undisturbed runs ready.
LEMMA NextReady ==
    ASSUME ListsNameTheirMode
    PROVE  IInv /\ ReadyInv /\ ModeInv /\ [Next]_vars => ReadyInv' /\ ModeInv'
<1> SUFFICES ASSUME IInv, ReadyInv, ModeInv, [Next]_vars PROVE ReadyInv' /\ ModeInv'
  OBVIOUS
<1>1. CASE Fetch({}) \/ Fetch(batch)
  BY <1>1, FetchReady, FetchMode
<1>2. CASE \E k \in DOMAIN todo : Send(k)
  BY <1>2, SendReady
<1>3. CASE (\E k \in DOMAIN todo : CallFails(k)) \/ HangUp \/ (Edit /\ phase = "applying")
  BY <1>3 DEF CallFails, HangUp, Edit, ReadyInv, ModeInv
<1>4. CASE Report \/ Crash \/ (Edit /\ phase = "idle")
  <2>1. DOMAIN todo' = {}
    BY <1>4 DEF Report, Crash, Edit, EndRun, run, none, IInv, RunTypes
  <2> QED
    BY <2>1 DEF ReadyInv, ModeInv
<1>5. CASE UNCHANGED vars \/ Prefetch
  <2>1. UNCHANGED <<lane, github, plan, todo, result, disturbed>>
    BY <1>5 DEF vars, Prefetch, run
  <2> QED
    BY <2>1 DEF ReadyInv, ModeInv, Ready, HasMode, WithKey
<1> QED
  BY <1>1, <1>2, <1>3, <1>4, <1>5 DEF Next, Step, IInv, RunTypes

(*----------------------------- settled lanes -----------------------------*)

\* The lanes whose declared fields are each told by one field of GitHub's item.
FieldLanes == LaneNames \ {"environments", "deploy_keys"}

\* What a value GitHub keeps of a field says in the terms of the settings.
Means(l, p, x) ==
    CASE l = "security" /\ p \in SecurityAndAnalysisFields -> x = "enabled"
      [] l = "webhooks" /\ p = "insecure_ssl" -> x = "1"
      [] OTHER -> x

\* GitHub's item w says v of field p.
Tells(l, w, p, v) ==
    CASE l = "collaborators" -> DecodeCollaborator(w).permission = v
      [] l = "branches" /\ p \in BranchFlags \cup Containers ->
            IF p \in DOMAIN w THEN w[p] = v ELSE v = IF p \in Containers THEN "off" ELSE FALSE
      [] OTHER -> p \in DOMAIN w /\ Means(l, p, w[p]) = v

\* What is kept of a document.
LEMMA OnlyKeeps ==
    ASSUME NEW doc, NEW fields
    PROVE  /\ DOMAIN Only(doc, fields) = DOMAIN doc \cap fields
           /\ \A p \in DOMAIN doc \cap fields : Only(doc, fields)[p] = doc[p]
  BY DEF Only, Restrict

\* What a read shows of a field, the item says.
LEMMA ReadTells ==
    ASSUME NEW l \in FieldLanes, NEW item, NEW w, NEW p \in DOMAIN Decode(l, item, w),
           l = "collaborators" => p = "permission"
    PROVE  Tells(l, w, p, Decode(l, item, w)[p])
<1> DEFINE dec == Decode(l, item, w)
<1>1. CASE l = "collaborators"
  BY <1>1 DEF Decode, DecodeCollaborator, Tells
<1>2. CASE l = "webhooks"
  <2>1. dec = DecodeHook(w)
    BY <1>2 DEF Decode
  <2>2. p \in DOMAIN w /\ dec[p] = IF p = "insecure_ssl" THEN w[p] = "1" ELSE w[p]
    BY <2>1 DEF DecodeHook
  <2> HIDE DEF dec
  <2>3. Tells(l, w, p, dec[p])
    BY <1>2, <2>2 DEF Tells, Means
  <2> QED
    BY <2>3 DEF dec
<1>3. CASE l = "security"
  <2> DEFINE kept == Only(w, DOMAIN item \ SecurityAndAnalysisFields)
             scans == IF DOMAIN item \cap SecurityAndAnalysisFields # {}
                      THEN DecodeSecurity(w) ELSE Only(w, {})
  <2>1. dec = Overlay(kept, scans)
    BY <1>3 DEF Decode, ReadSecurity
  <2>2. /\ DOMAIN kept = DOMAIN w \cap (DOMAIN item \ SecurityAndAnalysisFields)
        /\ \A f \in DOMAIN kept : kept[f] = w[f]
    BY OnlyKeeps
  <2>3. /\ DOMAIN scans \subseteq DOMAIN w \cap SecurityAndAnalysisFields
        /\ \A f \in DOMAIN scans : scans[f] = (w[f] = "enabled")
    BY OnlyKeeps DEF DecodeSecurity
  <2> HIDE DEF kept, scans
  <2>4. p \in DOMAIN kept \cup DOMAIN scans
        /\ dec[p] = IF p \in DOMAIN kept THEN kept[p] ELSE scans[p]
    BY <2>1 DEF Overlay
  <2> HIDE DEF dec
  <2>5. p \in DOMAIN w /\ dec[p] = IF p \in SecurityAndAnalysisFields THEN w[p] = "enabled" ELSE w[p]
    BY <2>2, <2>3, <2>4
  <2>6. Tells(l, w, p, dec[p])
    BY <1>3, <2>5 DEF Tells, Means
  <2> QED
    BY <2>6 DEF dec
<1>4. CASE l = "branches"
  <2>1. dec = DecodeProtection(w)
    BY <1>4 DEF Decode
  <2>2. /\ p \in DOMAIN w => dec[p] = w[p]
        /\ p \notin DOMAIN w => p \in BranchFlags \cup Containers
                                /\ dec[p] = IF p \in BranchFlags THEN FALSE ELSE "off"
    BY <2>1 DEF DecodeProtection, Overlay
  <2>3. p \in BranchFlags => p \notin Containers
    BY DEF BranchFlags, Containers
  <2> HIDE DEF dec
  <2>4. Tells(l, w, p, dec[p])
    BY <1>4, <2>2, <2>3 DEF Tells, Means
  <2> QED
    BY <2>4 DEF dec
<1>5. CASE l \in FieldLanes \ {"collaborators", "webhooks", "security", "branches"}
  <2>1. \/ dec = w
        \/ \E fields : dec = Only(w, fields)
    BY <1>5 DEF FieldLanes, LaneNames, Decode, repoFromSDK, DecodeTeam, DecodeAutolink,
                DecodeVariable, DecodeSecret, DecodeCustomProperties, DecodePages, ReadActions
  <2>2. p \in DOMAIN w /\ dec[p] = w[p]
    <3>1. CASE dec = w
      BY <3>1
    <3>2. CASE dec # w
      <4>1. PICK fields : dec = Only(w, fields)
        BY <2>1, <3>2
      <4> HIDE DEF dec
      <4>2. p \in DOMAIN Only(w, fields)
        BY <4>1 DEF dec
      <4> QED
        BY <4>1, <4>2, OnlyKeeps
    <3> QED
      BY <3>1, <3>2
  <2> HIDE DEF dec
  <2>3. Tells(l, w, p, dec[p])
    BY <1>5, <2>2 DEF Tells, Means
  <2> QED
    BY <2>3 DEF dec
<1> QED
  BY <1>1, <1>2, <1>3, <1>4, <1>5

\* An item that says every declared field is read as declared.
LEMMA TellsRead ==
    ASSUME NEW l \in FieldLanes, NEW c, NEW k \in DOMAIN c, NEW w,
           l = "actions" /\ DOMAIN c[k] \cap ActionsAllowListFields # {} => Selects(c[k]),
           \A p \in DOMAIN Desired(l, c)[k] : Tells(l, w, p, Desired(l, c)[k][p])
    PROVE  Fields(Decode(l, c[k], w), Desired(l, c)[k]) = {}
<1> DEFINE dec == Decode(l, c[k], w)
           des == Desired(l, c)[k]
<1>0. /\ DOMAIN des \subseteq JSONFields(l, c[k])
      /\ l \notin {"rulesets", "branches"} =>
           /\ DOMAIN des \subseteq DOMAIN c[k]
           /\ \A p \in DOMAIN des : des[p] = c[k][p]
           /\ \A p \in (DOMAIN c[k] \cap JSONFields(l, c[k])) \ OmitEmpty : p \in DOMAIN des
  BY DesiredFields
<1> HIDE DEF des
<1> SUFFICES ASSUME NEW p \in DOMAIN des
             PROVE  p \in DOMAIN dec /\ dec[p] = des[p]
  BY DEF Fields, des
<1>t. Tells(l, w, p, des[p])
  BY DEF des
<1>1. CASE l = "collaborators"
  <2>1. p = "permission"
    BY <1>0, <1>1 DEF JSONFields
  <2>2. dec = DecodeCollaborator(w) /\ DOMAIN DecodeCollaborator(w) = {"permission"}
    BY <1>1 DEF Decode, DecodeCollaborator
  <2>3. DecodeCollaborator(w).permission = des[p]
    BY <1>1, <1>t DEF Tells
  <2> QED
    BY <2>1, <2>2, <2>3
<1>2. CASE l = "webhooks"
  <2>1. dec = DecodeHook(w) /\ p \in Webhook
    BY <1>0, <1>2 DEF Decode, JSONFields
  <2>2. p \in DOMAIN w /\ des[p] = IF p = "insecure_ssl" THEN w[p] = "1" ELSE w[p]
    BY <1>2, <1>t DEF Tells, Means
  <2> QED
    BY <2>1, <2>2 DEF DecodeHook
<1>3. CASE l = "security"
  <2> DEFINE kept == Only(w, DOMAIN c[k] \ SecurityAndAnalysisFields)
             scans == IF DOMAIN c[k] \cap SecurityAndAnalysisFields # {}
                      THEN DecodeSecurity(w) ELSE Only(w, {})
  <2>1. dec = Overlay(kept, scans) /\ p \in DOMAIN c[k]
    BY <1>0, <1>3 DEF Decode, ReadSecurity
  <2>2. p \in DOMAIN w /\ des[p] = IF p \in SecurityAndAnalysisFields THEN w[p] = "enabled" ELSE w[p]
    BY <1>3, <1>t DEF Tells, Means
  <2>3. /\ DOMAIN kept = DOMAIN w \cap (DOMAIN c[k] \ SecurityAndAnalysisFields)
        /\ \A f \in DOMAIN kept : kept[f] = w[f]
    BY OnlyKeeps
  <2>4. p \in SecurityAndAnalysisFields => p \in DOMAIN scans /\ scans[p] = (w[p] = "enabled")
    BY <2>1, <2>2 DEF DecodeSecurity
  <2> HIDE DEF kept, scans
  <2> QED
    BY <2>1, <2>2, <2>3, <2>4 DEF Overlay
<1>4. CASE l = "branches"
  <2>1. dec = DecodeProtection(w)
    BY <1>4 DEF Decode
  <2>2. IF p \in BranchFlags \cup Containers
        THEN IF p \in DOMAIN w THEN w[p] = des[p]
             ELSE des[p] = IF p \in Containers THEN "off" ELSE FALSE
        ELSE p \in DOMAIN w /\ w[p] = des[p]
    BY <1>4, <1>t DEF Tells, Means
  <2>3. p \in BranchFlags => p \notin Containers
    BY DEF BranchFlags, Containers
  <2>4. /\ p \in DOMAIN DecodeProtection(w)
        /\ DecodeProtection(w)[p] = IF p \in DOMAIN w THEN w[p]
                                    ELSE IF p \in BranchFlags THEN FALSE ELSE "off"
    <3>1. p \in DOMAIN w \cup (BranchFlags \cup Containers)
      BY <2>2
    <3> QED
      BY <3>1 DEF DecodeProtection, Overlay
  <2> HIDE DEF dec
  <2> QED
    BY <2>1, <2>2, <2>3, <2>4
<1>5. CASE l = "actions"
  <2>1. p \in DOMAIN w /\ w[p] = des[p] /\ p \in ActionsConfig /\ p \in DOMAIN c[k]
    BY <1>0, <1>5, <1>t DEF Tells, Means, JSONFields
  <2>2. PICK fields \in {{"enabled", "allowed_actions"}, ActionsAllowListFields, ActionsWorkflowFields} :
          p \in fields
    BY <2>1 DEF ActionsConfig
  <2>3. ASSUME fields = ActionsAllowListFields PROVE w["allowed_actions"] = "selected"
    <3>1. Selects(c[k])
      BY <1>5, <2>1, <2>2, <2>3
    <3>2. "allowed_actions" \in DOMAIN des /\ des["allowed_actions"] = "selected"
      BY <1>0, <1>5, <3>1 DEF Selects, JSONFields, ActionsConfig, OmitEmpty
    <3>3. Tells(l, w, "allowed_actions", des["allowed_actions"])
      BY <3>2 DEF des
    <3> QED
      BY <1>5, <3>2, <3>3 DEF Tells, Means
  <2> DEFINE all == UNION {fs \in {{"enabled", "allowed_actions"},
                                 ActionsAllowListFields, ActionsWorkflowFields} :
                      /\ DOMAIN c[k] \cap fs # {}
                      /\ fs = ActionsAllowListFields => w["allowed_actions"] = "selected"}
  <2>4. dec = Only(w, all)
    BY <1>5 DEF Decode, ReadActions
  <2>5. p \in all
    BY <2>1, <2>2, <2>3
  <2> HIDE DEF all, dec
  <2>6. p \in DOMAIN w \cap all
    BY <2>1, <2>5
  <2>7. p \in DOMAIN Only(w, all) /\ Only(w, all)[p] = w[p]
    BY <2>6, OnlyKeeps
  <2> QED
    BY <2>1, <2>4, <2>7
<1>6. CASE l \in {"rulesets", "custom_properties"}
  <2>1. dec = w
    <3>1. CASE l = "rulesets"
      BY <3>1 DEF Decode
    <3>2. CASE l = "custom_properties"
      BY <3>2 DEF Decode, DecodeCustomProperties
    <3> QED
      BY <1>6, <3>1, <3>2
  <2> QED
    BY <1>6, <1>t, <2>1 DEF Tells, Means
<1>7. CASE l \in {"repository", "teams", "autolinks", "variables", "secrets", "pages"}
  <2>1. PICK fields : dec = Only(w, fields) /\ fields = JSONFields(l, c[k])
    BY <1>7 DEF Decode, repoFromSDK, DecodeTeam, DecodeAutolink, DecodeVariable, DecodeSecret,
                DecodePages, JSONFields
  <2>2. p \in DOMAIN w /\ w[p] = des[p]
    BY <1>7, <1>t DEF Tells, Means
  <2>3. p \in DOMAIN w \cap fields
    BY <1>0, <2>1, <2>2
  <2> HIDE DEF dec
  <2>4. p \in DOMAIN Only(w, fields) /\ Only(w, fields)[p] = w[p]
    BY <2>3, OnlyKeeps
  <2> QED
    BY <2>1, <2>2, <2>4
<1> QED
  BY <1>1, <1>2, <1>3, <1>4, <1>5, <1>6, <1>7 DEF FieldLanes, LaneNames

(*--------------------------- what the calls say --------------------------*)

\* Some call of a sequence states a field.
States(s, p) == \E n \in 1..Len(s) : p \in DOMAIN s[n].body

\* A body says of the declared fields what is declared.
Right(l, des, body) ==
    \A p \in DOMAIN body \cap DOMAIN des : Means(l, p, body[p]) = des[p]

\* The field of a protection record that has a call of its own.
Apart(l) == IF l = "branches" THEN {"required_signatures"} ELSE {}

\* The calls carry out an entry: they say what is declared, every field the
\* plan shows among it, and all of it where the item is made anew.
Carries(s, l, des, changes) ==
    /\ \A n \in 1..Len(s) : Right(l, des, s[n].body)
    /\ \A p \in changes : States(s, p)
    /\ s[1].op \in {"post", "delete"} => \A p \in DOMAIN des : States(s, p)
    /\ s[1].op = "delete" => DOMAIN s[1].body = {}
    /\ s[1].op = "put" => DOMAIN des \ Apart(l) \subseteq DOMAIN s[1].body
    /\ l = "collaborators" => Len(s) = 1 /\ s[1].op = "put"

\* One call that states every declared field carries the entry.
LEMMA OneCarries ==
    ASSUME NEW c, NEW l, NEW des, NEW changes,
           Right(l, des, c.body), changes \subseteq DOMAIN c.body, c.op # "delete",
           c.op = "post" => DOMAIN des \subseteq DOMAIN c.body,
           c.op = "put" => DOMAIN des \ Apart(l) \subseteq DOMAIN c.body,
           l = "collaborators" => c.op = "put"
    PROVE  Carries(<<c>>, l, des, changes)
<1> DEFINE s == <<c>>
<1>1. Len(s) = 1 /\ s[1] = c
  OBVIOUS
<1> HIDE DEF s
<1>2. Carries(s, l, des, changes)
  BY <1>1 DEF Carries, States
<1> QED
  BY <1>2 DEF s

\* So do two that state them together.
LEMMA TwoCarry ==
    ASSUME NEW b, NEW c, NEW l, NEW des, NEW changes,
           Right(l, des, b.body), Right(l, des, c.body),
           changes \subseteq DOMAIN b.body \cup DOMAIN c.body,
           b.op \in {"post", "delete"} => DOMAIN des \subseteq DOMAIN b.body \cup DOMAIN c.body,
           b.op = "delete" => DOMAIN b.body = {},
           b.op = "put" => DOMAIN des \ Apart(l) \subseteq DOMAIN b.body,
           l # "collaborators"
    PROVE  Carries(<<b, c>>, l, des, changes)
<1> DEFINE s == <<b, c>>
<1>1. Len(s) = 2 /\ s[1] = b /\ s[2] = c
  OBVIOUS
<1> HIDE DEF s
<1>2. \A p : p \in DOMAIN b.body \cup DOMAIN c.body => States(s, p)
  BY <1>1 DEF States
<1>3. \A n \in 1..Len(s) : Right(l, des, s[n].body)
  BY <1>1
<1>4. Carries(s, l, des, changes)
  BY <1>1, <1>2, <1>3 DEF Carries
<1> QED
  BY <1>4 DEF s

\* What either of two sequences states, the two put together state.
LEMMA StatesConcat ==
    ASSUME NEW s, NEW t, NEW p, IsSeq(s), IsSeq(t), States(s, p) \/ States(t, p)
    PROVE  States(s \o t, p)
<1>1. PICK S : s \in Seq(S)
  BY DEF IsSeq
<1>2. PICK T : t \in Seq(T)
  BY DEF IsSeq
<1>3. s \in Seq(S \cup T) /\ t \in Seq(S \cup T)
  BY <1>1, <1>2
<1>4. Len(s \o t) = Len(s) + Len(t) /\ Len(s) \in Nat /\ Len(t) \in Nat
  BY <1>3
<1>5. \A n \in 1..Len(s \o t) : (s \o t)[n] = IF n <= Len(s) THEN s[n] ELSE t[n - Len(s)]
  BY <1>3
<1>6. CASE States(s, p)
  BY <1>4, <1>5, <1>6 DEF States
<1>7. CASE States(t, p)
  <2>1. PICK n \in 1..Len(t) : p \in DOMAIN t[n].body
    BY <1>7 DEF States
  <2>2. Len(s) + n \in 1..Len(s \o t) /\ (Len(s) + n) - Len(s) = n /\ ~(Len(s) + n <= Len(s))
    BY <1>4, <2>1
  <2>3. (s \o t)[Len(s) + n] = t[n]
    BY <1>5, <2>2
  <2> QED
    BY <2>1, <2>2, <2>3 DEF States
<1> QED
  BY <1>6, <1>7

\* A part that is sent states its body's fields.
LEMMA PartStates ==
    ASSUME NEW k, NEW body, NEW p \in DOMAIN body
    PROVE  States(<<Call("merge", k, 0, body)>>, p)
<1> DEFINE s == <<Call("merge", k, 0, body)>>
<1>1. Len(s) = 1 /\ s[1].body = body
  BY DEF Call
<1> HIDE DEF s
<1>2. States(s, p)
  BY <1>1 DEF States
<1> QED
  BY <1>2 DEF s

\* What writeActions hands out carries out the entry.
LEMMA ActionsCarry ==
    ASSUME NEW k, NEW d, NEW item, NEW des,
           DOMAIN des \subseteq DOMAIN item, \A p \in DOMAIN des : des[p] = item[p],
           \A p \in DOMAIN des \cap OmitEmpty : des[p] # {},
           d.changes \subseteq DOMAIN des, d.changes \subseteq ActionsConfig,
           Suits(writeActions(k, d, item, des), "actions", "update")
    PROVE  Carries(writeActions(k, d, item, des), "actions", des, d.changes)
<1> DEFINE mode == EncodeActionsPermissions(item)
           list == EncodeActionsAllowed(item)
           flow == EncodeWorkflowDefaults(item)
           part(fields, body) ==
             IF d.changes \cap fields = {} THEN <<>> ELSE <<Call("merge", k, 0, body)>>
           p == part({"enabled", "allowed_actions"}, mode)
           q == part(ActionsAllowListFields, list)
           r == part(ActionsWorkflowFields, flow)
           s == p \o q \o r
           B == {mode, list, flow}
<1>1. writeActions(k, d, item, des) = s
  BY DEF writeActions
<1>2. /\ DOMAIN mode = DOMAIN item \cap {"enabled", "allowed_actions"}
      /\ DOMAIN list \subseteq DOMAIN item \cap ActionsAllowListFields
      /\ \A f \in DOMAIN des \cap ActionsAllowListFields : f \in DOMAIN list
      /\ DOMAIN flow = DOMAIN item \cap ActionsWorkflowFields
      /\ \A body \in B : \A f \in DOMAIN body : body[f] = item[f]
  BY DEF EncodeActionsPermissions, EncodeActionsAllowed, EncodeWorkflowDefaults, ToMap, Only, Restrict
<1>3. OfBodies(p, B) /\ OfBodies(q, B) /\ OfBodies(r, B)
  BY PartBodies
<1>4. ASSUME NEW f \in d.changes PROVE States(p, f) \/ States(q, f) \/ States(r, f)
  <2>1. f \in DOMAIN item
    OBVIOUS
  <2>2. CASE f \in {"enabled", "allowed_actions"}
    BY <1>2, <2>1, <2>2, PartStates
  <2>3. CASE f \in ActionsAllowListFields
    BY <1>2, <2>1, <2>3, PartStates
  <2>4. CASE f \in ActionsWorkflowFields
    BY <1>2, <2>1, <2>4, PartStates
  <2> QED
    BY <2>2, <2>3, <2>4 DEF ActionsConfig
<1>5. \A body \in B : Right("actions", des, body)
  BY <1>2 DEF Right, Means
<1> HIDE DEF p, q, r, B
<1>6. OfBodies(p \o q, B) /\ OfBodies(s, B)
  <2>1. OfBodies(p \o q, B)
    BY <1>3, BodiesConcat
  <2> QED
    BY <1>3, <2>1, BodiesConcat
<1>7. ASSUME NEW f \in d.changes PROVE States(s, f)
  BY <1>3, <1>4, <1>6, StatesConcat DEF OfBodies
<1> HIDE DEF s
<1>8. \A n \in 1..Len(s) : Right("actions", des, s[n].body)
  BY <1>5, <1>6 DEF OfBodies
<1>9. s[1].op = "merge"
  BY <1>1 DEF Suits, FixedLanes
<1> QED
  BY <1>1, <1>7, <1>8, <1>9 DEF Carries

\* So does what writeSecurity hands out.
LEMMA SecurityCarries ==
    ASSUME NEW k, NEW d, NEW item, NEW des,
           \A p \in DOMAIN des : des[p] \in BOOLEAN,
           d.changes \subseteq DOMAIN des, d.changes \subseteq SecurityConfig,
           Suits(writeSecurity(k, d, item, des), "security", "update")
    PROVE  Carries(writeSecurity(k, d, item, des), "security", des, d.changes)
<1> DEFINE part(body) == IF DOMAIN body = {} THEN <<>> ELSE <<Call("merge", k, 0, body)>>
           one(x) == Only(des, d.changes \cap {x})
           scans == EncodeSecurity(des, d.changes)
           p == part(one("automated_security_fixes"))
           q == part(one("private_vulnerability_reporting"))
           r == part(one("vulnerability_alerts"))
           t == part(scans)
           s == p \o q \o r \o t
           B == {one("automated_security_fixes"), one("private_vulnerability_reporting"),
                 one("vulnerability_alerts"), scans}
<1>1. writeSecurity(k, d, item, des) = s
  BY DEF writeSecurity
<1>2. /\ \A x : /\ DOMAIN one(x) = d.changes \cap {x}
                /\ \A f \in DOMAIN one(x) : one(x)[f] = des[f]
      /\ DOMAIN scans = d.changes \cap SecurityAndAnalysisFields
      /\ \A f \in DOMAIN scans : scans[f] = IF des[f] THEN "enabled" ELSE "disabled"
  BY DEF Only, Restrict, EncodeSecurity
<1>3. OfBodies(p, B) /\ OfBodies(q, B) /\ OfBodies(r, B) /\ OfBodies(t, B)
  BY PartBodies
<1> HIDE DEF one, scans
<1>4. ASSUME NEW f \in d.changes PROVE States(p, f) \/ States(q, f) \/ States(r, f) \/ States(t, f)
  <2>1. ASSUME NEW body, f \in DOMAIN body PROVE States(part(body), f)
    BY <2>1, PartStates
  <2> HIDE DEF part
  <2> QED
    BY <1>2, <2>1 DEF SecurityConfig
<1>5. ASSUME NEW body \in B PROVE Right("security", des, body)
  <2>1. CASE body = scans
    BY <1>2, <2>1 DEF Right, Means
  <2>2. ASSUME NEW x \in {"automated_security_fixes", "private_vulnerability_reporting",
                          "vulnerability_alerts"}, body = one(x)
        PROVE  Right("security", des, body)
    <3>1. DOMAIN body \subseteq {x} /\ \A f \in DOMAIN body : body[f] = des[f]
      BY <1>2, <2>2
    <3>2. x \notin SecurityAndAnalysisFields
      BY <2>2 DEF SecurityAndAnalysisFields
    <3> QED
      BY <3>1, <3>2 DEF Right, Means
  <2> QED
    BY <2>1, <2>2
<1> HIDE DEF p, q, r, t, B
<1>6. OfBodies(p \o q, B) /\ OfBodies(p \o q \o r, B) /\ OfBodies(s, B)
  <2>1. OfBodies(p \o q, B)
    BY <1>3, BodiesConcat
  <2>2. OfBodies(p \o q \o r, B)
    BY <1>3, <2>1, BodiesConcat
  <2> QED
    BY <1>3, <2>1, <2>2, BodiesConcat
<1>7. ASSUME NEW f \in d.changes PROVE States(s, f)
  <2>1. States(p, f) \/ States(q, f) => States(p \o q, f)
    BY <1>3, StatesConcat DEF OfBodies
  <2>2. States(p \o q, f) \/ States(r, f) => States(p \o q \o r, f)
    BY <1>3, <1>6, StatesConcat DEF OfBodies
  <2>3. States(p \o q \o r, f) \/ States(t, f) => States(s, f)
    BY <1>3, <1>6, StatesConcat DEF OfBodies
  <2> QED
    BY <1>4, <2>1, <2>2, <2>3
<1> HIDE DEF s
<1>8. \A n \in 1..Len(s) : Right("security", des, s[n].body)
  BY <1>5, <1>6 DEF OfBodies
<1>9. s[1].op = "merge"
  BY <1>1 DEF Suits, FixedLanes
<1> QED
  BY <1>1, <1>7, <1>8, <1>9 DEF Carries

\* The calls of a declared item's entry carry it out, in every lane that settles.
LEMMA MutateCarries ==
    ASSUME NEW l \in DOMAIN Configs, l \in FieldLanes, NEW c \in Configs[l], NEW k \in DOMAIN c, NEW d,
           IsEntry(l, c, k, d), l = "secrets" => d.action # "update",
           d.changes \subseteq DOMAIN Desired(l, c)[k],
           d.action = "create" => d.changes = DOMAIN Desired(l, c)[k],
           ~Pending(l, k, d, c), l = "pages" => d.action = "update"
    PROVE  Carries(Mutate(l, k, d, c), l, Desired(l, c)[k], d.changes)
<1> DEFINE item == c[k]
           des == Desired(l, c)[k]
           s == Mutate(l, k, d, c)
           fits(calls) == Carries(calls, l, des, d.changes)
<1>0. d.action \in {"create", "update"}
  BY DEF IsEntry
<1>1. /\ DOMAIN des \subseteq JSONFields(l, item)
      /\ l # "custom_properties" => \A p \in DOMAIN des \cap OmitEmpty : des[p] # {}
      /\ l \notin {"rulesets", "branches"} =>
           /\ DOMAIN des \subseteq DOMAIN item
           /\ \A p \in DOMAIN des : des[p] = item[p]
  BY DesiredFields
<1>2. \A op, id, body : LET call == Call(op, k, id, body)
                        IN  call.op = op /\ call.key = k /\ call.id = id /\ call.body = body
  BY DEF Call
<1>3. l \in LaneNames
  BY DEF FieldLanes
<1>4. ASSUME NEW op, NEW id, NEW body,
             Right(l, des, body), d.changes \subseteq DOMAIN body, op # "delete",
             op = "post" => DOMAIN des \subseteq DOMAIN body,
             op = "put" => DOMAIN des \ Apart(l) \subseteq DOMAIN body,
             l = "collaborators" => op = "put"
      PROVE  fits(<<Call(op, k, id, body)>>)
  <2> DEFINE call == Call(op, k, id, body)
  <2>1. call.op = op /\ call.body = body
    BY <1>2
  <2> HIDE DEF call, des
  <2>2. Carries(<<call>>, l, des, d.changes)
    BY <1>4, <2>1, OneCarries
  <2> QED
    BY <2>2 DEF call
<1>6. CASE l = "repository"
  <2>1. s = RepoMutate(k, d, item, des)
    BY <1>6 DEF Mutate
  <2> HIDE DEF des, s
  <2>2. CASE k = "topics"
    <3>1. Right(l, des, des)
      BY <1>6 DEF Right, Means
    <3>2. d.changes \subseteq DOMAIN des
      BY DEF des
    <3>3. fits(<<Call("merge", k, 0, des)>>)
      BY <1>4, <1>6, <3>1, <3>2
    <3> QED
      BY <2>1, <2>2, <3>3 DEF RepoMutate, des, s
  <2>3. CASE k # "topics"
    <3> DEFINE body == EncodeRepoPatch(des, d.changes)
    <3>1. k = "repository"
      BY <1>6, <2>3, ItemsAssumption DEF ItemsAssumption
    <3>2. DOMAIN des \subseteq RepoConfig
      BY <1>1, <1>6, <3>1, SchemaAssumption DEF SchemaAssumption
    <3>3. d.changes \subseteq DOMAIN des
      BY DEF des
    <3>4. DOMAIN body = DOMAIN des \cap (d.changes \cap RepoConfig)
          /\ \A p \in DOMAIN des \cap (d.changes \cap RepoConfig) : body[p] = des[p]
      BY OnlyKeeps DEF EncodeRepoPatch
    <3> HIDE DEF body
    <3>5. Right(l, des, body)
      BY <1>6, <3>4 DEF Right, Means
    <3>6. fits(<<Call("merge", k, 0, body)>>)
      BY <1>4, <1>6, <3>2, <3>3, <3>4, <3>5
    <3> QED
      BY <2>1, <2>3, <3>6 DEF RepoMutate, body, des, s
  <2> QED
    BY <2>2, <2>3
<1>7. CASE l \in {"teams", "collaborators", "variables"}
  <2> DEFINE fields == IF l = "variables" THEN {"value"} ELSE {"permission"}
             body == Only(des, fields)
  <2>1. DOMAIN des \subseteq fields
    BY <1>1, <1>7 DEF JSONFields
  <2>2. DOMAIN body = DOMAIN des \cap fields /\ \A p \in DOMAIN des \cap fields : body[p] = des[p]
    <3> HIDE DEF fields, des
    <3> QED
      BY OnlyKeeps
  <2>3. /\ l = "teams" => s = <<Call("put", k, 0, body)>>
        /\ l = "collaborators" => s = <<Call("put", k, 0, body)>>
        /\ l = "variables" => s = <<Call(IF d.action = "create" THEN "post" ELSE "merge", k, 0, body)>>
    BY <1>0, <1>7 DEF Mutate, TeamsMutate, CollaboratorsMutate, VariablesMutate
  <2>4. d.changes \subseteq DOMAIN des
    OBVIOUS
  <2> HIDE DEF body, des, s, fields
  <2>5. Right(l, des, body)
    BY <1>7, <2>2 DEF Right, Means
  <2>6. DOMAIN body = DOMAIN des
    BY <2>1, <2>2
  <2>7. /\ fits(<<Call("put", k, 0, body)>>)
        /\ l = "variables" => fits(<<Call(IF d.action = "create" THEN "post" ELSE "merge", k, 0, body)>>)
    BY <1>4, <2>4, <2>5, <2>6
  <2> QED
    BY <1>7, <2>3, <2>7 DEF s, des
<1>8. CASE l = "webhooks"
  <2> DEFINE body == EncodeHook(item)
  <2>1. s = <<Call(IF d.action = "create" THEN "post" ELSE "patch", k,
                   IF d.action = "create" THEN 0 ELSE d.id, body)>>
    BY <1>0, <1>8 DEF Mutate, WebhooksMutate
  <2>2. DOMAIN des \subseteq DOMAIN body
    BY <1>1, <1>8 DEF EncodeHook, JSONFields
  <2>3. \A p \in DOMAIN body :
          body[p] = IF p = "insecure_ssl" THEN (IF item[p] THEN "1" ELSE "0") ELSE item[p]
    BY DEF EncodeHook
  <2>4. "insecure_ssl" \in DOMAIN des => des["insecure_ssl"] \in BOOLEAN
    BY <1>1, <1>8, SchemaAssumption DEF SchemaAssumption
  <2>5. d.changes \subseteq DOMAIN des
    OBVIOUS
  <2> HIDE DEF body, des, s
  <2>6. Right(l, des, body)
    BY <1>1, <1>8, <2>3, <2>4 DEF Right, Means
  <2>7. fits(<<Call(IF d.action = "create" THEN "post" ELSE "patch", k,
                    IF d.action = "create" THEN 0 ELSE d.id, body)>>)
    BY <1>4, <1>8, <2>2, <2>5, <2>6
  <2> QED
    BY <2>1, <2>7 DEF s, des
<1>9. CASE l = "rulesets"
  <2> DEFINE body == RulesetBody(des)
  <2>1. s = <<Call(IF d.action = "create" THEN "post" ELSE "patch", k,
                   IF d.action = "create" THEN 0 ELSE d.id, body)>>
    BY <1>0, <1>9 DEF Mutate, RulesetsMutate
  <2>2. DOMAIN des \subseteq Ruleset
    BY <1>1, <1>9 DEF JSONFields
  <2>3. d.changes \subseteq DOMAIN des
    OBVIOUS
  <2> HIDE DEF des, s
  <2>4. DOMAIN des \subseteq DOMAIN body /\ \A p \in DOMAIN des : body[p] = des[p]
    BY <2>2 DEF RulesetBody, Overlay, Only, Restrict
  <2> HIDE DEF body
  <2>5. Right(l, des, body)
    BY <1>9, <2>4 DEF Right, Means
  <2>6. fits(<<Call(IF d.action = "create" THEN "post" ELSE "patch", k,
                    IF d.action = "create" THEN 0 ELSE d.id, body)>>)
    BY <1>4, <1>9, <2>3, <2>4, <2>5
  <2> QED
    BY <2>1, <2>6 DEF s, des
<1>10. CASE l = "autolinks"
  <2> DEFINE body == EncodeAutolink(item)
             gone == Bare("delete", k, d.id)
             made == Call("post", k, 0, body)
  <2>1. s = (IF d.action = "create" THEN <<>> ELSE <<gone>>) \o <<made>>
    BY <1>0, <1>10 DEF Mutate, AutolinksMutate
  <2>2. DOMAIN body = DOMAIN item \cap Autolink /\ \A p \in DOMAIN item \cap Autolink : body[p] = item[p]
    BY OnlyKeeps DEF EncodeAutolink
  <2>3. d.changes \subseteq DOMAIN des
    OBVIOUS
  <2>4. made.op = "post" /\ made.body = body /\ gone.op = "delete" /\ DOMAIN gone.body = {}
    BY DEF Bare, Call
  <2> HIDE DEF body, des, s, gone, made
  <2>5. DOMAIN des \subseteq DOMAIN body
    BY <1>1, <1>10, <2>2 DEF JSONFields
  <2>6. Right(l, des, body) /\ Right(l, des, gone.body)
    BY <1>1, <1>10, <2>2, <2>4 DEF Right, Means
  <2>7. CASE d.action = "create"
    <3>1. s = <<made>>
      BY <2>1, <2>7 DEF made
    <3>2. fits(<<made>>)
      BY <1>10, <2>3, <2>4, <2>5, <2>6, OneCarries
    <3> QED
      BY <3>1, <3>2 DEF s, des
  <2>8. CASE d.action # "create"
    <3>1. s = <<gone, made>>
      BY <2>1, <2>8, Pair
    <3>2. fits(<<gone, made>>)
      BY <1>10, <2>3, <2>4, <2>5, <2>6, TwoCarry
    <3> QED
      BY <3>1, <3>2 DEF s, des
  <2> QED
    BY <2>7, <2>8
<1>11. CASE l = "branches"
  <2> DEFINE full == NormalizeBranch(item)
             body == EncodeProtection(full)
             signed == Only(des, {"required_signatures"})
             first == Call("put", k, 0, body)
             second == Call("merge", k, 0, signed)
  <2>1. s = <<first>> \o (IF "required_signatures" \in d.changes THEN <<second>> ELSE <<>>)
    BY <1>11 DEF Mutate, applyBranchProtection
  <2>2. des = ToMap(full, BranchProtection)
    BY <1>11 DEF Desired, Normalize, JSONFields
  <2>3. d.changes \subseteq DOMAIN des
    OBVIOUS
  <2>4. first.op = "put" /\ first.body = body /\ second.op = "merge" /\ second.body = signed
    BY DEF Call
  <2>5. /\ DOMAIN signed = DOMAIN des \cap {"required_signatures"}
        /\ \A p \in DOMAIN des \cap {"required_signatures"} : signed[p] = des[p]
    BY OnlyKeeps
  <2> HIDE DEF full, des, s, signed, first, second
  <2>6. /\ DOMAIN des \subseteq DOMAIN full \cap BranchProtection
        /\ \A p \in DOMAIN des : des[p] = full[p]
    BY <2>2 DEF ToMap, Only, Restrict
  <2>7. \A p \in (DOMAIN full \cap BranchProtection) \ {"required_signatures"} :
          p \in DOMAIN body /\ body[p] = full[p]
    BY DEF EncodeProtection, Overlay, Only, Restrict
  <2>8. \A p \in DOMAIN body \cap DOMAIN des : body[p] = des[p]
    <3>1. "required_signatures" \notin DOMAIN body
      BY DEF EncodeProtection, Overlay, Only, Restrict, ReviewFields
    <3> HIDE DEF body
    <3> QED
      BY <2>6, <2>7, <3>1
  <2> HIDE DEF body
  <2>9. Right(l, des, body) /\ Right(l, des, signed)
    BY <1>11, <2>5, <2>8 DEF Right, Means
  <2>10. Apart(l) = {"required_signatures"} /\ DOMAIN des \ Apart(l) \subseteq DOMAIN body
    BY <1>11, <2>6, <2>7 DEF Apart
  <2>11. CASE "required_signatures" \in d.changes
    <3>1. s = <<first, second>>
      BY <2>1, <2>11, Pair
    <3>2. d.changes \subseteq DOMAIN body \cup DOMAIN signed
      BY <2>3, <2>5, <2>10
    <3>3. fits(<<first, second>>)
      BY <1>11, <2>4, <2>9, <2>10, <3>2, TwoCarry
    <3> QED
      BY <3>1, <3>3 DEF s, des
  <2>12. CASE "required_signatures" \notin d.changes
    <3>1. s = <<first>>
      BY <2>1, <2>12 DEF first
    <3>2. d.changes \subseteq DOMAIN body
      BY <2>3, <2>10, <2>12
    <3>3. fits(<<first>>)
      BY <1>11, <2>4, <2>9, <2>10, <3>2, OneCarries
    <3> QED
      BY <3>1, <3>3 DEF s, des
  <2> QED
    BY <2>11, <2>12
<1>12. CASE l = "actions"
  <2>1. s = writeActions(k, d, item, des)
    BY <1>12 DEF Mutate
  <2>2. d.changes \subseteq ActionsConfig /\ d.changes # {} /\ d.changes \subseteq DOMAIN des
    BY <1>1, <1>12 DEF JSONFields, IsEntry, FixedLanes
  <2>3. Suits(writeActions(k, d, item, des), "actions", "update")
    BY <2>2, ActionsCalls
  <2> HIDE DEF des, s, item
  <2>4. Carries(writeActions(k, d, item, des), "actions", des, d.changes)
    BY <1>1, <1>12, <2>2, <2>3, ActionsCarry
  <2> QED
    BY <1>12, <2>1, <2>4 DEF s, des
<1>13. CASE l = "security"
  <2>1. s = writeSecurity(k, d, item, des)
    BY <1>13 DEF Mutate
  <2>2. d.changes \subseteq SecurityConfig /\ d.changes # {} /\ d.changes \subseteq DOMAIN des
    BY <1>1, <1>13 DEF JSONFields, IsEntry, FixedLanes
  <2>3. Suits(writeSecurity(k, d, item, des), "security", "update")
    BY <2>2, SecurityCalls
  <2>4. \A p \in DOMAIN des : des[p] \in BOOLEAN
    BY <1>1, <1>13, SchemaAssumption DEF SchemaAssumption
  <2> HIDE DEF des, s, item
  <2>5. Carries(writeSecurity(k, d, item, des), "security", des, d.changes)
    BY <2>2, <2>3, <2>4, SecurityCarries
  <2> QED
    BY <1>13, <2>1, <2>5 DEF s, des
<1>14. CASE l = "custom_properties"
  <2>1. s = <<Call("merge", k, 0, item)>>
    BY <1>14 DEF Mutate, CustomPropertiesMutate, EncodeCustomProperties
  <2>2. d.changes \subseteq DOMAIN item
    BY <1>1, <1>14
  <2>3. Right(l, des, item)
    BY <1>1, <1>14 DEF Right, Means
  <2> HIDE DEF des, s, item
  <2>4. fits(<<Call("merge", k, 0, item)>>)
    BY <1>4, <1>14, <2>2, <2>3
  <2> QED
    BY <2>1, <2>4 DEF s, des
<1>15. l # "secrets"
  BY <1>0 DEF Pending
<1>16. CASE l = "pages"
  <2> DEFINE body == EncodePagesUpdate(item)
  <2>1. s = <<Call("merge", k, 0, body)>>
    BY <1>16 DEF Mutate, PagesMutate
  <2>2. DOMAIN des \subseteq PagesConfig /\ DOMAIN des \subseteq DOMAIN item
        /\ \A p \in DOMAIN des : des[p] = item[p]
    BY <1>1, <1>16 DEF JSONFields
  <2>3. DOMAIN body = DOMAIN item \cap PagesConfig /\ \A p \in DOMAIN body : body[p] = item[p]
    BY DEF EncodePagesUpdate, Only, Restrict
  <2> HIDE DEF des, s, item, body
  <2>4. Right(l, des, body)
    BY <1>16, <2>2, <2>3 DEF Right, Means
  <2>5. d.changes \subseteq DOMAIN body
    BY <2>2, <2>3 DEF des
  <2>6. fits(<<Call("merge", k, 0, body)>>)
    BY <1>4, <1>16, <2>4, <2>5
  <2> QED
    BY <2>1, <2>6 DEF s, des
<1> QED
  BY <1>3, <1>6, <1>7, <1>8, <1>9, <1>10, <1>11, <1>12, <1>13, <1>14, <1>15, <1>16 DEF FieldLanes, LaneNames

(*-------------------------- what GitHub then says ------------------------*)

\* The documents an accepted call leaves.
LEMMA ApplyDocs ==
    ASSUME NEW l, NEW store, NEW c, NEW fresh,
           c.op \in Ops, OwnKey(store, c), fresh \notin DOMAIN store
    PROVE  LET g == Apply(l, store, c, fresh)
               targets == Targets(store, c)
           IN  /\ c.op = "post" => g[fresh].doc = Overlay(c.body, Defaults[l])
               /\ c.op = "put" =>
                    \A i \in IF targets = {} THEN {fresh} ELSE targets :
                        g[i].doc = PutDoc(l, IF i \in DOMAIN store THEN store[i].doc
                                             ELSE [p \in {} |-> 0], c.body)
<1> DEFINE targets == Targets(store, c)
<1>0. targets \subseteq DOMAIN store
  BY DEF Targets, WithKey
<1>1. CASE c.op = "put"
  BY <1>0, <1>1 DEF Apply, Ops
<1>2. CASE c.op = "post"
  BY <1>0, <1>2 DEF Apply, Ops
<1> QED
  BY <1>1, <1>2

\* What an accepted call of k leaves at k, where keys are unique.
LEMMA WrittenDocs ==
    ASSUME IInv, lane # "deploy_keys", NEW k \in DOMAIN todo, Len(todo[k]) # 0,
           Accepts(lane, github, Head(todo[k])),
           github' = Apply(lane, github, Head(todo[k]), Fresh),
           UNCHANGED <<lane, cfg, plan>>
    PROVE  LET c == Head(todo[k]) IN
           /\ c.op \in Builds => WithKey(github', k) # {}
           /\ c.op \in {"remove", "delete"} => WithKey(github', k) = {}
           /\ \A i \in WithKey(github', k) :
                /\ c.op \in {"merge", "patch"} =>
                     i \in WithKey(github, k) /\ github'[i].doc = Overlay(c.body, github[i].doc)
                /\ c.op = "post" => github'[i].doc = Overlay(c.body, Defaults[lane])
                /\ c.op = "put" =>
                     \/ i \in WithKey(github, k) /\ github'[i].doc = PutDoc(lane, github[i].doc, c.body)
                     \/ WithKey(github, k) = {} /\ github'[i].doc = PutDoc(lane, [p \in {} |-> 0], c.body)
<1> DEFINE c == Head(todo[k])
           targets == Targets(github, c)
           at == WithKey(github, k)
<1>1. c.op \in Ops /\ c.key = k /\ OwnKey(github, c)
  BY NextCall
<1>2. Fresh \notin DOMAIN github
  BY FreshIsNew DEF IInv
<1>3. Accepts(lane, github, c) /\ github' = Apply(lane, github, c, Fresh)
  OBVIOUS
<1>4. c.op \in Builds => WithKey(github', k) # {}
  BY CallKeeps
<1>5. /\ c.op \in {"post", "put", "merge", "remove"} => targets = at
      /\ c.op \in {"patch", "delete"} => targets = {c.id} \cap DOMAIN github
  BY <1>1 DEF Targets, Ops
<1>6. /\ c.op \notin {"post", "put"} => targets # {}
      /\ c.op = "post" => at = {}
  BY <1>1, <1>3 DEF Accepts, Clash
<1>7. targets \subseteq at /\ at \subseteq DOMAIN github
  BY <1>1 DEF OwnKey, WithKey
<1>8. c.op \in Ops \ {"post"} => targets = at
  <2>1. \A i, j \in at : i = j
    BY DEF IInv, StoreInv, WithKey
  <2> QED
    BY <1>5, <1>6, <1>7, <2>1 DEF Ops
<1> HIDE DEF Fresh, c, targets
<1>9. /\ \A i \in DOMAIN github \ targets : i \in DOMAIN github' /\ github'[i] = github[i]
      /\ \A i \in DOMAIN github' :
            \/ i \in DOMAIN github /\ github'[i] = github[i]
            \/ i \in targets \cup {Fresh}
      /\ c.op \in {"merge", "patch"} =>
            \A i \in targets : github'[i].doc = Overlay(c.body, github[i].doc)
      /\ c.op = "put" => DOMAIN github' = DOMAIN github \cup (IF targets = {} THEN {Fresh} ELSE {})
      /\ c.op \in {"merge", "patch"} => DOMAIN github' = DOMAIN github
      /\ c.op = "post" => DOMAIN github' = DOMAIN github \cup {Fresh}
      /\ c.op \in {"remove", "delete"} => DOMAIN github' = DOMAIN github \ targets
  <2> DEFINE g == Apply(lane, github, c, Fresh)
  <2>1. c.op \in Ops /\ OwnKey(github, c) /\ Fresh \notin DOMAIN github
    BY <1>1, <1>2
  <2>2. /\ \A i \in DOMAIN github \ targets : i \in DOMAIN g /\ g[i] = github[i]
        /\ \A i \in DOMAIN g :
              \/ i \in DOMAIN github /\ g[i] = github[i]
              \/ /\ i \in targets \cup {Fresh} /\ g[i].key = c.key
                 /\ DOMAIN g[i] = {"key", "doc"}
        /\ c.op \in {"merge", "patch"} =>
              /\ DOMAIN g = DOMAIN github
              /\ \A i \in targets : g[i].key = c.key /\ g[i].doc = Overlay(c.body, github[i].doc)
        /\ c.op = "put" =>
              /\ DOMAIN g = DOMAIN github \cup (IF targets = {} THEN {Fresh} ELSE {})
              /\ \A i \in DOMAIN g \ (DOMAIN github \ targets) : g[i].key = c.key
        /\ c.op = "post" => DOMAIN g = DOMAIN github \cup {Fresh} /\ g[Fresh].key = c.key
        /\ c.op \in {"remove", "delete"} => DOMAIN g = DOMAIN github \ targets
    BY <2>1, ApplyEffect DEF targets
  <2> HIDE DEF g
  <2>3. github' = g
    BY <1>3 DEF g
  <2> QED
    BY <2>2, <2>3
<1>10. /\ c.op = "post" => github'[Fresh].doc = Overlay(c.body, Defaults[lane])
       /\ c.op = "put" =>
            \A i \in IF targets = {} THEN {Fresh} ELSE targets :
                github'[i].doc = PutDoc(lane, IF i \in DOMAIN github THEN github[i].doc
                                              ELSE [p \in {} |-> 0], c.body)
  BY <1>1, <1>2, <1>3, ApplyDocs DEF targets
<1>11. ASSUME NEW i \in WithKey(github', k), i \notin targets PROVE i = Fresh /\ c.op \in {"post", "put"}
  <2>1. i \in DOMAIN github' /\ github'[i].key = k
    BY DEF WithKey
  <2>2. i \notin DOMAIN github
    <3> SUFFICES ASSUME i \in DOMAIN github PROVE FALSE
      OBVIOUS
    <3>1. github'[i] = github[i]
      BY <1>9, <1>11
    <3>2. i \in at
      BY <2>1, <3>1 DEF WithKey
    <3> QED
      BY <1>1, <1>6, <1>8, <1>11, <3>2
  <2> QED
    BY <1>1, <1>9, <1>11, <2>1, <2>2 DEF Ops
<1>12. ASSUME c.op \in {"remove", "delete"} PROVE WithKey(github', k) = {}
  <2>1. \A i \in WithKey(github', k) : i \notin targets
    BY <1>9, <1>12 DEF WithKey
  <2> QED
    BY <1>11, <1>12, <2>1
<1>13. ASSUME NEW i \in WithKey(github', k), c.op \in {"merge", "patch"}
       PROVE  i \in at /\ github'[i].doc = Overlay(c.body, github[i].doc)
  BY <1>7, <1>9, <1>11, <1>13
<1>14. ASSUME NEW i \in WithKey(github', k), c.op = "post"
       PROVE  github'[i].doc = Overlay(c.body, Defaults[lane])
  BY <1>6, <1>7, <1>10, <1>11, <1>14
<1>15. ASSUME NEW i \in WithKey(github', k), c.op = "put"
       PROVE  \/ i \in at /\ github'[i].doc = PutDoc(lane, github[i].doc, c.body)
              \/ at = {} /\ github'[i].doc = PutDoc(lane, [p \in {} |-> 0], c.body)
  <2>1. CASE i \in targets
    BY <1>7, <1>10, <1>15, <2>1
  <2>2. CASE i \notin targets
    <3>1. i = Fresh
      BY <1>11, <2>2
    <3>2. i \in DOMAIN github'
      BY DEF WithKey
    <3>3. targets = {}
      BY <1>2, <1>9, <1>15, <3>1, <3>2
    <3> QED
      BY <1>2, <1>8, <1>10, <1>15, <3>1, <3>3 DEF Ops
  <2> QED
    BY <2>1, <2>2
<1> QED
  BY <1>4, <1>12, <1>13, <1>14, <1>15 DEF c

\* An item with a body laid over it says what the body says, and of the other
\* fields what it said before.
LEMMA OverlayTells ==
    ASSUME NEW l \in FieldLanes, l # "collaborators", NEW body, NEW old, NEW p, NEW v
    PROVE  /\ p \in DOMAIN body /\ Means(l, p, body[p]) = v => Tells(l, Overlay(body, old), p, v)
           /\ p \notin DOMAIN body /\ Tells(l, old, p, v) => Tells(l, Overlay(body, old), p, v)
<1> DEFINE w == Overlay(body, old)
<1>1. /\ DOMAIN w = DOMAIN body \cup DOMAIN old
      /\ p \in DOMAIN body => w[p] = body[p]
      /\ p \in DOMAIN old /\ p \notin DOMAIN body => w[p] = old[p]
  BY DEF Overlay
<1> HIDE DEF w
<1>2. p \in DOMAIN body /\ Means(l, p, body[p]) = v => Tells(l, w, p, v)
  BY <1>1 DEF Tells, Means
<1>3. p \notin DOMAIN body /\ Tells(l, old, p, v) => Tells(l, w, p, v)
  BY <1>1 DEF Tells
<1> QED
  BY <1>2, <1>3 DEF w

\* What a put leaves says what its body says; signatures are kept.
LEMMA PutTells ==
    ASSUME NEW l \in FieldLanes, NEW body, NEW old, NEW p, NEW v,
           l = "collaborators" => p = "permission" /\ v # "",
           l = "branches" => DOMAIN Defaults[l] \subseteq {"required_signatures"},
           l = "branches" /\ p \in BranchFlags => v \in BOOLEAN,
           l = "branches" /\ p \in Containers => v \in {"on", "off"}
    PROVE  /\ p \in DOMAIN body /\ Means(l, p, body[p]) = v => Tells(l, PutDoc(l, old, body), p, v)
           /\ p = "required_signatures" /\ l = "branches" /\ p \notin DOMAIN body /\ Tells(l, old, p, v)
                => Tells(l, PutDoc(l, old, body), p, v)
<1> DEFINE w == PutDoc(l, old, body)
<1>1. CASE l = "collaborators"
  <2>1. w.role_name = body["permission"]
    BY <1>1 DEF PutDoc
  <2> HIDE DEF w
  <2>2. p \in DOMAIN body /\ Means(l, p, body[p]) = v => Tells(l, w, p, v)
    BY <1>1, <2>1 DEF Means, Tells, DecodeCollaborator
  <2> QED
    BY <1>1, <2>2 DEF w
<1>2. CASE l = "branches"
  <2> DEFINE fields == {f \in DOMAIN body : /\ f \in BranchFlags => body[f]
                                            /\ f \in Containers => body[f] = "on"}
             kept == IF "required_signatures" \in DOMAIN old
                     THEN Only(old, {"required_signatures"}) ELSE Defaults[l]
             on == Only(body, fields)
  <2>1. w = Overlay(on, kept)
    BY <1>2 DEF PutDoc
  <2>2. DOMAIN on = fields /\ \A f \in fields : on[f] = body[f]
    BY DEF Only, Restrict
  <2>3. DOMAIN kept \subseteq {"required_signatures"}
    BY <1>2 DEF Only, Restrict
  <2>4. "required_signatures" \in DOMAIN old =>
          /\ "required_signatures" \in DOMAIN kept
          /\ kept["required_signatures"] = old["required_signatures"]
    BY DEF Only, Restrict
  <2>5. "required_signatures" \notin BranchFlags \cup Containers
        /\ \A f \in BranchFlags : f \notin Containers
    BY DEF BranchFlags, Containers
  <2>6. /\ DOMAIN w = fields \cup DOMAIN kept
        /\ p \in fields => w[p] = body[p]
        /\ p \in DOMAIN kept /\ p \notin fields => w[p] = kept[p]
    <3> HIDE DEF w, on, kept, fields
    <3> QED
      BY <2>1, <2>2 DEF Overlay
  <2> HIDE DEF w, on, kept
  <2>7. ASSUME p \in DOMAIN body, Means(l, p, body[p]) = v PROVE Tells(l, w, p, v)
    <3>1. body[p] = v
      BY <1>2, <2>7 DEF Means
    <3>2. CASE p \in fields
      BY <1>2, <2>6, <3>1, <3>2 DEF Tells, Means
    <3>3. CASE p \notin fields
      <4>1. \/ p \in BranchFlags /\ v = FALSE
            \/ p \in Containers /\ v = "off"
        BY <1>2, <2>7, <3>1, <3>3
      <4>2. p \notin DOMAIN w
        BY <2>3, <2>5, <2>6, <3>3, <4>1
      <4> QED
        BY <1>2, <2>5, <4>1, <4>2 DEF Tells
    <3> QED
      BY <3>2, <3>3
  <2>8. ASSUME p = "required_signatures", p \notin DOMAIN body, Tells(l, old, p, v)
        PROVE  Tells(l, w, p, v)
    <3>1. p \in DOMAIN old /\ old[p] = v
      BY <1>2, <2>5, <2>8 DEF Tells, Means
    <3>2. p \in DOMAIN w /\ w[p] = v
      BY <2>4, <2>6, <2>8, <3>1
    <3> QED
      BY <1>2, <2>5, <2>8, <3>2 DEF Tells, Means
  <2> QED
    BY <2>7, <2>8 DEF w
<1>3. CASE l \notin {"collaborators", "branches"}
  <2>1. w = Overlay(body, Defaults[l])
    BY <1>3 DEF PutDoc
  <2> HIDE DEF w
  <2>2. p \in DOMAIN body /\ Means(l, p, body[p]) = v => Tells(l, w, p, v)
    BY <1>3, <2>1, OverlayTells
  <2> QED
    BY <1>3, <2>2 DEF w
<1> QED
  BY <1>1, <1>2, <1>3

(*------------------------------ environments -----------------------------*)

\* What GitHub has no way to tell of an environment (a timer of zero, a rule
\* about reviewers where there are none) and what the call leaves out (a
\* reviewer whose id is no number) is not declared.
EnvironmentsCanBeTold ==
    "environments" \in DOMAIN Configs =>
        \A c \in Configs["environments"] : \A k \in DOMAIN c :
            /\ "wait_timer" \in DOMAIN c[k] => c[k]["wait_timer"] # 0
            /\ "reviewers" \in DOMAIN c[k] => c[k]["reviewers"] \subseteq NumericIds
            /\ "prevent_self_review" \in DOMAIN c[k] =>
                 "reviewers" \in DOMAIN c[k] /\ c[k]["reviewers"] # {}

\* How an environment is read.
LEMMA EnvironmentView ==
    ASSUME NEW w, NEW p
    PROVE  /\ p \in DOMAIN View("environments", w) <=>
                /\ p \in DOMAIN w \cap Environment
                /\ p = "wait_timer" => w[p] # 0
                /\ p \in {"reviewers", "prevent_self_review"} => w["reviewers"] # {}
                /\ p \notin {"wait_timer", "reviewers", "prevent_self_review"} =>
                     w["deployment_branch_policy"] = "on"
           /\ p \in DOMAIN View("environments", w) => View("environments", w)[p] = w[p]
<1> DEFINE F == {q \in Environment :
                   CASE q = "wait_timer" -> w[q] # 0
                     [] q \in {"reviewers", "prevent_self_review"} -> w["reviewers"] # {}
                     [] OTHER -> w["deployment_branch_policy"] = "on"}
<1>1. View("environments", w) = Only(w, F)
  BY DEF View, Decode, DecodeEnvironment
<1>2. p \in F <=> /\ p \in Environment
                  /\ p = "wait_timer" => w[p] # 0
                  /\ p \in {"reviewers", "prevent_self_review"} => w["reviewers"] # {}
                  /\ p \notin {"wait_timer", "reviewers", "prevent_self_review"} =>
                       w["deployment_branch_policy"] = "on"
  OBVIOUS
<1> HIDE DEF F
<1>3. /\ DOMAIN Only(w, F) = DOMAIN w \cap F
      /\ p \in DOMAIN w \cap F => Only(w, F)[p] = w[p]
  BY DEF Only, Restrict
<1> QED
  BY <1>1, <1>2, <1>3

\* What a put of such an environment leaves is read as declared.
LEMMA EnvironmentIsTold ==
    ASSUME EnvironmentsCanBeTold, "environments" \in DOMAIN Configs,
           NEW c \in Configs["environments"], NEW k \in DOMAIN c, NEW old
    PROVE  Fields(Decode("environments", c[k], PutDoc("environments", old, EncodeEnvironment(c[k]))),
                  Desired("environments", c)[k]) = {}
<1> DEFINE item == c[k]
           body == EncodeEnvironment(item)
           new == PutDoc("environments", old, body)
           des == Desired("environments", c)[k]
<1>1. /\ DOMAIN des \subseteq Environment \cap DOMAIN item
      /\ \A p \in DOMAIN des : des[p] = item[p]
      /\ \A p \in DOMAIN des \cap OmitEmpty : des[p] # {}
  BY DesiredFields DEF JSONFields
<1>2. Decode("environments", item, new) = View("environments", new)
  BY DEF View, Decode
<1>3. /\ "reviewers" \in DOMAIN body
      /\ \A q \in (DOMAIN item \cap Environment) \ {"reviewers"} : q \in DOMAIN body /\ body[q] = item[q]
      /\ "reviewers" \in DOMAIN item => body["reviewers"] = item["reviewers"] \cap NumericIds
  BY DEF EncodeEnvironment, Overlay, Only, Restrict
<1>4. \A q \in DOMAIN body : q \in DOMAIN new /\ new[q] = body[q]
  BY DEF PutDoc, Overlay
<1>5. \A q \in Environment \cap DOMAIN item :
        q \in BranchPolicy \cup {"deployment_branch_policy"} =>
            "deployment_branch_policy" \in DOMAIN item /\ item["deployment_branch_policy"] = "on"
  BY SchemaAssumption DEF SchemaAssumption
<1>6. /\ "wait_timer" \in DOMAIN item => item["wait_timer"] # 0
      /\ "reviewers" \in DOMAIN item => item["reviewers"] \subseteq NumericIds
      /\ "prevent_self_review" \in DOMAIN item =>
           "reviewers" \in DOMAIN item /\ item["reviewers"] # {}
  BY DEF EnvironmentsCanBeTold
<1> HIDE DEF body, new, des, item
<1> SUFFICES ASSUME NEW p \in DOMAIN des
             PROVE  /\ p \in DOMAIN View("environments", new)
                    /\ View("environments", new)[p] = des[p]
  BY <1>2 DEF Fields, body, new, des, item
<1>7. p \in Environment /\ p \in DOMAIN item /\ des[p] = item[p]
  BY <1>1
<1>8. p \in DOMAIN new /\ new[p] = item[p]
  <2>1. CASE p = "reviewers"
    BY <1>3, <1>4, <1>6, <1>7, <2>1
  <2>2. CASE p # "reviewers"
    BY <1>3, <1>4, <1>7, <2>2
  <2> QED
    BY <2>1, <2>2
<1>9. p = "wait_timer" => new[p] # 0
  BY <1>6, <1>7, <1>8
<1>10. p \in {"reviewers", "prevent_self_review"} => new["reviewers"] # {}
  <2>1. "reviewers" \in DOMAIN item => new["reviewers"] = item["reviewers"]
    BY <1>3, <1>4, <1>6
  <2>2. p = "reviewers" => item[p] # {}
    BY <1>1, <1>7 DEF OmitEmpty
  <2> QED
    BY <1>6, <1>7, <2>1, <2>2
<1>11. p \notin {"wait_timer", "reviewers", "prevent_self_review"} =>
         new["deployment_branch_policy"] = "on"
  <2>1. p \in BranchPolicy \cup {"deployment_branch_policy", "wait_timer", "reviewers", "prevent_self_review"}
    BY <1>7 DEF Environment, BranchPolicy
  <2>2. "deployment_branch_policy" \in Environment \ {"reviewers"}
    BY DEF Environment
  <2> QED
    BY <1>3, <1>4, <1>5, <1>7, <2>1, <2>2
<1> QED
  BY <1>7, <1>8, <1>9, <1>10, <1>11, EnvironmentView

(*----------------------------- the invariant -----------------------------*)

\* The sections that are loaded name a role for every collaborator, the
\* events of a hook that states them, and the material of every deploy key.
Loaded ==
    /\ lane = "deploy_keys" => \A k \in DOMAIN cfg : "key" \in DOMAIN cfg[k] /\ cfg[k]["key"] # ""
    /\ lane = "collaborators" => \A k \in DOMAIN cfg : isValidPermission(cfg[k])
    /\ lane = "webhooks" => \A k \in DOMAIN cfg : "events" \in DOMAIN cfg[k] => cfg[k]["events"] # {}

\* What is declared was accepted, and stays as it is.
LEMMA SectionIsLoaded == /\ Init => Loaded
                         /\ Loaded /\ [Next]_vars => Loaded'
<1>1. Init => Loaded
  BY DEF Init, Loaded, Accepted, Section, FileOf, ValidateCollaboratorsFile, ValidateWebhooksFile,
             ValidateDeployKeysFile
<1>2. Loaded /\ [Next]_vars => Loaded'
  <2> SUFFICES ASSUME Loaded, [Next]_vars PROVE Loaded'
    OBVIOUS
  <2>1. UNCHANGED <<lane, cfg>>
    BY DEF Next, Step, Fetch, Send, Report, Prefetch, CallFails, HangUp, Crash, Edit, vars
  <2> QED
    BY <2>1 DEF Loaded
<1> QED
  BY <1>1, <1>2

\* Every item of k says v of field p, and there is one.
Told(k, p, v) ==
    /\ WithKey(github, k) # {}
    /\ \A i \in WithKey(github, k) : Tells(lane, github[i].doc, p, v)

\* What an entry has left to send makes up for what GitHub does not say yet;
\* the first of two runs of Pages need not.
Left(k) ==
    LET s == todo[k]  des == Desired(lane, cfg)[k] IN
    IF k \in DOMAIN cfg
    THEN /\ lane = "environments" => s = <<Call("put", k, 0, EncodeEnvironment(cfg[k]))>>
         /\ lane \in FieldLanes /\ (lane # "pages" \/ quiet # 0) =>
              /\ Carries(s, lane, des, {})
              /\ \A p \in DOMAIN des : States(s, p) \/ Told(k, p, des[p])
    ELSE Len(s) = 1 /\ s[1].op \in {"remove", "delete"}

\* GitHub has k as it is declared, or has no k that is not.
AsDeclared(k) ==
    IF k \in DOMAIN cfg
    THEN /\ lane # "secrets" => WithKey(github, k) # {}
         /\ \A i \in WithKey(github, k) :
               Fields(Decode(lane, cfg[k], github[i].doc), Desired(lane, cfg)[k]) = {}
    ELSE lane \in ListingLanes => WithKey(github, k) = {}

\* What n undisturbed runs in a row make of k: the first of Pages sees to it
\* that there is an item.
Met(k, n) ==
    IF lane = "pages" /\ n = 1 THEN k \in DOMAIN cfg => WithKey(github, k) # {}
    ELSE AsDeclared(k)

\* The keys a section or GitHub has.
Keys == DOMAIN cfg \cup {github[i].key : i \in DOMAIN github}

\* An undisturbed run has for every key what it needs, and leaves it declared.
SettleInv ==
    lane # "deploy_keys" =>
        /\ phase = "applying" /\ ~disturbed =>
             \A k \in Keys \cup DOMAIN todo :
                IF k \in DOMAIN todo /\ result[k] = "none" THEN Left(k) ELSE Met(k, quiet + 1)
        /\ phase = "idle" /\ quiet # 0 => \A k \in Keys : Met(k, quiet)

\* The declared fields of a protection record have the schema's types.
LEMMA DesiredTypes ==
    ASSUME "branches" \in DOMAIN Configs, NEW c \in Configs["branches"], NEW k \in DOMAIN c,
           NEW p \in DOMAIN Desired("branches", c)[k]
    PROVE  LET v == Desired("branches", c)[k][p] IN
           /\ p \in BranchFlags => v \in BOOLEAN
           /\ p \in Containers => v \in {"on", "off"}
<1> DEFINE full == NormalizeBranch(c[k])
           v == Desired("branches", c)[k][p]
<1>1. Desired("branches", c)[k] = ToMap(full, BranchProtection)
  BY DEF Desired, Normalize, JSONFields
<1> HIDE DEF full
<1>2. p \in DOMAIN full /\ v = full[p]
  BY <1>1 DEF ToMap, Only, Restrict
<1> HIDE DEF v
<1>3. /\ p \in BranchFlags => p \notin Containers
      /\ p \in BranchFlags \cup Containers =>
           p \notin {"required_status_checks.contexts", "restrictions.users", "restrictions.teams",
                     "required_status_checks.strict"}
  BY DEF BranchFlags, Containers
<1>4. p \in BranchFlags \cup Containers =>
        full[p] = IF p \in DOMAIN c[k] THEN c[k][p] ELSE IF p \in BranchFlags THEN FALSE ELSE "off"
  BY <1>2, <1>3 DEF full, NormalizeBranch, Complete, Overlay
<1>5. p \in DOMAIN c[k] => /\ p \in BranchFlags => c[k][p] \in BOOLEAN
                           /\ p \in Containers => c[k][p] \in {"on", "off"}
  BY SchemaAssumption DEF SchemaAssumption
<1>6. /\ p \in BranchFlags => v \in BOOLEAN
      /\ p \in Containers => v \in {"on", "off"}
  BY <1>2, <1>3, <1>4, <1>5
<1> QED
  BY <1>6 DEF v

\* An answered call does what was left for it to do.
LEMMA SendLeaves ==
    ASSUME IInv, IInv', ListsNameTheirMode, EnvironmentsCanBeTold, Loaded, lane # "deploy_keys",
           NEW k \in DOMAIN todo, result[k] = "none", Left(k),
           Accepts(lane, github, Head(todo[k])),
           github' = Apply(lane, github, Head(todo[k]), Fresh),
           UNCHANGED <<lane, cfg, plan, quiet>>, todo'[k] = Tail(todo[k])
    PROVE  IF Len(todo[k]) = 1 THEN Met(k, quiet + 1)' ELSE Left(k)'
<1> DEFINE s == todo[k]
           t == Tail(todo[k])
           c == Head(todo[k])
           des == Desired(lane, cfg)[k]
<1>0. /\ lane \in LaneNames /\ quiet \in 0..2
      /\ lane \in DOMAIN Configs /\ cfg \in Configs[lane]
  BY LaneRunsAssumption DEF IInv, RunTypes
<1>1. IsCalls(s, k, plan[k].id) /\ Len(s) # 0
  BY DEF IInv, CallsInv
<1>2. c = s[1] /\ c.op \in Ops /\ 1 \in 1..Len(s)
  BY <1>1, NextCall
<1>3. /\ Len(t) = Len(s) - 1 /\ Len(s) \in Nat \ {0}
      /\ \A n \in 1..(Len(s) - 1) : t[n] = s[n + 1]
  BY <1>1, TailCalls
<1>4. /\ c.op \in Builds => WithKey(github', k) # {}
      /\ c.op \in {"remove", "delete"} => WithKey(github', k) = {}
      /\ \A i \in WithKey(github', k) :
           /\ c.op \in {"merge", "patch"} =>
                i \in WithKey(github, k) /\ github'[i].doc = Overlay(c.body, github[i].doc)
           /\ c.op = "post" => github'[i].doc = Overlay(c.body, Defaults[lane])
           /\ c.op = "put" =>
                \/ i \in WithKey(github, k) /\ github'[i].doc = PutDoc(lane, github[i].doc, c.body)
                \/ WithKey(github, k) = {} /\ github'[i].doc = PutDoc(lane, [p \in {} |-> 0], c.body)
  BY <1>1, WrittenDocs
<1>5. CASE k \notin DOMAIN cfg
  <2>1. Len(s) = 1 /\ c.op \in {"remove", "delete"}
    BY <1>2, <1>5 DEF Left
  <2> QED
    BY <1>4, <1>5, <2>1 DEF AsDeclared, Met
<1>7. CASE k \in DOMAIN cfg /\ lane = "environments"
  <2> DEFINE body == EncodeEnvironment(cfg[k])
  <2>1. s = <<Call("put", k, 0, body)>>
    BY <1>7 DEF Left
  <2>2. Len(s) = 1 /\ c.op = "put" /\ c.body = body
    BY <1>2, <2>1 DEF Call
  <2>3. WithKey(github', k) # {}
    BY <1>4, <2>2 DEF Builds
  <2>4. ASSUME NEW i \in WithKey(github', k)
        PROVE  Fields(Decode(lane, cfg[k], github'[i].doc), Desired(lane, cfg)[k]) = {}
    <3>1. PICK old : github'[i].doc = PutDoc(lane, old, body)
      BY <1>4, <2>2
    <3> QED
      BY <1>0, <1>7, <3>1, EnvironmentIsTold
  <2>5. AsDeclared(k)'
    BY <1>7, <2>3, <2>4 DEF AsDeclared
  <2> QED
    BY <1>7, <2>2, <2>5 DEF Met
<1>8. CASE k \in DOMAIN cfg /\ lane = "pages" /\ quiet = 0
  <2>1. Len(s) = 1 => c.op \in Builds
    BY <1>2, <1>8 DEF IInv, CallsInv
  <2>2. Len(s) = 1 => Met(k, quiet + 1)'
    BY <1>4, <1>8, <2>1 DEF Met
  <2>3. Left(k)'
    BY <1>8 DEF Left
  <2> QED
    BY <2>2, <2>3
<1>6. CASE k \in DOMAIN cfg /\ lane # "environments" /\ (lane # "pages" \/ quiet # 0)
  <2> HIDE DEF c, s, t, des
  <2>0. lane \in FieldLanes
    BY <1>0, <1>6 DEF FieldLanes
  <2>1. /\ \A n \in 1..Len(s) : Right(lane, des, s[n].body)
        /\ c.op \in {"post", "delete"} => \A p \in DOMAIN des : States(s, p)
        /\ c.op = "delete" => DOMAIN c.body = {}
        /\ c.op = "put" => DOMAIN des \ Apart(lane) \subseteq DOMAIN c.body
        /\ lane = "collaborators" => Len(s) = 1 /\ c.op = "put"
        /\ \A p \in DOMAIN des : States(s, p) \/ Told(k, p, des[p])
    BY <1>2, <1>6, <2>0 DEF Left, Carries, s, des
  <2>2. \A p : States(s, p) => p \in DOMAIN c.body \/ States(t, p)
    <3> SUFFICES ASSUME NEW p, NEW n \in 1..Len(s), p \in DOMAIN s[n].body, p \notin DOMAIN c.body
                 PROVE  States(t, p)
      BY DEF States
    <3>1. n # 1
      BY <1>2
    <3>2. n - 1 \in 1..Len(t) /\ t[n - 1] = s[n]
      <4>1. n - 1 \in 1..(Len(s) - 1) /\ (n - 1) + 1 = n
        BY <1>3, <3>1
      <4> QED
        BY <1>3, <4>1
    <3> QED
      BY <3>2 DEF States
  <2>3. /\ lane = "branches" => DOMAIN Defaults[lane] \subseteq {"required_signatures"}
        /\ \A p \in DOMAIN des :
             /\ lane = "branches" /\ p \in BranchFlags => des[p] \in BOOLEAN
             /\ lane = "branches" /\ p \in Containers => des[p] \in {"on", "off"}
             /\ lane = "collaborators" => p = "permission" /\ des[p] # ""
    <3>1. lane \in DOMAIN Configs /\ cfg \in Configs[lane]
      BY <1>0
    <3>2. ASSUME lane = "collaborators", NEW p \in DOMAIN des PROVE p = "permission" /\ des[p] # ""
      <4>1. p = "permission" /\ des[p] = cfg[k][p]
        BY <1>6, <3>2, DesiredFields DEF des, JSONFields
      <4> QED
        BY <1>6, <3>2, <4>1 DEF Loaded, isValidPermission, OneOf, Permissions
    <3>3. ASSUME lane = "branches", NEW p \in DOMAIN des
          PROVE  /\ p \in BranchFlags => des[p] \in BOOLEAN
                 /\ p \in Containers => des[p] \in {"on", "off"}
      BY <1>6, <3>1, <3>3, DesiredTypes DEF des
    <3>4. lane = "branches" => DOMAIN Defaults[lane] \subseteq {"required_signatures"}
      BY <3>1, SchemaAssumption DEF SchemaAssumption
    <3> QED
      BY <3>2, <3>3, <3>4
  <2>4. ASSUME NEW p \in DOMAIN des PROVE States(t, p) \/ Told(k, p, des[p])'
    <3> SUFFICES ASSUME ~States(t, p) PROVE Told(k, p, des[p])'
      OBVIOUS
    <3>1. p \in DOMAIN c.body \/ (~States(s, p) /\ Told(k, p, des[p]))
      BY <2>1, <2>2
    <3>2. p \in DOMAIN c.body => Means(lane, p, c.body[p]) = des[p]
      BY <1>2, <2>1 DEF Right
    <3>3. c.op \in {"post", "delete"} => p \in DOMAIN c.body
      BY <2>1, <3>1
    <3>4. c.op = "put" /\ p \notin DOMAIN c.body => lane = "branches" /\ p = "required_signatures"
      BY <2>1 DEF Apart
    <3>5. c.op \in Builds
      <4>1. CASE Len(s) = 1
        BY <1>2, <1>6, <4>1 DEF IInv, CallsInv, s
      <4>2. CASE Len(s) # 1
        <5>1. 1 \in 1..(Len(s) - 1)
          BY <1>3, <4>2
        <5>2. c.op \in {"put", "merge", "delete"}
          BY <1>1, <1>2, <5>1 DEF IsCalls
        <5>3. c.op # "delete"
          BY <2>1, <3>1, <3>3
        <5> QED
          BY <5>2, <5>3 DEF Builds
      <4> QED
        BY <4>1, <4>2
    <3>6. ASSUME NEW i \in WithKey(github', k) PROVE Tells(lane, github'[i].doc, p, des[p])
      <4>1. CASE c.op \in {"merge", "patch"}
        <5>1. i \in WithKey(github, k) /\ github'[i].doc = Overlay(c.body, github[i].doc)
          BY <1>4, <4>1
        <5>2. p \notin DOMAIN c.body => Tells(lane, github[i].doc, p, des[p])
          BY <3>1, <5>1 DEF Told
        <5>3. lane # "collaborators"
          BY <2>1, <4>1
        <5> QED
          BY <2>0, <3>2, <5>1, <5>2, <5>3, OverlayTells
      <4>2. CASE c.op = "post"
        <5>1. github'[i].doc = Overlay(c.body, Defaults[lane]) /\ p \in DOMAIN c.body
          BY <1>4, <3>3, <4>2
        <5>2. lane # "collaborators"
          BY <2>1, <4>2
        <5> QED
          BY <2>0, <3>2, <5>1, <5>2, OverlayTells
      <4>3. CASE c.op = "put"
        <5>1. ASSUME p \in DOMAIN c.body, NEW old PROVE Tells(lane, PutDoc(lane, old, c.body), p, des[p])
          BY <2>0, <2>3, <3>2, <5>1, PutTells
        <5>2. ASSUME p \notin DOMAIN c.body
              PROVE  /\ i \in WithKey(github, k) /\ github'[i].doc = PutDoc(lane, github[i].doc, c.body)
                     /\ Tells(lane, github[i].doc, p, des[p])
          BY <1>4, <3>1, <4>3, <5>2 DEF Told
        <5>3. ASSUME p \notin DOMAIN c.body PROVE Tells(lane, github'[i].doc, p, des[p])
          <6>1. /\ lane = "branches" /\ p = "required_signatures"
                /\ github'[i].doc = PutDoc(lane, github[i].doc, c.body)
                /\ Tells(lane, github[i].doc, p, des[p])
            BY <3>4, <4>3, <5>2, <5>3
          <6>2. Tells(lane, PutDoc(lane, github[i].doc, c.body), p, des[p])
            BY <2>0, <2>3, <5>3, <6>1, PutTells
          <6> QED
            BY <6>1, <6>2
        <5> QED
          BY <1>4, <4>3, <5>1, <5>3
      <4> QED
        BY <3>5, <4>1, <4>2, <4>3 DEF Builds
    <3> QED
      BY <1>4, <3>5, <3>6 DEF Told, des
  <2>5. CASE Len(s) = 1
    <3>1. c.op \in Builds
      BY <1>2, <1>6, <2>5 DEF IInv, CallsInv, s
    <3>2. \A p : ~States(t, p)
      BY <1>3, <2>5 DEF States
    <3>3. WithKey(github', k) # {}
      BY <1>4, <3>1
    <3>4. \A p \in DOMAIN des : Told(k, p, des[p])'
      BY <2>4, <3>2
    <3>5. lane = "actions" /\ DOMAIN cfg[k] \cap ActionsAllowListFields # {} => Selects(cfg[k])
      BY <1>6 DEF IInv, RunTypes, ListsNameTheirMode
    <3>6. ASSUME NEW i \in WithKey(github', k)
          PROVE  Fields(Decode(lane, cfg[k], github'[i].doc), Desired(lane, cfg)[k]) = {}
      <4>1. \A p \in DOMAIN Desired(lane, cfg)[k] : Tells(lane, github'[i].doc, p, Desired(lane, cfg)[k][p])
        BY <3>4 DEF Told, des
      <4> QED
        BY <1>6, <2>0, <3>5, <4>1, TellsRead
    <3>7. AsDeclared(k)'
      BY <1>6, <3>3, <3>6 DEF AsDeclared
    <3>8. Met(k, quiet + 1)'
      BY <1>0, <1>6, <3>7 DEF Met
    <3> QED
      BY <2>5, <3>8 DEF s
  <2>6. CASE Len(s) # 1
    <3>1. 1 \in 1..(Len(s) - 1) /\ t[1] = s[1 + 1]
      BY <1>3, <2>6
    <3>2. \/ c.op \in {"put", "merge"} /\ t[1].op = "merge"
          \/ c.op = "delete" /\ t[1].op = "post"
      BY <1>1, <1>2, <3>1 DEF IsCalls
    <3>3. \A n \in 1..Len(t) : Right(lane, des, t[n].body)
      <4>1. \A n \in 1..Len(t) : n + 1 \in 1..Len(s) /\ t[n] = s[n + 1]
        BY <1>3
      <4> QED
        BY <2>1, <4>1
    <3>4. t[1].op = "post" => \A p \in DOMAIN des : States(t, p)
      BY <2>1, <2>2, <3>2
    <3>5. Carries(t, lane, des, {})
      BY <2>1, <2>6, <3>2, <3>3, <3>4 DEF Carries
    <3>6. todo'[k] = t
      BY DEF t
    <3>7. Left(k)'
      BY <1>6, <2>0, <2>4, <3>5, <3>6 DEF Left, des
    <3> QED
      BY <2>6, <3>7 DEF s
  <2> QED
    BY <2>5, <2>6
<1> QED
  BY <1>0, <1>5, <1>6, <1>7, <1>8

\* What a run deletes it deletes with one call.
LEMMA DeleteCalls ==
    ASSUME NEW l \in ListingLanes, l # "deploy_keys", NEW c, NEW k, k \notin DOMAIN c,
           NEW d, d.action = "delete"
    PROVE  LET s == Mutate(l, k, d, c) IN Len(s) = 1 /\ s[1].op \in {"remove", "delete"}
<1> DEFINE s == Mutate(l, k, d, c)
<1>1. ~Pending(l, k, d, c)
  BY DEF Pending
<1>2. s = <<Bare("remove", k, 0)>> \/ s = <<Bare("delete", k, d.id)>>
  <2>1. CASE l \in {"teams", "collaborators", "environments", "variables", "secrets"}
    BY <1>1, <2>1 DEF Mutate, TeamsMutate, CollaboratorsMutate, EnvironmentsMutate, VariablesMutate,
                      SecretsMutate
  <2>2. CASE l \in {"webhooks", "rulesets"}
    BY <1>1, <2>2 DEF Mutate, WebhooksMutate, RulesetsMutate
  <2>3. CASE l = "autolinks"
    <3> DEFINE gone == Bare("delete", k, d.id)
    <3>1. s = <<gone>> \o <<>>
      BY <1>1, <2>3 DEF Mutate, AutolinksMutate
    <3> HIDE DEF gone
    <3>2. <<gone>> \o <<>> = <<gone>>
      OBVIOUS
    <3> QED
      BY <3>1, <3>2 DEF gone
  <2> QED
    BY <2>1, <2>2, <2>3 DEF ListingLanes
<1> HIDE DEF s
<1>3. Bare("remove", k, 0).op = "remove" /\ Bare("delete", k, d.id).op = "delete"
  BY DEF Bare, Call
<1>4. Len(s) = 1 /\ s[1] \in {Bare("remove", k, 0), Bare("delete", k, d.id)}
  BY <1>2
<1> QED
  BY <1>3, <1>4 DEF s

\* No two deploy keys of the repository share a title, and none whose material
\* is declared has another declared title.  GitHub ensures neither.
TitlesAreKeys ==
    lane = "deploy_keys" =>
        /\ \A i, j \in DOMAIN github : github[i].key = github[j].key => i = j
        /\ \A i \in DOMAIN github, k \in DOMAIN cfg :
              github[i].doc["key"] = cfg[k]["key"] =>
                  github[i].key = k \/ github[i].key \notin DOMAIN cfg

\* The plan of a run whose record, if any, GitHub still bears out.
LEMMA TruePlan ==
    ASSUME IInv, TitlesAreKeys, NEW records \in {{}, batch},
           \A p \in records : p.of = github
    PROVE  LET made == PlanFrom(Seen(records)) IN
           /\ \A k \in DOMAIN cfg :
                /\ k \in DOMAIN made
                /\ WithKey(github, k) = {} =>
                     made[k].action = "create" /\ made[k].changes = DOMAIN Desired(lane, cfg)[k]
                /\ \A i \in WithKey(github, k) :
                     LET shown == Fields(Decode(lane, cfg[k], github[i].doc), Desired(lane, cfg)[k])
                     IN  /\ made[k].changes = shown
                         /\ made[k].action = IF shown = {} THEN "noop" ELSE "update"
           /\ \A k \in DOMAIN made \ DOMAIN cfg : lane \in ListingLanes /\ made[k].action = "delete"
           /\ lane \in ListingLanes => \A k : WithKey(github, k) # {} => k \in DOMAIN made
<1> DEFINE desired == Desired(lane, cfg)
           live == Live(lane, cfg, github)
           seen == Seen(records)
           made == PlanFrom(seen)
<1>1. PICK n \in Nat : DOMAIN github \subseteq 1..n
  BY DEF IInv, IdsInv
<1>2. \A k : k \in DOMAIN live <=>
               WithKey(github, k) # {} /\ (lane \in ListingLanes \/ k \in DOMAIN cfg)
  BY <1>1, LiveItems
<1>3. ASSUME NEW k \in DOMAIN cfg, NEW i \in WithKey(github, k)
      PROVE  live[k].doc = Decode(lane, cfg[k], github[i].doc)
  <2>1. k \in DOMAIN live
    BY <1>2, <1>3
  <2>2. k \in DOMAIN IndexBy(github) /\ IndexBy(github)[k].id \in WithKey(github, k)
        /\ IndexBy(github)[k].doc = github[IndexBy(github)[k].id].doc
    BY <1>1, <1>3, Indexed
  <2>3. live[k].doc = Decode(lane, cfg[k], IndexBy(github)[k].doc)
    BY <2>1 DEF Live
  <2>4. IndexBy(github)[k].id = i
    BY <1>3, <2>2 DEF IInv, StoreInv, TitlesAreKeys, WithKey
  <2> QED
    BY <2>2, <2>3, <2>4
<1>4. DOMAIN desired = DOMAIN cfg
  BY DesiredFields
<1>5. /\ DOMAIN seen = DOMAIN live
      /\ \A k \in DOMAIN cfg \cap DOMAIN live :
            Fields(seen[k].doc, desired[k]) = Fields(live[k].doc, desired[k])
  <2>1. CASE \E p \in records : usablePrefetch(p, desired)
    <3>1. PICK p : records = {p} /\ p \in batch
      BY <2>1 DEF IInv, BatchInv
    <3>2. (CHOOSE q \in records : TRUE) = p
      BY <3>1
    <3>3. seen = liveRepoFrom(p, desired)
      BY <2>1, <3>2 DEF Seen
    <3>4. p.of = github /\ usablePrefetch(p, desired)
      BY <2>1, <3>1
    <3> QED
      BY <3>1, <3>3, <3>4, RecordFields
  <2>2. CASE ~\E p \in records : usablePrefetch(p, desired)
    BY <2>2 DEF Seen
  <2> QED
    BY <2>1, <2>2
<1>6. DOMAIN made = DOMAIN seen \cup DOMAIN desired
  BY DEF PlanFrom, NamedList
<1>7. \A k \in DOMAIN made :
        /\ k \notin DOMAIN seen => made[k].action = "create" /\ made[k].changes = DOMAIN desired[k]
        /\ k \in DOMAIN seen /\ k \notin DOMAIN desired => made[k].action = "delete"
        /\ k \in DOMAIN seen /\ k \in DOMAIN desired =>
             /\ made[k].changes = Fields(seen[k].doc, desired[k])
             /\ made[k].action = IF made[k].changes = {} THEN "noop" ELSE "update"
  BY PlanEntry DEF PlanFrom
<1> HIDE DEF live, seen, made, desired
<1>8. \A k \in DOMAIN cfg :
        /\ k \in DOMAIN made
        /\ WithKey(github, k) = {} => made[k].action = "create" /\ made[k].changes = DOMAIN desired[k]
        /\ \A i \in WithKey(github, k) :
             LET shown == Fields(Decode(lane, cfg[k], github[i].doc), desired[k])
             IN  /\ made[k].changes = shown
                 /\ made[k].action = IF shown = {} THEN "noop" ELSE "update"
  <2> SUFFICES ASSUME NEW k \in DOMAIN cfg
               PROVE  /\ k \in DOMAIN made
                      /\ WithKey(github, k) = {} =>
                           made[k].action = "create" /\ made[k].changes = DOMAIN desired[k]
                      /\ \A i \in WithKey(github, k) :
                           LET shown == Fields(Decode(lane, cfg[k], github[i].doc), desired[k])
                           IN  /\ made[k].changes = shown
                               /\ made[k].action = IF shown = {} THEN "noop" ELSE "update"
    OBVIOUS
  <2>1. k \in DOMAIN made
    BY <1>4, <1>6
  <2>2. CASE WithKey(github, k) = {}
    BY <1>2, <1>5, <1>7, <2>1, <2>2
  <2>3. ASSUME NEW i \in WithKey(github, k)
        PROVE  LET shown == Fields(Decode(lane, cfg[k], github[i].doc), desired[k])
               IN  /\ made[k].changes = shown
                   /\ made[k].action = IF shown = {} THEN "noop" ELSE "update"
    <3>1. k \in DOMAIN live /\ k \in DOMAIN seen /\ k \in DOMAIN desired
      BY <1>2, <1>4, <1>5, <2>3
    <3>2. made[k].changes = Fields(live[k].doc, desired[k])
      BY <1>5, <1>7, <2>1, <3>1
    <3> QED
      BY <1>3, <1>7, <2>1, <2>3, <3>1, <3>2
  <2> QED
    BY <2>1, <2>2, <2>3
<1>9. \A k \in DOMAIN made \ DOMAIN cfg : lane \in ListingLanes /\ made[k].action = "delete"
  BY <1>2, <1>4, <1>5, <1>6, <1>7
<1>10. lane \in ListingLanes => \A k : WithKey(github, k) # {} => k \in DOMAIN made
  BY <1>2, <1>5, <1>6
<1> QED
  BY <1>8, <1>9, <1>10 DEF made, seen, desired

\* A run that starts undisturbed has for every key what it needs.
LEMMA FetchSettles ==
    ASSUME IInv, SettleInv, NEW records \in {{}, batch}, Fetch(records)
    PROVE  SettleInv'
<1> DEFINE made == PlanFrom(Seen(records))
           todo1 == [k \in Actionable(made) |-> Mutate(lane, k, made[k], cfg)]
<1>1. /\ phase' = "applying" /\ plan' = made /\ todo' = todo1
      /\ result' = [k \in Actionable(made) |->
                       IF Pending(lane, k, made[k], cfg) THEN "pending" ELSE "none"]
      /\ disturbed' = (\E p \in records : p.of # github)
      /\ UNCHANGED <<lane, cfg, github>>
  BY DEF Fetch
<1>0. phase = "idle" /\ quiet' = quiet /\ quiet \in 0..2
  BY DEF Fetch, IInv, RunTypes
<1> SUFFICES ASSUME lane # "deploy_keys", ~disturbed', NEW k
             PROVE  IF k \in DOMAIN todo' /\ result'[k] = "none" THEN Left(k)' ELSE Met(k, quiet + 1)'
  BY <1>1 DEF SettleInv
<1>10. AsDeclared(k)' => Met(k, quiet + 1)'
  BY DEF AsDeclared, Met
<1> SUFFICES IF k \in DOMAIN todo' /\ result'[k] = "none" THEN Left(k)' ELSE AsDeclared(k)'
  BY <1>10
<1>2. lane # "deploy_keys" /\ \A p \in records : p.of = github
  BY <1>1
<1>3. /\ \A j \in DOMAIN cfg :
           /\ j \in DOMAIN made
           /\ WithKey(github, j) = {} =>
                made[j].action = "create" /\ made[j].changes = DOMAIN Desired(lane, cfg)[j]
           /\ \A i \in WithKey(github, j) :
                LET shown == Fields(Decode(lane, cfg[j], github[i].doc), Desired(lane, cfg)[j])
                IN  /\ made[j].changes = shown
                    /\ made[j].action = IF shown = {} THEN "noop" ELSE "update"
      /\ \A j \in DOMAIN made \ DOMAIN cfg : lane \in ListingLanes /\ made[j].action = "delete"
      /\ lane \in ListingLanes => \A j : WithKey(github, j) # {} => j \in DOMAIN made
  BY <1>2, TruePlan DEF TitlesAreKeys
<1>4. k \in Actionable(made) =>
        /\ k \in DOMAIN made /\ made[k].action # "noop"
        /\ IsEntry(lane, cfg, k, made[k])
        /\ lane = "secrets" => made[k].action # "update"
  BY Entries DEF Actionable
<1>5. k \in DOMAIN made /\ k \notin Actionable(made) => made[k].action = "noop"
  BY DEF Actionable
<1> HIDE DEF made
<1>6. DOMAIN todo' = Actionable(made)
      /\ (k \in DOMAIN todo' => /\ todo'[k] = Mutate(lane, k, made[k], cfg)
                                /\ result'[k] = IF Pending(lane, k, made[k], cfg) THEN "pending" ELSE "none")
  BY <1>1
<1>7. CASE k \notin DOMAIN cfg
  <2>1. CASE k \in Actionable(made)
    <3>1. lane \in ListingLanes /\ made[k].action = "delete"
      BY <1>3, <1>4, <1>7, <2>1
    <3>2. ~Pending(lane, k, made[k], cfg)
      BY <1>2, <3>1 DEF Pending
    <3>3. Len(todo'[k]) = 1 /\ todo'[k][1].op \in {"remove", "delete"}
      BY <1>6, <1>7, <2>1, <3>1, DeleteCalls
    <3> QED
      BY <1>1, <1>6, <1>7, <2>1, <3>2, <3>3 DEF Left
  <2>2. CASE k \notin Actionable(made)
    <3>1. lane \in ListingLanes => WithKey(github, k) = {}
      BY <1>3, <1>5, <1>7, <2>2
    <3> QED
      BY <1>1, <1>6, <1>7, <2>2, <3>1 DEF AsDeclared, WithKey
  <2> QED
    BY <2>1, <2>2
<1>8. CASE k \in DOMAIN cfg
  <2> DEFINE des == Desired(lane, cfg)[k]
  <2> HIDE DEF des
  <2>1. ASSUME k \notin Actionable(made) PROVE AsDeclared(k)'
    <3>1. made[k].action = "noop"
      BY <1>3, <1>5, <1>8, <2>1
    <3>2. WithKey(github, k) # {}
      BY <1>3, <1>8, <3>1
    <3>3. \A i \in WithKey(github, k) : Fields(Decode(lane, cfg[k], github[i].doc), Desired(lane, cfg)[k]) = {}
      BY <1>3, <1>8, <3>1
    <3> QED
      BY <1>1, <1>8, <3>2, <3>3 DEF AsDeclared, WithKey
  <2>2. ASSUME k \in Actionable(made), Pending(lane, k, made[k], cfg) PROVE AsDeclared(k)'
    <3>1. lane = "secrets" /\ made[k].action = "create"
      BY <1>2, <2>2 DEF Pending
    <3>2. WithKey(github, k) = {}
      BY <1>3, <1>8, <3>1
    <3> QED
      BY <1>1, <1>8, <3>1, <3>2 DEF AsDeclared, WithKey
  <2>3. ASSUME k \in Actionable(made), ~Pending(lane, k, made[k], cfg) PROVE Left(k)'
    <3>1. IsEntry(lane, cfg, k, made[k]) /\ (lane = "secrets" => made[k].action # "update")
      BY <1>4, <2>3
    <3>2. /\ made[k].changes \subseteq DOMAIN des
          /\ made[k].action = "create" => made[k].changes = DOMAIN des /\ WithKey(github, k) = {}
          /\ made[k].action # "create" => WithKey(github, k) # {}
      BY <1>3, <1>8 DEF des, Fields
    <3>3. lane \in DOMAIN Configs /\ cfg \in Configs[lane]
      BY DEF IInv, RunTypes
    <3>8. ASSUME lane = "environments" PROVE Left(k)'
      <4>1. Mutate(lane, k, made[k], cfg) = <<Call("put", k, 0, EncodeEnvironment(cfg[k]))>>
        <5>1. made[k].action # "delete"
          BY <1>8, <3>1 DEF IsEntry
        <5> QED
          BY <1>8, <2>3, <3>8, <5>1 DEF Mutate, EnvironmentsMutate
      <4>2. lane' = "environments" /\ lane' \notin FieldLanes /\ k \in DOMAIN cfg'
            /\ todo'[k] = <<Call("put", k, 0, EncodeEnvironment(cfg'[k]))>>
        BY <1>1, <1>6, <1>8, <2>3, <3>8, <4>1 DEF FieldLanes
      <4> QED
        BY <4>2 DEF Left
    <3>9. ASSUME lane = "pages", quiet = 0 PROVE Left(k)'
      BY <1>0, <1>1, <1>8, <3>9 DEF Left
    <3> SUFFICES ASSUME lane # "environments", lane # "pages" \/ quiet # 0 PROVE Left(k)'
      BY <3>8, <3>9
    <3>10. lane \in FieldLanes
      BY <3>3, LaneRunsAssumption DEF FieldLanes
    <3>11. lane = "pages" => made[k].action = "update"
      <4>1. lane = "pages" => WithKey(github, k) # {}
        BY <1>0, <1>8 DEF SettleInv, Met, AsDeclared, Keys
      <4> QED
        BY <1>8, <3>1, <3>2, <4>1 DEF IsEntry
    <3>4. Carries(Mutate(lane, k, made[k], cfg), lane, des, made[k].changes)
      BY <1>8, <2>3, <3>1, <3>2, <3>3, <3>10, <3>11, MutateCarries DEF des
    <3>5. Carries(todo'[k], lane, des, {}) /\ \A p \in made[k].changes : States(todo'[k], p)
      BY <1>6, <2>3, <3>4 DEF Carries
    <3>6. ASSUME NEW p \in DOMAIN des, p \notin made[k].changes PROVE Told(k, p, des[p])
      <4>1. WithKey(github, k) # {}
        BY <3>2, <3>6
      <4>2. ASSUME NEW i \in WithKey(github, k) PROVE Tells(lane, github[i].doc, p, des[p])
        <5>1. /\ p \in DOMAIN Decode(lane, cfg[k], github[i].doc)
              /\ Decode(lane, cfg[k], github[i].doc)[p] = des[p]
          BY <1>3, <1>8, <3>6 DEF des, Fields
        <5>2. lane = "collaborators" => p = "permission"
          BY <1>8, <3>6, DesiredFields DEF des, JSONFields
        <5>3. Tells(lane, github[i].doc, p, Decode(lane, cfg[k], github[i].doc)[p])
          BY <3>10, <5>1, <5>2, ReadTells
        <5> QED
          BY <5>1, <5>3
      <4> QED
        BY <4>1, <4>2 DEF Told
    <3>7. \A p \in DOMAIN des : States(todo'[k], p) \/ Told(k, p, des[p])'
      BY <1>1, <3>5, <3>6 DEF Told, WithKey, des
    <3> QED
      BY <1>1, <1>8, <3>5, <3>7 DEF Left, des
  <2> QED
    BY <1>6, <2>1, <2>2, <2>3
<1> QED
  BY <1>7, <1>8

\* An answered call keeps every key's account right.
LEMMA SendSettles ==
    ASSUME IInv, IInv', ReadyInv, ModeInv, ListsNameTheirMode, EnvironmentsCanBeTold, Loaded, SettleInv,
           NEW k \in DOMAIN todo, Send(k)
    PROVE  SettleInv'
<1>1. result[k] = "none" /\ Len(todo[k]) # 0 /\ phase = "applying"
  BY DEF Send, MayGo, IInv, RunTypes, CallsInv, none
<1>2. UNCHANGED <<lane, cfg, phase, plan, disturbed, quiet>>
  BY DEF Send
<1> SUFFICES ASSUME lane # "deploy_keys", ~disturbed, NEW j \in Keys' \cup DOMAIN todo'
             PROVE  IF j \in DOMAIN todo' /\ result'[j] = "none" THEN Left(j)' ELSE Met(j, quiet + 1)'
  BY <1>1, <1>2 DEF SettleInv
<1>4. Accepts(lane, github, Head(todo[k]))
  BY <1>1, ReadyIsAccepted
<1>5. /\ github' = Apply(lane, github, Head(todo[k]), Fresh)
      /\ todo' = [todo EXCEPT ![k] = Tail(@)]
      /\ result' = [result EXCEPT ![k] = IF Len(todo[k]) = 1 THEN "ok" ELSE @]
  BY <1>4 DEF Send
<1>6. /\ DOMAIN todo' = DOMAIN todo
      /\ \A i \in DOMAIN todo : i # k => todo'[i] = todo[i] /\ result'[i] = result[i]
      /\ todo'[k] = Tail(todo[k])
      /\ result'[k] = IF Len(todo[k]) = 1 THEN "ok" ELSE "none"
  BY <1>1, <1>5 DEF IInv, RunTypes
<1>7. CASE j = k
  <2>1. Left(k)
    BY <1>1 DEF SettleInv
  <2>2. IF Len(todo[k]) = 1 THEN Met(k, quiet + 1)' ELSE Left(k)'
    BY <1>1, <1>2, <1>4, <1>5, <1>6, <2>1, SendLeaves
  <2> QED
    BY <1>6, <1>7, <2>2
<1>8. CASE j # k
  <2>1. WithKey(github', j) = WithKey(github, j)
        /\ \A i \in WithKey(github, j) : github'[i] = github[i]
    BY <1>1, <1>2, <1>4, <1>5, <1>8, CallKeeps
  <2>2. j \in Keys \cup DOMAIN todo
    BY <1>2, <1>6, <2>1 DEF Keys, WithKey
  <2>3. IF j \in DOMAIN todo /\ result[j] = "none" THEN Left(j) ELSE Met(j, quiet + 1)
    BY <1>1, <2>2 DEF SettleInv
  <2>4. Left(j) /\ j \in DOMAIN todo => Left(j)'
    BY <1>2, <1>6, <1>8, <2>1 DEF Left, Told
  <2>5. Met(j, quiet + 1) => Met(j, quiet + 1)'
    BY <1>2, <2>1 DEF AsDeclared, Met
  <2> QED
    BY <1>6, <1>8, <2>3, <2>4, <2>5
<1> QED
  BY <1>7, <1>8

\* A run that ends undisturbed leaves every key as declared, under new ids.
LEMMA ReportSettles ==
    ASSUME IInv, SettleInv, Report
    PROVE  SettleInv'
<1> DEFINE D == DOMAIN github
           rank(i) == Cardinality({j \in D : j <= i})
           m == Cardinality(D)
           at(r) == CHOOSE i \in D : rank(i) = r
<1>1. /\ github' = [r \in 1..m |-> github[at(r)]]
      /\ phase = "applying" /\ \A k \in DOMAIN result : result[k] # "none"
      /\ phase' = "idle" /\ quiet' = IF disturbed THEN 0 ELSE IF quiet < 2 THEN quiet + 1 ELSE 2
      /\ UNCHANGED <<lane, cfg>>
  BY DEF Report, Decided, EndRun, Renumbered
<1>2. PICK n \in Nat : D \in SUBSET (1..n)
  BY DEF IInv, IdsInv
<1>3. /\ m \in Nat
      /\ \A i \in D : rank(i) \in 1..m
      /\ \A i, j \in D : rank(i) = rank(j) => i = j
      /\ \A r \in 1..m : \E i \in D : rank(i) = r
  BY <1>2, Ranks
<1> HIDE DEF rank, m
<1>4. /\ \A r \in 1..m : at(r) \in D /\ rank(at(r)) = r
      /\ \A i \in D : at(rank(i)) = i
  BY <1>3
<1> HIDE DEF at
<1>5. /\ \A r \in DOMAIN github' : at(r) \in D /\ github'[r] = github[at(r)]
      /\ \A i \in D : rank(i) \in DOMAIN github' /\ github'[rank(i)] = github[i]
  BY <1>1, <1>3, <1>4
<1> SUFFICES ASSUME lane # "deploy_keys", quiet' # 0, NEW k \in Keys'
             PROVE  Met(k, quiet)'
  BY <1>1 DEF SettleInv
<1>6. ~disturbed
  BY <1>1
<1>7. k \in Keys
  BY <1>1, <1>5 DEF Keys
<1>8. Met(k, quiet + 1)
  BY <1>1, <1>6, <1>7 DEF SettleInv, IInv, RunTypes
<1>9. \A r \in WithKey(github', k) : at(r) \in WithKey(github, k) /\ github'[r] = github[at(r)]
  BY <1>5 DEF WithKey
<1>10. WithKey(github, k) # {} => WithKey(github', k) # {}
  BY <1>5 DEF WithKey
<1>11. AsDeclared(k) => AsDeclared(k)'
  BY <1>1, <1>9, <1>10 DEF AsDeclared
<1>12. quiet \in 0..2
  BY DEF IInv, RunTypes
<1>13. quiet' = 1 <=> quiet + 1 = 1
  BY <1>1, <1>6, <1>12
<1> QED
  BY <1>1, <1>8, <1>10, <1>11, <1>13 DEF Met

\* Every step does.
LEMMA NextSettles ==
    ASSUME ListsNameTheirMode, EnvironmentsCanBeTold
    PROVE  IInv /\ IInv' /\ ReadyInv /\ ModeInv /\ Loaded /\ SettleInv /\ [Next]_vars
             => Loaded' /\ SettleInv'
<1> SUFFICES ASSUME IInv, IInv', ReadyInv, ModeInv, Loaded, SettleInv, [Next]_vars
             PROVE  Loaded' /\ SettleInv'
  OBVIOUS
<1>1. Loaded'
  BY SectionIsLoaded
<1> SUFFICES SettleInv'
  BY <1>1
<1>2. CASE Fetch({}) \/ Fetch(batch)
  BY <1>2, FetchSettles
<1>3. CASE \E k \in DOMAIN todo : Send(k)
  BY <1>3, SendSettles
<1>4. CASE Report
  BY <1>4, ReportSettles
<1>5. CASE (\E k \in DOMAIN todo : CallFails(k)) \/ HangUp
  <2>1. disturbed' /\ phase' = "applying"
    BY <1>5 DEF CallFails, HangUp, MayGo, IInv, RunTypes, none
  <2> QED
    BY <2>1 DEF SettleInv
<1>6. CASE Crash
  BY <1>6 DEF Crash, EndRun, SettleInv
<1>7. CASE Edit
  <2>1. quiet' = 0 /\ disturbed' = (phase = "applying") /\ phase' = phase
    BY <1>7 DEF Edit, run
  <2> QED
    BY <2>1 DEF SettleInv
<1>8. CASE UNCHANGED vars \/ Prefetch
  <2>1. UNCHANGED <<lane, cfg, github, phase, todo, result, disturbed, quiet>>
    BY <1>8 DEF vars, Prefetch, run
  <2>2. \A k : WithKey(github', k) = WithKey(github, k)
    BY <2>1
  <2>3. \A k, p, v : Told(k, p, v)' <=> Told(k, p, v)
    BY <2>1 DEF Told
  <2>4. \A k : Left(k)' <=> Left(k)
    BY <2>1, <2>3 DEF Left
  <2>5. \A k, n : Met(k, n)' <=> Met(k, n)
    BY <2>1 DEF AsDeclared, Met
  <2>6. Keys' = Keys
    BY <2>1 DEF Keys
  <2> QED
    BY <2>1, <2>4, <2>5, <2>6 DEF SettleInv
<1> QED
  BY <1>2, <1>3, <1>4, <1>5, <1>6, <1>7, <1>8 DEF Next, Step

\* Where everything is as declared, a read finds nothing to do.
LEMMA DeclaredIsSettled ==
    ASSUME IInv, TitlesAreKeys, \A k \in Keys : AsDeclared(k)
    PROVE  Settled
<1> DEFINE made == PlanFrom(Live(lane, cfg, github))
<1> SUFFICES ASSUME NEW k \in Actionable(made)
             PROVE  Pending(lane, k, made[k], cfg)
  BY DEF Settled
<1>1. Seen({}) = Live(lane, cfg, github)
  BY DEF Seen
<1>2. k \in DOMAIN made /\ made[k].action # "noop"
  BY DEF Actionable
<1>3. /\ \A j \in DOMAIN cfg :
           /\ WithKey(github, j) = {} => made[j].action = "create"
           /\ \A i \in WithKey(github, j) :
                made[j].action = IF Fields(Decode(lane, cfg[j], github[i].doc), Desired(lane, cfg)[j]) = {}
                                 THEN "noop" ELSE "update"
      /\ \A j \in DOMAIN made \ DOMAIN cfg : lane \in ListingLanes /\ made[j].action = "delete"
  BY <1>1, TruePlan
<1>4. k \notin DOMAIN cfg => WithKey(github, k) # {}
  <2>1. \A p \in {} : p.of = github
    OBVIOUS
  <2>2. made[k].action = "delete" => WithKey(github, k) # {}
    BY <1>1, <1>2, Entries
  <2> QED
    BY <1>2, <1>3, <2>2
<1> HIDE DEF made
<1>5. k \in Keys
  BY <1>4 DEF Keys, WithKey
<1>6. k \in DOMAIN cfg
  BY <1>2, <1>3, <1>4, <1>5 DEF AsDeclared
<1>7. WithKey(github, k) = {}
  BY <1>2, <1>3, <1>5, <1>6 DEF AsDeclared
<1>8. lane = "secrets" /\ made[k].action = "create"
  BY <1>3, <1>5, <1>6, <1>7 DEF AsDeclared
<1> QED
  BY <1>8 DEF Pending

(*------------------------------- deploy keys -----------------------------*)

\* What is left of an entry of k in a run that can carry it out: the key is
\* there to be deleted, and gone where it is created.
Turn(k) ==
    LET id == plan[k].id
        create == Call("post", k, 0, EncodeKey(cfg[k]))
    IN  \/ k \notin DOMAIN cfg /\ todo[k] = <<Bare("delete", k, id)>> /\ WithKey(github, k) = {id}
        \/ k \in DOMAIN cfg /\ todo[k] = <<Bare("delete", k, id), create>> /\ WithKey(github, k) = {id}
        \/ k \in DOMAIN cfg /\ todo[k] = <<create>> /\ WithKey(github, k) = {}

\* The first undisturbed run deletes what is not declared, which may hold the
\* material of what is; the second creates what is missing.
KeyInv ==
    lane = "deploy_keys" =>
        /\ phase = "applying" /\ ~disturbed =>
             \A k \in Keys \cup DOMAIN todo : k \notin DOMAIN cfg \/ quiet # 0 =>
                IF k \in DOMAIN todo /\ result[k] = "none" THEN Turn(k) ELSE AsDeclared(k)
        /\ quiet # 0 /\ ~disturbed => \A i \in DOMAIN github : github[i].key \in DOMAIN cfg
        /\ phase = "idle" /\ quiet = 2 => \A k \in Keys : AsDeclared(k)

\* The calls of an entry of a deploy key.
LEMMA KeyCalls ==
    ASSUME NEW c, NEW k, NEW d, d.action \in {"create", "update", "delete"},
           ~Pending("deploy_keys", k, d, c), k \in DOMAIN c <=> d.action # "delete"
    PROVE  LET s == Mutate("deploy_keys", k, d, c)
               gone == Bare("delete", k, d.id)
               create == Call("post", k, 0, EncodeKey(c[k]))
           IN  /\ d.action = "create" => s = <<create>>
               /\ d.action = "update" => s = <<gone, create>>
               /\ d.action = "delete" => s = <<gone>>
<1> DEFINE s == Mutate("deploy_keys", k, d, c)
           gone == Bare("delete", k, d.id)
           create == Call("post", k, 0, EncodeKey(c[k]))
           none0 == [p \in {} |-> 0]
           item == IF k \in DOMAIN c THEN c[k] ELSE none0
           des == IF k \in DOMAIN c THEN Desired("deploy_keys", c)[k] ELSE none0
<1>1. s = DeployKeysMutate(k, d, item, des)
  BY DEF Mutate
<1>2. k \in DOMAIN c => item = c[k]
  OBVIOUS
<1> HIDE DEF item, des
<1>3. s = (IF d.action = "create" THEN <<>> ELSE <<gone>>)
          \o (IF d.action = "delete" THEN <<>> ELSE <<create>>)
  BY <1>1, <1>2 DEF DeployKeysMutate
<1> HIDE DEF s, gone, create
<1>4. <<>> \o <<create>> = <<create>> /\ <<gone>> \o <<>> = <<gone>>
  OBVIOUS
<1>5. <<gone>> \o <<create>> = <<gone, create>>
  BY Pair
<1>6. /\ d.action = "create" => s = <<create>>
      /\ d.action = "update" => s = <<gone, create>>
      /\ d.action = "delete" => s = <<gone>>
  BY <1>3, <1>4, <1>5
<1> QED
  BY <1>6 DEF s, gone, create

\* A run that starts undisturbed can delete what is not declared and, if it is
\* not the first, create what is missing.
LEMMA FetchKeys ==
    ASSUME IInv, Loaded, TitlesAreKeys, KeyInv, NEW records \in {{}, batch}, Fetch(records)
    PROVE  KeyInv'
<1> DEFINE made == PlanFrom(Seen(records))
<1>1. /\ phase = "idle" /\ phase' = "applying" /\ plan' = made
      /\ todo' = [k \in Actionable(made) |-> Mutate(lane, k, made[k], cfg)]
      /\ result' = [k \in Actionable(made) |->
                       IF Pending(lane, k, made[k], cfg) THEN "pending" ELSE "none"]
      /\ disturbed' = (\E p \in records : p.of # github)
      /\ UNCHANGED <<lane, cfg, github, quiet>>
  BY DEF Fetch
<1> SUFFICES ASSUME lane = "deploy_keys", ~disturbed' PROVE KeyInv'
  BY <1>1 DEF KeyInv
<1>2. \A p \in records : p.of = github
  BY <1>1
<1>3. disturbed = FALSE
  BY <1>1 DEF IInv, RunTypes
<1>4. quiet # 0 => \A i \in DOMAIN github : github[i].key \in DOMAIN cfg
  BY <1>3 DEF KeyInv
<1>5. /\ \A k \in DOMAIN cfg :
           /\ k \in DOMAIN made
           /\ WithKey(github, k) = {} => made[k].action = "create"
           /\ \A i \in WithKey(github, k) :
                made[k].action = IF Fields(Decode(lane, cfg[k], github[i].doc), Desired(lane, cfg)[k]) = {}
                                 THEN "noop" ELSE "update"
      /\ \A k \in DOMAIN made \ DOMAIN cfg : made[k].action = "delete"
      /\ \A k : WithKey(github, k) # {} => k \in DOMAIN made
  BY <1>2, TruePlan DEF ListingLanes
<1>6. ASSUME NEW k \in Actionable(made)
      PROVE  /\ k \in DOMAIN made /\ made[k].action # "noop"
             /\ made[k].action = "create" => WithKey(github, k) = {}
             /\ made[k].action \in {"update", "delete"} => WithKey(github, k) = {made[k].id}
             /\ IsEntry(lane, cfg, k, made[k])
  <2>1. k \in DOMAIN made /\ made[k].action # "noop"
    BY <1>6 DEF Actionable
  <2>2. made[k].action \in {"update", "delete"} => made[k].id \in WithKey(github, k)
    BY <2>1, Entries
  <2>3. \A i \in WithKey(github, k) : made[k].id \in WithKey(github, k) => i = made[k].id
    BY DEF TitlesAreKeys, WithKey
  <2>4. IsEntry(lane, cfg, k, made[k]) /\ (made[k].action = "create" => WithKey(github, k) = {})
    BY <2>1, Entries
  <2> QED
    BY <2>1, <2>2, <2>3, <2>4
<1>7. \A k \in DOMAIN made \ Actionable(made) : made[k].action = "noop"
  BY DEF Actionable
<1> HIDE DEF made
<1>8. ASSUME NEW k, k \notin DOMAIN cfg \/ quiet # 0
      PROVE  IF k \in DOMAIN todo' /\ result'[k] = "none" THEN Turn(k)' ELSE AsDeclared(k)'
  <2>1. CASE k \in Actionable(made)
    <3>1. ~Pending(lane, k, made[k], cfg)
      BY <1>6, <2>1 DEF Pending, Loaded, IsEntry
    <3>2. k \in DOMAIN todo' /\ result'[k] = "none" /\ todo'[k] = Mutate("deploy_keys", k, made[k], cfg)
      BY <1>1, <2>1, <3>1
    <3>3. made[k].action \in {"create", "update", "delete"} /\ (k \in DOMAIN cfg <=> made[k].action # "delete")
      BY <1>6, <2>1 DEF IsEntry
    <3>4. /\ made[k].action = "create" => todo'[k] = <<Call("post", k, 0, EncodeKey(cfg[k]))>>
          /\ made[k].action = "update" =>
               todo'[k] = <<Bare("delete", k, made[k].id), Call("post", k, 0, EncodeKey(cfg[k]))>>
          /\ made[k].action = "delete" => todo'[k] = <<Bare("delete", k, made[k].id)>>
      BY <3>1, <3>2, <3>3, KeyCalls
    <3>5. /\ made[k].action = "create" => WithKey(github, k) = {}
          /\ made[k].action \in {"update", "delete"} => WithKey(github, k) = {made[k].id}
      BY <1>6, <2>1
    <3>6. Turn(k)'
      BY <1>1, <3>3, <3>4, <3>5 DEF Turn
    <3> QED
      BY <3>2, <3>6
  <2>2. CASE k \notin Actionable(made) /\ k \in DOMAIN cfg
    <3>1. made[k].action = "noop"
      BY <1>5, <1>7, <2>2
    <3>2. WithKey(github, k) # {}
          /\ \A i \in WithKey(github, k) :
                Fields(Decode(lane, cfg[k], github[i].doc), Desired(lane, cfg)[k]) = {}
      BY <1>5, <2>2, <3>1
    <3>3. AsDeclared(k)'
      BY <1>1, <2>2, <3>2 DEF AsDeclared, WithKey
    <3> QED
      BY <1>1, <2>2, <3>3
  <2>3. CASE k \notin Actionable(made) /\ k \notin DOMAIN cfg
    <3>1. WithKey(github, k) = {}
      BY <1>5, <1>7, <2>3
    <3>2. AsDeclared(k)'
      BY <1>1, <2>3, <3>1 DEF AsDeclared, WithKey
    <3> QED
      BY <1>1, <2>3, <3>2
  <2> QED
    BY <2>1, <2>2, <2>3
<1> QED
  BY <1>1, <1>4, <1>8 DEF KeyInv

\* What the creation of a key leaves is the key as it is declared.
LEMMA KeyIsTold ==
    ASSUME NEW c, NEW k \in DOMAIN c, NEW other
    PROVE  Fields(Decode("deploy_keys", c[k], Overlay(EncodeKey(c[k]), other)),
                  Desired("deploy_keys", c)[k]) = {}
<1> DEFINE item == c[k]
           left == Overlay(EncodeKey(item), other)
<1>1. Desired("deploy_keys", c)[k] = ToMap(item, DeployKey)
  BY DEF Desired, Normalize, JSONFields
<1>2. Decode("deploy_keys", item, left) = DecodeKey(left)
  BY DEF Decode
<1> HIDE DEF item
<1> HIDE DEF left
<1> SUFFICES ASSUME NEW p \in DOMAIN ToMap(item, DeployKey)
             PROVE  p \in DOMAIN DecodeKey(left) /\ DecodeKey(left)[p] = ToMap(item, DeployKey)[p]
  <2>1. Fields(DecodeKey(left), ToMap(item, DeployKey)) = {}
    BY DEF Fields
  <2> QED
    BY <1>1, <1>2, <2>1 DEF item, left
<1>4. p \in DOMAIN item /\ p \in DeployKey /\ ToMap(item, DeployKey)[p] = item[p]
  BY DEF ToMap, Only, Restrict
<1>5. p \in DOMAIN EncodeKey(item) /\ EncodeKey(item)[p] = item[p]
  BY <1>4 DEF EncodeKey, Only, Restrict
<1>6. p \in DOMAIN left /\ left[p] = item[p]
  BY <1>5 DEF Overlay, left
<1> QED
  BY <1>4, <1>6 DEF DecodeKey, Only, Restrict

\* A delete takes the key it names, a post adds one.
LEMMA KeyEffect ==
    ASSUME NEW l, NEW store, NEW c, NEW fresh,
           c.op \in Ops, OwnKey(store, c), fresh \notin DOMAIN store
    PROVE  LET g == Apply(l, store, c, fresh) IN
           /\ c.op = "delete" => WithKey(g, c.key) = WithKey(store, c.key) \ {c.id}
           /\ c.op = "post" =>
                /\ fresh \in WithKey(g, c.key)
                /\ \A i \in WithKey(g, c.key) :
                     \/ i \in WithKey(store, c.key)
                     \/ i = fresh /\ g[i].doc = Overlay(c.body, Defaults[l])
<1> DEFINE g == Apply(l, store, c, fresh)
           targets == Targets(store, c)
<1>1. /\ \A i \in DOMAIN store \ targets : i \in DOMAIN g /\ g[i] = store[i]
      /\ \A i \in DOMAIN g :
            \/ i \in DOMAIN store /\ g[i] = store[i]
            \/ /\ i \in targets \cup {fresh} /\ g[i].key = c.key
               /\ DOMAIN g[i] = {"key", "doc"}
      /\ c.op \in {"merge", "patch"} =>
            /\ DOMAIN g = DOMAIN store
            /\ \A i \in targets : g[i].key = c.key /\ g[i].doc = Overlay(c.body, store[i].doc)
      /\ c.op = "put" =>
            /\ DOMAIN g = DOMAIN store \cup (IF targets = {} THEN {fresh} ELSE {})
            /\ \A i \in DOMAIN g \ (DOMAIN store \ targets) : g[i].key = c.key
      /\ c.op = "post" => DOMAIN g = DOMAIN store \cup {fresh} /\ g[fresh].key = c.key
      /\ c.op \in {"remove", "delete"} => DOMAIN g = DOMAIN store \ targets
  BY ApplyEffect
<1>2. c.op = "post" => g[fresh].doc = Overlay(c.body, Defaults[l])
  BY ApplyDocs
<1>3. c.op = "delete" => targets = {c.id} \cap DOMAIN store
  BY DEF Targets
<1>4. targets \subseteq WithKey(store, c.key)
  BY DEF OwnKey
<1> HIDE DEF g, targets
<1>5. c.op = "delete" => WithKey(g, c.key) = WithKey(store, c.key) \ {c.id}
  BY <1>1, <1>3 DEF WithKey
<1>6. c.op = "post" => fresh \in WithKey(g, c.key)
  BY <1>1 DEF WithKey
<1>7. ASSUME c.op = "post", NEW i \in WithKey(g, c.key)
      PROVE  \/ i \in WithKey(store, c.key)
             \/ i = fresh /\ g[i].doc = Overlay(c.body, Defaults[l])
  BY <1>1, <1>2, <1>4, <1>7 DEF WithKey
<1> QED
  BY <1>5, <1>6, <1>7 DEF g

\* What a run of deploy keys was told to do, it does in its turn.
LEMMA SendKeys ==
    ASSUME IInv, Loaded, TitlesAreKeys, KeyInv, NEW k \in DOMAIN todo, Send(k)
    PROVE  KeyInv'
<1> DEFINE c == Head(todo[k])
<1>1. result[k] = "none" /\ Len(todo[k]) # 0 /\ phase = "applying"
  BY DEF Send, MayGo, IInv, RunTypes, CallsInv, none
<1>2. UNCHANGED <<lane, cfg, phase, plan, disturbed, quiet>>
  BY DEF Send
<1>3. /\ DOMAIN todo' = DOMAIN todo
      /\ \A i \in DOMAIN todo : i # k => todo'[i] = todo[i] /\ result'[i] = result[i]
  BY DEF Send, IInv, RunTypes
<1>4. Accepts(lane, github, c) =>
        /\ github' = Apply(lane, github, c, Fresh)
        /\ todo'[k] = Tail(todo[k]) /\ result'[k] = IF Len(todo[k]) = 1 THEN "ok" ELSE "none"
  BY <1>1 DEF Send, IInv, RunTypes
<1>5. ~Accepts(lane, github, c) => github' = github
  BY DEF Send
<1>6. /\ c.op \in Ops /\ c.key = k /\ OwnKey(github, c)
      /\ Fresh \notin DOMAIN github
  BY <1>1, NextCall, FreshIsNew DEF IInv
<1>7. \A j : j # k => /\ WithKey(github', j) = WithKey(github, j)
                      /\ \A i \in WithKey(github, j) : github'[i] = github[i]
  BY <1>1, <1>2, <1>4, <1>5, CallKeeps
<1>8. /\ Accepts(lane, github, c) /\ c.op = "delete" => WithKey(github', k) = WithKey(github, k) \ {c.id}
      /\ Accepts(lane, github, c) /\ c.op = "post" =>
           \A i \in WithKey(github', k) : i \in WithKey(github, k) \/ (i = Fresh /\ github'[i].doc = Overlay(c.body, Defaults[lane]))
      /\ Accepts(lane, github, c) /\ c.op = "post" => Fresh \in WithKey(github', k)
  <2> DEFINE g == Apply(lane, github, c, Fresh)
  <2> HIDE DEF c, Fresh
  <2>1. /\ c.op = "delete" => WithKey(g, c.key) = WithKey(github, c.key) \ {c.id}
        /\ c.op = "post" =>
             /\ Fresh \in WithKey(g, c.key)
             /\ \A i \in WithKey(g, c.key) :
                  \/ i \in WithKey(github, c.key)
                  \/ i = Fresh /\ g[i].doc = Overlay(c.body, Defaults[lane])
    <3>1. c.op \in Ops /\ OwnKey(github, c) /\ Fresh \notin DOMAIN github
      BY <1>6
    <3>2. c.op = "delete" => WithKey(g, c.key) = WithKey(github, c.key) \ {c.id}
      BY <3>1, KeyEffect
    <3>3. c.op = "post" => Fresh \in WithKey(g, c.key)
      BY <3>1, KeyEffect
    <3>4. ASSUME c.op = "post", NEW i \in WithKey(g, c.key)
          PROVE \/ i \in WithKey(github, c.key)
                \/ i = Fresh /\ g[i].doc = Overlay(c.body, Defaults[lane])
      BY <3>1, <3>4, KeyEffect
    <3> QED
      BY <3>2, <3>3, <3>4
  <2> HIDE DEF g
  <2>2. Accepts(lane, github, c) => github' = g
    BY <1>4 DEF g
  <2> QED
    BY <1>6, <2>1, <2>2
<1> SUFFICES ASSUME lane = "deploy_keys", ~disturbed PROVE KeyInv'
  BY <1>1, <1>2 DEF KeyInv
<1>9. ASSUME k \notin DOMAIN cfg \/ quiet # 0
      PROVE  IF result'[k] = "none" THEN Turn(k)' ELSE AsDeclared(k)'
  <2> DEFINE id == plan[k].id
             gone == Bare("delete", k, id)
             create == Call("post", k, 0, EncodeKey(cfg[k]))
  <2>1. Turn(k)
    BY <1>1, <1>9 DEF KeyInv
  <2>2. gone.op = "delete" /\ gone.id = id /\ gone.key = k /\ DOMAIN gone.body = {}
        /\ create.op = "post" /\ create.key = k /\ create.body = EncodeKey(cfg[k])
    BY DEF Bare, Call
  <2>3. ASSUME c = gone, WithKey(github, k) = {id}
        PROVE  Accepts(lane, github, c) /\ WithKey(github', k) = {}
    <3>1. id \in DOMAIN github
      BY <2>3 DEF WithKey
    <3>2. Targets(github, c) # {}
      BY <2>2, <2>3, <3>1 DEF Targets
    <3>3. Accepts(lane, github, c)
      BY <2>2, <2>3, <3>2 DEF Accepts
    <3> QED
      BY <1>8, <2>2, <2>3, <3>3
  <2>4. CASE k \notin DOMAIN cfg /\ todo[k] = <<gone>> /\ WithKey(github, k) = {id}
    <3>1. c = gone /\ Len(todo[k]) = 1
      BY <2>4
    <3>2. WithKey(github', k) = {} /\ result'[k] = "ok"
      BY <1>4, <2>3, <2>4, <3>1
    <3> QED
      BY <1>2, <2>4, <3>2 DEF AsDeclared
  <2>5. CASE k \in DOMAIN cfg /\ todo[k] = <<gone, create>> /\ WithKey(github, k) = {id}
    <3>1. c = gone /\ Len(todo[k]) = 2 /\ Tail(todo[k]) = <<create>>
      BY <2>5
    <3>2. WithKey(github', k) = {} /\ result'[k] = "none" /\ todo'[k] = <<create>>
      BY <1>4, <2>3, <2>5, <3>1
    <3>3. Turn(k)'
      BY <1>2, <2>5, <3>2 DEF Turn
    <3> QED
      BY <3>2, <3>3
  <2>6. CASE k \in DOMAIN cfg /\ todo[k] = <<create>> /\ WithKey(github, k) = {}
    <3>1. c = create /\ Len(todo[k]) = 1
      BY <2>6
    <3>2. ~Clash(lane, github, c)
      <4>1. "key" \in DOMAIN cfg[k] => c.body["key"] = cfg[k]["key"]
        BY <2>2, <3>1 DEF EncodeKey, Only, Restrict
      <4>2. "key" \in DOMAIN cfg[k]
        BY <2>6 DEF Loaded
      <4>3. ASSUME NEW i \in DOMAIN github, github[i].doc["key"] = c.body["key"] PROVE FALSE
        <5>1. github[i].key = k \/ github[i].key \notin DOMAIN cfg
          BY <2>6, <4>1, <4>2, <4>3 DEF TitlesAreKeys
        <5>2. github[i].key \in DOMAIN cfg
          BY <1>9, <2>6 DEF KeyInv
        <5> QED
          BY <2>6, <5>1, <5>2 DEF WithKey
      <4> QED
        BY <4>3 DEF Clash
    <3>3. Accepts(lane, github, c)
      BY <2>2, <3>1, <3>2 DEF Accepts
    <3>4. result'[k] = "ok" /\ Fresh \in WithKey(github', k)
          /\ \A i \in WithKey(github', k) : github'[i].doc = Overlay(EncodeKey(cfg[k]), Defaults[lane])
      BY <1>4, <1>8, <2>2, <2>6, <3>1, <3>3
    <3>5. Fields(Decode(lane, cfg[k], Overlay(EncodeKey(cfg[k]), Defaults[lane])), Desired(lane, cfg)[k]) = {}
      BY <2>6, KeyIsTold
    <3>6. AsDeclared(k)'
      BY <1>2, <2>6, <3>4, <3>5 DEF AsDeclared
    <3> QED
      BY <3>4, <3>6
  <2> QED
    BY <2>1, <2>4, <2>5, <2>6 DEF Turn
<1>10. ASSUME NEW j \in Keys' \cup DOMAIN todo', j # k, j \notin DOMAIN cfg \/ quiet # 0
       PROVE  IF j \in DOMAIN todo' /\ result'[j] = "none" THEN Turn(j)' ELSE AsDeclared(j)'
  <2>1. j \in Keys \cup DOMAIN todo
    BY <1>2, <1>3, <1>7, <1>10 DEF Keys, WithKey
  <2>2. IF j \in DOMAIN todo /\ result[j] = "none" THEN Turn(j) ELSE AsDeclared(j)
    BY <1>1, <1>10, <2>1 DEF KeyInv
  <2>3. Turn(j) /\ j \in DOMAIN todo => Turn(j)'
    BY <1>2, <1>3, <1>7, <1>10 DEF Turn
  <2>4. AsDeclared(j) => AsDeclared(j)'
    BY <1>2, <1>7, <1>10 DEF AsDeclared
  <2> QED
    BY <1>3, <1>10, <2>2, <2>3, <2>4
<1>11. quiet # 0 => \A i \in DOMAIN github' : github'[i].key \in DOMAIN cfg
  <2> SUFFICES ASSUME quiet # 0, NEW i \in DOMAIN github', github'[i].key \notin DOMAIN cfg PROVE FALSE
    OBVIOUS
  <2>1. \A j \in DOMAIN github : github[j].key \in DOMAIN cfg
    BY DEF KeyInv
  <2>2. CASE github'[i].key # k
    <3>1. i \in WithKey(github, github'[i].key)
      BY <1>7, <2>2 DEF WithKey
    <3> QED
      BY <2>1, <3>1 DEF WithKey
  <2>3. CASE github'[i].key = k
    <3>1. Turn(k)
      BY <1>1 DEF KeyInv
    <3>2. PICK j : j \in WithKey(github, k)
      BY <2>3, <3>1 DEF Turn
    <3> QED
      BY <2>1, <2>3, <3>2 DEF WithKey
  <2> QED
    BY <2>2, <2>3
<1> QED
  BY <1>1, <1>2, <1>3, <1>9, <1>10, <1>11 DEF KeyInv

\* A run that ends undisturbed leaves nothing that is not declared, and the
\* second one everything as it is declared, under new ids.
LEMMA ReportKeys ==
    ASSUME IInv, KeyInv, Report
    PROVE  KeyInv'
<1> DEFINE D == DOMAIN github
           rank(i) == Cardinality({j \in D : j <= i})
           m == Cardinality(D)
           at(r) == CHOOSE i \in D : rank(i) = r
<1>1. /\ github' = [r \in 1..m |-> github[at(r)]]
      /\ phase = "applying" /\ \A k \in DOMAIN result : result[k] # "none"
      /\ phase' = "idle" /\ quiet' = IF disturbed THEN 0 ELSE IF quiet < 2 THEN quiet + 1 ELSE 2
      /\ DOMAIN todo = DOMAIN result
      /\ UNCHANGED <<lane, cfg>>
  BY DEF Report, Decided, EndRun, Renumbered, IInv, RunTypes
<1>2. PICK n \in Nat : D \in SUBSET (1..n)
  BY DEF IInv, IdsInv
<1>3. /\ \A i \in D : rank(i) \in 1..m
      /\ \A i, j \in D : rank(i) = rank(j) => i = j
      /\ \A r \in 1..m : \E i \in D : rank(i) = r
  BY <1>2, Ranks
<1> HIDE DEF rank, m
<1>4. /\ \A r \in 1..m : at(r) \in D /\ rank(at(r)) = r
      /\ \A i \in D : at(rank(i)) = i
  BY <1>3
<1> HIDE DEF at
<1>5. /\ \A r \in DOMAIN github' : at(r) \in D /\ github'[r] = github[at(r)]
      /\ \A i \in D : rank(i) \in DOMAIN github' /\ github'[rank(i)] = github[i]
  BY <1>1, <1>3, <1>4
<1> SUFFICES ASSUME lane = "deploy_keys", quiet' # 0
             PROVE  /\ \A r \in DOMAIN github' : github'[r].key \in DOMAIN cfg
                    /\ quiet' = 2 => \A k \in Keys' : AsDeclared(k)'
  BY <1>1 DEF KeyInv
<1>6. ~disturbed
  BY <1>1
<1>7. ASSUME NEW k \in Keys, k \notin DOMAIN cfg \/ quiet # 0
      PROVE  AsDeclared(k)
  BY <1>1, <1>6, <1>7 DEF KeyInv
<1>8. \A r \in DOMAIN github' : github'[r].key \in DOMAIN cfg
  <2> SUFFICES ASSUME NEW r \in DOMAIN github', github'[r].key \notin DOMAIN cfg PROVE FALSE
    OBVIOUS
  <2>1. at(r) \in WithKey(github, github'[r].key) /\ github'[r].key \in Keys
    BY <1>5 DEF WithKey, Keys
  <2> QED
    BY <1>7, <2>1 DEF AsDeclared, ListingLanes
<1>9. ASSUME quiet' = 2, NEW k \in Keys' PROVE AsDeclared(k)'
  <2>1. quiet # 0
    BY <1>1, <1>6, <1>9 DEF IInv, RunTypes
  <2>2. k \in Keys
    BY <1>1, <1>5, <1>9 DEF Keys
  <2>3. AsDeclared(k)
    BY <1>7, <2>1, <2>2
  <2>4. \A r \in WithKey(github', k) : at(r) \in WithKey(github, k) /\ github'[r] = github[at(r)]
    BY <1>5 DEF WithKey
  <2>5. WithKey(github, k) # {} => WithKey(github', k) # {}
    BY <1>5 DEF WithKey
  <2> QED
    BY <1>1, <2>3, <2>4, <2>5 DEF AsDeclared
<1> QED
  BY <1>8, <1>9

\* Every step keeps the account of the deploy keys.
LEMMA NextKeys ==
    ASSUME IInv, Loaded, TitlesAreKeys, KeyInv, [Next]_vars
    PROVE  KeyInv'
<1>1. CASE Fetch({}) \/ Fetch(batch)
  BY <1>1, FetchKeys
<1>2. CASE \E k \in DOMAIN todo : Send(k)
  BY <1>2, SendKeys
<1>3. CASE Report
  BY <1>3, ReportKeys
<1>4. CASE (\E k \in DOMAIN todo : CallFails(k)) \/ HangUp
  <2>1. disturbed' /\ phase' = "applying"
    BY <1>4 DEF CallFails, HangUp, MayGo, IInv, RunTypes, none
  <2> QED
    BY <2>1 DEF KeyInv
<1>5. CASE Crash
  BY <1>5 DEF Crash, EndRun, KeyInv
<1>6. CASE Edit
  <2>1. quiet' = 0 /\ (phase' = "applying" => disturbed')
    BY <1>6 DEF Edit, run
  <2> QED
    BY <2>1 DEF KeyInv
<1>7. CASE UNCHANGED vars \/ Prefetch
  <2>1. UNCHANGED <<lane, cfg, github, phase, plan, todo, result, disturbed, quiet>>
    BY <1>7 DEF vars, Prefetch, run
  <2>2. \A k : WithKey(github', k) = WithKey(github, k)
    BY <2>1
  <2>3. \A k : Turn(k)' <=> Turn(k)
    BY <2>1, <2>2 DEF Turn
  <2>4. \A k : AsDeclared(k)' <=> AsDeclared(k)
    BY <2>1, <2>2 DEF AsDeclared
  <2>5. Keys' = Keys
    BY <2>1 DEF Keys
  <2> QED
    BY <2>1, <2>3, <2>4, <2>5 DEF KeyInv
<1> QED
  BY <1>1, <1>2, <1>3, <1>4, <1>5, <1>6, <1>7 DEF Next, Step


(*--------------------------- what a plan shows ---------------------------*)

\* Two documents say the same of a field.
Agree(x, y, p) ==
    /\ p \in DOMAIN x <=> p \in DOMAIN y
    /\ p \in DOMAIN x => x[p] = y[p]

\* What the plan of k's update knew of the fields it leaves alone: they are as
\* they are declared.
AsRead(k) ==
    LET des == Desired(lane, cfg)[k] IN
    \A p \in DOMAIN des \ plan[k].changes : \A i \in WithKey(before, k) :
        p \in DOMAIN View(lane, before[i].doc) /\ View(lane, before[i].doc)[p] = des[p]

\* Whatever a call of an update states, the settings declare, or GitHub replaces
\* the record it is in.
Faithful(l, c, k, call) ==
    LET des == Desired(l, c)[k] IN
    /\ l # "environments" => Right(l, des, call.body)
    /\ call.op \in {"merge", "patch"} => DOMAIN call.body \subseteq DOMAIN des
    /\ call.op = "post" => l = "autolinks" /\ DOMAIN des \subseteq DOMAIN call.body
    /\ call.op = "put" => l \in {"branches", "environments", "teams", "collaborators"}
    /\ call.op = "put" /\ l = "branches" => DOMAIN des \ Apart(l) \subseteq DOMAIN call.body
    /\ call.op = "put" /\ l = "environments" => call.body = EncodeEnvironment(c[k])

\* Of k's item the run has changed no more than its entry shows.
Covered(k) ==
    \A i \in WithKey(before, k), j \in WithKey(github, k) :
        \A p : p \notin plan[k].changes \cup Unshown(k) =>
                 Agree(View(lane, before[i].doc), View(lane, github[j].doc), p)

\* While a run is undisturbed each of its entries accounts for what it changes.
ShowInv ==
    phase = "applying" /\ ~disturbed =>
        /\ DOMAIN todo = Actionable(plan)
        /\ \A k \in DOMAIN todo :
             /\ plan[k].action = "create" => WithKey(before, k) = {}
             /\ plan[k].action = "update" =>
                  /\ k \in DOMAIN cfg /\ plan[k].changes # {}
                  /\ plan[k].changes \subseteq DOMAIN Desired(lane, cfg)[k]
                  /\ Covered(k)
                  /\ lane # "deploy_keys" =>
                       /\ AsRead(k)
                       /\ lane = "branches" => WithKey(github, k) # {}
                       /\ \A n \in 1..Len(todo[k]) : Faithful(lane, cfg, k, todo[k][n])
        /\ \A k : k \notin DOMAIN todo =>
             /\ WithKey(github, k) = WithKey(before, k)
             /\ \A i \in WithKey(before, k) : github[i].doc = before[i].doc

\* A call for a protection record or an environment leaves one that can be read.
LegibleCall(l, c) ==
    /\ l = "branches" =>
         /\ c.op \in {"put", "merge"} /\ DOMAIN c.body \subseteq BranchProtection
         /\ c.op = "put" => "required_signatures" \notin DOMAIN c.body
    /\ l = "environments" =>
         /\ c.op \in {"put", "remove"}
         /\ c.op = "put" => "reviewers" \in DOMAIN c.body /\ c.body["reviewers"] \subseteq NumericIds

\* What GitHub has and had can be read, and what is on the way will be.
LegibleInv ==
    /\ \A i \in DOMAIN github : Legible(lane, github[i].doc)
    /\ \A i \in DOMAIN before : Legible(lane, before[i].doc)
    /\ \A k \in DOMAIN todo : \A n \in 1..Len(todo[k]) : LegibleCall(lane, todo[k][n])

(*------------------------ documents as they are read ---------------------*)

\* Lanes whose items are read field by field.
PlainLanes == LaneNames \ {"collaborators", "environments"}

\* What a run reads, a run that declared every field reads too.
LEMMA ReadIsSeen ==
    ASSUME NEW l \in LaneNames, NEW item, NEW w, DOMAIN item \subseteq JSONFields(l, item),
           NEW p \in DOMAIN Decode(l, item, w)
    PROVE  p \in DOMAIN View(l, w) /\ View(l, w)[p] = Decode(l, item, w)[p]
<1> DEFINE all == [q \in JSONFields(l, w) |-> 0]
<1>1. CASE l = "actions"
  <2>1. \E fields : Decode(l, item, w) = Only(w, fields)
    BY <1>1 DEF Decode, ReadActions
  <2>2. PICK fields : Decode(l, item, w) = Only(w, fields)
    BY <2>1
  <2>3. p \in DOMAIN Only(w, fields)
    BY <2>2
  <2>4. p \in DOMAIN w /\ Only(w, fields)[p] = w[p]
    BY <2>3 DEF Only, Restrict
  <2>5. View(l, w) = w
    BY <1>1 DEF View
  <2> HIDE DEF all
  <2> QED
    BY <2>2, <2>4, <2>5
<1>2. CASE l = "security"
  <2> DEFINE own == DOMAIN item \ SecurityAndAnalysisFields
             other == DOMAIN all \ SecurityAndAnalysisFields
             got == IF DOMAIN item \cap SecurityAndAnalysisFields # {}
                    THEN DecodeSecurity(w) ELSE Only(w, {})
  <2>1. DOMAIN item \subseteq SecurityConfig /\ DOMAIN all = SecurityConfig
    BY <1>2 DEF JSONFields
  <2>2. Decode(l, item, w) = Overlay(Only(w, own), got)
    BY <1>2 DEF Decode, ReadSecurity
  <2>3. View(l, w) = Overlay(Only(w, other), DecodeSecurity(w))
    <3>1. DOMAIN all \cap SecurityAndAnalysisFields # {}
      BY <2>1 DEF SecurityConfig, SecurityAndAnalysisFields
    <3> QED
      BY <1>2, <3>1 DEF View, Decode, ReadSecurity
  <2>4. own \subseteq other
    BY <2>1
  <2>5. DOMAIN Only(w, {}) = {}
    BY DEF Only, Restrict
  <2>50. /\ DOMAIN Only(w, own) = DOMAIN w \cap own
         /\ \A q \in DOMAIN w \cap own : Only(w, own)[q] = w[q]
         /\ DOMAIN Only(w, other) = DOMAIN w \cap other
         /\ \A q \in DOMAIN w \cap other : Only(w, other)[q] = w[q]
    <3> HIDE DEF own, other
    <3> QED
      BY OnlyKeeps
  <2>6. CASE p \in DOMAIN w \cap own
    <3>1. Decode(l, item, w)[p] = w[p]
      BY <2>2, <2>50, <2>6 DEF Overlay
    <3>2. p \in DOMAIN View(l, w) /\ View(l, w)[p] = w[p]
      BY <2>3, <2>4, <2>50, <2>6 DEF Overlay
    <3> QED
      BY <3>1, <3>2
  <2>7. CASE p \notin DOMAIN w \cap own
    <3>1. p \notin DOMAIN Only(w, own)
      BY <2>50, <2>7
    <3>2. p \in DOMAIN got /\ Decode(l, item, w)[p] = got[p]
      BY <2>2, <3>1 DEF Overlay
    <3>3. got = DecodeSecurity(w)
      BY <2>5, <3>2
    <3>4. p \in SecurityAndAnalysisFields
      BY <3>2, <3>3 DEF DecodeSecurity
    <3>5. p \notin DOMAIN Only(w, other)
      BY <2>50, <3>4
    <3> QED
      BY <2>3, <3>2, <3>3, <3>5 DEF Overlay
  <2> QED
    BY <2>6, <2>7
<1>3. CASE l \notin {"actions", "security"}
  BY <1>3 DEF Decode, View, LaneNames
<1> QED
  BY <1>1, <1>2, <1>3

\* A protection record is read with every flag and every sub-object.
LEMMA ProtectionView ==
    ASSUME NEW w
    PROVE  /\ DOMAIN View("branches", w) = DOMAIN w \cup BranchFlags \cup Containers
           /\ \A p \in DOMAIN View("branches", w) :
                View("branches", w)[p] = IF p \in DOMAIN w THEN w[p]
                                         ELSE IF p \in BranchFlags THEN FALSE ELSE "off"
<1> DEFINE off == [q \in BranchFlags \cup Containers |-> IF q \in BranchFlags THEN FALSE ELSE "off"]
<1>1. View("branches", w) = Overlay(w, off)
  BY DEF View, Decode, DecodeProtection
<1>2. /\ DOMAIN off = BranchFlags \cup Containers
      /\ \A q \in DOMAIN off : off[q] = IF q \in BranchFlags THEN FALSE ELSE "off"
  OBVIOUS
<1> HIDE DEF off
<1>3. /\ DOMAIN Overlay(w, off) = DOMAIN w \cup DOMAIN off
      /\ \A q \in DOMAIN w \cup DOMAIN off :
           Overlay(w, off)[q] = IF q \in DOMAIN w THEN w[q] ELSE off[q]
  BY DEF Overlay
<1>4. DOMAIN View("branches", w) = DOMAIN w \cup BranchFlags \cup Containers
  BY <1>1, <1>2, <1>3
<1>5. ASSUME NEW p \in DOMAIN View("branches", w)
      PROVE  View("branches", w)[p] = IF p \in DOMAIN w THEN w[p]
                                      ELSE IF p \in BranchFlags THEN FALSE ELSE "off"
  BY <1>1, <1>2, <1>3, <1>5
<1> QED
  BY <1>4, <1>5

\* How it reads a field depends on nothing but that field, and whether it does
\* on nothing but that the item has it.
LEMMA PlainView ==
    ASSUME NEW l \in PlainLanes, NEW w, NEW p
    PROVE  /\ \A x : Agree(x, w, p) => Agree(View(l, x), View(l, w), p)
           /\ \A x : p \in DOMAIN View(l, w) /\ p \in DOMAIN x => p \in DOMAIN View(l, x)
           /\ p \in DOMAIN View(l, w) /\ p \in DOMAIN w => View(l, w)[p] = Means(l, p, w[p])
           /\ l # "branches" => DOMAIN View(l, w) \subseteq DOMAIN w
<1>1. CASE l \in {"actions", "rulesets", "custom_properties"}
  <2>1. \A x : View(l, x) = x
    BY <1>1 DEF View, Decode, DecodeCustomProperties
  <2> QED
    BY <1>1, <2>1 DEF Means
<1>2. CASE l = "security"
  <2> DEFINE all == [q \in SecurityConfig |-> 0]
             other == SecurityConfig \ SecurityAndAnalysisFields
  <2>1. \A x : View(l, x) = Overlay(Only(x, other), DecodeSecurity(x))
    <3>1. DOMAIN all = SecurityConfig
      OBVIOUS
    <3>2. SecurityConfig \cap SecurityAndAnalysisFields # {}
      BY DEF SecurityConfig, SecurityAndAnalysisFields
    <3>3. \A x : View(l, x) = ReadSecurity(all, x)
      BY <1>2 DEF View, Decode, JSONFields
    <3> QED
      BY <3>1, <3>2, <3>3 DEF ReadSecurity
  <2>2. \A x : /\ DOMAIN View(l, x) = DOMAIN x \cap SecurityConfig
               /\ \A q \in DOMAIN x \cap SecurityConfig :
                     View(l, x)[q] = Means(l, q, x[q])
    <3> TAKE x
    <3> HIDE DEF other
    <3>1. DOMAIN Only(x, other) = DOMAIN x \cap other
      BY OnlyKeeps
    <3>2. \A q \in DOMAIN x \cap other : Only(x, other)[q] = x[q]
      BY OnlyKeeps
    <3>3. /\ DOMAIN DecodeSecurity(x) = DOMAIN x \cap SecurityAndAnalysisFields
          /\ \A q \in DOMAIN x \cap SecurityAndAnalysisFields :
                DecodeSecurity(x)[q] = (x[q] = "enabled")
      BY DEF DecodeSecurity
    <3>4. SecurityConfig = other \cup SecurityAndAnalysisFields
          /\ other \cap SecurityAndAnalysisFields = {}
      BY DEF SecurityConfig, other
    <3>40. /\ DOMAIN View(l, x) = DOMAIN Only(x, other) \cup DOMAIN DecodeSecurity(x)
           /\ \A q \in DOMAIN Only(x, other) \cup DOMAIN DecodeSecurity(x) :
                View(l, x)[q] = IF q \in DOMAIN Only(x, other) THEN Only(x, other)[q]
                                ELSE DecodeSecurity(x)[q]
      BY <2>1 DEF Overlay
    <3>5. DOMAIN View(l, x) = DOMAIN x \cap SecurityConfig
      BY <3>1, <3>3, <3>4, <3>40
    <3>6. ASSUME NEW q \in DOMAIN x \cap other PROVE View(l, x)[q] = Means(l, q, x[q])
      BY <1>2, <3>1, <3>2, <3>4, <3>40, <3>6 DEF Means
    <3>7. ASSUME NEW q \in DOMAIN x \cap SecurityAndAnalysisFields
          PROVE  View(l, x)[q] = Means(l, q, x[q])
      <4>1. View(l, x)[q] = (x[q] = "enabled")
        BY <3>1, <3>3, <3>4, <3>40, <3>7
      <4>2. Means(l, q, x[q]) = (x[q] = "enabled")
        BY <1>2, <3>7 DEF Means
      <4> QED
        BY <4>1, <4>2
    <3> QED
      BY <3>4, <3>5, <3>6, <3>7
  <2> QED
    BY <2>2 DEF Agree
<1>3. CASE l = "webhooks"
  <2>1. \A x : View(l, x) = DecodeHook(x)
    BY <1>3 DEF View, Decode
  <2>2. \A x : /\ DOMAIN View(l, x) = DOMAIN x \cap Webhook
               /\ \A q \in DOMAIN x \cap Webhook : View(l, x)[q] = Means(l, q, x[q])
    <3> TAKE x
    <3>1. \A q : Means(l, q, x[q]) = IF q = "insecure_ssl" THEN x[q] = "1" ELSE x[q]
      BY <1>3 DEF Means
    <3>2. /\ DOMAIN DecodeHook(x) = DOMAIN x \cap Webhook
          /\ \A q \in DOMAIN x \cap Webhook :
               DecodeHook(x)[q] = IF q = "insecure_ssl" THEN x[q] = "1" ELSE x[q]
      BY DEF DecodeHook
    <3> QED
      BY <2>1, <3>1, <3>2
  <2> QED
    BY <2>2 DEF Agree
<1>4. CASE l = "branches"
  <2>2. \A x : /\ DOMAIN View(l, x) = DOMAIN x \cup BranchFlags \cup Containers
               /\ \A q \in DOMAIN View(l, x) :
                     View(l, x)[q] = IF q \in DOMAIN x THEN x[q]
                                     ELSE IF q \in BranchFlags THEN FALSE ELSE "off"
    BY <1>4, ProtectionView
  <2>3. \A x, q : Means(l, q, x) = x
    BY <1>4 DEF Means
  <2>4. \A x : Agree(x, w, p) => Agree(View(l, x), View(l, w), p)
    <3> SUFFICES ASSUME NEW x, Agree(x, w, p) PROVE Agree(View(l, x), View(l, w), p)
      OBVIOUS
    <3>1. p \in DOMAIN View(l, x) <=> p \in DOMAIN View(l, w)
      BY <2>2 DEF Agree
    <3>2. ASSUME p \in DOMAIN View(l, x) PROVE View(l, x)[p] = View(l, w)[p]
      <4>1. CASE p \in DOMAIN x
        BY <2>2, <3>1, <3>2, <4>1 DEF Agree
      <4>2. CASE p \notin DOMAIN x
        BY <2>2, <3>1, <3>2, <4>2 DEF Agree
      <4> QED
        BY <4>1, <4>2
    <3> QED
      BY <3>1, <3>2 DEF Agree
  <2>5. p \in DOMAIN View(l, w) /\ p \in DOMAIN w => View(l, w)[p] = Means(l, p, w[p])
    BY <2>2, <2>3
  <2>6. \A x : p \in DOMAIN View(l, w) /\ p \in DOMAIN x => p \in DOMAIN View(l, x)
    BY <2>2
  <2> QED
    BY <1>4, <2>4, <2>5, <2>6
<1>5. CASE l \in {"repository", "teams", "autolinks", "deploy_keys", "variables", "secrets", "pages"}
  <2> DEFINE F == CASE l = "repository" -> RepoConfig \cup {"names"}
                    [] l = "teams" -> {"permission"}
                    [] l = "autolinks" -> Autolink
                    [] l = "deploy_keys" -> DeployKey
                    [] l = "variables" -> {"value"}
                    [] l = "secrets" -> {}
                    [] l = "pages" -> PagesConfig
  <2>1. \A x : View(l, x) = Only(x, F)
    BY <1>5 DEF View, Decode, repoFromSDK, DecodeTeam, DecodeAutolink, DecodeKey,
                DecodeVariable, DecodeSecret, DecodePages
  <2>2. \A x, q : Means(l, q, x) = x
    BY <1>5 DEF Means
  <2> HIDE DEF F
  <2>3. \A x : /\ DOMAIN View(l, x) = DOMAIN x \cap F
               /\ \A q \in DOMAIN x \cap F : View(l, x)[q] = x[q]
    <3> TAKE x
    <3>1. /\ DOMAIN Only(x, F) = DOMAIN x \cap F
          /\ \A q \in DOMAIN x \cap F : Only(x, F)[q] = x[q]
      BY OnlyKeeps
    <3> QED
      BY <2>1, <3>1
  <2> QED
    BY <2>2, <2>3 DEF Agree
<1> QED
  BY <1>1, <1>2, <1>3, <1>4, <1>5 DEF PlainLanes, LaneNames

(*------------------------ records that can be read -----------------------*)

\* A document that is complete is of the fields of both its parts.
LEMMA OverlayIs ==
    ASSUME NEW new, NEW old
    PROVE  /\ DOMAIN Overlay(new, old) = DOMAIN new \cup DOMAIN old
           /\ \A p \in DOMAIN new : Overlay(new, old)[p] = new[p]
           /\ \A p \in DOMAIN old : p \notin DOMAIN new => Overlay(new, old)[p] = old[p]
  BY DEF Overlay

\* The calls a run hands out leave what can be read.
LEMMA MutateLegible ==
    ASSUME NEW l, NEW c, NEW k, NEW d, IsEntry(l, c, k, d),
           NEW n \in 1..Len(Mutate(l, k, d, c))
    PROVE  LegibleCall(l, Mutate(l, k, d, c)[n])
<1> DEFINE item == IF k \in DOMAIN c THEN c[k] ELSE [p \in {} |-> 0]
           des  == IF k \in DOMAIN c THEN Desired(l, c)[k] ELSE [p \in {} |-> 0]
           s    == Mutate(l, k, d, c)
<1>1. CASE l = "branches"
  <2> DEFINE full == NormalizeBranch(item)
             body == EncodeProtection(full)
             signed == Only(des, {"required_signatures"})
             first == Call("put", k, 0, body)
             second == Call("merge", k, 0, signed)
  <2>1. s = <<first>> \o (IF "required_signatures" \in d.changes THEN <<second>> ELSE <<>>)
    BY <1>1 DEF Mutate, applyBranchProtection, Pending
  <2>2. first.op = "put" /\ first.body = body /\ second.op = "merge" /\ second.body = signed
    BY DEF Call
  <2>3. DOMAIN signed \subseteq BranchProtection
    BY DEF Only, Restrict, BranchProtection
  <2>4. DOMAIN body \subseteq BranchProtection \ {"required_signatures"}
    <3> DEFINE members == (IF full["required_pull_request_reviews"] = "on" THEN ReviewFields ELSE {})
                          \cup (IF full["restrictions"] = "on" THEN {"restrictions.apps"} ELSE {})
               known == BranchProtection \ {"required_signatures"}
    <3>1. \E blanks : DOMAIN blanks = members /\ body = Overlay(Only(full, known), blanks)
      BY DEF EncodeProtection
    <3>2. members \subseteq known
      BY DEF ReviewFields, BranchProtection
    <3>3. DOMAIN Only(full, known) \subseteq known
      BY DEF Only, Restrict
    <3> HIDE DEF members, known, full, body
    <3> QED
      BY <3>1, <3>2, <3>3, OverlayIs DEF known
  <2> HIDE DEF first, second, body, signed, s
  <2>5. s = <<first>> \/ s = <<first, second>>
    <3>1. s = <<first>> \o <<second>> \/ s = <<first>> \o <<>>
      BY <2>1
    <3>2. <<first>> \o <<second>> = <<first, second>>
      BY Pair
    <3>3. <<first>> \o <<>> = <<first>>
      OBVIOUS
    <3> QED
      BY <3>1, <3>2, <3>3
  <2>6. \A m \in 1..Len(s) : s[m] = first \/ s[m] = second
    BY <2>5
  <2>7. LegibleCall(l, first) /\ LegibleCall(l, second)
    BY <1>1, <2>2, <2>3, <2>4 DEF LegibleCall
  <2>8. n \in 1..Len(s)
    BY DEF s
  <2>9. LegibleCall(l, s[n])
    BY <2>6, <2>7, <2>8
  <2> QED
    BY <2>9 DEF s
<1>2. CASE l = "environments"
  <2> DEFINE put == Call("put", k, 0, EncodeEnvironment(item))
             gone == Bare("remove", k, 0)
  <2>1. s = <<gone>> \/ s = <<put>>
    BY <1>2 DEF Mutate, EnvironmentsMutate, Pending
  <2>2. put.op = "put" /\ put.body = EncodeEnvironment(item) /\ gone.op = "remove"
    BY DEF Bare, Call
  <2>3. "reviewers" \in DOMAIN EncodeEnvironment(item)
        /\ EncodeEnvironment(item)["reviewers"] \subseteq NumericIds
    BY DEF EncodeEnvironment, Overlay
  <2> HIDE DEF put, gone, s
  <2>4. LegibleCall(l, put) /\ LegibleCall(l, gone)
    BY <1>2, <2>2, <2>3 DEF LegibleCall
  <2>5. \A m \in 1..Len(s) : s[m] = gone \/ s[m] = put
    BY <2>1
  <2>6. LegibleCall(l, s[n])
    BY <2>4, <2>5 DEF s
  <2> QED
    BY <2>6 DEF s
<1> QED
  BY <1>1, <1>2 DEF LegibleCall

\* An accepted call leaves what can be read.
LEMMA CallLegible ==
    ASSUME IInv, LegibleInv, NEW k \in DOMAIN todo, Len(todo[k]) # 0,
           Accepts(lane, github, Head(todo[k])),
           github' = Apply(lane, github, Head(todo[k]), Fresh),
           UNCHANGED <<lane, cfg, plan>>, NEW i \in DOMAIN github'
    PROVE  Legible(lane, github'[i].doc)
<1> DEFINE c == Head(todo[k])
           doc == github'[i].doc
<1>1. CASE lane \notin {"branches", "environments"}
  BY <1>1 DEF Legible
<1>2. CASE lane \in {"branches", "environments"} /\ i \notin WithKey(github', k)
  <2> DEFINE j == github'[i].key
  <2>1. j # k /\ i \in WithKey(github', j)
    BY <1>2 DEF WithKey
  <2>2. i \in WithKey(github, j) /\ github'[i] = github[i]
    BY <2>1, CallKeeps
  <2>3. i \in DOMAIN github
    BY <2>2 DEF WithKey
  <2> QED
    BY <2>2, <2>3 DEF LegibleInv
<1>3. CASE lane \in {"branches", "environments"} /\ i \in WithKey(github', k)
  <2>1. /\ c.op \in {"remove", "delete"} => WithKey(github', k) = {}
        /\ c.op = "merge" => i \in WithKey(github, k) /\ doc = Overlay(c.body, github[i].doc)
        /\ c.op = "put" =>
             \/ i \in WithKey(github, k) /\ doc = PutDoc(lane, github[i].doc, c.body)
             \/ WithKey(github, k) = {} /\ doc = PutDoc(lane, [p \in {} |-> 0], c.body)
    BY <1>3, WrittenDocs
  <2>2. LegibleCall(lane, c)
    BY NextCall DEF LegibleInv
  <2> HIDE DEF c, doc
  <2>3. i \in WithKey(github, k) => Legible(lane, github[i].doc)
    BY DEF WithKey, LegibleInv
  <2>4. CASE lane = "environments"
    <3>1. c.op = "put" /\ "reviewers" \in DOMAIN c.body /\ c.body["reviewers"] \subseteq NumericIds
      BY <1>3, <2>1, <2>2, <2>4 DEF LegibleCall
    <3>2. doc = Overlay(c.body, Defaults[lane])
      BY <2>1, <2>4, <3>1 DEF PutDoc
    <3>3. doc["reviewers"] = c.body["reviewers"]
      BY <3>1, <3>2 DEF Overlay
    <3> QED
      BY <2>4, <3>1, <3>3 DEF Legible, doc
  <2>5. CASE lane = "branches"
    <3>1. c.op \in {"put", "merge"} /\ DOMAIN c.body \subseteq BranchProtection
      BY <2>2, <2>5 DEF LegibleCall
    <3>2. CASE c.op = "merge"
      <4>1. doc = Overlay(c.body, github[i].doc) /\ Legible(lane, github[i].doc)
        BY <2>1, <2>3, <3>2
      <4>2. DOMAIN doc = DOMAIN c.body \cup DOMAIN github[i].doc
        BY <4>1 DEF Overlay
      <4> QED
        BY <2>5, <3>1, <4>1, <4>2 DEF Legible, doc
    <3>3. CASE c.op = "put"
      <4>1. ASSUME NEW old, DOMAIN old \subseteq BranchProtection
            PROVE  Legible(lane, PutDoc(lane, old, c.body))
        <5> DEFINE fields == {p \in DOMAIN c.body : /\ p \in BranchFlags => c.body[p]
                                                    /\ p \in Containers => c.body[p] = "on"}
                   kept == IF "required_signatures" \in DOMAIN old
                           THEN Only(old, {"required_signatures"}) ELSE Defaults[lane]
        <5>1. PutDoc(lane, old, c.body) = Overlay(Only(c.body, fields), kept)
          BY <2>5 DEF PutDoc
        <5>2. DOMAIN Only(c.body, fields) \subseteq BranchProtection
          BY <3>1 DEF Only, Restrict
        <5>3. DOMAIN kept = {"required_signatures"}
          <6>1. lane \in DOMAIN Configs
            BY DEF IInv, RunTypes
          <6>2. DOMAIN Defaults[lane] = {"required_signatures"}
            BY <2>5, <6>1, SchemaAssumption DEF SchemaAssumption
          <6> QED
            BY <6>2 DEF Only, Restrict
        <5>4. "required_signatures" \in BranchProtection
          BY DEF BranchProtection
        <5> HIDE DEF fields, kept
        <5> QED
          <6>1. DOMAIN PutDoc(lane, old, c.body) = DOMAIN Only(c.body, fields) \cup DOMAIN kept
            BY <5>1 DEF Overlay
          <6> QED
            BY <2>5, <5>2, <5>3, <5>4, <6>1 DEF Legible
      <4>2. i \in WithKey(github, k) => DOMAIN github[i].doc \subseteq BranchProtection
        BY <2>3, <2>5 DEF Legible
      <4>3. DOMAIN [p \in {} |-> 0] \subseteq BranchProtection
        OBVIOUS
      <4> QED
        BY <2>1, <3>3, <4>1, <4>2, <4>3 DEF doc
    <3> QED
      BY <3>1, <3>2, <3>3
  <2> QED
    BY <1>3, <2>4, <2>5
<1> QED
  BY <1>1, <1>2, <1>3

\* Numbering GitHub's items anew leaves the same items.
LEMMA SameItems ==
    ASSUME IInv, github' = Renumbered
    PROVE  /\ \A r \in DOMAIN github' : \E i \in DOMAIN github : github'[r] = github[i]
           /\ \A i \in DOMAIN github : \E r \in DOMAIN github' : github'[r] = github[i]
<1> DEFINE D == DOMAIN github
           rank(i) == Cardinality({j \in D : j <= i})
           m == Cardinality(D)
           at(r) == CHOOSE i \in D : rank(i) = r
<1>1. github' = [r \in 1..m |-> github[at(r)]]
  BY DEF Renumbered
<1>2. PICK n \in Nat : D \in SUBSET (1..n)
  BY DEF IInv, IdsInv
<1>3. /\ m \in Nat
      /\ \A i \in D : rank(i) \in 1..m
      /\ \A i, j \in D : rank(i) = rank(j) => i = j
      /\ \A r \in 1..m : \E i \in D : rank(i) = r
  BY <1>2, Ranks
<1> HIDE DEF rank, m
<1>4. /\ \A r \in 1..m : at(r) \in D /\ rank(at(r)) = r
      /\ \A i \in D : at(rank(i)) = i
  BY <1>3
<1> HIDE DEF at
<1> QED
  BY <1>1, <1>3, <1>4

\* Every step keeps them so.
LEMMA NextLegible == IInv /\ LegibleInv /\ [Next]_vars => LegibleInv'
<1> SUFFICES ASSUME IInv, LegibleInv, [Next]_vars PROVE LegibleInv'
  OBVIOUS
<1>1. UNCHANGED <<lane, cfg>>
  BY DEF Next, Step, Fetch, Send, Report, Prefetch, CallFails, HangUp, Crash, Edit, vars
<1>2. ASSUME NEW records \in {{}, batch}, Fetch(records) PROVE LegibleInv'
  <2> DEFINE made == PlanFrom(Seen(records))
  <2>1. /\ before' = github /\ github' = github
        /\ todo' = [k \in Actionable(made) |-> Mutate(lane, k, made[k], cfg)]
    BY <1>2 DEF Fetch
  <2>2. ASSUME NEW k \in DOMAIN todo', NEW n \in 1..Len(todo'[k]) PROVE LegibleCall(lane, todo'[k][n])
    <3>1. k \in Actionable(made) /\ todo'[k] = Mutate(lane, k, made[k], cfg)
      BY <2>1
    <3>2. k \in DOMAIN made /\ made[k].action # "noop"
      BY <3>1 DEF Actionable
    <3>3. IsEntry(lane, cfg, k, made[k])
      BY <3>2, Entries
    <3> QED
      BY <3>1, <3>3, MutateLegible
  <2> QED
    BY <1>1, <2>1, <2>2 DEF LegibleInv
<1>3. ASSUME NEW k \in DOMAIN todo, MayGo(k),
             todo' = todo \/ todo' = [todo EXCEPT ![k] = Tail(@)],
             \/ github' = github
             \/ /\ Accepts(lane, github, Head(todo[k]))
                /\ github' = Apply(lane, github, Head(todo[k]), Fresh),
             UNCHANGED <<before, plan>>
      PROVE  LegibleInv'
  <2>1. Len(todo[k]) # 0 /\ IsCalls(todo[k], k, plan[k].id)
    BY <1>3 DEF MayGo, IInv, CallsInv
  <2>2. \A i \in DOMAIN github' : Legible(lane, github'[i].doc)
    <3>1. CASE github' = github
      BY <3>1 DEF LegibleInv
    <3>2. CASE github' # github
      BY <1>1, <1>3, <2>1, <3>2, CallLegible
    <3> QED
      BY <3>1, <3>2
  <2>3. \A j \in DOMAIN todo' : \A n \in 1..Len(todo'[j]) : LegibleCall(lane, todo'[j][n])
    <3>1. CASE todo' = todo
      BY <3>1 DEF LegibleInv
    <3>2. CASE todo' = [todo EXCEPT ![k] = Tail(@)]
      <4>1. /\ Len(Tail(todo[k])) = Len(todo[k]) - 1 /\ Len(todo[k]) \in Nat \ {0}
            /\ \A n \in 1..(Len(todo[k]) - 1) : Tail(todo[k])[n] = todo[k][n + 1]
        BY <2>1, TailCalls
      <4>2. \A n \in 1..Len(Tail(todo[k])) : LegibleCall(lane, Tail(todo[k])[n])
        <5> SUFFICES ASSUME NEW n \in 1..Len(Tail(todo[k])) PROVE LegibleCall(lane, Tail(todo[k])[n])
          OBVIOUS
        <5>1. n + 1 \in 1..Len(todo[k]) /\ n \in 1..(Len(todo[k]) - 1)
          BY <4>1
        <5>2. LegibleCall(lane, todo[k][n + 1])
          BY <5>1 DEF LegibleInv
        <5> QED
          BY <4>1, <5>1, <5>2
      <4>3. \A j \in DOMAIN todo : j # k => todo'[j] = todo[j]
        BY <3>2
      <4>4. DOMAIN todo' = DOMAIN todo /\ todo'[k] = Tail(todo[k])
        BY <3>2
      <4> QED
        BY <4>2, <4>3, <4>4 DEF LegibleInv
    <3> QED
      BY <1>3, <3>1, <3>2
  <2> QED
    BY <1>1, <1>3, <2>2, <2>3 DEF LegibleInv
<1>4. ASSUME NEW k \in DOMAIN todo, Send(k) PROVE LegibleInv'
  BY <1>3, <1>4 DEF Send
<1>5. ASSUME NEW k \in DOMAIN todo, CallFails(k) PROVE LegibleInv'
  BY <1>3, <1>5 DEF CallFails
<1>6. CASE Report
  <2>1. github' = Renumbered /\ todo' = none /\ before' = none
    BY <1>6 DEF Report, EndRun
  <2> QED
    BY <1>1, <2>1, SameItems DEF LegibleInv, none
<1>7. CASE Crash
  BY <1>1, <1>7 DEF Crash, EndRun, LegibleInv, none
<1>8. CASE Edit
  <2>1. UNCHANGED <<before, todo>>
    BY <1>8 DEF Edit, run
  <2>2. lane \in DOMAIN Configs
    BY DEF IInv, RunTypes
  <2>3. \A i \in DOMAIN github' : \/ i \in DOMAIN github /\ github'[i] = github[i]
                                  \/ github'[i] \in Edits[lane]
    BY <1>8 DEF Edit, Restrict
  <2>4. \A e \in Edits[lane] : Legible(lane, e.doc)
    BY <2>2, LegibleAssumption DEF LegibleAssumption
  <2> QED
    BY <1>1, <2>1, <2>3, <2>4 DEF LegibleInv
<1>9. CASE HangUp \/ Prefetch \/ UNCHANGED vars
  <2>1. UNCHANGED <<github, before, todo>>
    BY <1>9 DEF HangUp, Prefetch, vars, run
  <2> QED
    BY <1>1, <2>1 DEF LegibleInv
<1> QED
  BY <1>2, <1>4, <1>5, <1>6, <1>7, <1>8, <1>9 DEF Next, Step

(*------------------------- what an update states -------------------------*)

\* The calls of an update state what is declared.
LEMMA UpdateStates ==
    ASSUME NEW l \in DOMAIN Configs, l \notin {"deploy_keys", "secrets"},
           NEW c \in Configs[l], NEW k \in DOMAIN c, NEW d, IsEntry(l, c, k, d), d.action = "update",
           l = "webhooks" /\ "events" \in DOMAIN c[k] => c[k]["events"] # {},
           NEW n \in 1..Len(Mutate(l, k, d, c))
    PROVE  Faithful(l, c, k, Mutate(l, k, d, c)[n])
<1> DEFINE item == c[k]
           des == Desired(l, c)[k]
           s == Mutate(l, k, d, c)
           fit(call) == Faithful(l, c, k, call)
<1>0. ~Pending(l, k, d, c) /\ l \in LaneNames
  BY LaneRunsAssumption DEF Pending
<1>1. /\ DOMAIN des \subseteq JSONFields(l, item)
      /\ l \notin {"rulesets", "branches"} =>
           /\ DOMAIN des \subseteq DOMAIN item
           /\ \A p \in DOMAIN des : des[p] = item[p]
           /\ \A p \in (DOMAIN item \cap JSONFields(l, item)) \ OmitEmpty : p \in DOMAIN des
  BY DesiredFields
<1>2. \A op, id, body : LET call == Call(op, k, id, body)
                        IN  call.op = op /\ call.body = body
  BY DEF Call
<1>3. d.changes # {} /\ d.changes \subseteq DOMAIN des
  BY DEF IsEntry
<1>4. l # "environments" => \A m \in 1..Len(s) : Right(l, des, s[m].body)
  <2>1. l # "environments" => l \in FieldLanes
    BY <1>0 DEF FieldLanes
  <2>2. l # "environments" => Carries(s, l, des, d.changes)
    BY <1>0, <1>3, <2>1, MutateCarries
  <2> QED
    BY <2>2 DEF Carries
<1>5. ASSUME NEW call, s = <<call>>,
             call.op \in {"merge", "patch"} => DOMAIN call.body \subseteq DOMAIN des,
             call.op = "put" => l \in {"branches", "environments", "teams", "collaborators"},
             call.op \notin {"post", "delete"},
             call.op = "put" /\ l = "branches" => DOMAIN des \ Apart(l) \subseteq DOMAIN call.body,
             call.op = "put" /\ l = "environments" => call.body = EncodeEnvironment(item)
      PROVE  fit(s[n])
  <2>1. Len(s) = 1 /\ s[1] = call
    BY <1>5
  <2>2. n = 1 /\ s[n] = call
    BY <2>1
  <2>3. l # "environments" => Right(l, des, call.body)
    BY <1>4, <2>1
  <2> HIDE DEF s, des
  <2> QED
    BY <1>5, <2>2, <2>3 DEF Faithful, s, des
<1>6. CASE l = "repository"
  <2> DEFINE body == IF k = "topics" THEN des ELSE EncodeRepoPatch(des, d.changes)
  <2>1. s = <<Call("merge", k, 0, body)>>
    BY <1>0, <1>6 DEF Mutate, RepoMutate
  <2>2. DOMAIN body \subseteq DOMAIN des
    <3> HIDE DEF des
    <3> QED
      BY DEF EncodeRepoPatch, Only, Restrict
  <2> HIDE DEF s, des, body
  <2>20. fit(s[n])
    BY <1>2, <1>5, <2>1, <2>2
  <2> QED
    BY <2>20 DEF s
<1>7. CASE l \in {"teams", "collaborators", "variables"}
  <2> DEFINE body == Only(des, IF l = "variables" THEN {"value"} ELSE {"permission"})
  <2>1. s = <<Call(IF l = "variables" THEN "merge" ELSE "put", k, 0, body)>>
    BY <1>0, <1>7 DEF Mutate, TeamsMutate, CollaboratorsMutate, VariablesMutate
  <2>2. DOMAIN body \subseteq DOMAIN des
    <3> HIDE DEF des
    <3> QED
      BY DEF Only, Restrict
  <2> HIDE DEF s, des, body
  <2>20. fit(s[n])
    BY <1>2, <1>5, <1>7, <2>1, <2>2
  <2> QED
    BY <2>20 DEF s
<1>8. CASE l = "environments"
  <2>1. s = <<Call("put", k, 0, EncodeEnvironment(item))>>
    BY <1>0, <1>8 DEF Mutate, EnvironmentsMutate
  <2> HIDE DEF s, des
  <2>20. fit(s[n])
    BY <1>2, <1>5, <1>8, <2>1
  <2> QED
    BY <2>20 DEF s
<1>9. CASE l = "webhooks"
  <2> DEFINE body == EncodeHook(item)
  <2>1. s = <<Call("patch", k, d.id, body)>>
    BY <1>0, <1>9 DEF Mutate, WebhooksMutate
  <2>2. DOMAIN body = DOMAIN item \cap Webhook
    BY DEF EncodeHook
  <2>3. des = ToMap(item, Webhook)
    BY <1>9 DEF Desired, Normalize, JSONFields
  <2>4. \A p \in DOMAIN item \cap Webhook : p \in OmitEmpty => item[p] # {}
    BY <1>9 DEF Webhook, OmitEmpty
  <2>5. DOMAIN item \cap Webhook \subseteq DOMAIN des
    <3> HIDE DEF des, item
    <3> QED
      BY <2>3, <2>4 DEF ToMap, Only, Restrict
  <2> HIDE DEF s, des, body
  <2>20. fit(s[n])
    BY <1>2, <1>5, <2>1, <2>2, <2>5
  <2> QED
    BY <2>20 DEF s
<1>10. CASE l = "rulesets"
  <2> DEFINE body == RulesetBody(des)
             full == NormalizeRuleset(item)
  <2>1. s = <<Call("patch", k, d.id, body)>>
    BY <1>0, <1>10 DEF Mutate, RulesetsMutate
  <2>2. des = ToMap(full, Ruleset)
    BY <1>10 DEF Desired, Normalize, JSONFields
  <2>3. "rules" \in DOMAIN full
    BY DEF NormalizeRuleset, Complete, Overlay
  <2>4. "rules" \in DOMAIN des
    <3> HIDE DEF des, full
    <3> QED
      BY <2>2, <2>3 DEF ToMap, Only, Restrict, Ruleset, OmitEmpty
  <2>5. DOMAIN body \subseteq DOMAIN des
    <3> HIDE DEF des
    <3> QED
      BY <2>4 DEF RulesetBody, Overlay, Only, Restrict
  <2> HIDE DEF s, des, body
  <2>20. fit(s[n])
    BY <1>2, <1>5, <2>1, <2>5
  <2> QED
    BY <2>20 DEF s
<1>11. CASE l = "autolinks"
  <2> DEFINE body == EncodeAutolink(item)
             gone == Bare("delete", k, d.id)
             made == Call("post", k, 0, body)
  <2>1. s = <<gone>> \o <<made>>
    BY <1>0, <1>11 DEF Mutate, AutolinksMutate
  <2>2. made.op = "post" /\ made.body = body /\ gone.op = "delete"
    BY DEF Bare, Call
  <2>3. DOMAIN des \subseteq DOMAIN body
    BY <1>1, <1>11 DEF EncodeAutolink, Only, Restrict, JSONFields
  <2> HIDE DEF s, des, body, gone, made
  <2>4. s = <<gone, made>>
    BY <2>1, Pair
  <2>5. \A m \in 1..Len(s) : s[m] = gone \/ s[m] = made
    BY <2>4
  <2>6. n \in 1..Len(s)
    BY DEF s
  <2>7. Right(l, des, s[n].body)
    BY <1>4, <1>11, <2>6
  <2> QED
    BY <1>11, <2>2, <2>3, <2>5, <2>6, <2>7 DEF Faithful, s, des
<1>12. CASE l = "branches"
  <2> DEFINE full == NormalizeBranch(item)
             body == EncodeProtection(full)
             signed == Only(des, {"required_signatures"})
             first == Call("put", k, 0, body)
             second == Call("merge", k, 0, signed)
  <2>1. s = <<first>> \o (IF "required_signatures" \in d.changes THEN <<second>> ELSE <<>>)
    BY <1>0, <1>12 DEF Mutate, applyBranchProtection
  <2>2. des = ToMap(full, BranchProtection)
    BY <1>12 DEF Desired, Normalize, JSONFields
  <2>3. first.op = "put" /\ first.body = body /\ second.op = "merge" /\ second.body = signed
    BY DEF Call
  <2>4. DOMAIN signed \subseteq DOMAIN des
    <3> HIDE DEF des
    <3> QED
      BY DEF Only, Restrict
  <2> HIDE DEF full, des, s, signed, first, second
  <2>5. DOMAIN des \subseteq DOMAIN full \cap BranchProtection
    BY <2>2 DEF ToMap, Only, Restrict
  <2>6. \A p \in (DOMAIN full \cap BranchProtection) \ {"required_signatures"} : p \in DOMAIN body
    BY DEF EncodeProtection, Overlay, Only, Restrict
  <2> HIDE DEF body
  <2>7. DOMAIN des \ Apart(l) \subseteq DOMAIN body
    BY <1>12, <2>5, <2>6 DEF Apart
  <2>8. s = <<first>> \/ s = <<first, second>>
    <3>1. s = <<first>> \o <<second>> \/ s = <<first>> \o <<>>
      BY <2>1
    <3>2. <<first>> \o <<second>> = <<first, second>>
      BY Pair
    <3>3. <<first>> \o <<>> = <<first>>
      OBVIOUS
    <3> QED
      BY <3>1, <3>2, <3>3
  <2>9. \A m \in 1..Len(s) : s[m] = first \/ s[m] = second
    BY <2>8
  <2>10. n \in 1..Len(s)
    BY DEF s
  <2>11. Right(l, des, s[n].body)
    BY <1>4, <1>12, <2>10
  <2> QED
    BY <1>12, <2>3, <2>4, <2>7, <2>9, <2>10, <2>11 DEF Faithful, s, des
<1>13. CASE l \in {"actions", "security"}
  <2>1. ASSUME NEW B, OfBodies(s, B), \A body \in B : DOMAIN body \subseteq DOMAIN des,
               \A m \in 1..Len(s) : s[m].op = "merge"
        PROVE  fit(s[n])
    <3>1. n \in 1..Len(s)
      OBVIOUS
    <3>2. Right(l, des, s[n].body)
      BY <1>4, <1>13, <3>1
    <3> HIDE DEF s, des
    <3>3. s[n].op = "merge" /\ DOMAIN s[n].body \subseteq DOMAIN des
      BY <2>1, <3>1 DEF OfBodies
    <3> QED
      BY <3>2, <3>3 DEF Faithful, s, des
  <2>2. \A m \in 1..Len(s) : s[m].op = "merge"
    <3>1. \A x \in DOMAIN c : DOMAIN Desired(l, c)[x] \subseteq JSONFields(l, c[x])
      BY DesiredFields
    <3>2. Suits(s, l, d.action)
      BY <1>0, <1>13, <3>1, MutateSuits
    <3> QED
      BY <1>13, <3>2 DEF Suits, FixedLanes
  <2>3. CASE l = "actions"
    <3> DEFINE mode == EncodeActionsPermissions(item)
               list == EncodeActionsAllowed(item)
               flow == EncodeWorkflowDefaults(item)
               part(fields, body) ==
                 IF d.changes \cap fields = {} THEN <<>> ELSE <<Call("merge", k, 0, body)>>
               p == part({"enabled", "allowed_actions"}, mode)
               q == part(ActionsAllowListFields, list)
               r == part(ActionsWorkflowFields, flow)
               B == {mode, list, flow}
    <3>1. s = p \o q \o r
      BY <1>0, <2>3 DEF Mutate, writeActions
    <3>2. OfBodies(p, B) /\ OfBodies(q, B) /\ OfBodies(r, B)
      BY PartBodies
    <3>3. des = ToMap(item, ActionsConfig)
      BY <2>3 DEF Desired, Normalize, JSONFields
    <3> HIDE DEF p, q, r, s, des
    <3>4. OfBodies(s, B)
      BY <3>1, <3>2, BodiesConcat
    <3>5. DOMAIN mode \subseteq DOMAIN des /\ DOMAIN list \subseteq DOMAIN des /\ DOMAIN flow \subseteq DOMAIN des
      BY <3>3 DEF EncodeActionsPermissions, EncodeActionsAllowed, EncodeWorkflowDefaults, ToMap, Only,
                  Restrict, ActionsConfig, ActionsWorkflowFields, OmitEmpty
    <3> HIDE DEF mode, list, flow
    <3>20. fit(s[n])
      BY <2>1, <2>2, <3>4, <3>5
    <3> QED
      BY <3>20 DEF s
  <2>4. CASE l = "security"
    <3> DEFINE part(body) == IF DOMAIN body = {} THEN <<>> ELSE <<Call("merge", k, 0, body)>>
               one(x) == Only(des, d.changes \cap {x})
               scans == EncodeSecurity(des, d.changes)
               p == part(one("automated_security_fixes"))
               q == part(one("private_vulnerability_reporting"))
               r == part(one("vulnerability_alerts"))
               t == part(scans)
               B == {one("automated_security_fixes"), one("private_vulnerability_reporting"),
                     one("vulnerability_alerts"), scans}
    <3>1. s = p \o q \o r \o t
      BY <1>0, <2>4 DEF Mutate, writeSecurity
    <3>2. OfBodies(p, B) /\ OfBodies(q, B) /\ OfBodies(r, B) /\ OfBodies(t, B)
      BY PartBodies
    <3> HIDE DEF des
    <3>3. (\A x : DOMAIN one(x) \subseteq DOMAIN des) /\ DOMAIN scans \subseteq DOMAIN des
      BY <1>3 DEF Only, Restrict, EncodeSecurity
    <3> HIDE DEF one, scans, p, q, r, t, s
    <3>4. OfBodies(p \o q, B)
      BY <3>2, BodiesConcat
    <3>5. OfBodies(p \o q \o r, B)
      BY <3>2, <3>4, BodiesConcat
    <3>6. OfBodies(s, B)
      BY <3>1, <3>2, <3>5, BodiesConcat
    <3>20. fit(s[n])
      BY <2>1, <2>2, <3>3, <3>6
    <3> QED
      BY <3>20 DEF s
  <2> QED
    BY <1>13, <2>3, <2>4
<1>14. CASE l = "pages"
  <2> DEFINE body == EncodePagesUpdate(item)
  <2>1. s = <<Call("merge", k, 0, body)>>
    BY <1>0, <1>14 DEF Mutate, PagesMutate
  <2>2. DOMAIN body = DOMAIN item \cap PagesConfig
    BY DEF EncodePagesUpdate, Only, Restrict
  <2>3. DOMAIN item \cap PagesConfig \subseteq DOMAIN des
    BY <1>1, <1>14 DEF JSONFields, PagesConfig, OmitEmpty
  <2> HIDE DEF s, des, body
  <2>20. fit(s[n])
    BY <1>2, <1>5, <2>1, <2>2, <2>3
  <2> QED
    BY <2>20 DEF s
<1>15. CASE l = "custom_properties"
  <2>1. s = <<Call("merge", k, 0, item)>>
    BY <1>0, <1>15 DEF Mutate, CustomPropertiesMutate, EncodeCustomProperties
  <2>2. des = item
    BY <1>15 DEF Desired, Normalize
  <2> HIDE DEF s, des
  <2>20. fit(s[n])
    BY <1>2, <1>5, <2>1, <2>2
  <2> QED
    BY <2>20 DEF s
<1> QED
  BY <1>0, <1>6, <1>7, <1>8, <1>9, <1>10, <1>11, <1>12, <1>13, <1>14, <1>15 DEF LaneNames

(*--------------------- writes, as a run would read them ------------------*)

\* Where an item has one field, an entry that changes anything changes that.
LEMMA SingleField ==
    ASSUME NEW l \in {"teams", "collaborators", "variables", "deploy_keys"}, NEW c, NEW k \in DOMAIN c,
           NEW changes, changes # {}, changes \subseteq DOMAIN Desired(l, c)[k],
           NEW w, NEW p, p \notin changes
    PROVE  p \notin DOMAIN View(l, w)
<1> DEFINE fields == CASE l = "variables" -> {"value"}
                       [] l = "deploy_keys" -> {"read_only"}
                       [] OTHER -> {"permission"}
<1>1. DOMAIN Desired(l, c)[k] \subseteq fields
  BY DesiredFields DEF JSONFields, DeployKey
<1>2. DOMAIN View(l, w) \subseteq fields
  BY DEF View, Decode, DecodeTeam, DecodeCollaborator, DecodeVariable, DecodeKey, Only, Restrict, DeployKey
<1>3. p \notin fields
  BY <1>1
<1> QED
  BY <1>2, <1>3

\* What a call does not state is read as before.
LEMMA UnstatedAgrees ==
    ASSUME NEW l \in PlainLanes, NEW old, NEW w, NEW body, NEW p, p \notin DOMAIN body,
           Agree(View(l, old), View(l, w), p)
    PROVE  Agree(View(l, old), View(l, Overlay(body, w)), p)
<1> DEFINE new == Overlay(body, w)
<1>1. Agree(new, w, p)
  BY DEF Agree, Overlay
<1> HIDE DEF new
<1>2. Agree(View(l, new), View(l, w), p)
  BY <1>1, PlainView
<1> QED
  BY <1>2 DEF Agree, new

\* What it states is read as declared, and was if it was read so before.
LEMMA StatedAgrees ==
    ASSUME NEW l \in PlainLanes, NEW old, NEW new, NEW p, p \in DOMAIN new, NEW v,
           p \in DOMAIN View(l, old), View(l, old)[p] = v, Means(l, p, new[p]) = v
    PROVE  Agree(View(l, old), View(l, new), p)
<1>1. p \in DOMAIN View(l, new)
  BY PlainView
<1>2. View(l, new)[p] = Means(l, p, new[p])
  BY <1>1, PlainView
<1> QED
  BY <1>1, <1>2 DEF Agree

\* A put of a protection record changes nothing that is declared as it was and
\* keeps the signatures.
LEMMA ProtectionAgrees ==
    ASSUME NEW old, NEW w, NEW body, NEW des, NEW p,
           Legible("branches", old), Legible("branches", w), Legible("branches", PutDoc("branches", w, body)),
           "required_signatures" \notin DOMAIN body,
           Agree(View("branches", old), View("branches", w), p) \/ p # "required_signatures",
           DOMAIN des \ {"required_signatures"} \subseteq DOMAIN body, Right("branches", des, body),
           p \in BranchFlags /\ p \in DOMAIN des => des[p] \in BOOLEAN,
           p \in Containers /\ p \in DOMAIN des => des[p] \in {"on", "off"},
           p \in DOMAIN des => p \in DOMAIN View("branches", old) /\ View("branches", old)[p] = des[p],
           p \in BranchProtection \ {"required_signatures"} => p \in DOMAIN des
    PROVE  Agree(View("branches", old), View("branches", PutDoc("branches", w, body)), p)
<1> DEFINE fields == {f \in DOMAIN body : /\ f \in BranchFlags => body[f]
                                          /\ f \in Containers => body[f] = "on"}
           kept == Only(w, {"required_signatures"})
           on == Only(body, fields)
           new == PutDoc("branches", w, body)
<1>1. new = Overlay(on, kept)
  BY DEF PutDoc, Legible
<1>2. /\ DOMAIN on = fields /\ \A f \in fields : on[f] = body[f]
      /\ DOMAIN kept = {"required_signatures"} /\ kept["required_signatures"] = w["required_signatures"]
  BY DEF Only, Restrict, Legible
<1>3. /\ DOMAIN new = fields \cup {"required_signatures"}
      /\ \A f \in fields : new[f] = body[f]
      /\ new["required_signatures"] = w["required_signatures"]
  <2> HIDE DEF on, kept, fields, new
  <2>1. /\ DOMAIN Overlay(on, kept) = DOMAIN on \cup DOMAIN kept
        /\ \A f \in DOMAIN on : Overlay(on, kept)[f] = on[f]
        /\ \A f \in DOMAIN kept : f \notin DOMAIN on => Overlay(on, kept)[f] = kept[f]
    BY DEF Overlay
  <2>2. "required_signatures" \notin fields
    BY DEF fields
  <2> QED
    BY <1>1, <1>2, <2>1, <2>2
<1> HIDE DEF on, kept, new
<1>4. BranchFlags \cup Containers \subseteq BranchProtection \ {"required_signatures"}
      /\ \A f \in BranchFlags : f \notin Containers
  BY DEF BranchProtection, BranchFlags, Containers
<1>5. CASE p = "required_signatures"
  <2>1. Agree(new, w, p)
    BY <1>3, <1>5 DEF Agree, Legible
  <2>2. "branches" \in PlainLanes
    BY DEF PlainLanes, LaneNames
  <2>3. Agree(View("branches", new), View("branches", w), p)
    BY <2>1, <2>2, PlainView
  <2> QED
    BY <1>5, <2>3 DEF Agree, new
<1>6. CASE p \notin BranchProtection
  <2>1. p \notin DOMAIN new /\ p \notin DOMAIN old
    BY <1>6 DEF Legible, new
  <2>2. p \notin DOMAIN View("branches", new) /\ p \notin DOMAIN View("branches", old)
    <3>1. /\ DOMAIN View("branches", new) = DOMAIN new \cup BranchFlags \cup Containers
          /\ DOMAIN View("branches", old) = DOMAIN old \cup BranchFlags \cup Containers
      BY ProtectionView
    <3> QED
      BY <1>4, <1>6, <2>1, <3>1
  <2> QED
    BY <2>2 DEF Agree, new
<1>7. CASE p \in BranchProtection \ {"required_signatures"}
  <2>1. p \in DOMAIN des /\ p \in DOMAIN body /\ body[p] = des[p]
    BY <1>7 DEF Right, Means
  <2>2. p \in DOMAIN View("branches", new) /\ View("branches", new)[p] = des[p]
    <3>1. CASE p \in fields
      <4>1. p \in DOMAIN new /\ new[p] = des[p]
        BY <1>3, <2>1, <3>1
      <4> QED
        BY <4>1, ProtectionView
    <3>2. CASE p \notin fields
      <4>1. \/ p \in BranchFlags /\ des[p] = FALSE
            \/ p \in Containers /\ des[p] = "off"
        BY <2>1, <3>2
      <4>2. p \notin DOMAIN new
        BY <1>3, <1>7, <3>2
      <4> QED
        BY <1>4, <4>1, <4>2, ProtectionView
    <3> QED
      BY <3>1, <3>2
  <2> QED
    BY <2>1, <2>2 DEF Agree, new
<1> QED
  BY <1>5, <1>6, <1>7

\* A put of an environment changes nothing that is declared as it was, but for
\* the rule about self-review.
LEMMA EnvironmentAgrees ==
    ASSUME NEW old, NEW other, NEW item, NEW p, Legible("environments", old),
           \A q \in BranchPolicy \cap DOMAIN item :
              "deployment_branch_policy" \in DOMAIN item /\ item["deployment_branch_policy"] = "on",
           p \in Environment => /\ p \in DOMAIN item /\ p # "prevent_self_review"
                                /\ p \in DOMAIN View("environments", old)
                                /\ View("environments", old)[p] = item[p]
    PROVE  Agree(View("environments", old), View("environments", Overlay(EncodeEnvironment(item), other)), p)
<1> DEFINE body == EncodeEnvironment(item)
           new == Overlay(body, other)
<1>1. /\ \A q \in (DOMAIN item \cap Environment) \ {"reviewers"} : q \in DOMAIN body /\ body[q] = item[q]
      /\ "reviewers" \in DOMAIN body
      /\ "reviewers" \in DOMAIN item => body["reviewers"] = item["reviewers"] \cap NumericIds
  BY DEF EncodeEnvironment, Overlay, Only, Restrict
<1>2. \A q \in DOMAIN body : q \in DOMAIN new /\ new[q] = body[q]
  BY DEF Overlay
<1> HIDE DEF body, new
<1>3. CASE p \notin Environment
  BY <1>3, EnvironmentView DEF Agree, new, body
<1>4. CASE p \in Environment
  <2>1. p \in DOMAIN old /\ old[p] = item[p]
    BY <1>4, EnvironmentView
  <2>2. p \in DOMAIN View("environments", new) /\ View("environments", new)[p] = item[p]
    <3>1. CASE p = "reviewers"
      <4>1. old["reviewers"] # {}
        BY <1>4, <3>1, EnvironmentView
      <4>2. old["reviewers"] \subseteq NumericIds
        BY <2>1, <3>1 DEF Legible
      <4>3. item["reviewers"] \cap NumericIds = item["reviewers"] /\ item["reviewers"] # {}
        BY <2>1, <3>1, <4>1, <4>2
      <4>4. p \in DOMAIN new /\ new[p] = item[p]
        BY <1>1, <1>2, <1>4, <3>1, <4>3
      <4> QED
        BY <1>4, <3>1, <4>3, <4>4, EnvironmentView
    <3>2. CASE p = "wait_timer"
      <4>1. old[p] # 0
        BY <1>4, <3>2, EnvironmentView
      <4>2. p \in DOMAIN new /\ new[p] = item[p]
        BY <1>1, <1>2, <1>4, <3>2
      <4> QED
        BY <1>4, <2>1, <3>2, <4>1, <4>2, EnvironmentView
    <3>3. CASE p \notin {"reviewers", "wait_timer"}
      <4>1. p \notin {"reviewers", "wait_timer", "prevent_self_review"}
        BY <1>4, <3>3
      <4>2. "deployment_branch_policy" \in DOMAIN item /\ item["deployment_branch_policy"] = "on"
        <5>1. CASE p = "deployment_branch_policy"
          BY <1>4, <2>1, <4>1, <5>1, EnvironmentView
        <5>2. CASE p # "deployment_branch_policy"
          BY <1>4, <4>1, <5>2 DEF Environment, BranchPolicy
        <5> QED
          BY <5>1, <5>2
      <4>3. p \in DOMAIN new /\ new[p] = item[p] /\ new["deployment_branch_policy"] = "on"
        <5>1. "deployment_branch_policy" \in Environment \ {"reviewers"}
          BY DEF Environment
        <5> QED
          BY <1>1, <1>2, <1>4, <4>1, <4>2, <5>1
      <4> QED
        BY <1>4, <4>1, <4>3, EnvironmentView
    <3> QED
      BY <3>1, <3>2, <3>3
  <2> QED
    BY <1>4, <2>2 DEF Agree, new, body
<1> QED
  BY <1>3, <1>4

(*------------------------------- its steps -------------------------------*)

\* A run that starts accounts for what its entries leave alone.
LEMMA FetchShows ==
    ASSUME IInv, Loaded, NEW records \in {{}, batch}, Fetch(records)
    PROVE  ShowInv'
<1> DEFINE made == PlanFrom(Seen(records))
<1>1. /\ phase' = "applying" /\ plan' = made /\ before' = github
      /\ todo' = [k \in Actionable(made) |-> Mutate(lane, k, made[k], cfg)]
      /\ disturbed' = (\E p \in records : p.of # github)
      /\ UNCHANGED <<lane, cfg, github>>
  BY DEF Fetch
<1> SUFFICES ASSUME ~disturbed' PROVE ShowInv'
  BY DEF ShowInv
<1>2. \A p \in records : p.of = github
  BY <1>1
<1>3. lane \in DOMAIN Configs /\ cfg \in Configs[lane] /\ lane \in LaneNames
  BY LaneRunsAssumption DEF IInv, RunTypes
<1>4. ASSUME NEW k \in Actionable(made)
      PROVE  /\ IsEntry(lane, cfg, k, made[k])
             /\ lane = "secrets" => made[k].action # "update"
             /\ made[k].action = "create" => WithKey(github, k) = {}
             /\ made[k].action = "update" => WithKey(github, k) # {}
  <2>1. k \in DOMAIN made /\ made[k].action # "noop"
    BY <1>4 DEF Actionable
  <2> QED
    BY <2>1, Entries
<1> HIDE DEF made
<1>5. ASSUME NEW k \in Actionable(made), made[k].action = "update"
      PROVE  /\ k \in DOMAIN cfg /\ made[k].changes # {}
             /\ made[k].changes \subseteq DOMAIN Desired(lane, cfg)[k]
  BY <1>4, <1>5 DEF IsEntry
<1>6. ASSUME NEW k \in Actionable(made), made[k].action = "update" PROVE Covered(k)'
  <2> SUFFICES ASSUME NEW i \in WithKey(github, k), NEW j \in WithKey(github, k),
                      NEW p, p \notin made[k].changes
               PROVE  Agree(View(lane, github[i].doc), View(lane, github[j].doc), p)
    BY <1>1 DEF Covered, WithKey
  <2>1. CASE lane = "deploy_keys"
    <3>1. p \notin DOMAIN View(lane, github[i].doc) /\ p \notin DOMAIN View(lane, github[j].doc)
      BY <1>5, <1>6, <2>1, SingleField
    <3> QED
      BY <3>1 DEF Agree
  <2>2. CASE lane # "deploy_keys"
    <3>1. i = j
      BY <2>2 DEF IInv, StoreInv, WithKey
    <3> QED
      BY <3>1 DEF Agree
  <2> QED
    BY <2>1, <2>2
<1>7. ASSUME NEW k \in Actionable(made), made[k].action = "update", lane # "deploy_keys" PROVE AsRead(k)'
  <2> DEFINE des == Desired(lane, cfg)[k]
  <2> SUFFICES ASSUME NEW p \in DOMAIN des \ made[k].changes, NEW i \in WithKey(github, k)
               PROVE  /\ p \in DOMAIN View(lane, github[i].doc)
                      /\ View(lane, github[i].doc)[p] = des[p]
    BY <1>1 DEF AsRead, WithKey
  <2>1. k \in DOMAIN cfg
    BY <1>5, <1>7
  <2>2. made[k].changes = Fields(Decode(lane, cfg[k], github[i].doc), des)
    BY <1>2, <1>7, <2>1, TruePlan DEF made, TitlesAreKeys
  <2>3. p \in DOMAIN Decode(lane, cfg[k], github[i].doc)
        /\ Decode(lane, cfg[k], github[i].doc)[p] = des[p]
    BY <2>2 DEF Fields
  <2>4. DOMAIN cfg[k] \subseteq JSONFields(lane, cfg[k])
    BY <1>3, <1>7, <2>1, ItemsAssumption DEF ItemsAssumption
  <2> QED
    BY <1>3, <2>3, <2>4, ReadIsSeen
<1>8. ASSUME NEW k \in Actionable(made), made[k].action = "update", lane # "deploy_keys",
             NEW n \in 1..Len(Mutate(lane, k, made[k], cfg))
      PROVE  Faithful(lane, cfg, k, Mutate(lane, k, made[k], cfg)[n])
  <2>1. lane # "secrets" /\ k \in DOMAIN cfg /\ IsEntry(lane, cfg, k, made[k])
    BY <1>4, <1>5, <1>8
  <2>2. lane = "webhooks" /\ "events" \in DOMAIN cfg[k] => cfg[k]["events"] # {}
    BY <2>1 DEF Loaded
  <2> QED
    BY <1>3, <1>8, <2>1, <2>2, UpdateStates
<1>9. ASSUME NEW k \in DOMAIN todo'
      PROVE  /\ plan'[k].action = "create" => WithKey(before', k) = {}
             /\ plan'[k].action = "update" =>
                  /\ k \in DOMAIN cfg' /\ plan'[k].changes # {}
                  /\ plan'[k].changes \subseteq DOMAIN Desired(lane', cfg')[k]
                  /\ Covered(k)'
                  /\ lane' # "deploy_keys" =>
                       /\ AsRead(k)'
                       /\ lane' = "branches" => WithKey(github', k) # {}
                       /\ \A n \in 1..Len(todo'[k]) : Faithful(lane', cfg', k, todo'[k][n])
  <2>1. k \in Actionable(made) /\ todo'[k] = Mutate(lane, k, made[k], cfg)
    BY <1>1
  <2>2. made[k].action = "create" => WithKey(before', k) = {}
    BY <1>1, <1>4, <2>1
  <2>3. ASSUME made[k].action = "update"
        PROVE  /\ k \in DOMAIN cfg' /\ plan'[k].changes # {}
               /\ plan'[k].changes \subseteq DOMAIN Desired(lane', cfg')[k]
               /\ Covered(k)'
               /\ lane' # "deploy_keys" =>
                    /\ AsRead(k)'
                    /\ lane' = "branches" => WithKey(github', k) # {}
    BY <1>1, <1>4, <1>5, <1>6, <1>7, <2>1, <2>3
  <2>4. ASSUME made[k].action = "update", lane # "deploy_keys"
        PROVE  \A n \in 1..Len(todo'[k]) : Faithful(lane', cfg', k, todo'[k][n])
    BY <1>1, <1>8, <2>1, <2>4
  <2> QED
    BY <1>1, <2>2, <2>3, <2>4
<1>10. DOMAIN todo' = Actionable(plan')
  BY <1>1
<1>11. \A k : /\ WithKey(github', k) = WithKey(before', k)
              /\ \A i \in WithKey(before', k) : github'[i].doc = before'[i].doc
  BY <1>1
<1> QED
  BY <1>9, <1>10, <1>11 DEF ShowInv

\* An answered call of an update changes no more than its entry shows.
LEMMA SendCovers ==
    ASSUME IInv, LegibleInv, LegibleInv', ShowInv, phase = "applying", ~disturbed,
           NEW k \in DOMAIN todo, Len(todo[k]) # 0, plan[k].action = "update",
           Accepts(lane, github, Head(todo[k])),
           github' = Apply(lane, github, Head(todo[k]), Fresh),
           UNCHANGED <<lane, cfg, plan, before>>
    PROVE  Covered(k)'
<1> DEFINE c == Head(todo[k])
           des == Desired(lane, cfg)[k]
<1> SUFFICES ASSUME NEW i \in WithKey(before, k), NEW j \in WithKey(github', k),
                    NEW p, p \notin plan[k].changes \cup Unshown(k)
             PROVE  Agree(View(lane, before[i].doc), View(lane, github'[j].doc), p)
  BY DEF Covered, Unshown, Replaced
<1> DEFINE old == before[i].doc
           new == github'[j].doc
<1>1. /\ k \in DOMAIN cfg /\ plan[k].changes # {} /\ plan[k].changes \subseteq DOMAIN des
      /\ Covered(k)
      /\ lane # "deploy_keys" =>
           /\ AsRead(k)
           /\ lane = "branches" => WithKey(github, k) # {}
           /\ \A n \in 1..Len(todo[k]) : Faithful(lane, cfg, k, todo[k][n])
  BY DEF ShowInv
<1>2. CASE lane \in {"teams", "collaborators", "variables", "deploy_keys"}
  <2>1. p \notin DOMAIN View(lane, old) /\ p \notin DOMAIN View(lane, new)
    BY <1>1, <1>2, SingleField
  <2> QED
    BY <2>1 DEF Agree
<1>3. CASE lane \notin {"teams", "collaborators", "variables", "deploy_keys"}
  <2>1. c.op \in Ops /\ Faithful(lane, cfg, k, c)
    <3>1. c = todo[k][1] /\ 1 \in 1..Len(todo[k]) /\ c.op \in Ops
      BY NextCall
    <3> QED
      BY <1>1, <1>3, <3>1
  <2>2. /\ c.op \in {"remove", "delete"} => WithKey(github', k) = {}
        /\ c.op \in {"merge", "patch"} => j \in WithKey(github, k) /\ new = Overlay(c.body, github[j].doc)
        /\ c.op = "post" => new = Overlay(c.body, Defaults[lane])
        /\ c.op = "put" =>
             \/ j \in WithKey(github, k) /\ new = PutDoc(lane, github[j].doc, c.body)
             \/ WithKey(github, k) = {} /\ new = PutDoc(lane, [q \in {} |-> 0], c.body)
    BY <1>3, WrittenDocs
  <2>3. c.op \in {"merge", "patch", "post", "put"}
    BY <2>1, <2>2 DEF Ops
  <2>4. \A q \in DOMAIN des \ plan[k].changes : q \in DOMAIN View(lane, old) /\ View(lane, old)[q] = des[q]
    BY <1>1, <1>3 DEF AsRead
  <2>5. \A m \in WithKey(github, k) : Agree(View(lane, old), View(lane, github[m].doc), p)
    BY <1>1 DEF Covered
  <2>6. lane \in LaneNames
    BY LaneRunsAssumption DEF IInv, RunTypes
  <2>7. lane # "environments" => Right(lane, des, c.body)
    BY <2>1 DEF Faithful
  <2>8. p \in Replaced => p \in DOMAIN des /\ p # "prevent_self_review"
    BY <1>1 DEF Unshown
  <2>9. Legible(lane, old) /\ Legible(lane, new)
    <3>1. i \in DOMAIN before /\ j \in DOMAIN github'
      BY DEF WithKey
    <3> QED
      BY <3>1 DEF LegibleInv
  <2> HIDE DEF c, des, old, new
  <2>10. CASE c.op \in {"merge", "patch"}
    <3>1. DOMAIN c.body \subseteq DOMAIN des
      BY <2>1, <2>10 DEF Faithful, des
    <3>2. lane # "environments"
      <4> SUFFICES ASSUME lane = "environments" PROVE FALSE
        OBVIOUS
      <4>1. LegibleCall(lane, c)
        BY NextCall DEF LegibleInv, c
      <4> QED
        BY <2>10, <4>1 DEF LegibleCall
    <3>3. lane \in PlainLanes
      BY <1>3, <2>6, <3>2 DEF PlainLanes
    <3>4. CASE p \notin DOMAIN c.body
      BY <2>2, <2>5, <2>10, <3>3, <3>4, UnstatedAgrees DEF old, new
    <3>5. CASE p \in DOMAIN c.body
      <4>1. p \in DOMAIN des \ plan[k].changes
        BY <3>1, <3>5
      <4>2. p \in DOMAIN new /\ new[p] = c.body[p]
        BY <2>2, <2>10, <3>5 DEF Overlay
      <4>3. Means(lane, p, new[p]) = des[p]
        BY <2>7, <3>2, <3>5, <4>1, <4>2 DEF Right
      <4> QED
        BY <2>4, <3>3, <4>1, <4>2, <4>3, StatedAgrees DEF old, new
    <3> QED
      BY <3>4, <3>5
  <2>11. CASE c.op = "post"
    <3>1. lane = "autolinks" /\ DOMAIN des \subseteq DOMAIN c.body
      BY <2>1, <2>11 DEF Faithful, des
    <3>2. lane \in PlainLanes
      BY <1>3, <2>6, <3>1 DEF PlainLanes
    <3>3. CASE p \notin Autolink
      <4>1. p \notin DOMAIN View(lane, old) /\ p \notin DOMAIN View(lane, new)
        BY <3>1, <3>3 DEF View, Decode, DecodeAutolink, Only, Restrict
      <4> QED
        BY <4>1 DEF Agree, old, new
    <3>4. CASE p \in Autolink
      <4>1. p \in DOMAIN des \ plan[k].changes /\ p \in DOMAIN c.body
        BY <2>8, <3>1, <3>4 DEF Replaced
      <4>2. p \in DOMAIN new /\ new[p] = c.body[p]
        BY <2>2, <2>11, <4>1 DEF Overlay
      <4>3. Means(lane, p, new[p]) = des[p]
        BY <2>7, <3>1, <4>1, <4>2 DEF Right
      <4> QED
        BY <2>4, <3>2, <4>1, <4>2, <4>3, StatedAgrees DEF old, new
    <3> QED
      BY <3>3, <3>4
  <2>12. CASE c.op = "put"
    <3>1. CASE lane = "branches"
      <4>1. j \in WithKey(github, k) /\ new = PutDoc("branches", github[j].doc, c.body)
        BY <1>1, <1>3, <2>2, <2>12, <3>1
      <4>2. Legible("branches", github[j].doc) /\ Legible("branches", old) /\ Legible("branches", new)
        <5>1. j \in DOMAIN github
          BY <4>1 DEF WithKey
        <5> QED
          BY <2>9, <3>1, <5>1 DEF LegibleInv
      <4>3. "required_signatures" \notin DOMAIN c.body
        <5>1. LegibleCall(lane, c)
          BY NextCall DEF LegibleInv, c
        <5> QED
          BY <2>12, <3>1, <5>1 DEF LegibleCall
      <4>4. DOMAIN des \ {"required_signatures"} \subseteq DOMAIN c.body /\ Right("branches", des, c.body)
        BY <2>1, <2>7, <2>12, <3>1 DEF Faithful, Apart, des
      <4>5. /\ p \in BranchFlags /\ p \in DOMAIN des => des[p] \in BOOLEAN
            /\ p \in Containers /\ p \in DOMAIN des => des[p] \in {"on", "off"}
        <5>1. lane \in DOMAIN Configs /\ cfg \in Configs[lane]
          BY DEF IInv, RunTypes
        <5> QED
          BY <1>1, <3>1, <5>1, DesiredTypes DEF des
      <4>6. p \in DOMAIN des => p \in DOMAIN View("branches", old) /\ View("branches", old)[p] = des[p]
        BY <2>4, <3>1
      <4>7. p \in BranchProtection \ {"required_signatures"} => p \in DOMAIN des
        BY <2>8, <3>1 DEF Replaced
      <4>8. Agree(View("branches", old), View("branches", github[j].doc), p)
        BY <2>5, <3>1, <4>1
      <4>9. Agree(View("branches", old), View("branches", PutDoc("branches", github[j].doc, c.body)), p)
        BY <4>1, <4>2, <4>3, <4>4, <4>5, <4>6, <4>7, <4>8, ProtectionAgrees
      <4> QED
        BY <3>1, <4>1, <4>9 DEF old, new
    <3>2. CASE lane = "environments"
      <4>1. new = Overlay(EncodeEnvironment(cfg[k]), Defaults[lane])
        BY <2>1, <2>2, <2>12, <3>2 DEF Faithful, PutDoc
      <4>2. \A q \in BranchPolicy \cap DOMAIN cfg[k] :
               "deployment_branch_policy" \in DOMAIN cfg[k] /\ cfg[k]["deployment_branch_policy"] = "on"
        <5>1. lane \in DOMAIN Configs /\ cfg \in Configs[lane]
          BY DEF IInv, RunTypes
        <5> QED
          BY <1>1, <3>2, <5>1, SchemaAssumption DEF SchemaAssumption
      <4>3. ASSUME p \in Environment
            PROVE  /\ p \in DOMAIN cfg[k] /\ p # "prevent_self_review"
                   /\ p \in DOMAIN View("environments", old)
                   /\ View("environments", old)[p] = cfg[k][p]
        <5>1. p \in DOMAIN des \ plan[k].changes /\ p # "prevent_self_review"
          BY <2>8, <3>2, <4>3 DEF Replaced
        <5>2. p \in DOMAIN cfg[k] /\ des[p] = cfg[k][p]
          BY <1>1, <3>2, <5>1, DesiredFields DEF des
        <5> QED
          BY <2>4, <3>2, <5>1, <5>2
      <4>4. Legible("environments", old)
        BY <2>9, <3>2
      <4>5. Agree(View("environments", old),
                  View("environments", Overlay(EncodeEnvironment(cfg[k]), Defaults[lane])), p)
        BY <4>2, <4>3, <4>4, EnvironmentAgrees
      <4> QED
        BY <3>2, <4>1, <4>5 DEF old, new
    <3>3. lane \in {"branches", "environments"}
      BY <1>3, <2>1, <2>12 DEF Faithful
    <3> QED
      BY <3>1, <3>2, <3>3
  <2> QED
    BY <2>3, <2>10, <2>11, <2>12
<1> QED
  BY <1>2, <1>3

\* An answered call touches nothing but the item of its entry.
LEMMA SendShows ==
    ASSUME IInv, LegibleInv, LegibleInv', ShowInv, NEW k \in DOMAIN todo, Send(k)
    PROVE  ShowInv'
<1>1. result[k] = "none" /\ Len(todo[k]) # 0 /\ phase = "applying"
  BY DEF Send, MayGo, IInv, RunTypes, CallsInv, none
<1>2. UNCHANGED <<lane, cfg, phase, plan, before, disturbed>>
  BY DEF Send
<1>3. CASE ~Accepts(lane, github, Head(todo[k]))
  <2>1. UNCHANGED <<lane, cfg, phase, plan, before, disturbed, github, todo>>
    BY <1>2, <1>3 DEF Send
  <2> QED
    BY <2>1 DEF ShowInv, Covered, AsRead, Unshown, Replaced, WithKey
<1>4. CASE Accepts(lane, github, Head(todo[k])) /\ ~disturbed
  <2>1. /\ github' = Apply(lane, github, Head(todo[k]), Fresh)
        /\ todo' = [todo EXCEPT ![k] = Tail(@)]
    BY <1>4 DEF Send
  <2>2. DOMAIN todo' = DOMAIN todo /\ todo'[k] = Tail(todo[k]) /\ \A j \in DOMAIN todo : j # k => todo'[j] = todo[j]
    BY <2>1
  <2>3. \A j : j # k => /\ WithKey(github', j) = WithKey(github, j)
                        /\ \A i \in WithKey(github, j) : github'[i] = github[i]
    BY <1>1, <1>2, <1>4, <2>1, CallKeeps
  <2>4. ASSUME NEW j \in DOMAIN todo, plan[j].action = "update" PROVE Covered(j)'
    <3>1. CASE j = k
      BY <1>1, <1>2, <1>4, <2>1, <2>4, <3>1, SendCovers
    <3>2. CASE j # k
      <4>1. Covered(j)
        BY <1>1, <1>4, <2>4 DEF ShowInv
      <4>2. \A i \in WithKey(github', j) : i \in WithKey(github, j) /\ github'[i] = github[i]
        BY <2>3, <3>2
      <4>3. Unshown(j)' = Unshown(j)
        BY <1>2 DEF Unshown, Replaced
      <4> QED
        BY <1>2, <4>1, <4>2, <4>3 DEF Covered
    <3> QED
      BY <3>1, <3>2
  <2>5. ASSUME NEW j \in DOMAIN todo, plan[j].action = "update", lane # "deploy_keys"
        PROVE  /\ AsRead(j)'
               /\ lane = "branches" => WithKey(github', j) # {}
               /\ \A n \in 1..Len(todo'[j]) : Faithful(lane, cfg, j, todo'[j][n])
    <3>1. /\ AsRead(j)
          /\ lane = "branches" => WithKey(github, j) # {}
          /\ \A n \in 1..Len(todo[j]) : Faithful(lane, cfg, j, todo[j][n])
      BY <1>1, <1>4, <2>5 DEF ShowInv
    <3>2. AsRead(j)'
      BY <1>2, <3>1 DEF AsRead
    <3>3. ASSUME lane = "branches" PROVE WithKey(github', j) # {}
      <4>1. CASE j # k
        BY <2>3, <3>1, <3>3, <4>1
      <4>2. CASE j = k
        <5>1. LegibleCall(lane, Head(todo[k]))
          BY <1>1, NextCall DEF LegibleInv
        <5>2. Head(todo[k]).op \in Builds
          BY <3>3, <5>1 DEF LegibleCall, Builds
        <5> QED
          BY <1>1, <1>2, <1>4, <2>1, <4>2, <5>2, CallKeeps
      <4> QED
        BY <4>1, <4>2
    <3>4. ASSUME NEW n \in 1..Len(todo'[j]) PROVE Faithful(lane, cfg, j, todo'[j][n])
      <4>1. CASE j # k
        BY <2>2, <3>1, <3>4, <4>1
      <4>2. CASE j = k
        <5>1. IsCalls(todo[k], k, plan[k].id)
          BY DEF IInv, CallsInv
        <5>2. /\ Len(Tail(todo[k])) = Len(todo[k]) - 1 /\ Len(todo[k]) \in Nat \ {0}
              /\ \A m \in 1..(Len(todo[k]) - 1) : Tail(todo[k])[m] = todo[k][m + 1]
          BY <1>1, <5>1, TailCalls
        <5>3. n \in 1..(Len(todo[k]) - 1)
          BY <2>2, <3>4, <4>2, <5>2
        <5>4. n + 1 \in 1..Len(todo[k]) /\ todo'[j][n] = todo[k][n + 1]
          BY <2>2, <4>2, <5>2, <5>3
        <5> QED
          BY <3>1, <4>2, <5>4
      <4> QED
        BY <4>1, <4>2
    <3> QED
      BY <3>2, <3>3, <3>4
  <2>6. ASSUME NEW j \in DOMAIN todo
        PROVE  /\ plan[j].action = "create" => WithKey(before, j) = {}
               /\ plan[j].action = "update" =>
                    /\ j \in DOMAIN cfg /\ plan[j].changes # {}
                    /\ plan[j].changes \subseteq DOMAIN Desired(lane, cfg)[j]
    BY <1>1, <1>4 DEF ShowInv
  <2>7. \A j : j \notin DOMAIN todo =>
           /\ WithKey(github', j) = WithKey(before, j)
           /\ \A i \in WithKey(before, j) : github'[i].doc = before[i].doc
    <3> SUFFICES ASSUME NEW j, j \notin DOMAIN todo
                 PROVE  /\ WithKey(github', j) = WithKey(before, j)
                        /\ \A i \in WithKey(before, j) : github'[i].doc = before[i].doc
      OBVIOUS
    <3>1. /\ WithKey(github, j) = WithKey(before, j)
          /\ \A i \in WithKey(before, j) : github[i].doc = before[i].doc
      BY <1>1, <1>4 DEF ShowInv
    <3> QED
      BY <2>3, <3>1
  <2>8. DOMAIN todo = Actionable(plan)
    BY <1>1, <1>4 DEF ShowInv
  <2>9. ASSUME NEW j \in DOMAIN todo'
        PROVE  /\ plan'[j].action = "create" => WithKey(before', j) = {}
               /\ plan'[j].action = "update" =>
                    /\ j \in DOMAIN cfg' /\ plan'[j].changes # {}
                    /\ plan'[j].changes \subseteq DOMAIN Desired(lane', cfg')[j]
                    /\ Covered(j)'
                    /\ lane' # "deploy_keys" =>
                         /\ AsRead(j)'
                         /\ lane' = "branches" => WithKey(github', j) # {}
                         /\ \A n \in 1..Len(todo'[j]) : Faithful(lane', cfg', j, todo'[j][n])
    BY <1>2, <2>2, <2>4, <2>5, <2>6
  <2> QED
    BY <1>2, <2>2, <2>7, <2>8, <2>9 DEF ShowInv
<1>5. CASE disturbed
  BY <1>2, <1>5 DEF ShowInv
<1> QED
  BY <1>3, <1>4, <1>5

\* Every step keeps the account.
LEMMA NextShows == IInv /\ Loaded /\ LegibleInv /\ LegibleInv' /\ ShowInv /\ [Next]_vars => ShowInv'
<1> SUFFICES ASSUME IInv, Loaded, LegibleInv, LegibleInv', ShowInv, [Next]_vars PROVE ShowInv'
  OBVIOUS
<1>1. CASE Fetch({}) \/ Fetch(batch)
  BY <1>1, FetchShows
<1>2. CASE \E k \in DOMAIN todo : Send(k)
  BY <1>2, SendShows
<1>3. CASE Report \/ Crash
  BY <1>3 DEF Report, Crash, EndRun, ShowInv
<1>4. CASE (\E k \in DOMAIN todo : CallFails(k)) \/ HangUp
  BY <1>4 DEF CallFails, HangUp, ShowInv
<1>5. CASE Edit
  <2>1. phase' = phase /\ disturbed' = (phase = "applying")
    BY <1>5 DEF Edit, run
  <2> QED
    BY <2>1 DEF ShowInv
<1>6. CASE UNCHANGED vars \/ Prefetch
  <2>1. UNCHANGED <<lane, cfg, github, phase, plan, todo, before, disturbed>>
    BY <1>6 DEF vars, Prefetch, run
  <2> QED
    BY <2>1 DEF ShowInv, Covered, AsRead, Unshown, Replaced, WithKey
<1> QED
  BY <1>1, <1>2, <1>3, <1>4, <1>5, <1>6 DEF Next, Step

(*------------------------------- theorems --------------------------------*)

\* The inductive invariant.
THEOREM Invariant == Spec => []IInv
<1>1. Init => IInv
  BY InitInv
<1>2. IInv /\ [Next]_vars => IInv'
  BY NextInv
<1> QED
  BY <1>1, <1>2, PTL DEF Spec

\* Type correctness: a run's outcomes are of entries of its plan, and GitHub's
\* items keep their shape.
THEOREM TypeCorrect == Spec => []TypeOK
<1>1. ASSUME IInv PROVE TypeOK
  <2>1. \A i \in DOMAIN github : i \in Nat \ {0} /\ DOMAIN github[i] = {"key", "doc"}
    BY <1>1 DEF IInv, IdsInv, StoreInv, IsItem
  <2>2. \A k \in DOMAIN cfg : lane # "deploy_keys" => DOMAIN cfg[k] \subseteq JSONFields(lane, cfg[k])
    BY <1>1, ItemsAssumption DEF IInv, RunTypes, ItemsAssumption
  <2>3. Cardinality(batch) <= 1
    <3>1. CASE batch = {}
      BY <3>1, FS_EmptySet
    <3>2. CASE batch # {}
      <4>1. PICK p : batch = {p}
        BY <1>1, <3>2 DEF IInv, BatchInv
      <4>2. Cardinality({p}) = 1
        BY FS_Singleton
      <4> QED
        BY <4>1, <4>2
    <3> QED
      BY <3>1, <3>2
  <2> QED
    BY <1>1, <2>1, <2>2, <2>3 DEF TypeOK, IInv, RunTypes, Actions, Outcomes
<1> QED
  BY <1>1, Invariant, PTL

\* A declared item that a run deleted, to create it anew, and that is missing
\* at its end is reported as failed, never as applied (applier/helpers.go:39-70).
THEOREM NothingIsLostSilently == Spec => []MissingIsReported
<1>1. IInv => MissingIsReported
  BY DEF IInv, AppliedInv, MissingIsReported
<1> QED
  BY <1>1, Invariant, PTL

\* A plan made from a batch record still true of GitHub is the plan a read
\* would have given, so a record that lacks fields or topics is not used
\* (applier/repo.go:19-58).
THEOREM RecordsAreTrue == Spec => PlanIsTrue
<1> DEFINE Same == phase = "idle" /\ phase' = "applying" /\ ~disturbed' =>
                     Actionable(plan') = Actionable(PlanFrom(Live(lane, cfg, github)))
<1>1. ASSUME IInv, [Next]_vars, phase = "idle", phase' = "applying", ~disturbed'
      PROVE  Actionable(plan') = Actionable(PlanFrom(Live(lane, cfg, github)))
  <2>1. DOMAIN todo = {} /\ phase # phase'
    BY <1>1 DEF IInv, RunTypes, none
  <2>2. PICK records \in {{}, batch} : Fetch(records)
    BY <1>1, <2>1 DEF Next, Step, vars, Prefetch, HangUp, Crash, Edit, EndRun, run, Report
  <2>3. plan' = PlanFrom(Seen(records)) /\ \A p \in records : p.of = github
    BY <1>1, <2>2 DEF Fetch
  <2>4. CASE \E p \in records : usablePrefetch(p, Desired(lane, cfg))
    <3>1. PICK p : records = {p} /\ p \in batch
      BY <1>1, <2>4 DEF IInv, BatchInv
    <3>2. (CHOOSE q \in records : TRUE) = p
      BY <3>1
    <3>3. Seen(records) = liveRepoFrom(p, Desired(lane, cfg))
      BY <2>4, <3>2 DEF Seen
    <3> QED
      BY <1>1, <2>3, <2>4, <3>1, <3>3, RecordIsTrue
  <2>5. CASE ~\E p \in records : usablePrefetch(p, Desired(lane, cfg))
    BY <2>3, <2>5 DEF Seen
  <2> QED
    BY <2>4, <2>5
<1>2. IInv /\ [Next]_vars => [Same]_vars
  BY <1>1
<1> QED
  BY <1>2, Invariant, PTL DEF Spec, PlanIsTrue

\* A run nobody disturbs fails nothing: the order of the calls is one GitHub
\* accepts, as long as a section that states an allow-list also states its mode
\* (applier/singletons.go:93-128; config/validate.go:158-170 does not ask for it).
THEOREM UndisturbedRunsSucceed ==
    ASSUME ListsNameTheirMode
    PROVE  Spec => []UndisturbedSucceeds
<1>1. Init => ReadyInv /\ ModeInv
  BY DEF Init, ReadyInv, ModeInv, none
<1>2. IInv /\ ReadyInv /\ ModeInv /\ [Next]_vars => ReadyInv' /\ ModeInv'
  BY NextReady
<1>3. IInv /\ ReadyInv => UndisturbedSucceeds
  BY DEF IInv, RunTypes, ReadyInv, UndisturbedSucceeds
<1> QED
  BY <1>1, <1>2, <1>3, Invariant, PTL DEF Spec

\* After an undisturbed run (two for Pages and deploy keys) the repository is as
\* declared and the next plan is empty: no lane rewrites its settings on every run
\* (applier/engine.go, applier/helpers.go:39-70), if a section that states an
\* allow-list of actions also states its mode, GitHub has a way to tell what is
\* declared of an environment (ghapi/convert.go:159-192), and a deploy key is the
\* only one of its title and of its material (applier/deploy_keys.go).
THEOREM LanesSettle ==
    ASSUME ListsNameTheirMode, EnvironmentsCanBeTold
    PROVE  Spec /\ []TitlesAreKeys => []Settles
<1>1. Init => ReadyInv /\ ModeInv /\ Loaded /\ SettleInv /\ KeyInv
  <2>1. Init => ReadyInv /\ ModeInv
    BY DEF Init, ReadyInv, ModeInv, none
  <2>2. Init => SettleInv /\ KeyInv
    BY DEF Init, SettleInv, KeyInv
  <2>3. Init => Loaded
    BY SectionIsLoaded
  <2> QED
    BY <2>1, <2>2, <2>3
<1>2. IInv /\ ReadyInv /\ ModeInv /\ [Next]_vars => ReadyInv' /\ ModeInv'
  BY NextReady
<1>3. IInv /\ IInv' /\ ReadyInv /\ ModeInv /\ Loaded /\ SettleInv /\ [Next]_vars => Loaded' /\ SettleInv'
  BY NextSettles
<1>4. IInv /\ Loaded /\ TitlesAreKeys /\ KeyInv /\ [Next]_vars => KeyInv'
  BY NextKeys
<1>5. IInv /\ SettleInv /\ KeyInv /\ TitlesAreKeys => Settles
  <2> SUFFICES ASSUME IInv, SettleInv, KeyInv, TitlesAreKeys, phase = "idle", quiet >= RunsToSettle
               PROVE  Settled
    BY DEF Settles
  <2>1. quiet \in 0..2 /\ quiet # 0 /\ (lane \in {"pages", "deploy_keys"} => quiet = 2)
    BY DEF RunsToSettle, IInv, RunTypes
  <2>2. \A k \in Keys : AsDeclared(k)
    BY <2>1 DEF SettleInv, KeyInv, Met
  <2> QED
    BY <2>2, DeclaredIsSettled
<1> QED
  BY <1>1, <1>2, <1>3, <1>4, <1>5, Invariant, PTL DEF Spec

\* The dry run shows what the apply changes: every declared field that changes
\* is in the plan, a field nobody declared changes only where a call replaces
\* the record it is in, and no item the plan does not name is touched
\* (diff/engine.go, applier/engine.go).
THEOREM PlansShowWrites == Spec => []PlanShowsWrites
<1>1. Init => Loaded /\ LegibleInv /\ ShowInv
  <2>1. Init => Loaded
    BY SectionIsLoaded
  <2>2. Init => LegibleInv
    BY LegibleAssumption DEF LegibleAssumption, Init, LegibleInv, none
  <2>3. Init => ShowInv
    BY DEF Init, ShowInv
  <2> QED
    BY <2>1, <2>2, <2>3
<1>2. IInv /\ LegibleInv /\ [Next]_vars => LegibleInv'
  BY NextLegible
<1>3. Loaded /\ [Next]_vars => Loaded'
  BY SectionIsLoaded
<1>4. IInv /\ Loaded /\ LegibleInv /\ LegibleInv' /\ ShowInv /\ [Next]_vars => ShowInv'
  BY NextShows
<1>5. IInv /\ ShowInv => PlanShowsWrites
  <2> SUFFICES ASSUME IInv, ShowInv, Decided, ~disturbed, NEW k PROVE Shown(k, Unshown(k))
    BY DEF PlanShowsWrites
  <2>1. phase = "applying"
    BY DEF Decided
  <2> DEFINE changed(i, j) == LET old == View(lane, before[i].doc)  new == View(lane, github[j].doc)
                              IN  Fields(old, new) \cup Fields(new, old)
  <2>2. Written(k) = UNION {changed(i, j) : i \in WithKey(before, k), j \in WithKey(github, k)}
    BY DEF Written
  <2>3. \A i, j, p : p \in changed(i, j) => ~Agree(View(lane, before[i].doc), View(lane, github[j].doc), p)
    BY DEF Fields, Agree
  <2> HIDE DEF changed
  <2>4. CASE k \notin DOMAIN todo
    <3>1. /\ WithKey(github, k) = WithKey(before, k)
          /\ \A i \in WithKey(before, k) : github[i].doc = before[i].doc
      BY <2>1, <2>4 DEF ShowInv
    <3> SUFFICES ASSUME Cardinality(WithKey(before, k)) = 1 PROVE Written(k) = {}
      BY DEF Shown
    <3>2. IsFiniteSet(WithKey(before, k))
      <4>1. PICK n \in Nat : DOMAIN github \subseteq 1..n
        BY DEF IInv, IdsInv
      <4>2. WithKey(github, k) \subseteq 1..n /\ IsFiniteSet(1..n)
        BY <4>1, FS_Interval DEF WithKey
      <4> QED
        BY <3>1, <4>2, FS_Subset
    <3>3. PICK x : WithKey(before, k) = {x}
      BY <3>2, FS_Singleton
    <3>4. \A i \in WithKey(before, k), j \in WithKey(github, k) : changed(i, j) = {}
      <4>1. ASSUME NEW p \in changed(x, x) PROVE FALSE
        <5>1. github[x].doc = before[x].doc
          BY <3>1, <3>3
        <5> QED
          BY <2>3, <4>1, <5>1 DEF Agree
      <4> QED
        BY <3>1, <3>3, <4>1
    <3> QED
      BY <2>2, <3>4
  <2>5. CASE k \in DOMAIN todo
    <3>1. k \in DOMAIN plan /\ plan[k].action \in {"create", "update", "delete"}
      BY <2>1, <2>5 DEF ShowInv, Actionable, IInv, RunTypes, Actions
    <3>2. CASE plan[k].action = "create"
      <4>1. WithKey(before, k) = {}
        BY <2>1, <2>5, <3>2 DEF ShowInv
      <4>2. Written(k) = {}
        BY <2>2, <4>1
      <4> QED
        BY <4>2 DEF Shown
    <3>3. CASE plan[k].action = "update"
      <4>1. Covered(k)
        BY <2>1, <2>5, <3>3 DEF ShowInv
      <4>2. \A p \in Written(k) : p \in plan[k].changes \cup Unshown(k)
        BY <2>2, <2>3, <4>1 DEF Covered
      <4> QED
        BY <3>1, <4>2 DEF Shown
    <3>4. CASE plan[k].action = "delete"
      BY <3>1, <3>4 DEF Shown
    <3> QED
      BY <3>1, <3>2, <3>3, <3>4
  <2> QED
    BY <2>4, <2>5
<1> QED
  BY <1>1, <1>2, <1>3, <1>4, <1>5, Invariant, PTL DEF Spec

=============================================================================
