----------------------------- MODULE LaneCalls -----------------------------
(***************************************************************************)
(* The write side of the lanes: how a declared item is encoded, the calls  *)
(* that carry out one entry of a plan, and what GitHub does with a call.   *)
(*                                                                         *)
(* A call is [op, key, id, body].  "put" creates or replaces by key,       *)
(* "merge" and "remove" act on an existing key, "post" creates, "patch"    *)
(* and "delete" act on an id.                                              *)
(***************************************************************************)
EXTENDS Lanes

Call(op, k, id, body) == [op |-> op, key |-> k, id |-> id, body |-> body]

Bare(op, k, id) == Call(op, k, id, [p \in {} |-> 0])

(*------------------------------- encoding --------------------------------*)

EncodeHook(item) ==
    [p \in DOMAIN item \cap Webhook |->
        IF p = "insecure_ssl" THEN (IF item[p] THEN "1" ELSE "0") ELSE item[p]]

EncodeAutolink(item) == Only(item, Autolink)

EncodeKey(item) == Only(item, DeployKey \cup {"key"})

\* Mutant: the declared reviewers are not carried over.
EncodeEnvironmentBare(item) ==
    Overlay([p \in {"reviewers"} |-> {}], Only(item, Environment \ {"reviewers"}))

\* Replaces the whole record: reviewers are always stated, and one whose id
\* is no number is left out.
EncodeEnvironment(item) ==
    Overlay([p \in {"reviewers"} |->
                IF p \in DOMAIN item THEN item[p] \cap NumericIds ELSE {}],
            Only(item, Environment \ {"reviewers"}))

\* Every member of an engaged sub-object is stated, declared or not;
\* required_signatures has a call of its own.
EncodeProtection(b) ==
    LET on(c) == b[c] = "on"
        members ==
          (IF on("required_pull_request_reviews") THEN ReviewFields ELSE {})
          \cup (IF on("restrictions") THEN {"restrictions.apps"} ELSE {})
        blank(p) ==
          CASE p = "restrictions.apps" -> {}
            [] p = "required_pull_request_reviews.required_approving_review_count" -> 0
            [] OTHER -> FALSE
    IN  Overlay(Only(b, BranchProtection \ {"required_signatures"}),
                [p \in members |-> blank(p)])

RulesetBody(desired) == Overlay(Only(desired, Ruleset), [p \in {"rules"} |-> {}])

\* Only what differs is sent, and only fields the endpoint knows.
EncodeRepoPatch(desired, changes) == Only(desired, changes \cap RepoConfig)

EncodeSecurity(desired, changes) ==
    [p \in changes \cap SecurityAndAnalysisFields |->
        IF desired[p] THEN "enabled" ELSE "disabled"]

\* The create endpoint takes neither the domain nor the HTTPS setting.
EncodePagesCreate(item) ==
    Only(item, {"build_type", "source", "source.branch", "source.path"})

EncodePagesUpdate(item) == Only(item, PagesConfig)

EncodeActionsPermissions(item) == Only(item, {"enabled", "allowed_actions"})

\* An empty list of patterns is left out of the body, too.
EncodeActionsAllowed(item) == ToMap(item, ActionsAllowListFields)

EncodeWorkflowDefaults(item) == Only(item, ActionsWorkflowFields)

EncodeCustomProperties(item) == item

(*-------------------- the calls of one entry of a plan -------------------*)
(* k: the key, d: its entry, item: what is declared, des: its document.     *)

RepoMutate(k, d, item, des) ==
    IF k = "topics" THEN <<Call("merge", k, 0, des)>>
    ELSE <<Call("merge", k, 0, EncodeRepoPatch(des, d.changes))>>

TeamsMutate(k, d, item, des) ==
    IF d.action = "delete" THEN <<Bare("remove", k, 0)>>
    ELSE <<Call("put", k, 0, Only(des, {"permission"}))>>

CollaboratorsMutate(k, d, item, des) ==
    IF d.action = "delete" THEN <<Bare("remove", k, 0)>>
    ELSE <<Call("put", k, 0, Only(des, {"permission"}))>>

EnvironmentsMutate(k, d, item, des) ==
    IF d.action = "delete" THEN <<Bare("remove", k, 0)>>
    ELSE <<Call("put", k, 0, EncodeEnvironment(item))>>

VariablesMutate(k, d, item, des) ==
    CASE d.action = "create" -> <<Call("post", k, 0, Only(des, {"value"}))>>
      [] d.action = "update" -> <<Call("merge", k, 0, Only(des, {"value"}))>>
      [] d.action = "delete" -> <<Bare("remove", k, 0)>>

WebhooksMutate(k, d, item, des) ==
    CASE d.action = "create" -> <<Call("post", k, 0, EncodeHook(item))>>
      [] d.action = "update" -> <<Call("patch", k, d.id, EncodeHook(item))>>
      [] d.action = "delete" -> <<Bare("delete", k, d.id)>>

RulesetsMutate(k, d, item, des) ==
    CASE d.action = "create" -> <<Call("post", k, 0, RulesetBody(des))>>
      [] d.action = "update" -> <<Call("patch", k, d.id, RulesetBody(des))>>
      [] d.action = "delete" -> <<Bare("delete", k, d.id)>>

\* Mutant: an update deletes and does not create again.
AutolinksForget(k, d, item, des) ==
    IF d.action = "create" THEN <<Call("post", k, 0, EncodeAutolink(item))>>
    ELSE <<Bare("delete", k, d.id)>>

\* There is no update endpoint: an update is a delete and then a create.
AutolinksMutate(k, d, item, des) ==
    (IF d.action = "create" THEN <<>> ELSE <<Bare("delete", k, d.id)>>)
    \o (IF d.action = "delete" THEN <<>>
        ELSE <<Call("post", k, 0, EncodeAutolink(item))>>)

\* Mutant: the new key is created before the old one is deleted.
DeployKeysCreateFirst(k, d, item, des) ==
    (IF d.action = "delete" THEN <<>> ELSE <<Call("post", k, 0, EncodeKey(item))>>)
    \o (IF d.action = "create" THEN <<>> ELSE <<Bare("delete", k, d.id)>>)

\* Nor is there one here.
DeployKeysMutate(k, d, item, des) ==
    (IF d.action = "create" THEN <<>> ELSE <<Bare("delete", k, d.id)>>)
    \o (IF d.action = "delete" THEN <<>>
        ELSE <<Call("post", k, 0, EncodeKey(item))>>)

\* The protection record first, then the signatures if the plan has them.
applyBranchProtection(k, d, item, des) ==
    <<Call("put", k, 0, EncodeProtection(NormalizeBranch(item)))>>
    \o (IF "required_signatures" \in d.changes
        THEN <<Call("merge", k, 0, Only(des, {"required_signatures"}))>> ELSE <<>>)

\* Mutant: the allow-list goes before the mode.
writeActionsListFirst(k, d, item, des) ==
    LET part(fields, body) ==
          IF d.changes \cap fields = {} THEN <<>> ELSE <<Call("merge", k, 0, body)>>
    IN  part(ActionsAllowListFields, EncodeActionsAllowed(item))
        \o part({"enabled", "allowed_actions"}, EncodeActionsPermissions(item))
        \o part(ActionsWorkflowFields, EncodeWorkflowDefaults(item))

\* The mode first: the allow-list can only be set once it is "selected".
writeActions(k, d, item, des) ==
    LET part(fields, body) ==
          IF d.changes \cap fields = {} THEN <<>> ELSE <<Call("merge", k, 0, body)>>
    IN  part({"enabled", "allowed_actions"}, EncodeActionsPermissions(item))
        \o part(ActionsAllowListFields, EncodeActionsAllowed(item))
        \o part(ActionsWorkflowFields, EncodeWorkflowDefaults(item))

\* One call per setting of its own endpoint, in the order of the plan, then
\* one PATCH for the two that share the repository's block.
writeSecurity(k, d, item, des) ==
    LET part(body) ==
          IF DOMAIN body = {} THEN <<>> ELSE <<Call("merge", k, 0, body)>>
        own(p) == part(Only(des, d.changes \cap {p}))
    IN  own("automated_security_fixes") \o own("private_vulnerability_reporting")
        \o own("vulnerability_alerts") \o part(EncodeSecurity(des, d.changes))

PagesMutate(k, d, item, des) ==
    IF d.action = "create" THEN <<Call("post", k, 0, EncodePagesCreate(item))>>
    ELSE <<Call("merge", k, 0, EncodePagesUpdate(item))>>

CustomPropertiesMutate(k, d, item, des) ==
    <<Call("merge", k, 0, EncodeCustomProperties(item))>>

\* A secret nobody uploaded, or a key without material, has nothing to send:
\* its entry is reported pending.
Pending(lane, k, d, cfg) ==
    \/ lane = "secrets" /\ d.action = "create"
    \/ lane = "deploy_keys" /\ d.action # "delete" /\ cfg[k]["key"] = ""

SecretsMutate(k, d, item, des) ==
    IF d.action = "delete" THEN <<Bare("remove", k, 0)>> ELSE <<>>

Mutate(lane, k, d, cfg) ==
    LET none == [p \in {} |-> 0]
        item == IF k \in DOMAIN cfg THEN cfg[k] ELSE none
        des  == IF k \in DOMAIN cfg THEN Desired(lane, cfg)[k] ELSE none
    IN  IF Pending(lane, k, d, cfg) THEN <<>>
        ELSE CASE lane = "repository" -> RepoMutate(k, d, item, des)
               [] lane = "teams" -> TeamsMutate(k, d, item, des)
               [] lane = "collaborators" -> CollaboratorsMutate(k, d, item, des)
               [] lane = "environments" -> EnvironmentsMutate(k, d, item, des)
               [] lane = "variables" -> VariablesMutate(k, d, item, des)
               [] lane = "webhooks" -> WebhooksMutate(k, d, item, des)
               [] lane = "rulesets" -> RulesetsMutate(k, d, item, des)
               [] lane = "autolinks" -> AutolinksMutate(k, d, item, des)
               [] lane = "deploy_keys" -> DeployKeysMutate(k, d, item, des)
               [] lane = "branches" -> applyBranchProtection(k, d, item, des)
               [] lane = "actions" -> writeActions(k, d, item, des)
               [] lane = "security" -> writeSecurity(k, d, item, des)
               [] lane = "pages" -> PagesMutate(k, d, item, des)
               [] lane = "custom_properties" -> CustomPropertiesMutate(k, d, item, des)
               [] lane = "secrets" -> SecretsMutate(k, d, item, des)

(*------------------------- GitHub's side (external) -----------------------*)

WithKey(github, k) == {i \in DOMAIN github : github[i].key = k}

\* The items a call acts on.
Targets(github, c) ==
    IF c.op \in {"patch", "delete"} THEN {c.id} \cap DOMAIN github
    ELSE WithKey(github, c.key)

\* Keys are unique where GitHub makes them so; of deploy keys the material is.
Clash(lane, github, c) ==
    IF lane = "deploy_keys"
    THEN \E i \in DOMAIN github : github[i].doc["key"] = c.body["key"]
    ELSE WithKey(github, c.key) # {}

\* What GitHub refuses: a create that clashes, a change of what is gone, and
\* an allow-list while the mode is not "selected" (a 409).
Accepts(lane, github, c) ==
    /\ c.op = "post" => ~Clash(lane, github, c)
    /\ c.op \notin {"post", "put"} => Targets(github, c) # {}
    /\ lane = "actions" /\ DOMAIN c.body \cap ActionsAllowListFields # {} =>
         \A i \in Targets(github, c) :
            "selected" \in {c.body[p] : p \in DOMAIN c.body \cap {"allowed_actions"}}
                           \cup {github[i].doc["allowed_actions"]}

\* The record a "put" leaves: what it does not state is back to its default.
\* A protection record is reported without what is off, and its signatures
\* are kept apart from it.
PutDoc(lane, old, body) ==
    CASE lane = "collaborators" ->
            [role_name |-> body["permission"],
             flags |-> {Roles[i] : i \in {j \in DOMAIN Roles :
                           \E m \in 1..j : Roles[m] = body["permission"]}}]
      [] lane = "branches" ->
            Overlay(Only(body, {p \in DOMAIN body :
                                   /\ p \in BranchFlags => body[p]
                                   /\ p \in Containers => body[p] = "on"}),
                    IF "required_signatures" \in DOMAIN old
                    THEN Only(old, {"required_signatures"}) ELSE Defaults[lane])
      [] OTHER -> Overlay(body, Defaults[lane])

\* The store after an accepted call; fresh is an id never used before.
Apply(lane, github, c, fresh) ==
    LET targets == Targets(github, c)
        old(i)  == IF i \in DOMAIN github THEN github[i].doc ELSE [p \in {} |-> 0]
        set(ids, doc(_)) ==
            [i \in DOMAIN github \cup ids |->
                IF i \in ids THEN [key |-> c.key, doc |-> doc(i)] ELSE github[i]]
    IN  CASE c.op = "put" ->
               set(IF targets = {} THEN {fresh} ELSE targets,
                   LAMBDA i : PutDoc(lane, old(i), c.body))
          [] c.op = "post" -> set({fresh}, LAMBDA i : Overlay(c.body, Defaults[lane]))
          [] c.op \in {"merge", "patch"} ->
               set(targets, LAMBDA i : Overlay(c.body, old(i)))
          [] c.op \in {"remove", "delete"} ->
               Restrict(github, DOMAIN github \ targets)
=============================================================================
