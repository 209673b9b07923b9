------------------------------- MODULE Lanes -------------------------------
(***************************************************************************)
(* What the fifteen lanes of internal/applier declare and read.            *)
(*                                                                         *)
(* For each lane: the fields its section of the schema declares, how a     *)
(* declared item becomes a document, and how live state is read into one.  *)
(*                                                                         *)
(* GitHub is a store of items [key, doc] under numeric ids; Defaults gives *)
(* the fields of an item nobody has set.                                   *)
(***************************************************************************)
EXTENDS Documents, Sequences

CONSTANTS Defaults,     \* lane -> the document of an item GitHub creates bare
          TopicsPage,   \* how many topics the batch query asks for
          NumericIds    \* the reviewer ids that parse as numbers

ASSUME TopicsPageAssumption == TopicsPage \in Nat

LaneNames == {"repository", "teams", "rulesets", "branches", "environments",
              "webhooks", "autolinks", "actions", "security", "pages",
              "secrets", "variables", "deploy_keys", "custom_properties",
              "collaborators"}

(*------------------------------ the schema -------------------------------*)

BoolRepoFields ==
    {"private", "has_issues", "has_projects", "has_wiki", "has_discussions",
     "is_template", "allow_squash_merge", "allow_merge_commit",
     "allow_rebase_merge", "allow_auto_merge", "delete_branch_on_merge",
     "allow_update_branch", "archived", "web_commit_signoff_required"}

RepoConfig == BoolRepoFields \cup
    {"description", "homepage", "visibility", "squash_merge_commit_title",
     "squash_merge_commit_message", "merge_commit_title", "merge_commit_message"}

BranchFlags == {"enforce_admins", "required_linear_history",
    "allow_force_pushes", "allow_deletions", "required_conversation_resolution",
    "block_creations", "lock_branch", "allow_fork_syncing"}

Containers == {"required_status_checks", "required_pull_request_reviews",
               "restrictions"}

ReviewFields == {"required_pull_request_reviews.required_approving_review_count",
    "required_pull_request_reviews.dismiss_stale_reviews",
    "required_pull_request_reviews.require_code_owner_reviews",
    "required_pull_request_reviews.require_last_push_approval"}

BranchProtection == BranchFlags \cup Containers \cup ReviewFields \cup
    {"required_status_checks.strict", "required_status_checks.contexts",
     "restrictions.users", "restrictions.teams", "restrictions.apps",
     "required_signatures"}

Ruleset == {"target", "enforcement", "conditions", "conditions.include",
            "conditions.exclude", "bypass_actors", "rules"}

Environment == {"wait_timer", "prevent_self_review", "reviewers",
    "deployment_branch_policy", "deployment_branch_policy.protected_branches",
    "deployment_branch_policy.custom_branch_policies"}

Webhook == {"content_type", "insecure_ssl", "active", "events"}

Autolink == {"url_template", "is_alphanumeric"}

ActionsAllowListFields ==
    {"github_owned_allowed", "verified_allowed", "patterns_allowed"}

ActionsWorkflowFields ==
    {"default_workflow_permissions", "can_approve_pull_request_reviews"}

ActionsConfig == {"enabled", "allowed_actions"}
                 \cup ActionsAllowListFields \cup ActionsWorkflowFields

SecurityAndAnalysisFields == {"secret_scanning", "secret_scanning_push_protection"}

SecurityConfig == SecurityAndAnalysisFields \cup
    {"vulnerability_alerts", "automated_security_fixes",
     "private_vulnerability_reporting"}

PagesConfig == {"build_type", "source", "source.branch", "source.path",
                "cname", "https_enforced"}

\* The key material has no JSON name: it is uploaded, never compared.
DeployKey == {"read_only"}

\* The fields a lane compares.  Custom properties are whatever is declared.
JSONFields(lane, item) ==
    CASE lane = "repository" -> RepoConfig \cup {"names"}
      [] lane = "branches" -> BranchProtection
      [] lane = "rulesets" -> Ruleset
      [] lane = "environments" -> Environment
      [] lane = "webhooks" -> Webhook
      [] lane = "autolinks" -> Autolink
      [] lane = "actions" -> ActionsConfig
      [] lane = "security" -> SecurityConfig
      [] lane = "pages" -> PagesConfig
      [] lane = "deploy_keys" -> DeployKey
      [] lane \in {"teams", "collaborators"} -> {"permission"}
      [] lane = "variables" -> {"value"}
      [] lane = "secrets" -> {}
      [] lane = "custom_properties" -> DOMAIN item

(*-------------------- from configuration to documents --------------------*)

\* Fields an engaged part of a record is completed with.
Complete(item, blanks) == Overlay(item, blanks)

NormalizeRuleset(r) ==
    Complete(r, [p \in {"rules"} \cup
                    (IF "conditions" \in DOMAIN r
                     THEN {"conditions.include", "conditions.exclude"} ELSE {})
                 |-> {}])

\* A branch listed in branches.yml states its whole protection record.
NormalizeBranch(b) ==
    LET on(c) == c \in DOMAIN b /\ b[c] = "on"
        lists == (IF on("required_status_checks")
                  THEN {"required_status_checks.contexts"} ELSE {})
                 \cup (IF on("restrictions")
                       THEN {"restrictions.users", "restrictions.teams"} ELSE {})
        flags == BranchFlags \cup (IF on("required_status_checks")
                                   THEN {"required_status_checks.strict"} ELSE {})
    IN  Complete(b, [p \in flags \cup lists \cup Containers |->
                        CASE p \in flags -> FALSE
                          [] p \in lists -> {}
                          [] OTHER -> "off"])

Normalize(lane, item) ==
    CASE lane = "rulesets" -> NormalizeRuleset(item)
      [] lane = "branches" -> NormalizeBranch(item)
      [] OTHER -> item

\* The desired documents of a lane's section, by key.  Custom properties are a
\* map already, and nothing of it is left out.
Desired(lane, cfg) ==
    [k \in DOMAIN cfg |->
        LET item == Normalize(lane, cfg[k]) IN
        IF lane = "custom_properties" THEN item ELSE ToMap(item, JSONFields(lane, item))]

(*---------------------- from GitHub to live documents --------------------*)

DecodeTeam(w) == Only(w, {"permission"})

Roles == <<"admin", "maintain", "push", "triage", "pull">>

\* The role name, or on old servers the strongest of the cumulative flags.
DecodeCollaborator(w) ==
    [permission |->
        IF w.role_name # "" THEN w.role_name
        ELSE Roles[CHOOSE i \in DOMAIN Roles :
                      /\ Roles[i] \in w.flags
                      /\ \A j \in 1..(i - 1) : Roles[j] \notin w.flags]]

\* Mutant: the SSL setting is not read back.
DecodeHookSilent(w) == Only(w, Webhook \ {"insecure_ssl"})

\* GitHub spells the SSL setting "0" or "1".
DecodeHook(w) ==
    [p \in DOMAIN w \cap Webhook |-> IF p = "insecure_ssl" THEN w[p] = "1" ELSE w[p]]

DecodeAutolink(w) == Only(w, Autolink)

DecodeKey(w) == Only(w, DeployKey)

DecodeVariable(w) == Only(w, {"value"})

DecodeSecret(w) == Only(w, {})

\* Settings arrive as tagged rules: what has no rule is not reported.
DecodeEnvironment(w) ==
    Only(w, {p \in Environment :
        CASE p = "wait_timer" -> w[p] # 0
          [] p \in {"reviewers", "prevent_self_review"} -> w["reviewers"] # {}
          [] OTHER -> w["deployment_branch_policy"] = "on"})

\* A flag or a sub-object GitHub omits is off.
DecodeProtection(w) ==
    Overlay(w, [p \in BranchFlags \cup Containers |->
                   IF p \in BranchFlags THEN FALSE ELSE "off"])

DecodeCustomProperties(w) == w

DecodePages(w) == Only(w, PagesConfig)

DecodeSecurity(w) ==
    [p \in DOMAIN w \cap SecurityAndAnalysisFields |-> w[p] = "enabled"]

\* Each of the three endpoints is read only if the section engages it; the
\* allow-list exists only while the mode is "selected".
ReadActions(item, w) ==
    LET engaged(fields) == DOMAIN item \cap fields # {} IN
    Only(w, UNION {fields \in {{"enabled", "allowed_actions"},
                               ActionsAllowListFields, ActionsWorkflowFields} :
                      /\ engaged(fields)
                      /\ fields = ActionsAllowListFields =>
                            w["allowed_actions"] = "selected"})

\* Two settings come with the repository, each other one by its own call.
ReadSecurity(item, w) ==
    LET own == DOMAIN item \ SecurityAndAnalysisFields IN
    Overlay(Only(w, own),
            IF DOMAIN item \cap SecurityAndAnalysisFields # {}
            THEN DecodeSecurity(w) ELSE Only(w, {}))

repoFromSDK(w) == Only(w, RepoConfig \cup {"names"})

Decode(lane, item, w) ==
    CASE lane = "repository" -> repoFromSDK(w)
      [] lane = "teams" -> DecodeTeam(w)
      [] lane = "collaborators" -> DecodeCollaborator(w)
      [] lane = "webhooks" -> DecodeHook(w)
      [] lane = "autolinks" -> DecodeAutolink(w)
      [] lane = "deploy_keys" -> DecodeKey(w)
      [] lane = "variables" -> DecodeVariable(w)
      [] lane = "secrets" -> DecodeSecret(w)
      [] lane = "environments" -> DecodeEnvironment(w)
      [] lane = "branches" -> DecodeProtection(w)
      [] lane = "rulesets" -> w
      [] lane = "custom_properties" -> DecodeCustomProperties(w)
      [] lane = "pages" -> DecodePages(w)
      [] lane = "actions" -> ReadActions(item, w)
      [] lane = "security" -> ReadSecurity(item, w)

\* Lanes that read a whole list; the others read the keys they declare.
ListingLanes == {"teams", "collaborators", "webhooks", "autolinks", "rulesets",
                 "deploy_keys", "variables", "secrets", "environments"}

\* What a run of the lane reads, by key.
Live(lane, cfg, github) ==
    LET index == IndexBy(github)
        keys  == IF lane \in ListingLanes THEN DOMAIN index
                 ELSE DOMAIN index \cap DOMAIN cfg
    IN  [k \in keys |->
            [id  |-> index[k].id,
             doc |-> Decode(lane, IF k \in DOMAIN cfg THEN cfg[k] ELSE Only(index[k].doc, {}),
                            index[k].doc)]]

(*--------------------------- the batch record ----------------------------*)

prefetchedRepoFields == {"description", "homepage", "private", "archived",
    "has_issues", "has_projects", "has_wiki", "has_discussions", "is_template"}

prefetchCovers(desired) == DOMAIN desired \subseteq prefetchedRepoFields

\* What the batch query returns of a repository: its record and one page of
\* its topics (of: what it was read from, which the program does not keep).
FetchBatchChunk(github, topics) ==
    LET index == IndexBy(github) IN
    [doc      |-> Only(index["repository"].doc, prefetchedRepoFields),
     names    |-> topics,
     complete |-> Cardinality(index["topics"].doc["names"]) <= TopicsPage,
     of       |-> github]

\* Mutant: one page of topics counts as all of them.
usablePrefetchPage(p, desired) ==
    "repository" \in DOMAIN desired => prefetchCovers(desired["repository"])

\* A record answers for a run only if it has every declared field, and all topics.
usablePrefetch(p, desired) ==
    /\ "repository" \in DOMAIN desired => prefetchCovers(desired["repository"])
    /\ "topics" \in DOMAIN desired => p.complete

liveRepoFrom(p, desired) ==
    [k \in DOMAIN desired |->
        [id |-> 0, doc |-> IF k = "topics" THEN [names |-> p.names] ELSE p.doc]]
=============================================================================
