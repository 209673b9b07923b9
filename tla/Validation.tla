----------------------------- MODULE Validation -----------------------------
(***************************************************************************)
(* What a settings file may say: internal/config/validate.go.              *)
(*                                                                         *)
(* The body of a file is a document (repository, actions, security, pages, *)
(* custom properties), a set of topics, or a keyed list of documents; the  *)
(* key is the field the list is keyed by (slug, name, url and so on).      *)
(* A name that breaks a pattern is a member of BadNames; numbers outside   *)
(* their range are numbers outside their range.                            *)
(***************************************************************************)
EXTENDS Documents

CONSTANT BadNames     \* names the patterns reject, the empty one among them

OneOf(item, p, allowed) == p \in DOMAIN item => item[p] \in allowed

Permissions == {"pull", "triage", "push", "maintain", "admin"}

isValidPermission(item) == "permission" \in DOMAIN item /\ OneOf(item, "permission", Permissions)

\* A list names each of its items; most lists must not be empty.
Named(list) == DOMAIN list \cap BadNames = {}

AtLeastOne(list) == DOMAIN list # {}

Unsupported(item, fields) == DOMAIN item \cap fields = {}

validateTopics(names) == Cardinality(names) <= 20 /\ names \cap BadNames = {}

validateRepo(r) ==
    /\ OneOf(r, "visibility", {"public", "private", "internal"})
    /\ "homepage" \in DOMAIN r => r["homepage"] \notin BadNames \ {""}
    /\ OneOf(r, "squash_merge_commit_title", {"PR_TITLE", "COMMIT_OR_PR_TITLE"})
    /\ OneOf(r, "squash_merge_commit_message", {"PR_BODY", "COMMIT_MESSAGES", "BLANK"})
    /\ OneOf(r, "merge_commit_title", {"PR_TITLE", "MERGE_MESSAGE"})
    /\ OneOf(r, "merge_commit_message", {"PR_BODY", "PR_TITLE", "BLANK"})

ValidateRepoFile(f) ==
    /\ "repo" \in DOMAIN f => validateRepo(f["repo"])
    /\ "topics" \in DOMAIN f => validateTopics(f["topics"])

ValidateTeamsFile(list) ==
    AtLeastOne(list) /\ Named(list) /\ \A k \in DOMAIN list : isValidPermission(list[k])

ValidateCollaboratorsFile(list) ==
    AtLeastOne(list) /\ Named(list) /\ \A k \in DOMAIN list : isValidPermission(list[k])

ValidateRulesetsFile(list) ==
    /\ AtLeastOne(list) /\ Named(list)
    /\ \A k \in DOMAIN list :
          /\ {"target", "enforcement", "rules"} \subseteq DOMAIN list[k]
          /\ OneOf(list[k], "target", {"branch", "tag"})
          /\ OneOf(list[k], "enforcement", {"active", "disabled", "evaluate"})
          /\ list[k]["rules"] # {}

\* Only the number of reviewers is looked at, not who they are.
ValidateEnvironmentsFile(list) ==
    /\ AtLeastOne(list) /\ Named(list)
    /\ \A k \in DOMAIN list :
          /\ OneOf(list[k], "wait_timer", 0..43200)
          /\ "reviewers" \in DOMAIN list[k] => Cardinality(list[k]["reviewers"]) <= 6
          /\ Unsupported(list[k], {"variables", "secrets",
                                   "deployment_branch_policy.branch_policies"})

ValidateWebhooksFile(list) ==
    /\ AtLeastOne(list) /\ Named(list)
    /\ \A k \in DOMAIN list :
          /\ OneOf(list[k], "content_type", {"json", "form"})
          /\ "events" \in DOMAIN list[k] => list[k]["events"] # {}
          /\ Unsupported(list[k], {"secret_ref"})

ValidateAutolinksFile(list) ==
    /\ AtLeastOne(list) /\ Named(list)
    /\ \A k \in DOMAIN list : "url_template" \in DOMAIN list[k]

ValidateActionsFile(a) ==
    /\ OneOf(a, "allowed_actions", {"all", "local_only", "selected"})
    /\ OneOf(a, "default_workflow_permissions", {"read", "write"})

ValidatePagesFile(p) ==
    /\ OneOf(p, "build_type", {"legacy", "workflow"})
    /\ "source" \in DOMAIN p =>
          /\ {"source.branch", "source.path"} \subseteq DOMAIN p
          /\ p["source.path"] \in {"/", "/docs"}

\* No secret at all is a list too: it says that none may be there.
ValidateSecretsFile(list) == Named(list)

ValidateVariablesFile(list) == AtLeastOne(list) /\ Named(list)

ValidateDeployKeysFile(list) ==
    /\ AtLeastOne(list) /\ Named(list)
    /\ \A k \in DOMAIN list :
          /\ Unsupported(list[k], {"key_ref"})
          /\ "key" \in DOMAIN list[k] /\ list[k]["key"] # ""

ValidateCustomPropertiesFile(props) == AtLeastOne(props)

ValidateBranchesFile(list) ==
    /\ AtLeastOne(list) /\ Named(list)
    /\ \A k \in DOMAIN list :
          OneOf(list[k], "required_pull_request_reviews.required_approving_review_count", 0..6)

\* The validator of each file, named by the section it holds.
Accepted(section, body) ==
    CASE section = "teams" -> ValidateTeamsFile(body)
      [] section = "collaborators" -> ValidateCollaboratorsFile(body)
      [] section = "rulesets" -> ValidateRulesetsFile(body)
      [] section = "environments" -> ValidateEnvironmentsFile(body)
      [] section = "webhooks" -> ValidateWebhooksFile(body)
      [] section = "autolinks" -> ValidateAutolinksFile(body)
      [] section = "actions" -> ValidateActionsFile(body)
      [] section = "security" -> TRUE
      [] section = "pages" -> ValidatePagesFile(body)
      [] section = "secrets" -> ValidateSecretsFile(body)
      [] section = "variables" -> ValidateVariablesFile(body)
      [] section = "deploy_keys" -> ValidateDeployKeysFile(body)
      [] section = "custom_properties" -> ValidateCustomPropertiesFile(body)
      [] section = "branches" -> ValidateBranchesFile(body)
      [] section = "repo" -> ValidateRepoFile(body)
=============================================================================
