----------------------------- MODULE MCLaneRuns ----------------------------
(* Small instances of LaneRuns: per lane the declared sections, the states *)
(* GitHub may start in and the items people may write by hand.             *)
EXTENDS LaneRuns, TLC

\* Keyed lists over some of the keys, and a store that holds one.
Lists(keys, docs) == UNION {[K -> docs] : K \in SUBSET keys}

Order == <<"a", "b", "repository", "topics", "pages", "actions", "security",
           "custom_properties">>

Store(list) ==
    LET keys == SelectSeq(Order, LAMBDA k : k \in DOMAIN list) IN
    [i \in DOMAIN keys |-> [key |-> keys[i], doc |-> list[keys[i]]]]

StoresOf(keys, docs) == {Store(f) : f \in Lists(keys, docs)}

Item(k, d) == [key |-> k, doc |-> d]

AB == {"a", "b"}

Perm(p) == [permission |-> p]

Role(p, fl) == [role_name |-> p, flags |-> fl]

Hook(ssl, active) == [content_type |-> "json", insecure_ssl |-> ssl,
                      active |-> active, events |-> {"push"}]

Link(url, alnum) == [url_template |-> url, is_alphanumeric |-> alnum]

Key(ro, m) == [read_only |-> ro, key |-> m]

Env(t, r) == "wait_timer" :> t @@ "reviewers" :> r @@ "prevent_self_review" :> FALSE
             @@ "deployment_branch_policy" :> "off"

Rules(e, r) == [target |-> "branch", enforcement |-> e, rules |-> r]

Bare0 == "required_signatures" :> FALSE

Protected(flags, sig) == [p \in flags |-> TRUE] @@ "required_signatures" :> sig

Reviewed(n, stale) ==
    "required_pull_request_reviews" :> "on"
    @@ "required_pull_request_reviews.required_approving_review_count" :> n
    @@ "required_pull_request_reviews.dismiss_stale_reviews" :> stale
    @@ "required_pull_request_reviews.require_code_owner_reviews" :> FALSE
    @@ "required_pull_request_reviews.require_last_push_approval" :> FALSE

Checked(contexts) ==
    "required_status_checks" :> "on" @@ "required_status_checks.strict" :> TRUE
    @@ "required_status_checks.contexts" :> contexts

Actions(mode, own, wf) == [enabled |-> TRUE, allowed_actions |-> mode,
    github_owned_allowed |-> own, default_workflow_permissions |-> wf]

Secure(scan, push, alerts, fixes) ==
    [secret_scanning |-> scan, secret_scanning_push_protection |-> push,
     vulnerability_alerts |-> alerts, automated_security_fixes |-> fixes,
     private_vulnerability_reporting |-> FALSE]

Page(b, https) == [build_type |-> b, https_enforced |-> https]

Repo(d, sq) == [description |-> d, allow_squash_merge |-> sq]

RepoStore(d, sq, names) == Store([repository |-> Repo(d, sq), topics |-> [names |-> names]])

MCDefaults ==
    [teams |-> Perm("pull"), collaborators |-> Role("pull", {"pull"}),
     webhooks |-> Hook("0", TRUE), autolinks |-> Link("", TRUE),
     deploy_keys |-> Key(TRUE, ""), environments |-> Env(0, {}),
     rulesets |-> Rules("active", {}), branches |-> Bare0,
     variables |-> [value |-> ""], secrets |-> [p \in {} |-> 0],
     pages |-> Page("legacy", FALSE)]

MCConfigs ==
    [teams |-> {[a |-> Perm("push")], [a |-> Perm("push"), b |-> Perm("pull")]},
     collaborators |-> {[a |-> Perm("push")], [a |-> Perm("pull"), b |-> Perm("admin")]},
     variables |-> {[a |-> [value |-> "x"]], [a |-> [value |-> "x"], b |-> [value |-> "y"]]},
     secrets |-> {[a |-> [p \in {} |-> 0]]},
     webhooks |-> {[a |-> [insecure_ssl |-> FALSE]],
                   [a |-> [active |-> FALSE], b |-> [content_type |-> "json"]]},
     autolinks |-> {[a |-> [url_template |-> "u"]],
                    [a |-> Link("u", FALSE), b |-> Link("v", TRUE)]},
     deploy_keys |-> {[a |-> Key(TRUE, "m")], [a |-> [key |-> "m"]],
                      [a |-> Key(FALSE, "o"), b |-> Key(TRUE, "p")]},
     environments |-> {[a |-> [wait_timer |-> 5]],
                       [a |-> [reviewers |-> {"7"}], b |-> [wait_timer |-> 5]],
                       [a |-> [reviewers |-> {"7"}, prevent_self_review |-> TRUE]],
                       [a |-> "deployment_branch_policy" :> "on" @@
                              "deployment_branch_policy.protected_branches" :> TRUE]},
     rulesets |-> {[a |-> Rules("active", {"r"})],
                   [a |-> Rules("disabled", {"r"}) @@ [conditions |-> "on"]]},
     branches |-> {[a |-> [enforce_admins |-> TRUE]],
                   [a |-> [enforce_admins |-> TRUE, required_signatures |-> TRUE]],
                   [a |-> "required_pull_request_reviews" :> "on" @@
                          "required_pull_request_reviews.dismiss_stale_reviews" :> TRUE],
                   [a |-> "required_status_checks" :> "on"]},
     actions |-> {"actions" :> [allowed_actions |-> "selected", github_owned_allowed |-> TRUE],
                  "actions" :> [enabled |-> TRUE, default_workflow_permissions |-> "read"],
                  "actions" :> [allowed_actions |-> "all"]},
     security |-> {"security" :> [secret_scanning |-> TRUE, automated_security_fixes |-> TRUE,
                                  vulnerability_alerts |-> TRUE],
                   "security" :> [secret_scanning |-> TRUE,
                                  secret_scanning_push_protection |-> FALSE]},
     pages |-> {"pages" :> [build_type |-> "workflow"],
                "pages" :> Page("legacy", TRUE),
                "pages" :> ([source |-> "on", https_enforced |-> TRUE] @@
                            "source.branch" :> "main" @@ "source.path" :> "/docs")},
     custom_properties |-> {"custom_properties" :> [tier |-> "x"]},
     repository |-> {[repository |-> [description |-> "d"]],
                     [repository |-> Repo("d", TRUE)],
                     [repository |-> [description |-> "d"], topics |-> [names |-> {"s", "t"}]],
                     [topics |-> [names |-> {"s"}]]}]

MCStores ==
    [teams |-> StoresOf(AB, {Perm("pull"), Perm("push")}),
     collaborators |-> StoresOf(AB, {Role("pull", {"pull"}), Role("", {"push", "triage", "pull"})}),
     variables |-> StoresOf(AB, {[value |-> "x"]}),
     secrets |-> StoresOf(AB, {[p \in {} |-> 0]}),
     webhooks |-> StoresOf(AB, {Hook("1", TRUE), Hook("0", FALSE)}),
     autolinks |-> StoresOf(AB, {Link("u", TRUE), Link("w", FALSE)}),
     deploy_keys |-> StoresOf(AB, {Key(TRUE, "m")}) \cup StoresOf(AB, {Key(FALSE, "n")})
                     \cup {<<Item("a", Key(TRUE, "m")), Item("a", Key(FALSE, "n"))>>},
     environments |-> StoresOf(AB, {Env(5, {}), Env(0, {"7"})}),
     rulesets |-> StoresOf(AB, {Rules("active", {"r"}) @@ ("conditions" :> "on"
                                  @@ "conditions.include" :> {"m"} @@ "conditions.exclude" :> {})})
                  \cup StoresOf({"a"}, {Rules("disabled", {"r"})}),
     branches |-> StoresOf(AB, {Protected({"lock_branch"}, FALSE)})
                  \cup StoresOf({"a"}, {Protected({}, TRUE),
                                        Protected({"enforce_admins"}, FALSE) @@ Reviewed(2, TRUE),
                                        Protected({}, FALSE) @@ Checked({"c"})}),
     actions |-> {Store("actions" :> Actions(m, o, w)) :
                    m \in {"all", "selected"}, o \in BOOLEAN, w \in {"read", "write"}},
     security |-> {Store("security" :> Secure(s, p, v, f)) :
                    s \in {"enabled", "disabled"}, p \in {"enabled", "disabled"},
                    v \in BOOLEAN, f \in BOOLEAN},
     pages |-> StoresOf({"pages"}, {Page(b, h) : b \in {"legacy", "workflow"}, h \in BOOLEAN}),
     custom_properties |-> {Store("custom_properties" :> c) :
                              c \in {[tier |-> "x"], [tier |-> "y", own |-> "z"], [own |-> "z"]}},
     repository |-> {RepoStore(d, q, n) : d \in {"d", "e"}, q \in BOOLEAN,
                                          n \in {{}, {"s"}, {"s", "t"}}}]

MCEdits ==
    [teams |-> {Item("a", Perm("pull")), Item("b", Perm("push"))},
     collaborators |-> {Item("b", Role("pull", {"pull"}))},
     variables |-> {Item("a", [value |-> "z"]), Item("b", [value |-> "x"])},
     secrets |-> {Item("a", [p \in {} |-> 0]), Item("b", [p \in {} |-> 0])},
     webhooks |-> {Item("a", Hook("1", TRUE))},
     autolinks |-> {Item("a", Link("w", FALSE))},
     deploy_keys |-> {Item("a", Key(FALSE, "n"))},
     environments |-> {Item("a", Env(0, {"7"}))},
     rulesets |-> {Item("a", Rules("disabled", {}))},
     branches |-> {Item("a", Protected({"allow_deletions"}, FALSE))},
     actions |-> {Item("actions", Actions("all", FALSE, "write"))},
     security |-> {Item("security", Secure("disabled", "disabled", FALSE, FALSE))},
     pages |-> {Item("pages", Page("legacy", FALSE))},
     custom_properties |-> {Item("custom_properties", [own |-> "z"])},
     repository |-> {Item("repository", Repo("e", FALSE)), Item("topics", [names |-> {"s", "u"}])}]
=============================================================================
