------------------------------ MODULE Settings ------------------------------
(***************************************************************************)
(* From settings files to a verdict: how files become sections, how the    *)
(* layers of an organization are merged, what its policy makes of the      *)
(* result, and which part of it a narrowed run applies (internal/config).  *)
(*                                                                         *)
(* A file is named by the section it holds ("repo" for repo.yml, which     *)
(* also holds the topics).  Its content is [kind, body], where kind is     *)
(* "absent", "empty", "broken" (does not decode) or "body".  Settings map  *)
(* the sections that are set to their documents.                           *)
(***************************************************************************)
EXTENDS Validation, Sequences

FileNames == {"repo", "teams", "rulesets", "branches", "environments",
              "webhooks", "autolinks", "actions", "security", "pages",
              "secrets", "variables", "deploy_keys", "custom_properties",
              "collaborators"}

Keys == FileNames \cup {"topics"}

NoSettings == [k \in {} |-> 0]

(*--------------------------------- loading -------------------------------*)

\* What a settings directory may hold: repo.yml has no other sections than its
\* own and the topics.
IsDirectory(files) ==
    /\ DOMAIN files \subseteq FileNames
    /\ \A n \in DOMAIN files :
          /\ files[n].kind \in {"absent", "empty", "broken", "body"}
          /\ n = "repo" /\ files[n].kind = "body" =>
                DOMAIN files[n].body \subseteq {"repo", "topics"}

\* The sections a decoded file sets.
mergeFile(name, body) == IF name = "repo" THEN body ELSE [k \in {name} |-> body]

\* An empty file says what an absent one says: its section is unmanaged.
decodeFile(name, c) ==
    CASE c.kind \in {"absent", "empty"} -> [ok |-> TRUE, sets |-> NoSettings]
      [] c.kind = "broken" -> [ok |-> FALSE, sets |-> NoSettings]
      [] c.kind = "body" -> [ok   |-> Accepted(name, c.body),
                             sets |-> mergeFile(name, c.body)]

\* One bad file fails the load of the whole directory.
loadSettingsDir(files) ==
    LET parsed == [n \in DOMAIN files |-> decodeFile(n, files[n])] IN
    [ok   |-> \A n \in DOMAIN files : parsed[n].ok,
     sets |-> LET keys == UNION {DOMAIN parsed[n].sets : n \in DOMAIN files} IN
              [k \in keys |->
                  parsed[CHOOSE n \in DOMAIN files : k \in DOMAIN parsed[n].sets].sets[k]]]

(*--------------------------------- layers --------------------------------*)

\* A suborg matches when each of its criteria does; none at all match nothing.
\* A pattern is the set of the repository names it matches.
Matches(m, rc) ==
    /\ m.repos # {} \/ m.teams # {} \/ DOMAIN m.properties # {}
    /\ m.repos # {} => \E p \in m.repos : rc.repo \in p
    /\ m.teams # {} => m.teams \cap rc.teams # {}
    /\ \A k \in DOMAIN m.properties :
          k \in DOMAIN rc.properties /\ rc.properties[k] = m.properties[k]

\* The layers that set a section.
Setters(layers, k) == {i \in DOMAIN layers : k \in DOMAIN layers[i].settings}

\* The last layer that sets a section provides it, whole.
Resolve(layers) ==
    LET keys    == UNION {DOMAIN layers[i].settings : i \in DOMAIN layers}
        last(k) == CHOOSE i \in Setters(layers, k) : \A j \in Setters(layers, k) : j <= i
    IN  [settings   |-> [k \in keys |-> layers[last(k)].settings[k]],
         provenance |-> [k \in keys |-> layers[last(k)].source]]

Layer(source, settings) == [source |-> source, settings |-> settings]

(*---------------------------------- policy -------------------------------*)
(* A policy maps the fields it sets to their values.                       *)

Says(policy, f, v) == f \in DOMAIN policy /\ policy[f] = v

permRank(p) == CASE p = "pull" -> 0 [] p = "triage" -> 1 [] p = "push" -> 2
                 [] p = "maintain" -> 3 [] p = "admin" -> 4

Violation(field, rule) == [field |-> field, rule |-> rule]

LockedFields(repo, policy) ==
    IF {"repo.locked"} \subseteq DOMAIN policy /\ "repo" \in DOMAIN repo
    THEN {Violation(f, "repo.locked") : f \in DOMAIN repo["repo"] \cap policy["repo.locked"]}
    ELSE {}

\* Nothing is reported twice: a locked field is left to the rule above.
Overrides(repo, policy) ==
    LET locked == IF "repo.locked" \in DOMAIN policy THEN policy["repo.locked"] ELSE {} IN
    IF "repo.allowed_overrides" \in DOMAIN policy /\ "repo" \in DOMAIN repo
       /\ policy["repo.allowed_overrides"] # {}
    THEN {Violation(f, "repo.allowed_overrides") :
             f \in DOMAIN repo["repo"] \ (policy["repo.allowed_overrides"] \cup locked)}
    ELSE {}

\* Sections a repository may not have of its own; a policy's field with the name
\* of a section is that section's allow_repo_level.
RepoLevel(repo, policy) ==
    {Violation(k, "allow_repo_level") :
        k \in {s \in DOMAIN repo \cap {"rulesets", "teams", "actions", "environments"} :
                  Says(policy, s, FALSE)}}

Approvers(merged, policy) ==
    IF "rulesets.min_required_approvers" \in DOMAIN policy /\ "rulesets" \in DOMAIN merged
    THEN {Violation(k, "rulesets.min_required_approvers") :
             k \in {n \in DOMAIN merged["rulesets"] :
                       \E r \in merged["rulesets"][n]["rules"] :
                          /\ r.type = "pull_request" /\ r.counts
                          /\ r.count < policy["rulesets.min_required_approvers"]}}
    ELSE {}

TeamRules(merged, policy) ==
    LET teams == IF "teams" \in DOMAIN merged THEN merged["teams"] ELSE NoSettings
        perm(t) == permRank(teams[t]["permission"])
        need == IF "teams.required_teams" \in DOMAIN policy /\ "teams" \in DOMAIN merged
                THEN policy["teams.required_teams"] ELSE NoSettings
        patterns == IF "teams.permission_by_pattern" \in DOMAIN policy
                    THEN policy["teams.permission_by_pattern"] ELSE {}
    IN  {Violation(t, "teams.max_permission") :
            t \in {u \in DOMAIN teams : /\ "teams.max_permission" \in DOMAIN policy
                                        /\ perm(u) > permRank(policy["teams.max_permission"])}}
        \cup {Violation(t, "teams.required_teams") :
            t \in {u \in DOMAIN need : u \in DOMAIN teams => perm(u) < permRank(need[u])}}
        \cup {Violation(t, "teams.permission_by_pattern") :
            t \in {u \in DOMAIN teams : \E p \in patterns :
                      u \in p.pattern /\ teams[u]["permission"] \notin p.allowed}}

SecurityLocked(repo, policy) ==
    IF Says(policy, "security.locked", TRUE) /\ "security" \in DOMAIN repo
    THEN {Violation(f, "security.locked") :
             f \in {g \in DOMAIN repo["security"] : repo["security"][g] = FALSE}}
    ELSE {}

\* The two spellings stand for all that fold to it.
ProductionNames == {"production", "Production"}

Reviewers(merged, policy) ==
    LET least == IF "environments.production_min_reviewers" \in DOMAIN policy
                 THEN policy["environments.production_min_reviewers"] ELSE 1
        given(e) == IF "reviewers" \in DOMAIN e THEN Cardinality(e["reviewers"]) ELSE 0
    IN  IF /\ Says(policy, "environments.production_requires_reviewers", TRUE)
           /\ "environments" \in DOMAIN merged
        THEN {Violation(n, "environments.production_requires_reviewers") :
                 n \in {m \in DOMAIN merged["environments"] \cap ProductionNames :
                           given(merged["environments"][m]) < least}}
        ELSE {}

\* Every violation has severity error, so every one blocks.
ValidatePolicy(merged, repo, policy) ==
    LockedFields(repo, policy) \cup Overrides(repo, policy) \cup RepoLevel(repo, policy)
    \cup Approvers(merged, policy) \cup TeamRules(merged, policy)
    \cup SecurityLocked(repo, policy) \cup Reviewers(merged, policy)

(*-------------------------------- resolution -----------------------------*)

RepoOnly(repo) ==
    [settings |-> repo, violations |-> {},
     provenance |-> Resolve(<<Layer("repo", repo)>>).provenance]

\* A suborg that does not match has no say, as if it set nothing.
TierLayer(so, rc) ==
    Layer(so.name, IF Matches(so.match, rc) THEN so.settings ELSE NoSettings)

\* The organization's layer, its suborgs in the order of the index, and the
\* repository's own.
Layers(layer, repo, rc) ==
    <<Layer("org", layer.settings)>>
    \o [i \in DOMAIN layer.suborgs |-> TierLayer(layer.suborgs[i], rc)]
    \o <<Layer("repo", repo)>>

\* admin is a set with the admin layer, or empty where none governs.
ResolveFor(admin, repo, rc) ==
    IF admin = {} THEN RepoOnly(repo)
    ELSE LET layer  == CHOOSE l \in admin : TRUE
             merged == Resolve(Layers(layer, repo, rc))
         IN  [settings |-> merged.settings, provenance |-> merged.provenance,
              violations |-> ValidatePolicy(merged.settings, repo, layer.policy)]

(*------------------------------- narrowed runs ---------------------------*)

\* Mutant: the topics of repo.yml are forgotten.
fileToOneKey(f) == {f}

\* repo.yml holds the topics too.
fileToKeys(f) == IF f = "repo" THEN {"repo", "topics"} ELSE {f}

\* No list, and any name that is no settings file, select everything.
AffectedKeys(changed) ==
    IF changed = {} \/ ~(changed \subseteq FileNames) THEN Keys
    ELSE UNION {fileToKeys(f) : f \in changed}

Filter(settings, keys) == Only(settings, keys)

\* Narrowing decides what is applied, never which violations count.
Filtering(res, keys) == [res EXCEPT !.settings = Filter(@, keys)]
=============================================================================
