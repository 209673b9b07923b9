----------------------------- MODULE MCOrgLayer -----------------------------
(* A small organization: an admin repository whose second push tightens     *)
(* the policy and changes a default, and a repository that first breaks it. *)
EXTENDS OrgLayer, TLC

None == [kind |-> "absent"]

Body(b) == [kind |-> "body", body |-> b]

Repo(doc, names) == Body([repo |-> doc, topics |-> names])

Teams(a) == Body([team |-> [permission |-> a]])

Secure(v) == Body([secret_scanning |-> v])

Tier(names, files) ==
    [name |-> "tier", files |-> files,
     match |-> [repos |-> {names}, teams |-> {}, properties |-> NoSettings]]

MCOrgVersions ==
    <<[files   |-> [repo |-> None, teams |-> Teams("pull"), security |-> Secure(TRUE)],
       policy  |-> Body([p \in {"teams.max_permission"} |-> "push"]),
       suborgs |-> <<Tier({"app"}, [teams |-> Teams("triage")])>>],
      [files   |-> [repo |-> Body([repo |-> [description |-> "org"]]),
                    teams |-> Teams("pull"), security |-> Secure(TRUE)],
       policy  |-> Body([p \in {"repo.locked", "security.locked"} |->
                            IF p = "repo.locked" THEN {"visibility"} ELSE TRUE]),
       suborgs |-> <<>>]>>

MCRepoVersions ==
    [app |->
       <<[repo |-> Repo([description |-> "d"], {"s"}), teams |-> Teams("push"),
          security |-> None],
         [repo |-> Repo([visibility |-> "public"], {"s", "t"}), teams |-> [kind |-> "empty"],
          security |-> Secure(FALSE)]>>,
     admin |-> <<[repo |-> None, teams |-> Teams("admin"), security |-> None]>>]

CONSTANTS r1, r2, r3

Symmetry == Permutations({r1, r2, r3})
=============================================================================
