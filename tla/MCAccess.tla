------------------------------ MODULE MCAccess ------------------------------
(* A repository that is made again under its name, and a second one;         *)
(* requests of their workflows.                                              *)
EXTENDS Access, TLC

Names == {"o", "O", "app", "App", "lib", ""}

MCFolded == [n \in Names |-> CASE n = "O" -> "o" [] n = "App" -> "app" [] OTHER -> n]

App == <<"o", "app">>
Lib == <<"o", "lib">>

Is(id, branch) == [id |-> id, ownerId |-> 9, branch |-> branch]

MCMetadata == (App :> <<Is(1, "main"), Is(3, "main")>>) @@ (Lib :> <<Is(2, "main")>>)

Segment(form, repo, id) == [form |-> form, repo |-> repo, ids |-> <<9, id>>]

Claims(repo, id, ref, event, sub) ==
    [iss |-> "github", sub |-> sub, repository |-> repo, repository_owner |-> "o",
     repository_id |-> id, repository_owner_id |-> 9, ref |-> ref, event_name |-> event]

Ask(claims, repo, dry) == [bearer |-> "jwt", claims |-> claims, repo |-> repo, dry |-> dry]

MCRequests ==
    LET own(repo, id, ref, event) ==
          Claims(repo, id, ref, event, <<Segment("immutable", repo, id)>>)
    IN  {Ask(own(App, 1, "main", "push"), <<"O", "App">>, FALSE),
         Ask(own(App, 1, "main", "pull_request_target"), App, FALSE),
         Ask(own(App, 3, "topic", "push"), App, FALSE),
         Ask(own(Lib, 2, "main", "push"), App, TRUE),
         [bearer |-> "token", claims |-> <<>>, repo |-> App, dry |-> FALSE]}
=============================================================================
