--------------------------- MODULE Authorization ---------------------------
(***************************************************************************)
(* Who may ask the API for what: the repository identity a workflow token  *)
(* proves (internal/oidc/github.go) and what the server lets its bearer do *)
(* (internal/server/auth.go), as operators.                                *)
(*                                                                         *)
(* The claims of a token map names to values.  A repository is a pair      *)
(* <<owner, name>>, an id a number, 0 where the claim is no positive       *)
(* integer, and the subject the sequence of its "repo:" segments, each     *)
(* [form, repo, ids] with form "immutable" (names and ids), "legacy"       *)
(* (names alone) or "bad".                                                 *)
(***************************************************************************)
EXTENDS Naturals, Sequences, FiniteSets

CONSTANTS GitHubIssuers,            \* issuers whose tokens name a repository
          RequireImmutableSubject,  \* whether a subject must carry the ids
          Folded,                   \* an owner or name -> its lower case
          OIDC,                     \* whether tokens are verified at all
          APIToken,                 \* whether a static token is configured
          AllowUnauthenticated      \* the development mode

EqualFold(a, b) == Folded[a] = Folded[b]

SameRepository(a, b) == EqualFold(a[1], b[1]) /\ EqualFold(a[2], b[2])

RequiredClaims == {"sub", "repository", "repository_owner", "repository_id",
                   "repository_owner_id"}

\* The segments of the subject that speak for the repository claim.
Matches(claims) ==
    {i \in DOMAIN claims["sub"] :
        LET s == claims["sub"][i] IN
        /\ s.form # "bad"
        /\ SameRepository(s.repo, claims["repository"])
        /\ IF s.form = "immutable"
           THEN s.ids = <<claims["repository_owner_id"], claims["repository_id"]>>
           ELSE ~RequireImmutableSubject}

\* The identity a verified token proves: three claims that agree, and exactly
\* one segment of the subject.  The empty set where it proves none.
ParseGitHubIdentity(claims) ==
    IF /\ claims["iss"] \in GitHubIssuers
       /\ RequiredClaims \subseteq DOMAIN claims
       /\ claims["repository_id"] > 0 /\ claims["repository_owner_id"] > 0
       /\ EqualFold(claims["repository"][1], claims["repository_owner"])
       /\ Cardinality(Matches(claims)) = 1
    THEN {[repository |-> claims["repository"], id |-> claims["repository_id"],
           ownerId |-> claims["repository_owner_id"],
           ref |-> claims["ref"], event |-> claims["event_name"]]}
    ELSE {}

\* The callers that name no repository.
NoIdentity == [repository |-> <<"", "">>, id |-> 0, ownerId |-> 0, ref |-> "", event |-> ""]

Caller(kind) == [kind |-> kind, identity |-> NoIdentity]

\* A token is never compared with the static secret, and where no credential is
\* configured nobody is let in but in the development mode.
authorize(bearer, identities) ==
    IF OIDC /\ bearer = "jwt" THEN {[kind |-> "oidc", identity |-> i] : i \in identities}
    ELSE IF APIToken THEN {Caller(k) : k \in {"token"} \cap {bearer}}
    ELSE IF AllowUnauthenticated THEN {Caller("anonymous")}
    ELSE {}

scopedTo(caller, repo) ==
    caller.identity = NoIdentity \/ SameRepository(caller.identity.repository, repo)

TrustedEvents == {"push", "workflow_dispatch", "schedule"}

\* Mutant: the repository is known by its name alone.
requireApplyByName(caller, meta) ==
    caller.kind = "oidc" =>
        caller.identity.event \in TrustedEvents /\ caller.identity.ref = meta.branch

\* What a repository is now: its numbers and its default branch.
requireApply(caller, meta) ==
    caller.kind = "oidc" =>
        /\ caller.identity.event \in TrustedEvents
        /\ caller.identity.ref = meta.branch
        /\ caller.identity.id = meta.id
        /\ caller.identity.ownerId = meta.ownerId
=============================================================================
