-------------------------- MODULE SerialReconcile --------------------------
(***************************************************************************)
(* What the per-repository lock promises (internal/ghclient/repo_lock.go,  *)
(* README "All reconciles, including dry runs, serialize per repository"): *)
(* a reconcile of a repository is ONE step.  It sees the repository as no  *)
(* other reconcile is changing it, settles every configured lane at once,  *)
(* and a dry run or a refused run changes nothing.                         *)
(*                                                                         *)
(* Reconcile implements this specification when no caller hangs up, no     *)
(* answer to a write is lost and the process does not crash; MCReconcile   *)
(* checks it on a small instance and ReconcileProofs proves it             *)
(* (Serializable).                                                         *)
(***************************************************************************)
CONSTANTS Runs, Repos, Lanes, Values, OneRun, Unmanaged, Disabled, Forbidden, NoRequest

VARIABLES
    live,     \* live[repo][lane]: what GitHub has for the lane
    request,  \* request[r]: the loaded request of run r, or no request
    outcome   \* outcome[r][lane]: what the report of run r says of the lane

serialVars == <<live, request, outcome>>

Settings == [Lanes -> Values \union {Unmanaged}]

\* A request carries its target, its mode, every file it read and the lanes
\* that are left after the caller's selection.
Request == [repo : Repos, dry : BOOLEAN, files : Settings, desired : Settings]

Outcomes == {"none", "noop", "planned", "pending", "applied", "failed", "skipped",
             "refused"}

Unreported == [l \in Lanes |-> "none"]

Refused(req) == \E l \in Lanes : req.files[l] \in Forbidden

SInit ==
    /\ live \in [Repos -> [Lanes -> Values]]
    /\ request = [r \in Runs |-> NoRequest]
    /\ outcome = [r \in Runs |-> Unreported]

SSubmit(r) ==
    /\ request[r] = NoRequest
    /\ request'[r] \in Request
    /\ request' = [request EXCEPT ![r] = request'[r]]
    /\ UNCHANGED <<live, outcome>>

\* The outcomes one lane may report, given what GitHub had when the run began.
LaneOutcomes(req, was, l) ==
    IF req.desired[l] = Unmanaged THEN {"none"}
    ELSE IF l \in Disabled        THEN {"skipped"}
    ELSE IF was[l] = req.desired[l] THEN {"noop", "failed"}
    ELSE IF req.dry               THEN {"planned", "failed"}
    ELSE {"applied", "failed"} \union
         (IF OneRun[l][req.desired[l]][was[l]] = was[l] THEN {"pending"} ELSE {})

\* What GitHub may have for the lane afterwards.  Only a lane that failed may
\* be left half way; one that reports success is as far as one run brings it.
LaneAfter(req, was, l, o, now) ==
    CASE o = "applied"              -> now = OneRun[l][req.desired[l]][was[l]]
      [] o = "failed" /\ ~req.dry   -> TRUE
      [] OTHER                      -> now = was[l]

SRefuse(r) ==
    /\ request[r] # NoRequest
    /\ outcome[r] = Unreported
    /\ Refused(request[r])
    /\ outcome' = [outcome EXCEPT ![r] =
          [l \in Lanes |-> IF request[r].files[l] \in Forbidden THEN "refused" ELSE "none"]]
    /\ UNCHANGED <<live, request>>

SReconcile(r) ==
    /\ request[r] # NoRequest
    /\ outcome[r] = Unreported
    /\ ~Refused(request[r])
    /\ LET req == request[r]
           was == live[req.repo]
       IN /\ outcome'[r] \in [Lanes -> Outcomes]
          /\ \A l \in Lanes : outcome'[r][l] \in LaneOutcomes(req, was, l)
          /\ outcome' = [outcome EXCEPT ![r] = outcome'[r]]
          /\ live' = [live EXCEPT ![req.repo] = live'[req.repo]]
          /\ live'[req.repo] \in [Lanes -> Values]
          /\ \A l \in Lanes :
                LaneAfter(req, was, l, outcome'[r][l], live'[req.repo][l])
    /\ UNCHANGED request

SNext == \E r \in Runs : SSubmit(r) \/ SRefuse(r) \/ SReconcile(r)

SSpec == SInit /\ [][SNext]_serialVars
=============================================================================
