--------------------------- MODULE StickyComment ---------------------------
(***************************************************************************)
(* One pull request and the deliveries that comment on it                  *)
(* (internal/server/webhook.go, prcomments.go): a commit of it is checked, *)
(* a person asks the bot to recheck, to apply or for help, and each        *)
(* delivery ends by looking for the bot's marked comment and then editing  *)
(* it or creating one.  Deliveries are handled by goroutines of their own  *)
(* and nothing serializes their comments: the repository lock is given     *)
(* back when the reconcile is over.  A delivery comes some time after what *)
(* it tells of, in any order, and may come again.                          *)
(*                                                                         *)
(* Commits of the pull request are numbered in the order they were pushed; *)
(* Main stands for the default branch.  A body is reduced to what it says  *)
(* and the commit it is about.                                             *)
(***************************************************************************)
EXTENDS Naturals, Sequences, SequencesExt

CONSTANTS
    Deliveries,  \* webhook deliveries about the pull request
    MaxPush,     \* bound on pushes to the pull request
    Broken,      \* commits whose settings files do not parse
    Comments,    \* comments of people on the pull request at the start
    PageSize,    \* comments per page of the list (100)
    Faults,      \* which of "lookup", "load", "list", "write" may fail
    Main         \* the empty ref: the default branch

Commits == 1 .. MaxPush

ASSUME StickyAssumption ==
    /\ MaxPush \in Nat \ {0}
    /\ Broken \subseteq Commits \union {Main}
    /\ Main \notin Commits
    /\ Comments \in Nat
    /\ PageSize \in Nat \ {0}

VARIABLES
    head,       \* the newest commit of the pull request
    comments,   \* its comments, oldest first
    command,    \* command[d]: what delivery d asks for
    writer,     \* writer[d]: the commenter has write permission
    ref,        \* ref[d]: the commit whose settings are loaded
    pc,         \* pc[d]: where delivery d stands
    body,       \* body[d]: the body it posts
    place,      \* place[d]: the comment it edits, 0 to create one
    seen,       \* seen[d]: there was a marked comment when d arrived (history)
    alone,      \* alone[d]: no other delivery was in hand with d (history)
    late,       \* late[d]: d tells of a commit that is not the newest (history)
    applied     \* applied[d]: d applied settings

vars == <<head, comments, command, writer, ref, pc, body, place, seen, alone, late,
          applied>>
Given == <<command, writer, seen, alone, late>>

Nothing == [says |-> "nothing", about |-> Main]
ByPerson == [marked |-> FALSE, body |-> Nothing]
Bodies == [says : {"nothing", "plan", "errors", "applied", "refused", "failed", "help"},
           about : Commits \union {Main}]

Marked == {i \in DOMAIN comments : comments[i].marked}

InHand == {d \in Deliveries : pc[d] \notin {"idle", "done"}}

Init ==
    /\ head = 1
    /\ comments = [i \in 1 .. Comments |-> ByPerson]
    /\ command = [d \in Deliveries |-> "none"]
    /\ writer = [d \in Deliveries |-> FALSE]
    /\ ref = [d \in Deliveries |-> Main]
    /\ pc = [d \in Deliveries |-> "idle"]
    /\ body = [d \in Deliveries |-> Nothing]
    /\ place = [d \in Deliveries |-> 0]
    /\ seen = [d \in Deliveries |-> FALSE]
    /\ alone = [d \in Deliveries |-> TRUE]
    /\ late = [d \in Deliveries |-> FALSE]
    /\ applied = [d \in Deliveries |-> FALSE]

-----------------------------------------------------------------------------
\* Pushes and arrivals

\* A commit is pushed.  Whatever delivery tells of it comes later.
Push ==
    /\ head < MaxPush
    /\ head' = head + 1
    /\ UNCHANGED <<comments, Given, ref, pc, body, place, applied>>

Arrive(d, c, w, to) ==
    /\ pc[d] = "idle"
    /\ command' = [command EXCEPT ![d] = c]
    /\ writer' = [writer EXCEPT ![d] = w]
    /\ seen' = [seen EXCEPT ![d] = Marked # {}]
    /\ alone' = [e \in Deliveries |-> alone[e] /\ (e \in InHand \union {d} => InHand = {})]
    /\ pc' = [pc EXCEPT ![d] = to]

\* "opened", "reopened" or "synchronize": the payload carries the commit that
\* was the head when GitHub wrote it.
PullRequest(d, sha) ==
    /\ sha <= head
    /\ Arrive(d, "check", FALSE, "loading")
    /\ ref' = [ref EXCEPT ![d] = sha]
    /\ late' = [late EXCEPT ![d] = sha # head]
    /\ UNCHANGED <<head, comments, body, place, applied>>

Say(d, says) ==
    /\ body' = [body EXCEPT ![d] = [says |-> says, about |-> ref[d]]]
    /\ pc' = [pc EXCEPT ![d] = "listing"]

\* The created comment of a person, with a command for the bot in it; or the
\* delivery that tells of one comes again.
Command(d, c, w) ==
    /\ Arrive(d, c, w, "asked")
    /\ \/ comments' = Append(comments, ByPerson)
       \/ (\E i \in DOMAIN comments : ~comments[i].marked) /\ UNCHANGED comments
    /\ UNCHANGED <<head, ref, late, body, place, applied>>

Help(d) ==
    /\ pc[d] = "asked"
    /\ command[d] = "help"
    /\ Say(d, "help")
    /\ UNCHANGED <<head, comments, Given, ref, place, applied>>

\* Mutant: the comment's payload has no commit, so the empty ref is loaded.
RecheckMain(d) ==
    /\ pc[d] = "asked"
    /\ command[d] = "recheck"
    /\ pc' = [pc EXCEPT ![d] = "loading"]
    /\ UNCHANGED <<head, comments, Given, ref, body, place, applied>>

\* The commit is looked up; when that fails the failure is posted.
Recheck(d) ==
    /\ pc[d] = "asked"
    /\ command[d] = "recheck"
    /\ \/ /\ ref' = [ref EXCEPT ![d] = head]
          /\ pc' = [pc EXCEPT ![d] = "loading"]
          /\ UNCHANGED body
       \/ /\ "lookup" \in Faults
          /\ Say(d, "failed")
          /\ UNCHANGED ref
    /\ UNCHANGED <<head, comments, Given, place, applied>>

AuthorizeOnError(d) ==               \* mutant: a failed lookup lets apply pass
    /\ pc[d] = "asked"
    /\ command[d] = "apply"
    /\ \/ /\ writer[d] \/ "lookup" \in Faults
          /\ pc' = [pc EXCEPT ![d] = "loading"]
          /\ UNCHANGED body
       \/ /\ ~writer[d]
          /\ Say(d, "refused")
    /\ UNCHANGED <<head, comments, Given, ref, place, applied>>

\* authorizeApply: below write, or with a lookup that fails, refused.
Authorize(d) ==
    /\ pc[d] = "asked"
    /\ command[d] = "apply"
    /\ \/ /\ writer[d]
          /\ pc' = [pc EXCEPT ![d] = "loading"]
          /\ UNCHANGED body
       \/ /\ ~writer[d] \/ "lookup" \in Faults
          /\ Say(d, "refused")
    /\ UNCHANGED <<head, comments, Given, ref, place, applied>>

-----------------------------------------------------------------------------
\* Load and reconcile.  A reconcile never returns an error of its own.

\* Settings that do not parse are posted, whichever way they were asked for.
Unparsed(d) ==
    /\ pc[d] = "loading"
    /\ ref[d] \in Broken
    /\ Say(d, IF command[d] = "apply" THEN "failed" ELSE "errors")
    /\ UNCHANGED <<head, comments, Given, ref, place, applied>>

\* Any other failure is posted for "apply" only; the rest gets a 500.
LoadFails(d) ==
    /\ pc[d] = "loading"
    /\ "load" \in Faults
    /\ \/ /\ command[d] = "apply"
          /\ Say(d, "failed")
       \/ /\ command[d] # "apply"
          /\ pc' = [pc EXCEPT ![d] = "done"]
          /\ UNCHANGED body
    /\ UNCHANGED <<head, comments, Given, ref, place, applied>>

Reconcile(d) ==
    /\ pc[d] = "loading"
    /\ ref[d] \notin Broken
    /\ Say(d, IF command[d] = "apply" THEN "applied" ELSE "plan")
    /\ applied' = [applied EXCEPT ![d] = command[d] = "apply"]
    /\ UNCHANGED <<head, comments, Given, ref, place>>

-----------------------------------------------------------------------------
\* upsertStickyComment: list, then edit or create

FirstPage ==                         \* mutant: only the first page is read
    {i \in Marked : i <= PageSize}

\* ListIssueComments walks every page.
Listed == Marked

\* The first comment with the marker, or none.
List(d) ==
    /\ pc[d] = "listing"
    /\ \/ /\ place' = [place EXCEPT ![d] =
                IF Listed = {} THEN 0
                ELSE CHOOSE i \in Listed : \A j \in Listed : i <= j]
          /\ pc' = [pc EXCEPT ![d] = "posting"]
       \/ /\ "list" \in Faults
          /\ pc' = [pc EXCEPT ![d] = "done"]
          /\ UNCHANGED place
    /\ UNCHANGED <<head, comments, Given, ref, body, applied>>

Post(d) ==
    LET c == [marked |-> TRUE, body |-> body[d]]
    IN /\ pc[d] = "posting"
       /\ pc' = [pc EXCEPT ![d] = "done"]
       /\ \/ comments' = IF place[d] = 0 THEN Append(comments, c)
                         ELSE [comments EXCEPT ![place[d]] = c]
          \/ "write" \in Faults /\ UNCHANGED comments
       /\ UNCHANGED <<head, Given, ref, body, place, applied>>

-----------------------------------------------------------------------------

Handle(d) ==
    \/ \E sha \in Commits : PullRequest(d, sha)
    \/ \E w \in BOOLEAN : Command(d, "apply", w)
    \/ \E c \in {"recheck", "help"} : Command(d, c, FALSE)
    \/ Help(d)
    \/ Recheck(d)
    \/ Authorize(d)
    \/ Unparsed(d)
    \/ LoadFails(d)
    \/ Reconcile(d)
    \/ List(d)
    \/ Post(d)

Next == Push \/ \E d \in Deliveries : Handle(d)

Spec == Init /\ [][Next]_vars

-----------------------------------------------------------------------------
\* Properties

TypeOK ==
    /\ head \in Commits
    /\ comments \in Seq([marked : BOOLEAN, body : Bodies])
    /\ command \in [Deliveries -> {"none", "check", "recheck", "apply", "help"}]
    /\ writer \in [Deliveries -> BOOLEAN]
    /\ ref \in [Deliveries -> Commits \union {Main}]
    /\ pc \in [Deliveries -> {"idle", "asked", "loading", "listing", "posting", "done"}]
    /\ body \in [Deliveries -> Bodies]
    /\ place \in [Deliveries -> 0 .. Len(comments)]
    /\ alone \in [Deliveries -> BOOLEAN]
    /\ late \in [Deliveries -> BOOLEAN]
    /\ seen \in [Deliveries -> BOOLEAN]
    /\ applied \in [Deliveries -> BOOLEAN]

(***************************************************************************)
(* README.md:394-396, "Reruns update that comment in place rather than     *)
(* stacking new ones": a delivery that arrives when the pull request has a *)
(* marked comment never adds another, however many pages of conversation   *)
(* are in between.                                                         *)
(***************************************************************************)
RerunsUpdateInPlace ==
    [][\A d \in Deliveries :
          pc[d] = "posting" /\ pc'[d] = "done" /\ seen[d] =>
              Len(comments') = Len(comments)]_vars

(***************************************************************************)
(* README.md:394, "The bot maintains one sticky comment per PR".           *)
(***************************************************************************)
OneSticky == \A i, j \in Marked : i = j

\* The post of d takes comment i back: from the plan of a commit to that of an
\* older one, or to a plan of the default branch.
TakesBack(d, i) ==
    LET new == comments'[i].body
        old == comments[i].body
    IN /\ pc[d] = "posting" /\ pc'[d] = "done"
       /\ new # old /\ new.says \in {"plan", "errors"}
       /\ \/ new.about = Main
          \/ old.says \in {"plan", "errors"} /\ new.about < old.about

(***************************************************************************)
(* A delivery that was handled alone and did not come late never puts the  *)
(* plan of an older commit in place of a newer one's, whatever was pushed  *)
(* while it was handled and whatever order the deliveries before it came   *)
(* and ended in, nor the default branch's in place of the pull request's   *)
(* (webhook.go:138-141, 193-194).                                          *)
(***************************************************************************)
NewestPlanStays ==
    [][\A d \in Deliveries, i \in DOMAIN comments :
          alone[d] /\ ~late[d] => ~TakesBack(d, i)]_vars

(***************************************************************************)
(* The same of the late ones too, which does not hold: the commit to check *)
(* is the payload's, so a delivery that GitHub sends late, out of order or *)
(* again brings back the plan of the commit it tells of.                   *)
(***************************************************************************)
NewestPlanAlwaysStays ==
    [][\A d \in Deliveries, i \in DOMAIN comments : alone[d] => ~TakesBack(d, i)]_vars

(***************************************************************************)
(* README.md:386: what a command applies is the default branch, asked for  *)
(* by a commenter whose permission was looked up and is write or better.   *)
(***************************************************************************)
ReviewIsNotSkipped ==
    \A d \in Deliveries : applied[d] => ref[d] = Main /\ writer[d]
=============================================================================
