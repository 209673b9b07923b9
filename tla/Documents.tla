----------------------------- MODULE Documents -----------------------------
(***************************************************************************)
(* The drift engine of internal/diff, as operators.                        *)
(*                                                                         *)
(* A document maps field paths to values.  A nested object is flattened:   *)
(* the container "restrictions" has the value "off" (null in the code) or  *)
(* "on", and its members are the paths "restrictions.users" and so on.     *)
(* Whether a document differs from another, and at which top-level paths,  *)
(* is what the lanes use; how a change is rendered is left out.            *)
(*                                                                         *)
(* A listing maps GitHub's numeric ids to items [key, doc]; an index maps  *)
(* keys to [id, doc], as the lanes see live state.                         *)
(***************************************************************************)
EXTENDS Integers, FiniteSets, Functions

\* The part of a document that lies in a set of fields.
Only(doc, fields) == Restrict(doc, DOMAIN doc \cap fields)

\* A document with the fields of another written over it.
Overlay(new, old) ==
    [p \in DOMAIN new \cup DOMAIN old |-> IF p \in DOMAIN new THEN new[p] ELSE old[p]]

\* The fields of desired that current lacks or holds otherwise.  One-sided:
\* a field that only current has is unmanaged and never reported.
Fields(current, desired) ==
    {p \in DOMAIN desired : p \notin DOMAIN current \/ current[p] # desired[p]}

\* Of several items with one key the last one listed wins.
IndexBy(items) ==
    [k \in {items[i].key : i \in DOMAIN items} |->
        LET same == {i \in DOMAIN items : items[i].key = k}
            last == CHOOSE i \in same : \A j \in same : j <= i
        IN  [id |-> last, doc |-> items[last].doc]]

\* What one key needs, from its live state (if any) and its desired document
\* (if any).
SingleResource(k, live, desired) ==
    CASE k \notin DOMAIN live ->
            [action |-> "create", id |-> 0, changes |-> DOMAIN desired[k]]
      [] k \notin DOMAIN desired ->
            [action |-> "delete", id |-> live[k].id, changes |-> {}]
      [] OTHER ->
            LET changes == Fields(live[k].doc, desired[k]) IN
            [action  |-> IF changes = {} THEN "noop" ELSE "update",
             id      |-> live[k].id,
             changes |-> changes]

\* The plan of a keyed list: one entry per key known on either side.
NamedList(live, desired) ==
    [k \in DOMAIN live \cup DOMAIN desired |-> SingleResource(k, live, desired)]

\* The entries a run has to act on.
Actionable(plan) == {k \in DOMAIN plan : plan[k].action # "noop"}

\* Live state already is what is declared, for every key of either side.
Implements(live, desired) ==
    /\ DOMAIN live = DOMAIN desired
    /\ \A k \in DOMAIN desired : Fields(live[k].doc, desired[k]) = {}

\* Lists the schema tags omitempty: an empty one is left out of the document.
OmitEmpty == {"required_status_checks.contexts", "restrictions.users",
              "restrictions.teams", "bypass_actors", "reviewers", "events",
              "patterns_allowed"}

\* The desired document of a configured item: its fields that have a JSON name.
ToMap(item, fields) ==
    Only(item, {p \in fields : p \in DOMAIN item =>
                                 ~(p \in OmitEmpty /\ item[p] = {})})
=============================================================================
