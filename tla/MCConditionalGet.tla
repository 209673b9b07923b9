------------------------- MODULE MCConditionalGet -------------------------
(* Instances of ConditionalGet for TLC: the list of a repository's rulesets, *)
(* its second page and the list of its teams, of which two fit in the cache. *)
(* A ruleset is edited, and the first page also changes by a write at a path *)
(* that has nothing to do with it.                                           *)
EXTENDS ConditionalGet, TLC

CONSTANTS list, page2, teams, edit, get1, get2, get3, get4, get5

Rulesets == <<"repos", "o", "r", "rulesets">>

MCPath == [u \in Urls |-> IF u = teams THEN <<"repos", "o", "r", "teams">> ELSE Rulesets]

MCUrlOf ==
    [r \in Reads |-> CASE r = get4 -> page2 [] r = get5 -> teams [] OTHER -> list]

MCTarget == [w \in Writes |-> Append(Rulesets, "7")]

MCChanges == [w \in Writes |-> {list, page2}]

\* Three reads get the same.
Symmetry == Permutations({get1, get2, get3})
=============================================================================
