---------------------------- MODULE MCReconcile ----------------------------
(* Instances of Reconcile for TLC.                                         *)
EXTENDS Reconcile, TLC

CONSTANTS repo, secrets, pages, x, y, mix, bad, unmanaged, lower, UPPER

MCLower == [n \in Names |-> lower]

\* Version 0 breaks the org policy in one file; version 1, pushed later, is
\* legal and stops managing the disabled lane.
MCTree ==
    (0 :> [l \in Lanes |-> IF l = repo THEN bad ELSE x]) @@
    (1 :> [l \in Lanes |-> IF l = pages THEN unmanaged ELSE y])

\* The secrets of y are those of x and one more, which another system has to
\* upload: a run deletes what is not declared and leaves the rest pending.
MCOneRun ==
    [l \in Lanes |-> [v \in Values |-> [w \in Values |->
        IF l = secrets /\ v = y /\ w # y THEN x ELSE v]]]

\* The repository has drifted in different lanes, or has all but the secret
\* somebody has to upload.
MCInitially ==
    { [l \in Lanes |-> IF l = secrets THEN y ELSE x],
      [l \in Lanes |-> IF l = secrets THEN mix ELSE x],
      [l \in Lanes |-> IF l = repo THEN y ELSE x] }

\* The whole directory, or only what is not the lane that breaks the policy.
MCSelections == {Lanes, Lanes \ {repo}}

MCWholeDirectory == {Lanes}

\* Settings that are pushed away from what the repository is like, and back.
MCHistory ==
    (0 :> [l \in Lanes |-> x]) @@ (1 :> [l \in Lanes |-> y]) @@ (2 :> [l \in Lanes |-> x])

MCReached == {[l \in Lanes |-> x]}

\* Every lane becomes what the files declare.
MCDirect == [l \in Lanes |-> [v \in Values |-> [w \in Values |-> v]]]

Symmetry == Permutations(Runs)
=============================================================================
