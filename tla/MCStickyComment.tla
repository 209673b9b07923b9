-------------------------- MODULE MCStickyComment --------------------------
(***************************************************************************)
(* StickyComment with three deliveries, which it does not tell apart.      *)
(***************************************************************************)
EXTENDS StickyComment

Symmetry == Permutations(Deliveries)
=============================================================================
