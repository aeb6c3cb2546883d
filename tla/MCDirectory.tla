----------------------------- MODULE MCDirectory -----------------------------
(***************************************************************************)
(* Directory on small sets.                                                *)
(***************************************************************************)
EXTENDS Directory, TLC

Symmetry ==
  Permutations(Workspaces) \cup Permutations(PartnerIds)
    \cup Permutations(CategoryIds) \cup Permutations(Requests)
=============================================================================
