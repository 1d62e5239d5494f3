--------------------------- MODULE AdminServiceMC ---------------------------
(***************************************************************************)
(* Small instances of AdminService for TLC.                                *)
(***************************************************************************)
EXTENDS AdminService, TLC

CallerSymmetry == Permutations(Callers)
Symmetry == CallerSymmetry \union Permutations(Namespaces)

AllKinds == {"good", "unparsable", "zeroInterval"}
=============================================================================
