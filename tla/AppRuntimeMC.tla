---------------------------- MODULE AppRuntimeMC ----------------------------
(* Instances of AppRuntime for TLC. *)
EXTENDS AppRuntime, TLC

Symmetry == Permutations(Requests) \union Permutations(Reloaders)
=============================================================================
