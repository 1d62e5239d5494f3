------------------------------- MODULE PoolMC -------------------------------
(* Instances of Pool for TLC: requests are interchangeable. *)
EXTENDS Pool, TLC

Symmetry == Permutations(Requests)
AllAlgorithms == {"round_robin", "sticky_cookie", "5_tuple_hash", "least_connection"}
LeastConnection == {"least_connection"}
=============================================================================
