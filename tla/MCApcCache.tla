------------------------------ MODULE MCApcCache ------------------------------
(* Instances of ApcCache for TLC. *)
EXTENDS ApcCache, TLC

\* apc.ttl is not set, apc.user_ttl is.
MCCacheTtl == [c \in {"file", "user"} |-> IF c = "user" THEN 1 ELSE 0]

Symmetry == Permutations(Procs) \cup Permutations(Blocks) \cup Permutations(UserKeys)
=============================================================================
