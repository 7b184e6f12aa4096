-------------------------- MODULE MCLoginThrottle --------------------------
(* Small instances of LoginThrottle for TLC. *)
EXTENDS LoginThrottle, TLC

Symmetry == Permutations(Addresses) \union Permutations(Requests)
=============================================================================
