--------------------------- MODULE MCAuthSessions ---------------------------
(* Small instances of AuthSessions for TLC. *)
EXTENDS AuthSessions, TLC

Symmetry ==
    Permutations(Users) \union Permutations(Sids) \union Permutations(Requests)
=============================================================================
