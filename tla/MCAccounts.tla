----------------------------- MODULE MCAccounts -----------------------------
(* Small instances of Accounts for TLC. *)
EXTENDS Accounts, TLC

Symmetry ==
    Permutations(Users \ Seeded) \union Permutations(Emails)
        \union Permutations(Tokens) \union Permutations(Requests)
=============================================================================
