--------------------------- MODULE MCProfileVault ---------------------------
(* Small instances of ProfileVault for TLC. *)
EXTENDS ProfileVault, TLC

Symmetry == Permutations(Logins) \cup Permutations(Profiles)
============================================================================
