---------------------------- MODULE MCVaultKeys ----------------------------
(* VaultKeys with two other devices and one account. *)
EXTENDS VaultKeys, TLC

Symmetry == Permutations(Devices)
============================================================================
