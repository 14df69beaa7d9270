--------------------------- MODULE MCVaultSession ---------------------------
(* VaultSession in small units of time. *)
EXTENDS VaultSession, TLC

Symmetry == Permutations(Components) \cup Permutations(Proofs)
=============================================================================
