---------------------------- MODULE MCVaultSync ----------------------------
(* One account with two edits at most, one other device, and three commands. *)
EXTENDS VaultSync

=============================================================================
