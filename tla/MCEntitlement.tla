---------------------------- MODULE MCEntitlement ----------------------------
(* Two amounts, one of which overflows the balance when credited twice, at   *)
(* three nonces; one attestation expires before the clock stops.             *)
EXTENDS EntitlementRelay

MCAttestations ==
  [amount : {1, 2}, nonce : 0..2, expiresAt : {1}] \cup {[amount |-> 1, nonce |-> 0, expiresAt |-> 0]}

=============================================================================
