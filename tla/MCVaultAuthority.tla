-------------------------- MODULE MCVaultAuthority --------------------------
(***************************************************************************)
(* Both contracts on two accounts, two guardians that must both approve,   *)
(* and one recovery attempt.                                               *)
(***************************************************************************)
EXTENDS VaultAuthority, TLC

CONSTANTS a1, a2, g1, g2, k1

MCGuardianSets == {[root |-> Guardians, threshold |-> 2, guardianCount |-> 3]}

\* Guardians endorse the right and the wrong authority.
MCEndorsements ==
  [guardian : Guardians, proposedAuthority : Addrs, recipientCommitment : Commitments,
   expiresAt : {2}]

\* Anyone may sign anything.
MCMessages == [kind : {"AddDevice", "RemoveDevice", "Promote"}, target : Addrs, signer : Addrs]

MCSymmetry == {p @@ q : p \in Permutations({a1, a2}), q \in Permutations(Guardians)}

=============================================================================
