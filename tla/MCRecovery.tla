----------------------------- MODULE MCRecovery -----------------------------
(***************************************************************************)
(* RecoveryV2 on two candidate authorities and three guardians.  The       *)
(* guardian sets offered to setGuardianSet are a 2-of-3 and one just above *)
(* the threshold bound.                                                    *)
(***************************************************************************)
EXTENDS RecoveryV2

CONSTANTS a1, a2, g1, g2, g3, k1, k2

MCGuardianSets ==
  { [root |-> {g1, g2, g3}, threshold |-> 2, guardianCount |-> 3],
    [root |-> {g1}, threshold |-> 10, guardianCount |-> 15] }

\* g1 and g2 endorse a1 with k1, g2 another recipient too, and g3 another
\* authority.  The signatures expire before the last tick.
MCEndorsements ==
  {[guardian |-> e[1], proposedAuthority |-> e[2], recipientCommitment |-> e[3], expiresAt |-> 2]
     : e \in {<<g1, a1, k1>>, <<g2, a1, k1>>, <<g2, a1, k2>>, <<g3, a2, k1>>}}

=============================================================================
