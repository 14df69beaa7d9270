------------------------------ MODULE MCFunder ------------------------------
(* Credit 0 pays the user; Credits 1 and 1' compete for the next nonce.     *)
EXTENDS Funder

MCCredits == {[amount |-> 3, nonce |-> 0, expiresAt |-> 1],
              [amount |-> 1, nonce |-> 1, expiresAt |-> 1],
              [amount |-> 2, nonce |-> 1, expiresAt |-> 0]}

=============================================================================
