--------------------------- MODULE MCRevisionLog ----------------------------
(***************************************************************************)
(* RevisionLogV2 on three accounts and a cap of two devices.  a1 founds    *)
(* the vault (by symmetry); a2 may be promoted or removed, and manage      *)
(* after that; a3 is over the cap, or the recovery authority.              *)
(***************************************************************************)
EXTENDS RevisionLogV2

CONSTANTS a1, a2, a3

Message(kind, target, signer) == [kind |-> kind, target |-> target, signer |-> signer]

MCMessages ==
  {Message("AddDevice", t, a1) : t \in Addrs} \cup {Message("RemoveDevice", a2, s) : s \in {a1, a3}}
  \cup {Message("Promote", a2, a2), Message("Promote", a2, a1),
        Message("RemoveDevice", a1, a2), Message("AddDevice", a3, a3)}

=============================================================================
