--------------------------- MODULE IdentityRules ---------------------------
(***************************************************************************)
(* Identity records and their standing at a time (section 3.6).  The five  *)
(* SDKs agree on the status; only Python's record may carry a proof, which *)
(* its validate_identity refuses.                                          *)
(***************************************************************************)
EXTENDS Naturals

IdentityRecord == [jurisdiction : STRING, expiry : Nat, revoked : BOOLEAN, proof : BOOLEAN]

\* Revocation is looked at first, and the expiry date itself is too late.
IdentityStatus(record, now) ==
  IF record.revoked THEN "REVOKED"
  ELSE IF now >= record.expiry THEN "EXPIRED"
  ELSE "VALID"

\* A record that carries a zero-knowledge proof is refused: no verifier is built in.
ValidIdentity(record, now) == IdentityStatus(record, now) = "VALID" /\ ~record.proof
=============================================================================
