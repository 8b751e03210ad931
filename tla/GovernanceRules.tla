-------------------------- MODULE GovernanceRules --------------------------
(***************************************************************************)
(* validate_override and validate_quorum of section 5.  A governance       *)
(* module g is a record [authorities, quorumThreshold, overrideTypes], its *)
(* authorities the list it holds, repetitions included; an override o is   *)
(* [authority, action, legalBasis, signature], where a signature says who  *)
(* signed what.  The verifier is the host's, and taken to be correct.      *)
(***************************************************************************)
EXTENDS Naturals, Sequences, FiniteSets, Functions

CONSTANT Missing   \* no legal basis, or one too short to be a hash

GovernanceAction ==
  {"FREEZE_BALANCE", "UNFREEZE_BALANCE", "RESTRICT_TRANSFER", "SEIZE_ASSET",
   "FORCE_REDEMPTION", "EMERGENCY_ROLLBACK"}

\* Rounded down: 2N/3 with the ceiling forgotten (a mutant).
RequiredFloored(g) == (2 * Len(g.authorities)) \div 3

\* Two thirds of the list's length, rounded up; quorum_threshold is not read.
Required(g) == (2 * Len(g.authorities) + 2) \div 3

\* Whoever co-signs is counted (a mutant).
SignedByAnyone(g, cosigners) == cosigners

\* Who co-signs and is registered, counted once; the co-signatures are not verified.
Signed(g, cosigners) == cosigners \cap Range(g.authorities)

ValidateQuorum(g, cosigners) == Cardinality(Signed(g, cosigners)) >= Required(g)

\* What is signed is the legal basis alone.
Verifies(o) == o.signature = [by |-> o.authority, over |-> o.legalBasis]

ValidateOverride(o, g, cosigners) ==
  /\ o.authority \in Range(g.authorities)
  /\ o.action \in g.overrideTypes
  /\ o.legalBasis # Missing
  /\ Verifies(o)
  /\ o.action = "EMERGENCY_ROLLBACK" => ValidateQuorum(g, cosigners)
=============================================================================
