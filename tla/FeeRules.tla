------------------------------ MODULE FeeRules ------------------------------
(***************************************************************************)
(* The arithmetic of fee routing (section 6).  A fee module is a record    *)
(* [rate, shares]: the base rate and, per allocation in order, its share,  *)
(* all in basis points.  Nothing bounds the rate; Python integers and TLA+ *)
(* integers both divide towards minus infinity.                            *)
(***************************************************************************)
EXTENDS Integers, Sequences, Functions

CONSTANTS
  BpsScale,     \* 10_000 in the code
  MaxUint       \* the largest total the fee record encodes, in 32 bytes

NoNegativeShare(fee) == \A i \in DOMAIN fee.shares : fee.shares[i] >= 0

ValidFeeModule(fee) ==
  SumFunction(fee.shares) = BpsScale /\ NoNegativeShare(fee)

TotalFee(fee, amount) == (amount * fee.rate) \div BpsScale

\* Half a unit or more counts as one (a mutant).
ShareRounded(total, bps) == (total * bps + BpsScale \div 2) \div BpsScale

ShareOf(total, bps) == (total * bps) \div BpsScale

Encodable(total) == 0 <= total /\ total <= MaxUint
=============================================================================
