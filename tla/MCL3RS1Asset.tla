---------------------------- MODULE MCL3RS1Asset ----------------------------
(* A contract of two holders (one of them the issuer), one oracle contract and two  *)
(* nonces.  MaxUint is small enough for sums and products to overflow, and the rate *)
(* FeeRateBps / BpsScale takes a third with rounding.                               *)
EXTENDS L3RS1Asset, TLC

Symmetry == Permutations(Nonce)
=============================================================================
