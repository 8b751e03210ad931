---------------------------- MODULE MCFeeRouting ----------------------------
(* Up to three shares of -1 to 5 fifths each, or four of 0 to 2, the whole is five; rates *)
(* from minus one fifth to six fifths; fees that do not fit MaxUint.  Words hold twelve    *)
(* fifths, so that 5 + 5 + 7 and 5 + 5 + 5 + 2 wrap to the whole.                         *)
EXTENDS FeeRouting

Shares ==
  UNION {[1 .. n -> -1 .. BpsScale] : n \in 0 .. 3} \cup [1 .. 4 -> 0 .. 2]
    \cup [1 .. 3 -> {5, 7}] \cup [1 .. 4 -> {2, 5}]
FeeModules == [rate : -1 .. BpsScale + 1, shares : Shares]
Amounts == 0 .. 7
=============================================================================
