------------------------- MODULE MCTransferExecutor -------------------------
(* Two parties, one of whose names is the other's written twice, so that names run   *)
(* together when hashed; events made at two times with two nonces.  The assets are of *)
(* identity level 0, 1 and 3, with rules the executor can pass knowing nothing of the *)
(* parties, rules it cannot, and fee modules that validate, fail or overflow.  In the *)
(* second file, one party's record for the required jurisdiction lapses first.        *)
EXTENDS TransferExecutor, TLC

Symmetry == Permutations(Nonce)

Parties == {<<"x">>, <<"x", "x">>}

Rule(type, scope, action, params) ==
  [type |-> type, scope |-> scope, action |-> action, priority |-> 1, params |-> params]
Threshold == Rule("TRANSACTION_THRESHOLD", "*", "REJECT", [thresholdAmount |-> 2])
Window == Rule("MARKET_RESTRICTION", "*", "FREEZE", [windowOpen |-> 0, windowClose |-> 1])
Geographic == Rule("GEOGRAPHIC_RESTRICTION", "*", "REJECT", [blockedJurisdictions |-> {"KP"}])
Eligibility == Rule("TRANSFER_ELIGIBILITY", "*", "REJECT", [k \in {} |-> {}])

Fee(rate, shares) == [rate |-> rate, shares |-> shares]
MakeAsset(level, required, rules, fee) ==
  [jurisdiction |-> "GE", level |-> level, required |-> required, rules |-> rules, fee |-> fee]
Assets ==
  { MakeAsset(0, {}, <<Threshold, [Geographic EXCEPT !.action = "FLAG"]>>, Fee(2, <<3, 2>>)),
    MakeAsset(1, {}, <<[Geographic EXCEPT !.scope = "US"], Window>>, Fee(1, <<5>>)),
    MakeAsset(3, {"US"}, <<>>, Fee(1, <<5>>)),
    MakeAsset(1, {}, <<Eligibility>>, Fee(1, <<5>>)),
    MakeAsset(0, {}, <<Geographic>>, Fee(1, <<5>>)),
    MakeAsset(0, {}, <<>>, Fee(5, <<5>>)),
    MakeAsset(0, {}, <<>>, Fee(1, <<4>>)) }

Record(jurisdiction, expiry, proof) ==
  [jurisdiction |-> jurisdiction, expiry |-> expiry, revoked |-> FALSE, proof |-> proof]
Files ==
  { [p \in Parties |-> IF p = <<"x">> THEN <<Record("GE", 1, FALSE)>> ELSE <<>>],
    [p \in Parties |-> IF p = <<"x">> THEN <<Record("GE", 2, FALSE), Record("US", 1, TRUE)>>
                       ELSE <<Record("US", 2, FALSE)>>] }

Contexts ==
  { [state |-> "ACTIVE", jurisdiction |-> "GE", amount |-> amount, timestamp |-> t,
     sender   |-> [status |-> "VALID", jurisdiction |-> from, acquired |-> 0],
     receiver |-> [status |-> "VALID", jurisdiction |-> "GE", class |-> "QIB"],
     attestations |-> [k \in {} |-> {}]]
    : amount \in Value, t \in Time, from \in {"GE", "KP"} }
=============================================================================
