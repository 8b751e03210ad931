------------------------- MODULE MCComplianceEngine -------------------------
(* Rule lists of up to three rules out of a catalogue with every rule type, both kinds *)
(* of action and a foreign scope; the contexts are one full context, its variations  *)
(* on either side of each boundary, and all of these with inputs withheld.           *)
EXTENDS ComplianceEngine, TLC

Now == 10
Rule(type, scope, action, priority, params) ==
  [type |-> type, scope |-> scope, action |-> action, priority |-> priority, params |-> params]
NoParams == [k \in {} |-> 0]

Catalogue ==
  { Rule("TRANSFER_ELIGIBILITY", "*", "REJECT", 2, NoParams),
    Rule("INVESTOR_CLASSIFICATION", "GE", "RESTRICT", 1, [allowedClasses |-> {"QIB"}]),
    Rule("INVESTOR_CLASSIFICATION", "US", "REJECT", 1, NoParams),
    Rule("HOLDING_PERIOD", "*", "REJECT", 1, [holdingPeriodSec |-> 4]),
    Rule("GEOGRAPHIC_RESTRICTION", "*", "FREEZE", 2, [blockedJurisdictions |-> {"KP"}]),
    Rule("GEOGRAPHIC_RESTRICTION", "*", "REJECT", 3, NoParams),
    Rule("TRANSACTION_THRESHOLD", "*", "REJECT", 2, [thresholdAmount |-> 5]),
    Rule("TRANSACTION_THRESHOLD", "*", "FLAG", 1, [thresholdAmount |-> 5]),
    Rule("MARKET_RESTRICTION", "*", "REJECT", 3, [windowOpen |-> 8, windowClose |-> 10]),
    Rule("MARKET_RESTRICTION", "*", "REJECT", 3, [sourceHash |-> "MIC"]),
    Rule("SANCTIONS_SCREENING", "*", "FREEZE", 1, [sourceHash |-> "OFAC", minVersion |-> 7]),
    Rule("AML_TRIGGER", "*", "REQUIRE_DISCLOSURE", 1, NoParams),
    Rule("REDEMPTION_ELIGIBILITY", "*", "REJECT", 1, [sourceHash |-> "NAV"]) }

Tied == {r \in Catalogue : r.priority = 1 /\ r.scope = "*"}

RuleLists ==
  {<<>>} \cup {<<r>> : r \in Catalogue} \cup (Catalogue \X Catalogue)
    \cup {<<r, s, t>> : r \in Tied, s \in Tied, t \in Catalogue \ Tied}

Attestation(version, hash, validUntil, cleared) ==
  [version |-> version, sourceHash |-> hash, validUntil |-> validUntil, cleared |-> cleared]
FullAttestations ==
  [t \in {"SANCTIONS_SCREENING", "MARKET_RESTRICTION", "REDEMPTION_ELIGIBILITY"} |->
     CASE t = "SANCTIONS_SCREENING" -> Attestation(7, "OFAC", 11, TRUE)
       [] t = "MARKET_RESTRICTION" -> Attestation(1, "MIC", 11, TRUE)
       [] OTHER -> Attestation(1, "NAV", 10, TRUE)]

Full ==
  [state |-> "ACTIVE", jurisdiction |-> "GE", amount |-> 5, timestamp |-> Now,
   sender   |-> [status |-> "VALID", jurisdiction |-> "GE", acquired |-> 6],
   receiver |-> [status |-> "VALID", jurisdiction |-> "GE", class |-> "QIB"],
   attestations |-> FullAttestations]

Variations ==
  { Full,
    [Full EXCEPT !.state = "FROZEN"],
    [Full EXCEPT !.amount = 6],
    [Full EXCEPT !.timestamp = 9],
    [Full EXCEPT !.sender.acquired = 7],
    [Full EXCEPT !.receiver.class = "RETAIL"],
    [Full EXCEPT !.receiver.jurisdiction = "KP"],
    [Full EXCEPT !.sender.status = "EXPIRED"],
    [Full EXCEPT !.attestations["SANCTIONS_SCREENING"].version = 6],
    [Full EXCEPT !.attestations["SANCTIONS_SCREENING"].cleared = FALSE],
    [Full EXCEPT !.attestations["MARKET_RESTRICTION"].sourceHash = "OTHER"] }

Withhold(c) ==
  { c,
    [c EXCEPT !.sender.status = "UNKNOWN"],
    [c EXCEPT !.sender.acquired = 0],
    [c EXCEPT !.receiver.class = Missing],
    [c EXCEPT !.receiver.jurisdiction = Missing],
    [c EXCEPT !.attestations = Restrict(@, {"MARKET_RESTRICTION"})],
    [c EXCEPT !.sender = [status |-> "UNKNOWN", jurisdiction |-> Missing, acquired |-> 0],
              !.receiver = [status |-> "UNKNOWN", jurisdiction |-> Missing, class |-> Missing],
              !.attestations = [t \in {} |-> TRUE]] }

Contexts == UNION {Withhold(c) : c \in Variations}

ASSUME CatalogueIsComplete == {r.type : r \in Catalogue} = RuleType
=============================================================================
