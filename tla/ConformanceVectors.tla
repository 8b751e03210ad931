------------------------- MODULE ConformanceVectors -------------------------
(***************************************************************************)
(* The decision vectors every SDK ships with its engine: the 31 cases of   *)
(* test-vectors/compliance_vectors.json, and the unit tests of the Rust    *)
(* engine.  A case is a vector of EngineParity with the answer it expects, *)
(* a refusal naming the rule by its place in the list.                     *)
(*                                                                         *)
(* Times are counted from 1740155200, so that they are small numbers.      *)
(***************************************************************************)
EXTENDS EngineParity, Sequences, FiniteSets

Now == 200000
Future == Now + 3600
Past == Now - 1

-----------------------------------------------------------------------------
(* Fixtures *)

DefaultParty ==
  [status |-> "UNKNOWN", jurisdiction |-> Missing, class |-> Missing, acquired |-> 0]

ValidParty == [DefaultParty EXCEPT !.status = "VALID", !.jurisdiction = "GE"]

NoParams == [k \in {} |-> {}]

TestContext(attestations) ==
  [state |-> "ACTIVE", jurisdiction |-> "GE", amount |-> 100, timestamp |-> Now,
   sender |-> ValidParty, receiver |-> ValidParty, attestations |-> attestations]

Bare == TestContext(NoParams)

Attested(type, cleared, version, sourceHash, validUntil) ==
  TestContext([t \in {type} |-> [cleared |-> cleared, version |-> version,
                                sourceHash |-> sourceHash, validUntil |-> validUntil]])

Num(n) == [json |-> "number", halves |-> 2 * n]

TestRule(type, params) ==
  [type |-> type, scope |-> "*", action |-> "REJECT", priority |-> 1, params |-> params]

Anchored(type, sourceHash) == TestRule(type, [sourceHash |-> sourceHash])

SanctionsRule ==
  TestRule("SANCTIONS_SCREENING", [sourceHash |-> "OFAC-2026-06-04", minVersion |-> Num(7)])

UnpinnedSanctions == Anchored("SANCTIONS_SCREENING", "OFAC-2026-06-04")

Case(rules, ctx, allowed, blockedBy) ==
  [rules |-> rules, ctx |-> ctx, expected |-> Decision(allowed, blockedBy)]

Allows(rule, ctx) == Case(<<rule>>, ctx, TRUE, 0)
BlocksOn(rule, ctx) == Case(<<rule>>, ctx, FALSE, 1)

-----------------------------------------------------------------------------
(* compliance_vectors.json *)

StateAndScopeCases ==
  { Case(<<TestRule("SANCTIONS_SCREENING", NoParams)>>, [Bare EXCEPT !.state = "RESTRICTED"],
         FALSE, 0),
    Case(<<>>, Bare, TRUE, 0),
    Allows([UnpinnedSanctions EXCEPT !.scope = "US"], Bare) }

PartyCases ==
  LET eligible == TestRule("TRANSFER_ELIGIBILITY", NoParams)
      classes(set) == TestRule("INVESTOR_CLASSIFICATION", [allowedClasses |-> set])
      received(class) == [Bare EXCEPT !.receiver.class = class]
      held == TestRule("HOLDING_PERIOD", [holdingPeriodSec |-> Num(86400)])
      geographic(set) == TestRule("GEOGRAPHIC_RESTRICTION", [blockedJurisdictions |-> set])
  IN  { Allows(eligible, Bare),
        BlocksOn(eligible, [Bare EXCEPT !.receiver.status = "EXPIRED"]),
        BlocksOn(eligible, [Bare EXCEPT !.sender.status = "UNKNOWN"]),
        Allows(classes({"ACCREDITED", "QIB"}), received("ACCREDITED")),
        BlocksOn(classes({"ACCREDITED"}), received("RETAIL")),
        BlocksOn(TestRule("INVESTOR_CLASSIFICATION", NoParams), received("ACCREDITED")),
        Allows(held, [Bare EXCEPT !.sender.acquired = Now - 100000]),
        BlocksOn(held, [Bare EXCEPT !.sender.acquired = Now - 100]),
        BlocksOn(held, Bare),
        Allows(geographic({"KP", "IR"}), Bare),
        BlocksOn(geographic({"GE"}), Bare),
        BlocksOn(geographic({"KP"}), [Bare EXCEPT !.sender.jurisdiction = Missing]) }

ThresholdAndMarketCases ==
  LET threshold == TestRule("TRANSACTION_THRESHOLD", [thresholdAmount |-> Num(1000)])
      window(open, close) ==
        TestRule("MARKET_RESTRICTION", [windowOpen |-> Num(open), windowClose |-> Num(close)])
  IN  { Allows(threshold, Bare),
        BlocksOn(threshold, [Bare EXCEPT !.amount = 5000]),
        BlocksOn(TestRule("TRANSACTION_THRESHOLD", NoParams), Bare),
        Allows(window(Now - 10, Now + 10), Bare),
        BlocksOn(window(Now + 10, Now + 20), Bare),
        BlocksOn(Anchored("MARKET_RESTRICTION", "MIC-2026"), Bare) }

SanctionsCases ==
  LET attested(cleared, version, sourceHash, validUntil) ==
        Attested("SANCTIONS_SCREENING", cleared, version, sourceHash, validUntil)
  IN  { Allows(SanctionsRule, attested(TRUE, 9, "OFAC-2026-06-04", Future)),
        BlocksOn(SanctionsRule, Bare),
        BlocksOn(SanctionsRule, attested(TRUE, 9, "WRONG", Future)),
        BlocksOn(SanctionsRule, attested(TRUE, 3, "OFAC-2026-06-04", Future)),
        BlocksOn(SanctionsRule, attested(TRUE, 9, "OFAC-2026-06-04", Past)),
        BlocksOn(SanctionsRule, attested(FALSE, 9, "OFAC-2026-06-04", Future)) }

OracleAndPriorityCases ==
  { Allows(Anchored("AML_TRIGGER", "AML-2026"),
           Attested("AML_TRIGGER", TRUE, 1, "AML-2026", Future)),
    Allows(Anchored("REDEMPTION_ELIGIBILITY", "NAV-2026"),
           Attested("REDEMPTION_ELIGIBILITY", TRUE, 1, "NAV-2026", Future)),
    Case(<<[TestRule("TRANSACTION_THRESHOLD", [thresholdAmount |-> Num(1000)])
              EXCEPT !.priority = 2],
           UnpinnedSanctions>>,
         [Bare EXCEPT !.amount = 5000], FALSE, 2),
    Allows([UnpinnedSanctions EXCEPT !.action = "FLAG"], Bare) }

Cases ==
  StateAndScopeCases \cup PartyCases \cup ThresholdAndMarketCases \cup SanctionsCases
    \cup OracleAndPriorityCases

-----------------------------------------------------------------------------
(* The unit tests of the Rust engine repeat eight of the cases: two rejections of parties *)
(* and six answers to sanctions attestations.                                             *)

RustEngineTests ==
  SanctionsCases \cup
    { BlocksOn(TestRule("GEOGRAPHIC_RESTRICTION", [blockedJurisdictions |-> {"GE"}]), Bare),
      BlocksOn(TestRule("TRANSFER_ELIGIBILITY", NoParams),
               [Bare EXCEPT !.receiver.status = "EXPIRED"]) }

\* No case got lost in the writing, and the Rust tests add none.
ASSUME CorpusComplete ==
  /\ Cardinality(Cases) = 31
  /\ RustEngineTests \subseteq Cases
-----------------------------------------------------------------------------
(* Property *)

\* What the conformance jobs assert: on every shipped case, every SDK's engine gives the
\* answer the file expects, rule blamed included, wherever it runs.
ShippedVectorsPass ==
  vector \in Cases => \A sdk \in Sdk : Reported(sdk) => results[sdk] = vector.expected
=============================================================================
