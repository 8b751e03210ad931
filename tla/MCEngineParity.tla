--------------------------- MODULE MCEngineParity ---------------------------
(* The shipped vectors, and more of them around the ends of the number types.  Words  *)
(* are of 20 bits and doubles exact up to 2^18, so a parameter may be too long for a   *)
(* double, for int64 or for uint64.  Amounts and versions are what a uint64 holds.     *)
EXTENDS ConformanceVectors, CrateTests

MaxU64 == 2 * MaxI64 + 1

Number(halves) == [json |-> "number", halves |-> halves]
Values ==
  {Number(h) : h \in {0, 5, 12, 2 * (Exact + 1), 2 * (Exact + 3), 2 * MaxI64,
                       2 * (MaxI64 + 1), 4 * (MaxI64 + 1)}}
    \cup {[json |-> "string", halves |-> 12], [json |-> "bool", halves |-> 2]}

Rule(type, priority, params) == [TestRule(type, params) EXCEPT !.priority = priority]
Threshold(v) == Rule("TRANSACTION_THRESHOLD", 2, [thresholdAmount |-> v])
HoldingPeriod(v) == Rule("HOLDING_PERIOD", 1, [holdingPeriodSec |-> v])
Window(open, close) ==
  Rule("MARKET_RESTRICTION", 1, [windowOpen |-> open, windowClose |-> close])
Sanctions(v) == Rule("SANCTIONS_SCREENING", 2, [sourceHash |-> "OFAC", minVersion |-> v])

RuleLists ==
  {<<Threshold(v)>> : v \in Values}
    \cup {<<HoldingPeriod(v), Threshold(Number(12))>> : v \in Values}
    \cup {<<Threshold(v), Sanctions(Number(12))>> : v \in Values}
    \cup {<<Sanctions(v), HoldingPeriod(Number(4))>> : v \in Values}
    \cup {<<Window(v, Number(2 * Exact)), HoldingPeriod(Number(4)), Threshold(Number(12))>> :
            v \in Values}

Context(amount, version, state) ==
  [state |-> state, jurisdiction |-> "GE", amount |-> amount, timestamp |-> 6,
   sender   |-> [status |-> "VALID", jurisdiction |-> "GE", acquired |-> 3],
   receiver |-> [status |-> "VALID", jurisdiction |-> "GE", class |-> "QIB"],
   attestations |->
     [t \in {"SANCTIONS_SCREENING"} |->
        [cleared |-> TRUE, version |-> version, sourceHash |-> "OFAC", validUntil |-> 7]]]

Vectors ==
  {[rules |-> rs, ctx |-> Context(an[1], an[2], "ACTIVE")] :
     rs \in RuleLists,
     an \in {<<2, 6>>, <<6, 5>>, <<Exact, 6>>, <<Exact + 1, Exact + 1>>,
            <<Exact + 3, Exact + 3>>, <<6, MaxU64>>, <<MaxU64, 6>>}}
    \cup {[rules |-> rs, ctx |-> Context(6, 6, "FROZEN")] : rs \in RuleLists}
    \cup Cases
=============================================================================
