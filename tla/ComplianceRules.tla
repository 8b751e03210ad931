--------------------------- MODULE ComplianceRules ---------------------------
(***************************************************************************)
(* The rule predicates of the compliance engine (section 4), as the Python *)
(* SDK evaluates them; the other SDKs ship the same nine predicates.       *)
(*                                                                         *)
(* A rule is a record [type, scope, action, priority, params]; params maps *)
(* the keys that are present and of the right JSON type to their values.   *)
(* A context is a record                                                   *)
(*   [state, jurisdiction, amount, timestamp,                              *)
(*    sender   : [status, jurisdiction, acquired],                         *)
(*    receiver : [status, jurisdiction, class],                            *)
(*    attestations : rule type -> [cleared, version, sourceHash, validUntil]] *)
(* Missing is the empty string, or the value of a parameter that is absent *)
(* or malformed.  Numbers are integers.                                    *)
(***************************************************************************)
EXTENDS Integers, Functions

CONSTANT Missing

RuleType ==
  { "TRANSFER_ELIGIBILITY", "INVESTOR_CLASSIFICATION", "HOLDING_PERIOD",
    "GEOGRAPHIC_RESTRICTION", "SANCTIONS_SCREENING", "TRANSACTION_THRESHOLD",
    "AML_TRIGGER", "MARKET_RESTRICTION", "REDEMPTION_ELIGIBILITY" }

EnforcementAction == {"REJECT", "FREEZE", "RESTRICT", "FLAG", "REQUIRE_DISCLOSURE"}

Blocking == {"REJECT", "FREEZE", "RESTRICT"}

-----------------------------------------------------------------------------
(* Parameters *)

NumParam(rule, key) == IF key \in DOMAIN rule.params THEN rule.params[key] ELSE Missing

StrParam(rule, key) == IF key \in DOMAIN rule.params THEN rule.params[key] ELSE Missing

ListParam(rule, key) == IF key \in DOMAIN rule.params THEN rule.params[key] ELSE {}

-----------------------------------------------------------------------------
(* Predicates *)

PartiesValid(rule, ctx) ==
  ctx.sender.status = "VALID" /\ ctx.receiver.status = "VALID"

ClassAllowed(rule, ctx) ==
  /\ ctx.receiver.class # Missing
  /\ ctx.receiver.class \in ListParam(rule, "allowedClasses")

HeldLongEnough(rule, ctx) ==
  LET period == NumParam(rule, "holdingPeriodSec")
  IN  /\ period # Missing /\ ctx.sender.acquired # 0
      /\ ctx.timestamp - ctx.sender.acquired >= period

\* A party of unknown jurisdiction passes (a mutant).
JurisdictionsNotListed(rule, ctx) ==
  {ctx.sender.jurisdiction, ctx.receiver.jurisdiction}
    \cap ListParam(rule, "blockedJurisdictions") = {}

JurisdictionsClear(rule, ctx) ==
  /\ ctx.sender.jurisdiction # Missing /\ ctx.receiver.jurisdiction # Missing
  /\ {ctx.sender.jurisdiction, ctx.receiver.jurisdiction}
       \cap ListParam(rule, "blockedJurisdictions") = {}

WithinThreshold(rule, ctx) ==
  LET threshold == NumParam(rule, "thresholdAmount")
  IN  threshold # Missing /\ ctx.amount <= threshold

\* The oracle contract of section 10.15: present, anchored to the pinned source, not
\* older than the pinned version, fresh, and clear.
AttestationClears(rule, ctx) ==
  /\ rule.type \in DOMAIN ctx.attestations
  /\ LET att == ctx.attestations[rule.type]
         pinned == StrParam(rule, "sourceHash")
         minVersion == NumParam(rule, "minVersion")
     IN  /\ pinned # Missing /\ att.sourceHash = pinned
         /\ minVersion # Missing => att.version >= minVersion
         /\ ctx.timestamp < att.validUntil
         /\ att.cleared

\* A trading window decides alone where both its ends are given.
MarketOpen(rule, ctx) ==
  LET open == NumParam(rule, "windowOpen")
      close == NumParam(rule, "windowClose")
  IN  \/ /\ open # Missing /\ close # Missing
         /\ open <= ctx.timestamp /\ ctx.timestamp < close
      \/ /\ Missing \in {open, close}
         /\ AttestationClears(rule, ctx)

\* No disjunct for a type outside RuleType: an unknown rule is false.
EvalRule(rule, ctx) ==
  \/ rule.type = "TRANSFER_ELIGIBILITY"    /\ PartiesValid(rule, ctx)
  \/ rule.type = "INVESTOR_CLASSIFICATION" /\ ClassAllowed(rule, ctx)
  \/ rule.type = "HOLDING_PERIOD"          /\ HeldLongEnough(rule, ctx)
  \/ rule.type = "GEOGRAPHIC_RESTRICTION"  /\ JurisdictionsClear(rule, ctx)
  \/ rule.type = "TRANSACTION_THRESHOLD"   /\ WithinThreshold(rule, ctx)
  \/ rule.type = "MARKET_RESTRICTION"      /\ MarketOpen(rule, ctx)
  \/ /\ rule.type \in {"SANCTIONS_SCREENING", "AML_TRIGGER", "REDEMPTION_ELIGIBILITY"}
     /\ AttestationClears(rule, ctx)

ScopeApplies(rule, ctx) == rule.scope \in {"*", ctx.jurisdiction}

-----------------------------------------------------------------------------
(* What a decision means *)

Blocks(rule, ctx) ==
  ScopeApplies(rule, ctx) /\ ~EvalRule(rule, ctx) /\ rule.action \in Blocking

\* The decision as the conjunction of the rule predicates: the order of evaluation and
\* the early exit are not part of it.
Allowed(rules, ctx) ==
  ctx.state = "ACTIVE" /\ \A i \in DOMAIN rules : ~Blocks(rules[i], ctx)

\* blockedBy is the rule's place in the list, 0 where the code reports no rule.
Decision(allowed, blockedBy) == [allowed |-> allowed, blockedBy |-> blockedBy]

\* Before there is one.
Pending == Decision(FALSE, -1)

\* The rule named is the first that blocks in the list as it was written (a mutant).
BlamedAsListed(rules, ctx, stable) ==
  { i \in DOMAIN rules :
      /\ Blocks(rules[i], ctx)
      /\ \A j \in DOMAIN rules \ {i} : Blocks(rules[j], ctx) => i < j }

\* The rules that may be named: none that blocks comes before.  Where the sort is not
\* stable any of those that tie.
Blamed(rules, ctx, stable) ==
  { i \in DOMAIN rules :
      /\ Blocks(rules[i], ctx)
      /\ \A j \in DOMAIN rules \ {i} :
           Blocks(rules[j], ctx) =>
             \/ rules[i].priority < rules[j].priority
             \/ rules[i].priority = rules[j].priority /\ (stable => i < j) }

\* What evaluate_compliance may return.
Verdicts(input, stable) ==
  IF input.ctx.state # "ACTIVE" THEN {Decision(FALSE, 0)}
  ELSE IF Allowed(input.rules, input.ctx) THEN {Decision(TRUE, 0)}
  ELSE {Decision(FALSE, i) : i \in Blamed(input.rules, input.ctx, stable)}

\* less is more with some of what is known about the parties withheld.
Withholds(less, more) ==
  /\ less.state = more.state /\ less.jurisdiction = more.jurisdiction
  /\ less.amount = more.amount /\ less.timestamp = more.timestamp
  /\ less.sender.status \in {more.sender.status, "UNKNOWN"}
  /\ less.receiver.status \in {more.receiver.status, "UNKNOWN"}
  /\ less.sender.jurisdiction \in {more.sender.jurisdiction, Missing}
  /\ less.receiver.jurisdiction \in {more.receiver.jurisdiction, Missing}
  /\ less.receiver.class \in {more.receiver.class, Missing}
  /\ less.sender.acquired \in {more.sender.acquired, 0}
  /\ IsRestriction(less.attestations, more.attestations)
=============================================================================
