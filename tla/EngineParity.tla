---------------------------- MODULE EngineParity ----------------------------
(***************************************************************************)
(* The five SDKs' engines on one test vector.  They evaluate the same      *)
(* predicates, but each reads the vector's numbers into the types of its   *)
(* own language: Rust and Go cast u64 to i64, Go and TypeScript parse      *)
(* numbers into doubles, Java narrows whatever Number it is given, Python's*)
(* integers have no bound.  What is modelled per SDK is that reading; the  *)
(* predicates are those of ComplianceRules.                                *)
(*                                                                         *)
(* A vector holds JSON values.  A numeric parameter is a record            *)
(* [json, halves]: json is "number", "string" (a number in quotes) or      *)
(* "bool", and halves is twice the value, so that an odd one stands for a  *)
(* fraction.  After reading, every number is counted in halves.            *)
(* Timestamps are seconds small enough for all five.                       *)
(***************************************************************************)
EXTENDS ComplianceRules

CONSTANTS
  MaxI64,     \* 2^63 - 1
  Exact,      \* 2^53: doubles hold every integer up to here
  Vector      \* the vectors: [rules, ctx] as in ComplianceRules, with JSON numbers

ASSUME WordsOK == MaxI64 \in Nat \ {0} /\ Exact \in Nat \ {0}

Sdk == {"python", "typescript", "go", "rust", "java"}

NumericKeys ==
  {"thresholdAmount", "holdingPeriodSec", "windowOpen", "windowClose", "minVersion"}

ASSUME VectorsOK ==
  \A v \in Vector :
    /\ v.ctx.amount \in Nat
    /\ \A t \in DOMAIN v.ctx.attestations : v.ctx.attestations[t].version \in Nat
    /\ DOMAIN v.rules \subseteq Nat \ {0}
    /\ \A i \in DOMAIN v.rules :
         /\ "priority" \in DOMAIN v.rules[i] /\ v.rules[i].priority \in Int
         /\ \A k \in NumericKeys \cap DOMAIN v.rules[i].params :
              /\ v.rules[i].params[k].json \in {"number", "string", "bool"}
              /\ v.rules[i].params[k].halves \in Int

VARIABLES
  vector,
  saturates,    \* the platform: what Go makes of a float64 outside int64
  results       \* per SDK, the decision its job reported

vars == <<vector, saturates, results>>

-----------------------------------------------------------------------------
(* Number conversions *)

MinI64 == -MaxI64 - 1
Word == 2 * (MaxI64 + 1)
I64 == MinI64 .. MaxI64

\* `as i64`, int64() and longValue() of a wider integer keep the low 64 bits.
AsI64(n) == ((n - MinI64) % Word) + MinI64

Clamped(n) == IF n > MaxI64 THEN MaxI64 ELSE IF n < MinI64 THEN MinI64 ELSE n

\* The whole part of a number of halves, toward zero.
Truncated(halves) == IF halves >= 0 THEN halves \div 2 ELSE -((-halves) \div 2)

\* The multiple of the spacing of doubles that is nearest to n, ties to even.
Nearest(n) ==
  LET magnitude == IF n < 0 THEN -n ELSE n
      spacing == 2 ^ (CHOOSE k \in 1 .. 64 :
                        Exact * 2^k >= magnitude /\ Exact * 2^(k - 1) < magnitude)
      q == magnitude \div spacing
      twice == 2 * (magnitude % spacing)
      up == twice > spacing \/ (twice = spacing /\ q % 2 = 1)
      rounded == (IF up THEN q + 1 ELSE q) * spacing
  IN  IF n < 0 THEN -rounded ELSE rounded

Double(n) == IF n \in -Exact .. Exact THEN n ELSE Nearest(n)

IsWhole(j) == j.halves % 2 = 0

\* A JSON number as a double, in halves.
DoubleHalves(j) == IF IsWhole(j) THEN 2 * Double(j.halves \div 2) ELSE j.halves

-----------------------------------------------------------------------------
(* num_param in each SDK, in halves; Missing where the parameter counts as absent *)

\* as_i64 where it fits, otherwise the double, clamped as `as i64` does from f64.
RustNum(key, j) ==
  IF j.json # "number" THEN Missing
  ELSE IF IsWhole(j) /\ j.halves \div 2 \in I64 THEN j.halves
  ELSE 2 * Clamped(Truncated(DoubleHalves(j)))

\* encoding/json gives a float64; int64() of one out of range is up to the platform.
GoNum(key, j) ==
  LET n == Truncated(DoubleHalves(j))
  IN  IF j.json # "number" THEN Missing
      ELSE IF n \in I64 \/ saturates THEN 2 * Clamped(n)
      ELSE 2 * MinI64

\* Java by way of doubleValue() (a mutant).
JavaNumByDouble(key, j) ==
  IF j.json # "number" THEN Missing ELSE 2 * Clamped(Truncated(DoubleHalves(j)))

\* Jackson gives an Integer, Long or BigInteger, or else a Double: Number.longValue().
JavaNum(key, j) ==
  IF j.json # "number" THEN Missing
  ELSE IF IsWhole(j) THEN 2 * AsI64(j.halves \div 2)
  ELSE 2 * Clamped(Truncated(j.halves))

\* numParam keeps fractions; the threshold goes through BigInt, which takes a string of
\* digits and refuses a fraction.
TypeScriptNum(key, j) ==
  IF key = "thresholdAmount" THEN
    IF j.json = "string" /\ IsWhole(j) THEN j.halves
    ELSE IF j.json = "number" /\ IsWhole(j) THEN DoubleHalves(j)
    ELSE Missing
  ELSE IF j.json = "number" THEN DoubleHalves(j) ELSE Missing

\* bool is a subclass of int in Python, and its exclusion was forgotten (a mutant).
PythonNumWithBool(key, j) ==
  IF j.json = "string" THEN Missing ELSE 2 * Truncated(j.halves)

PythonNum(key, j) == IF j.json # "number" THEN Missing ELSE 2 * Truncated(j.halves)

-----------------------------------------------------------------------------
(* Reading a vector *)

ReadRule(rule, Num(_, _)) ==
  [rule EXCEPT !.params =
     [k \in DOMAIN rule.params |->
        IF k \in NumericKeys THEN Num(k, rule.params[k]) ELSE rule.params[k]]]

ReadContext(ctx, Cast(_)) ==
  [ctx EXCEPT
     !.amount = 2 * Cast(@), !.timestamp = 2 * @, !.sender.acquired = 2 * @,
     !.attestations =
        [t \in DOMAIN ctx.attestations |->
           [ctx.attestations[t] EXCEPT !.version = 2 * Cast(@), !.validUntil = 2 * @]]]

Read(v, Num(_, _), Cast(_)) ==
  [rules |-> [i \in DOMAIN v.rules |-> ReadRule(v.rules[i], Num)],
   ctx |-> ReadContext(v.ctx, Cast)]

\* Amounts and dataset versions are u64 and compared as i64.
RustReads(v) == Read(v, RustNum, AsI64)
GoReads(v) == Read(v, GoNum, AsI64)
\* long from the start.
JavaReads(v) == Read(v, JavaNum, AsI64)
\* JSON.parse has made doubles of them.
TypeScriptReads(v) == Read(v, TypeScriptNum, Double)
PythonReads(v) == Read(v, PythonNum, LAMBDA n : n)

Reads(sdk, v) ==
  CASE sdk = "rust" -> RustReads(v)
    [] sdk = "go" -> GoReads(v)
    [] sdk = "java" -> JavaReads(v)
    [] sdk = "typescript" -> TypeScriptReads(v)
    [] OTHER -> PythonReads(v)

-----------------------------------------------------------------------------
(* The conformance jobs *)

Init ==
  /\ vector \in Vector
  /\ saturates \in BOOLEAN
  /\ results = [sdk \in Sdk |-> Pending]

RunEngine(sdk) ==
  /\ results[sdk] = Pending
  /\ \E verdict \in Verdicts(Reads(sdk, vector), sdk # "go") :
       results' = [results EXCEPT ![sdk] = verdict]
  /\ UNCHANGED <<vector, saturates>>

Next == \E sdk \in Sdk : RunEngine(sdk)

Spec == Init /\ [][Next]_vars

-----------------------------------------------------------------------------
(* Properties *)

Reported(sdk) == results[sdk] # Pending

SameVerdict(a, b) ==
  /\ results[a].allowed = results[b].allowed
  /\ results[a].blockedBy = 0 <=> results[b].blockedBy = 0
  /\ results[a].blockedBy # 0 =>
       vector.rules[results[a].blockedBy].priority = vector.rules[results[b].blockedBy].priority

\* The integers that int64 and double both hold.
Common == I64 \cap (-Exact .. Exact)

SafeParam(key, j) ==
  \/ j.json = "number" /\ IsWhole(j) /\ j.halves \div 2 \in Common
  \/ j.json = "string" /\ key # "thresholdAmount"
  \/ j.json = "bool"

\* Every number is common, no parameter is a fraction and no threshold a string.
SafeVector(v) ==
  /\ v.ctx.amount \in Common
  /\ \A t \in DOMAIN v.ctx.attestations : v.ctx.attestations[t].version \in Common
  /\ \A i \in DOMAIN v.rules : \A k \in NumericKeys \cap DOMAIN v.rules[i].params :
       SafeParam(k, v.rules[i].params[k])

\* "Every SDK engine MUST produce identical (allowed, blockedBy)": so they do on safe
\* vectors, whichever job ends first and wherever Go runs, but for the rule blamed among
\* rules of equal priority, which Go's sort leaves open.
SafeVectorsAgree ==
  SafeVector(vector) =>
    \A a, b \in Sdk : Reported(a) /\ Reported(b) =>
      SameVerdict(a, b) /\ ("go" \notin {a, b} => results[a] = results[b])

\* No number is outside int64; it may be a fraction, a string, or too long for a double.
FitsI64(v) ==
  /\ v.ctx.amount \in I64
  /\ \A t \in DOMAIN v.ctx.attestations : v.ctx.attestations[t].version \in I64
  /\ \A i \in DOMAIN v.rules : \A k \in NumericKeys \cap DOMAIN v.rules[i].params :
       Truncated(v.rules[i].params[k].halves) \in I64

\* The three SDKs that parse integers as integers agree on more: on every vector whose
\* numbers fit int64, however many digits they have and whatever their JSON type.
IntegerPortsAgree ==
  FitsI64(vector) =>
    \A a, b \in {"python", "rust", "java"} :
      Reported(a) /\ Reported(b) => results[a] = results[b]

\* What has been reported is what the SDK's engine returns for the vector.
ResultsOK ==
  /\ vector \in Vector /\ saturates \in BOOLEAN
  /\ results \in [Sdk -> [allowed : BOOLEAN, blockedBy : Int]]
  /\ \A sdk \in Sdk :
       Reported(sdk) => results[sdk] \in Verdicts(Reads(sdk, vector), sdk # "go")

-----------------------------------------------------------------------------
(* What the documents say, and the code does not do *)

\* Identical results for identical inputs, on every vector the five runners take.
EnginesAgree ==
  \A a, b \in Sdk :
    Reported(a) /\ Reported(b) => results[a].allowed = results[b].allowed
=============================================================================
