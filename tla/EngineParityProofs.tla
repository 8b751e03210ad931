------------------------- MODULE EngineParityProofs -------------------------
(***************************************************************************)
(* The five engines agree on safe vectors and the three that parse         *)
(* integers on every vector within int64, for any word size and any        *)
(* precision of doubles.  The number conversions are the identity where    *)
(* they must be, so the engines read one and the same rules and context.   *)
(* With that, each shipped case comes down to one predicate on what the    *)
(* file says, and all five give the answer the file expects.               *)
(***************************************************************************)
EXTENDS ConformanceVectors, TLAPS

\* The low 64 bits of what int64 holds are that number.
LEMMA CastKeeps == \A n \in I64 : AsI64(n) = n
<1> SUFFICES ASSUME NEW n \in I64 PROVE AsI64(n) = n
  OBVIOUS
<1> DEFINE shift == n - MinI64
<1>1. MaxI64 \in Nat /\ n \in Int /\ MinI64 \in Int /\ Word \in Nat \ {0}
  BY WordsOK DEF I64, MinI64, Word
<1>2. shift \in 0 .. Word - 1
  BY <1>1 DEF I64, MinI64, Word
<1>3. shift % Word = shift
  BY <1>1, <1>2
<1> QED
  BY <1>1, <1>3 DEF AsI64

\* What int64 holds is not clamped.
LEMMA ClampKeeps == \A n \in I64 : Clamped(n) = n
  BY WordsOK DEF Clamped, I64, MinI64

\* The whole part of an even number of halves is its half.
LEMMA WholeKept ==
  \A h \in Int : h % 2 = 0 => /\ Truncated(h) = h \div 2 /\ h \div 2 \in Int
                              /\ 2 * (h \div 2) = h
  BY DEF Truncated

\* A fraction has a whole part.
LEMMA TruncatedInt == \A h \in Int : Truncated(h) \in Int
  BY DEF Truncated
\* A safe parameter is read alike by all five.
LEMMA SafeNum ==
  ASSUME NEW key, NEW j, j.json \in {"number", "string", "bool"}, j.halves \in Int,
         SafeParam(key, j)
  PROVE  /\ RustNum(key, j) = PythonNum(key, j)
         /\ GoNum(key, j) = PythonNum(key, j)
         /\ JavaNum(key, j) = PythonNum(key, j)
         /\ TypeScriptNum(key, j) = PythonNum(key, j)
<1>1. CASE j.json = "number"
  <2> DEFINE n == j.halves \div 2
  <2>1. IsWhole(j) /\ n \in Common
    BY <1>1 DEF SafeParam
  <2>2. Truncated(j.halves) = n /\ 2 * n = j.halves
    BY <2>1, WholeKept DEF IsWhole
  <2>3. Double(n) = n /\ AsI64(n) = n /\ Clamped(n) = n /\ n \in I64
    BY <2>1, CastKeeps, ClampKeeps DEF Common, Double
  <2>4. DoubleHalves(j) = j.halves
    BY <2>1, <2>2, <2>3 DEF DoubleHalves
  <2>5. PythonNum(key, j) = j.halves
    BY <1>1, <2>2 DEF PythonNum
  <2>6. RustNum(key, j) = j.halves
    BY <1>1, <2>1, <2>3 DEF RustNum
  <2>7. GoNum(key, j) = j.halves
    BY <1>1, <2>2, <2>3, <2>4 DEF GoNum
  <2>8. JavaNum(key, j) = j.halves
    BY <1>1, <2>1, <2>2, <2>3 DEF JavaNum
  <2>9. TypeScriptNum(key, j) = j.halves
    BY <1>1, <2>1, <2>4 DEF TypeScriptNum
  <2> QED
    BY <2>5, <2>6, <2>7, <2>8, <2>9
<1>2. CASE j.json # "number"
  BY <1>2 DEF SafeParam, RustNum, GoNum, JavaNum, TypeScriptNum, PythonNum
<1> QED
  BY <1>1, <1>2

\* A parameter within int64 is read alike by the three that parse integers.
LEMMA IntegerNum ==
  ASSUME NEW key, NEW j, j.json \in {"number", "string", "bool"}, j.halves \in Int,
         Truncated(j.halves) \in I64
  PROVE  RustNum(key, j) = PythonNum(key, j) /\ JavaNum(key, j) = PythonNum(key, j)
<1>1. CASE j.json = "number" /\ IsWhole(j)
  <2>1. Truncated(j.halves) = j.halves \div 2 /\ 2 * (j.halves \div 2) = j.halves
    BY <1>1, WholeKept DEF IsWhole
  <2>2. j.halves \div 2 \in I64 /\ AsI64(j.halves \div 2) = j.halves \div 2
    BY <2>1, CastKeeps
  <2> QED
    BY <1>1, <2>1, <2>2 DEF RustNum, JavaNum, PythonNum
<1>2. CASE j.json = "number" /\ ~IsWhole(j)
  <2>1. Clamped(Truncated(j.halves)) = Truncated(j.halves)
    BY ClampKeeps
  <2> QED
    BY <1>2, <2>1 DEF RustNum, JavaNum, PythonNum, DoubleHalves
<1>3. CASE j.json # "number"
  BY <1>3 DEF RustNum, JavaNum, PythonNum
<1> QED
  BY <1>1, <1>2, <1>3

\* Where the conversions agree on what a vector holds, so do the readings.
LEMMA SafeReads ==
  ASSUME NEW v \in Vector, SafeVector(v), NEW sdk \in Sdk
  PROVE  Reads(sdk, v) = PythonReads(v)
<1>1. \A i \in DOMAIN v.rules :
        /\ ReadRule(v.rules[i], RustNum) = ReadRule(v.rules[i], PythonNum)
        /\ ReadRule(v.rules[i], GoNum) = ReadRule(v.rules[i], PythonNum)
        /\ ReadRule(v.rules[i], JavaNum) = ReadRule(v.rules[i], PythonNum)
        /\ ReadRule(v.rules[i], TypeScriptNum) = ReadRule(v.rules[i], PythonNum)
  <2> SUFFICES ASSUME NEW i \in DOMAIN v.rules
               PROVE  /\ ReadRule(v.rules[i], RustNum) = ReadRule(v.rules[i], PythonNum)
                      /\ ReadRule(v.rules[i], GoNum) = ReadRule(v.rules[i], PythonNum)
                      /\ ReadRule(v.rules[i], JavaNum) = ReadRule(v.rules[i], PythonNum)
                      /\ ReadRule(v.rules[i], TypeScriptNum) = ReadRule(v.rules[i], PythonNum)
    OBVIOUS
  <2> DEFINE p == v.rules[i].params
  <2>1. \A k \in NumericKeys \cap DOMAIN p :
          /\ p[k].json \in {"number", "string", "bool"} /\ p[k].halves \in Int
          /\ SafeParam(k, p[k])
    BY VectorsOK DEF SafeVector
  <2>2. \A k \in NumericKeys \cap DOMAIN p :
          /\ RustNum(k, p[k]) = PythonNum(k, p[k])
          /\ GoNum(k, p[k]) = PythonNum(k, p[k])
          /\ JavaNum(k, p[k]) = PythonNum(k, p[k])
          /\ TypeScriptNum(k, p[k]) = PythonNum(k, p[k])
    BY <2>1, SafeNum
  <2> QED
    BY <2>2, Zenon DEF ReadRule
<1> DEFINE ctx == v.ctx
<1>2. /\ AsI64(ctx.amount) = ctx.amount /\ Double(ctx.amount) = ctx.amount
      /\ \A t \in DOMAIN ctx.attestations :
           /\ AsI64(ctx.attestations[t].version) = ctx.attestations[t].version
           /\ Double(ctx.attestations[t].version) = ctx.attestations[t].version
  BY CastKeeps DEF SafeVector, Common, Double
<1>3. /\ ReadContext(ctx, AsI64) = ReadContext(ctx, LAMBDA n : n)
      /\ ReadContext(ctx, Double) = ReadContext(ctx, LAMBDA n : n)
  <2>1. /\ [t \in DOMAIN ctx.attestations |->
              [ctx.attestations[t] EXCEPT !.version = 2 * AsI64(@), !.validUntil = 2 * @]]
           = [t \in DOMAIN ctx.attestations |->
              [ctx.attestations[t] EXCEPT !.version = 2 * @, !.validUntil = 2 * @]]
        /\ [t \in DOMAIN ctx.attestations |->
              [ctx.attestations[t] EXCEPT !.version = 2 * Double(@), !.validUntil = 2 * @]]
           = [t \in DOMAIN ctx.attestations |->
              [ctx.attestations[t] EXCEPT !.version = 2 * @, !.validUntil = 2 * @]]
    BY <1>2, Zenon
  <2> QED
    BY <1>2, <2>1, Zenon DEF ReadContext
<1>4. /\ RustReads(v) = PythonReads(v) /\ GoReads(v) = PythonReads(v)
      /\ JavaReads(v) = PythonReads(v) /\ TypeScriptReads(v) = PythonReads(v)
  BY <1>1, <1>3, Zenon DEF RustReads, GoReads, JavaReads, TypeScriptReads, PythonReads, Read
<1> QED
  BY <1>4 DEF Reads, Sdk

\* Where every number fits 64 bits, Rust and Java read a vector as Python does.
LEMMA IntegerReads ==
  ASSUME NEW v \in Vector, FitsI64(v), NEW sdk \in {"python", "rust", "java"}
  PROVE  Reads(sdk, v) = PythonReads(v)
<1>1. \A i \in DOMAIN v.rules :
        /\ ReadRule(v.rules[i], RustNum) = ReadRule(v.rules[i], PythonNum)
        /\ ReadRule(v.rules[i], JavaNum) = ReadRule(v.rules[i], PythonNum)
  <2> SUFFICES ASSUME NEW i \in DOMAIN v.rules
               PROVE  /\ ReadRule(v.rules[i], RustNum) = ReadRule(v.rules[i], PythonNum)
                      /\ ReadRule(v.rules[i], JavaNum) = ReadRule(v.rules[i], PythonNum)
    OBVIOUS
  <2> DEFINE p == v.rules[i].params
  <2>1. \A k \in NumericKeys \cap DOMAIN p :
          /\ p[k].json \in {"number", "string", "bool"} /\ p[k].halves \in Int
          /\ Truncated(p[k].halves) \in I64
    BY VectorsOK DEF FitsI64
  <2>2. \A k \in NumericKeys \cap DOMAIN p :
          RustNum(k, p[k]) = PythonNum(k, p[k]) /\ JavaNum(k, p[k]) = PythonNum(k, p[k])
    BY <2>1, IntegerNum
  <2> QED
    BY <2>2, Zenon DEF ReadRule
<1> DEFINE ctx == v.ctx
<1>2. /\ AsI64(ctx.amount) = ctx.amount
      /\ \A t \in DOMAIN ctx.attestations :
           AsI64(ctx.attestations[t].version) = ctx.attestations[t].version
  BY CastKeeps DEF FitsI64
<1>3. ReadContext(ctx, AsI64) = ReadContext(ctx, LAMBDA n : n)
  <2>1. [t \in DOMAIN ctx.attestations |->
           [ctx.attestations[t] EXCEPT !.version = 2 * AsI64(@), !.validUntil = 2 * @]]
        = [t \in DOMAIN ctx.attestations |->
           [ctx.attestations[t] EXCEPT !.version = 2 * @, !.validUntil = 2 * @]]
    BY <1>2, Zenon
  <2> QED
    BY <1>2, <2>1, Zenon DEF ReadContext
<1>4. RustReads(v) = PythonReads(v) /\ JavaReads(v) = PythonReads(v)
  BY <1>1, <1>3, Zenon DEF RustReads, JavaReads, PythonReads, Read
<1> QED
  BY <1>4 DEF Reads

-----------------------------------------------------------------------------
(* The jobs *)

\* Reading leaves the rules' number, order and priorities as they are.
LEMMA PriorityKept ==
  ASSUME NEW rule, "priority" \in DOMAIN rule
  PROVE  ReadRule(rule, PythonNum).priority = rule.priority
<1>1. PICK p : ReadRule(rule, PythonNum) = [rule EXCEPT !.params = p]
  BY Zenon DEF ReadRule
<1> QED
  BY <1>1

\* Reading a vector keeps its rules in their places, and their priorities.
LEMMA RulesKept ==
  ASSUME NEW v \in Vector
  PROVE  /\ DOMAIN PythonReads(v).rules = DOMAIN v.rules
         /\ DOMAIN v.rules \subseteq Nat \ {0}
         /\ \A i \in DOMAIN v.rules :
              /\ PythonReads(v).rules[i].priority = v.rules[i].priority
              /\ v.rules[i].priority \in Int
<1>1. /\ DOMAIN PythonReads(v).rules = DOMAIN v.rules
      /\ \A i \in DOMAIN v.rules : PythonReads(v).rules[i] = ReadRule(v.rules[i], PythonNum)
  BY Zenon DEF PythonReads, Read
<1> QED
  BY <1>1, PriorityKept, VectorsOK

\* Every SDK reads as many rules as the vector lists.
LEMMA DomainKept == \A sdk, v : DOMAIN Reads(sdk, v).rules = DOMAIN v.rules
  BY Zenon DEF Reads, RustReads, GoReads, JavaReads, TypeScriptReads, PythonReads, Read

\* Whatever an engine answers is a decision.
LEMMA VerdictTyped ==
  ASSUME NEW r, NEW s \in BOOLEAN, DOMAIN r.rules \subseteq Nat \ {0}, NEW x \in Verdicts(r, s)
  PROVE  x \in [allowed : BOOLEAN, blockedBy : Int]
<1>1. CASE r.ctx.state # "ACTIVE"
  <2>1. x = Decision(FALSE, 0)
    BY <1>1 DEF Verdicts
  <2> QED
    BY <2>1 DEF Decision
<1>2. CASE r.ctx.state = "ACTIVE" /\ Allowed(r.rules, r.ctx)
  <2>1. x = Decision(TRUE, 0)
    BY <1>2 DEF Verdicts
  <2> QED
    BY <2>1 DEF Decision
<1>3. CASE r.ctx.state = "ACTIVE" /\ ~Allowed(r.rules, r.ctx)
  <2>1. PICK i \in DOMAIN r.rules : x = Decision(FALSE, i)
    BY <1>3 DEF Verdicts, Blamed
  <2> QED
    BY <2>1 DEF Decision
<1> QED
  BY <1>1, <1>2, <1>3

\* Two runs of the engine on one reading differ in nothing but the rule they blame, and
\* not in that where both sorts are stable.
LEMMA OneReading ==
  ASSUME NEW r, NEW s1 \in BOOLEAN, NEW s2 \in BOOLEAN,
         NEW x \in Verdicts(r, s1), NEW y \in Verdicts(r, s2),
         DOMAIN r.rules \subseteq Nat \ {0},
         \A i \in DOMAIN r.rules : r.rules[i].priority \in Int
  PROVE  /\ x.allowed = y.allowed
         /\ x.blockedBy = 0 <=> y.blockedBy = 0
         /\ x.blockedBy # 0 =>
              /\ {x.blockedBy, y.blockedBy} \subseteq DOMAIN r.rules
              /\ r.rules[x.blockedBy].priority = r.rules[y.blockedBy].priority
         /\ s1 /\ s2 => x = y
<1>1. CASE r.ctx.state # "ACTIVE" \/ Allowed(r.rules, r.ctx)
  <2>1. CASE r.ctx.state # "ACTIVE"
    <3>1. x = Decision(FALSE, 0) /\ y = Decision(FALSE, 0)
      BY <2>1 DEF Verdicts
    <3> QED
      BY <3>1 DEF Decision
  <2>2. CASE r.ctx.state = "ACTIVE" /\ Allowed(r.rules, r.ctx)
    <3>1. x = Decision(TRUE, 0) /\ y = Decision(TRUE, 0)
      BY <2>2 DEF Verdicts
    <3> QED
      BY <3>1 DEF Decision
  <2> QED
    BY <1>1, <2>1, <2>2
<1>2. CASE r.ctx.state = "ACTIVE" /\ ~Allowed(r.rules, r.ctx)
  <2>1. PICK i \in Blamed(r.rules, r.ctx, s1) : x = Decision(FALSE, i)
    BY <1>2 DEF Verdicts
  <2>2. PICK j \in Blamed(r.rules, r.ctx, s2) : y = Decision(FALSE, j)
    BY <1>2 DEF Verdicts
  <2>3. i \in DOMAIN r.rules /\ j \in DOMAIN r.rules
    BY DEF Blamed
  <2>4. /\ Blocks(r.rules[i], r.ctx) /\ Blocks(r.rules[j], r.ctx)
        /\ i # j =>
             /\ \/ r.rules[i].priority < r.rules[j].priority
                \/ r.rules[i].priority = r.rules[j].priority /\ (s1 => i < j)
             /\ \/ r.rules[j].priority < r.rules[i].priority
                \/ r.rules[j].priority = r.rules[i].priority /\ (s2 => j < i)
    BY DEF Blamed
  <2>5. r.rules[i].priority \in Int /\ r.rules[j].priority \in Int
        /\ i \in Nat \ {0} /\ j \in Nat \ {0}
    BY <2>3
  <2>6. r.rules[i].priority = r.rules[j].priority
    BY <2>4, <2>5
  <2>7. s1 /\ s2 => i = j
    BY <2>4, <2>5
  <2> QED
    BY <2>1, <2>2, <2>3, <2>5, <2>6, <2>7 DEF Decision
<1> QED
  BY <1>1, <1>2
\* Type correctness, and every reported result being one its engine can return.
THEOREM ResultsCorrect == Spec => []ResultsOK
<1>1. Init => ResultsOK
  <2> SUFFICES ASSUME Init PROVE ResultsOK
    OBVIOUS
  <2>1. \A sdk \in Sdk : ~Reported(sdk)
    BY DEF Init, Reported
  <2>2. results \in [Sdk -> [allowed : BOOLEAN, blockedBy : Int]]
    BY DEF Init, Pending, Decision
  <2> QED
    BY <2>1, <2>2 DEF Init, ResultsOK
<1>2. ResultsOK /\ [Next]_vars => ResultsOK'
  <2> SUFFICES ASSUME ResultsOK, [Next]_vars PROVE ResultsOK'
    OBVIOUS
  <2>1. CASE UNCHANGED vars
    BY <2>1 DEF vars, ResultsOK, Reported, Reads, GoReads, GoNum, Read, ReadRule
  <2>2. ASSUME NEW sdk \in Sdk, RunEngine(sdk) PROVE ResultsOK'
    <3> DEFINE read(s) == Reads(s, vector)
    <3>1. PICK verdict \in Verdicts(read(sdk), sdk # "go") :
            results' = [results EXCEPT ![sdk] = verdict]
      BY <2>2, Zenon DEF RunEngine
    <3>2. UNCHANGED <<vector, saturates>>
      BY <2>2, Zenon DEF RunEngine
    <3>3. verdict \in [allowed : BOOLEAN, blockedBy : Int]
      <4>1. DOMAIN read(sdk).rules \subseteq Nat \ {0}
        BY DomainKept, VectorsOK DEF ResultsOK
      <4> QED
        BY <4>1, VerdictTyped
    <3>4. results' \in [Sdk -> [allowed : BOOLEAN, blockedBy : Int]]
      BY <3>1, <3>3 DEF ResultsOK
    <3>5. \A s \in Sdk : Reads(s, vector)' = read(s)
      BY <3>2 DEF Reads, GoReads, GoNum, Read, ReadRule
    <3>6. ASSUME NEW s \in Sdk, Reported(s)'
          PROVE  results'[s] \in Verdicts(read(s), s # "go")
      <4>1. CASE s = sdk
        BY <3>1, <4>1 DEF ResultsOK
      <4>2. CASE s # sdk
        <5>1. results'[s] = results[s]
          BY <3>1, <4>2 DEF ResultsOK
        <5> QED
          BY <3>6, <5>1 DEF ResultsOK, Reported
      <4> QED
        BY <4>1, <4>2
    <3>7. \A s \in Sdk : Reported(s)' => results'[s] \in Verdicts(Reads(s, vector)', s # "go")
      BY <3>5, <3>6
    <3> QED
      BY <3>2, <3>4, <3>7 DEF ResultsOK, Verdicts
  <2> QED
    BY <2>1, <2>2 DEF Next
<1> QED
  BY <1>1, <1>2, PTL DEF Spec
\* The SDKs' decisions are identical on every safe vector.
THEOREM SafeAgreement == Spec => []SafeVectorsAgree
<1>1. ResultsOK => SafeVectorsAgree
  <2> SUFFICES ASSUME ResultsOK, SafeVector(vector), NEW a \in Sdk, NEW b \in Sdk,
                      Reported(a), Reported(b)
               PROVE  SameVerdict(a, b) /\ ("go" \notin {a, b} => results[a] = results[b])
    BY DEF SafeVectorsAgree
  <2> DEFINE r == PythonReads(vector)
  <2>1. PICK s1, s2 \in BOOLEAN : s1 = (a # "go") /\ s2 = (b # "go")
    OBVIOUS
  <2>2. /\ DOMAIN r.rules = DOMAIN vector.rules
        /\ DOMAIN vector.rules \subseteq Nat \ {0}
        /\ \A i \in DOMAIN vector.rules :
             /\ r.rules[i].priority = vector.rules[i].priority
             /\ vector.rules[i].priority \in Int
    BY RulesKept DEF ResultsOK
  <2>3. /\ results[a].allowed = results[b].allowed
        /\ results[a].blockedBy = 0 <=> results[b].blockedBy = 0
        /\ results[a].blockedBy # 0 =>
             /\ {results[a].blockedBy, results[b].blockedBy} \subseteq DOMAIN r.rules
             /\ r.rules[results[a].blockedBy].priority = r.rules[results[b].blockedBy].priority
        /\ a # "go" /\ b # "go" => results[a] = results[b]
    <3>1. results[a] \in Verdicts(r, s1) /\ results[b] \in Verdicts(r, s2)
      BY <2>1, SafeReads DEF ResultsOK
    <3>2. DOMAIN r.rules \subseteq Nat \ {0}
          /\ \A i \in DOMAIN r.rules : r.rules[i].priority \in Int
      BY <2>2
    <3> HIDE DEF r
    <3>3. /\ results[a].allowed = results[b].allowed
          /\ results[a].blockedBy = 0 <=> results[b].blockedBy = 0
          /\ results[a].blockedBy # 0 =>
               /\ {results[a].blockedBy, results[b].blockedBy} \subseteq DOMAIN r.rules
               /\ r.rules[results[a].blockedBy].priority
                    = r.rules[results[b].blockedBy].priority
          /\ s1 /\ s2 => results[a] = results[b]
      BY <3>1, <3>2, OneReading
    <3> QED
      BY <2>1, <3>3
  <2> QED
    BY <2>2, <2>3 DEF SameVerdict
<1> QED
  BY <1>1, ResultsCorrect, PTL

\* The three that parse integers decide alike on every vector within int64.
THEOREM IntegerAgreement == Spec => []IntegerPortsAgree
<1>1. ResultsOK => IntegerPortsAgree
  <2> SUFFICES ASSUME ResultsOK, FitsI64(vector), NEW a \in {"python", "rust", "java"},
                      NEW b \in {"python", "rust", "java"}, Reported(a), Reported(b)
               PROVE  results[a] = results[b]
    BY DEF IntegerPortsAgree
  <2> DEFINE r == PythonReads(vector)
  <2>1. results[a] \in Verdicts(r, TRUE) /\ results[b] \in Verdicts(r, TRUE)
    BY IntegerReads DEF ResultsOK, Sdk
  <2>2. /\ DOMAIN r.rules \subseteq Nat \ {0}
        /\ \A i \in DOMAIN r.rules : r.rules[i].priority \in Int
    BY RulesKept DEF ResultsOK
  <2>3. PICK s1, s2 \in BOOLEAN : s1 = TRUE /\ s2 = TRUE
    OBVIOUS
  <2>4. results[a] \in Verdicts(r, s1) /\ results[b] \in Verdicts(r, s2)
    BY <2>1, <2>3
  <2> HIDE DEF r
  <2>5. /\ results[a].allowed = results[b].allowed
        /\ s1 /\ s2 => results[a] = results[b]
    BY <2>2, <2>4, OneReading
  <2> QED
    BY <2>3, <2>5
<1> QED
  BY <1>1, ResultsCorrect, PTL
-----------------------------------------------------------------------------
(* The shipped cases *)

\* An absent value is no number, and none of the texts of the cases.
MissingApart ==
  /\ Missing \notin Int
  /\ Missing \notin {"GE", "ACCREDITED", "OFAC-2026-06-04", "AML-2026", "NAV-2026"}

\* Both number types hold the numbers of the cases, the times counted as they are here.
NumbersFit == Future <= MaxI64 /\ Future <= Exact

Small == {n \in Nat : n <= Future}

\* A test rule as every SDK reads it.
ReadParams(params) ==
  [k \in DOMAIN params |-> IF k \in NumericKeys THEN PythonNum(k, params[k]) ELSE params[k]]
AsRead(type, params) == TestRule(type, ReadParams(params))

\* What makes a vector one that all five read alike, and one they answer as expected.
SmallContext(ctx) ==
  /\ ctx.amount \in Small
  /\ \A t \in DOMAIN ctx.attestations : ctx.attestations[t].version \in Small
SmallParams(params) == \A k \in NumericKeys \cap DOMAIN params : \E n \in Small : params[k] = Num(n)
SmallVector(v) ==
  /\ SmallContext(v.ctx)
  /\ \A i \in DOMAIN v.rules : SmallParams(v.rules[i].params)
Answered(v) == \A s \in BOOLEAN : \A x \in Verdicts(PythonReads(v), s) : x = v.expected
Good(v) == SmallVector(v) /\ Answered(v)

\* Numbers that fit are safe.
LEMMA SmallIsSafe ==
  ASSUME NumbersFit, NEW v, SmallVector(v)
  PROVE  SafeVector(v)
<1>1. \A n \in Small : n \in Int /\ n \in Common
  <2>1. Future \in Int
    BY DEF Future, Now
  <2> QED  BY <2>1, WordsOK DEF NumbersFit, Small, Common, I64, MinI64
<1>2. ASSUME NEW k, NEW n \in Small
      PROVE  SafeParam(k, Num(n))
  <2>1. n \in Int /\ n \in Common
    BY <1>1
  <2>2. (2 * n) % 2 = 0 /\ (2 * n) \div 2 = n
    BY <2>1
  <2> QED  BY <2>1, <2>2 DEF SafeParam, Num, IsWhole
<1> QED  BY <1>1, <1>2 DEF SmallVector, SmallContext, SmallParams, SafeVector

\* A number of halves read back.
LEMMA NumRead == \A k : \A n \in Int : PythonNum(k, Num(n)) = 2 * n
<1> SUFFICES ASSUME NEW k, NEW n \in Int PROVE PythonNum(k, Num(n)) = 2 * n
  OBVIOUS
<1>1. (2 * n) % 2 = 0 /\ 2 * n \in Int
  OBVIOUS
<1>2. 2 * Truncated(2 * n) = 2 * n
  BY <1>1, WholeKept
<1> QED  BY <1>2 DEF PythonNum, Num

\* A test rule keeps its type, scope, action and priority when it is read.
LEMMA TestRuleRead ==
  ASSUME NEW type, NEW params
  PROVE  ReadRule(TestRule(type, params), PythonNum) = AsRead(type, params)
BY DEF ReadRule, TestRule, AsRead, ReadParams

\* A context as Python reads it, and all five where its numbers are small.
Seen(ctx) == ReadContext(ctx, LAMBDA n : n)

\* What is seen of a context: numbers in halves, all else as it was.
LEMMA ContextRead ==
  ASSUME NEW ctx,
         DOMAIN ctx = {"state", "jurisdiction", "amount", "timestamp", "sender", "receiver",
                       "attestations"},
         DOMAIN ctx.sender = {"status", "jurisdiction", "class", "acquired"}
  PROVE  /\ Seen(ctx).state = ctx.state /\ Seen(ctx).jurisdiction = ctx.jurisdiction
         /\ Seen(ctx).amount = 2 * ctx.amount /\ Seen(ctx).timestamp = 2 * ctx.timestamp
         /\ Seen(ctx).receiver = ctx.receiver
         /\ Seen(ctx).sender.status = ctx.sender.status
         /\ Seen(ctx).sender.jurisdiction = ctx.sender.jurisdiction
         /\ Seen(ctx).sender.acquired = 2 * ctx.sender.acquired
         /\ DOMAIN Seen(ctx).attestations = DOMAIN ctx.attestations
         /\ \A t \in DOMAIN ctx.attestations :
              LET given == ctx.attestations[t]
                  seen == Seen(ctx).attestations[t]
              IN  DOMAIN given = {"cleared", "version", "sourceHash", "validUntil"} =>
                    /\ seen.cleared = given.cleared /\ seen.sourceHash = given.sourceHash
                    /\ seen.version = 2 * given.version
                    /\ seen.validUntil = 2 * given.validUntil
<1> DEFINE read == [t \in DOMAIN ctx.attestations |->
                     [ctx.attestations[t] EXCEPT !.version = 2 * @, !.validUntil = 2 * @]]
           from == [ctx.sender EXCEPT !.acquired = 2 * @]
           seen == [ctx EXCEPT !.amount = 2 * @, !.timestamp = 2 * @, !.sender.acquired = 2 * @,
                               !.attestations = read]
<1>1. Seen(ctx) = seen
  BY DEF Seen, ReadContext
<1>2. from.status = ctx.sender.status /\ from.jurisdiction = ctx.sender.jurisdiction
      /\ from.acquired = 2 * ctx.sender.acquired
  OBVIOUS
<1> HIDE DEF read
<1>3. /\ seen.state = ctx.state /\ seen.jurisdiction = ctx.jurisdiction
      /\ seen.amount = 2 * ctx.amount /\ seen.timestamp = 2 * ctx.timestamp
      /\ seen.receiver = ctx.receiver /\ seen.sender = from /\ seen.attestations = read
  OBVIOUS
<1> HIDE DEF seen, from
<1>4. /\ Seen(ctx).state = ctx.state /\ Seen(ctx).jurisdiction = ctx.jurisdiction
      /\ Seen(ctx).amount = 2 * ctx.amount /\ Seen(ctx).timestamp = 2 * ctx.timestamp
      /\ Seen(ctx).receiver = ctx.receiver /\ Seen(ctx).attestations = read
      /\ Seen(ctx).sender = from
  BY <1>1, <1>3
<1>5. /\ Seen(ctx).sender.status = ctx.sender.status
      /\ Seen(ctx).sender.jurisdiction = ctx.sender.jurisdiction
      /\ Seen(ctx).sender.acquired = 2 * ctx.sender.acquired
  BY <1>2, <1>4
<1>6. DOMAIN read = DOMAIN ctx.attestations
  BY DEF read
<1>7. ASSUME NEW t \in DOMAIN ctx.attestations,
             DOMAIN ctx.attestations[t] = {"cleared", "version", "sourceHash", "validUntil"}
      PROVE  /\ read[t].cleared = ctx.attestations[t].cleared
             /\ read[t].sourceHash = ctx.attestations[t].sourceHash
             /\ read[t].version = 2 * ctx.attestations[t].version
             /\ read[t].validUntil = 2 * ctx.attestations[t].validUntil
  <2> DEFINE given == ctx.attestations[t]
  <2>1. read[t] = [given EXCEPT !.version = 2 * @, !.validUntil = 2 * @]
    BY Zenon DEF read
  <2> HIDE DEF given
  <2>2. DOMAIN given = {"cleared", "version", "sourceHash", "validUntil"}
    BY <1>7 DEF given
  <2>3. /\ read[t].cleared = given.cleared /\ read[t].sourceHash = given.sourceHash
        /\ read[t].version = 2 * given.version /\ read[t].validUntil = 2 * given.validUntil
    BY <2>1, <2>2
  <2> QED  BY <2>3 DEF given
<1> QED  BY <1>4, <1>5, <1>6, <1>7

\* A case with one rule is answered as expected where that rule blocks, as it is read, just
\* where the case says so.
LEMMA OneRule ==
  ASSUME NEW rule, NEW ctx, ctx.state = "ACTIVE", Seen(ctx).state = "ACTIVE"
  PROVE  /\ ~Blocks(ReadRule(rule, PythonNum), Seen(ctx)) => Answered(Allows(rule, ctx))
         /\ Blocks(ReadRule(rule, PythonNum), Seen(ctx)) => Answered(BlocksOn(rule, ctx))
<1> DEFINE read == ReadRule(rule, PythonNum)
           v == [rules |-> <<rule>>, ctx |-> ctx]
<1>1. ASSUME NEW w, w.rules = <<rule>>, w.ctx = ctx
      PROVE  /\ PythonReads(w).ctx = Seen(ctx)
             /\ DOMAIN PythonReads(w).rules = {1} /\ PythonReads(w).rules[1] = read
  <2>1. DOMAIN <<rule>> = {1} /\ <<rule>>[1] = rule
    OBVIOUS
  <2> HIDE DEF read
  <2>2. PythonReads(w).rules = [i \in {1} |-> ReadRule(<<rule>>[i], PythonNum)]
    BY <1>1, <2>1, Zenon DEF PythonReads, Read
  <2>3. PythonReads(w).ctx = Seen(ctx)
    BY <1>1, Zenon DEF PythonReads, Read, Seen
  <2> QED  BY <2>1, <2>2, <2>3, Zenon DEF read
<1> HIDE DEF read
<1>2. ASSUME NEW r, r.ctx = Seen(ctx), DOMAIN r.rules = {1}, r.rules[1] = read,
             NEW s \in BOOLEAN, NEW x \in Verdicts(r, s)
      PROVE  x = IF Blocks(read, Seen(ctx)) THEN Decision(FALSE, 1) ELSE Decision(TRUE, 0)
  BY <1>2 DEF Verdicts, Allowed, Blamed
<1>3. /\ Allows(rule, ctx).rules = <<rule>> /\ Allows(rule, ctx).ctx = ctx
      /\ Allows(rule, ctx).expected = Decision(TRUE, 0)
      /\ BlocksOn(rule, ctx).rules = <<rule>> /\ BlocksOn(rule, ctx).ctx = ctx
      /\ BlocksOn(rule, ctx).expected = Decision(FALSE, 1)
  BY DEF Allows, BlocksOn, Case
<1> QED  BY <1>1, <1>2, <1>3 DEF Answered, read

\* What the cases have in common.
TestAsset(ctx) ==
  /\ DOMAIN ctx = {"state", "jurisdiction", "amount", "timestamp", "sender", "receiver",
                   "attestations"}
  /\ DOMAIN ctx.sender = {"status", "jurisdiction", "class", "acquired"}
  /\ ctx.state = "ACTIVE" /\ ctx.timestamp = Now
  /\ SmallContext(ctx)

\* A case with one test rule comes down to that rule's predicate.
LEMMA OneTestRule ==
  ASSUME NEW type, NEW params, NEW ctx, TestAsset(ctx), SmallParams(params)
  PROVE  /\ EvalRule(AsRead(type, params), Seen(ctx)) => Good(Allows(TestRule(type, params), ctx))
         /\ ~EvalRule(AsRead(type, params), Seen(ctx)) =>
              Good(BlocksOn(TestRule(type, params), ctx))
<1> DEFINE rule == TestRule(type, params)
<1>1. ctx.state = "ACTIVE" /\ Seen(ctx).state = "ACTIVE"
  BY ContextRead DEF TestAsset
<1>2. Blocks(AsRead(type, params), Seen(ctx)) <=> ~EvalRule(AsRead(type, params), Seen(ctx))
  <2>1. AsRead(type, params).scope = "*" /\ AsRead(type, params).action = "REJECT"
    BY DEF AsRead, TestRule
  <2> QED  BY <2>1 DEF Blocks, ScopeApplies, Blocking
<1>3. SmallVector(Allows(rule, ctx)) /\ SmallVector(BlocksOn(rule, ctx))
  <2>1. rule.params = params
    BY DEF TestRule
  <2> HIDE DEF rule
  <2>2. /\ Allows(rule, ctx).rules = <<rule>> /\ Allows(rule, ctx).ctx = ctx
        /\ BlocksOn(rule, ctx).rules = <<rule>> /\ BlocksOn(rule, ctx).ctx = ctx
    BY DEF Allows, BlocksOn, Case
  <2>3. \A i \in DOMAIN <<rule>> : SmallParams(<<rule>>[i].params)
    BY <2>1
  <2> QED  BY <2>2, <2>3, Zenon DEF SmallVector, TestAsset
<1> QED  BY <1>1, <1>2, <1>3, OneRule, TestRuleRead DEF Good

\* What a test rule's parameter is read as.
LEMMA ParamsRead ==
  ASSUME NEW type, NEW params, NEW key
  PROVE  /\ AsRead(type, params).type = type
         /\ key \notin DOMAIN params =>
              /\ NumParam(AsRead(type, params), key) = Missing
              /\ StrParam(AsRead(type, params), key) = Missing
              /\ ListParam(AsRead(type, params), key) = {}
         /\ key \in DOMAIN params /\ key \notin NumericKeys =>
              /\ StrParam(AsRead(type, params), key) = params[key]
              /\ ListParam(AsRead(type, params), key) = params[key]
         /\ \A n \in Int : key \in DOMAIN params \cap NumericKeys /\ params[key] = Num(n) =>
              NumParam(AsRead(type, params), key) = 2 * n
<1> DEFINE r == ReadParams(params)
<1>1. /\ DOMAIN r = DOMAIN params
      /\ key \in DOMAIN params =>
           r[key] = IF key \in NumericKeys THEN PythonNum(key, params[key]) ELSE params[key]
  BY Zenon DEF ReadParams
<1>2. AsRead(type, params).type = type /\ AsRead(type, params).params = r
  BY DEF AsRead, TestRule
<1> HIDE DEF r
<1> QED  BY <1>1, <1>2, NumRead DEF NumParam, StrParam, ListParam

\* Which predicate a test rule comes down to.
LEMMA TypesEvaluated ==
  ASSUME NEW rule, NEW ctx
  PROVE  /\ rule.type = "TRANSFER_ELIGIBILITY" => (EvalRule(rule, ctx) <=> PartiesValid(rule, ctx))
         /\ rule.type = "INVESTOR_CLASSIFICATION" =>
              (EvalRule(rule, ctx) <=> ClassAllowed(rule, ctx))
         /\ rule.type = "HOLDING_PERIOD" => (EvalRule(rule, ctx) <=> HeldLongEnough(rule, ctx))
         /\ rule.type = "GEOGRAPHIC_RESTRICTION" =>
              (EvalRule(rule, ctx) <=> JurisdictionsClear(rule, ctx))
         /\ rule.type = "TRANSACTION_THRESHOLD" =>
              (EvalRule(rule, ctx) <=> WithinThreshold(rule, ctx))
         /\ rule.type = "MARKET_RESTRICTION" => (EvalRule(rule, ctx) <=> MarketOpen(rule, ctx))
         /\ rule.type \in {"SANCTIONS_SCREENING", "AML_TRIGGER", "REDEMPTION_ELIGIBILITY"} =>
              (EvalRule(rule, ctx) <=> AttestationClears(rule, ctx))
BY DEF EvalRule

\* The context most cases vary.
LEMMA BareFacts ==
  /\ TestAsset(Bare) /\ Bare.amount = 100 /\ Bare.attestations = NoParams
  /\ Bare.sender = ValidParty /\ Bare.receiver = ValidParty
  /\ DOMAIN NoParams = {} /\ SmallParams(NoParams)
  /\ DOMAIN ValidParty = {"status", "jurisdiction", "class", "acquired"}
  /\ ValidParty.status = "VALID" /\ ValidParty.jurisdiction = "GE"
  /\ ValidParty.class = Missing /\ ValidParty.acquired = 0
<1>1. /\ DOMAIN Bare = {"state", "jurisdiction", "amount", "timestamp", "sender", "receiver",
                        "attestations"}
      /\ Bare.state = "ACTIVE" /\ Bare.timestamp = Now
      /\ Bare.amount = 100 /\ Bare.attestations = NoParams
      /\ Bare.sender = ValidParty /\ Bare.receiver = ValidParty
  BY DEF Bare, TestContext
<1>2. /\ DOMAIN ValidParty = {"status", "jurisdiction", "class", "acquired"}
      /\ ValidParty.status = "VALID" /\ ValidParty.jurisdiction = "GE"
      /\ ValidParty.class = Missing /\ ValidParty.acquired = 0
  BY DEF ValidParty, DefaultParty
<1>3. DOMAIN NoParams = {}
  BY DEF NoParams
<1>4. 100 \in Small
  BY DEF Small, Future, Now
<1> QED  BY <1>1, <1>2, <1>3, <1>4 DEF TestAsset, SmallContext, SmallParams

\* Bare with one field changed.
LEMMA BareVariants ==
  ASSUME NEW x
  PROVE  /\ LET ctx == [Bare EXCEPT !.receiver.status = x]
            IN  TestAsset(ctx) /\ ctx.sender = ValidParty /\ ctx.receiver.status = x
         /\ LET ctx == [Bare EXCEPT !.receiver.class = x]
            IN  TestAsset(ctx) /\ ctx.sender = ValidParty /\ ctx.receiver.class = x
         /\ LET ctx == [Bare EXCEPT !.sender.status = x]
            IN  TestAsset(ctx) /\ ctx.sender.status = x /\ ctx.receiver = ValidParty
         /\ LET ctx == [Bare EXCEPT !.sender.jurisdiction = x]
            IN  TestAsset(ctx) /\ ctx.sender.jurisdiction = x /\ ctx.receiver = ValidParty
         /\ LET ctx == [Bare EXCEPT !.sender.acquired = x]
            IN  TestAsset(ctx) /\ ctx.sender.acquired = x /\ ctx.receiver = ValidParty
         /\ LET ctx == [Bare EXCEPT !.amount = x]
            IN  x \in Small => TestAsset(ctx) /\ ctx.amount = x
<1>1. ASSUME NEW party
      PROVE  /\ LET ctx == [Bare EXCEPT !.receiver = party]
                IN  TestAsset(ctx) /\ ctx.sender = ValidParty /\ ctx.receiver = party
             /\ LET ctx == [Bare EXCEPT !.sender = party]
                IN  DOMAIN party = {"status", "jurisdiction", "class", "acquired"} =>
                      TestAsset(ctx) /\ ctx.sender = party /\ ctx.receiver = ValidParty
  BY BareFacts DEF TestAsset, SmallContext
<1>2. x \in Small => LET ctx == [Bare EXCEPT !.amount = x] IN TestAsset(ctx) /\ ctx.amount = x
  BY BareFacts DEF TestAsset, SmallContext
<1>3. /\ [Bare EXCEPT !.receiver.status = x]
           = [Bare EXCEPT !.receiver = [Bare.receiver EXCEPT !.status = x]]
      /\ [Bare EXCEPT !.receiver.class = x]
           = [Bare EXCEPT !.receiver = [Bare.receiver EXCEPT !.class = x]]
      /\ [Bare EXCEPT !.sender.status = x]
           = [Bare EXCEPT !.sender = [Bare.sender EXCEPT !.status = x]]
      /\ [Bare EXCEPT !.sender.jurisdiction = x]
           = [Bare EXCEPT !.sender = [Bare.sender EXCEPT !.jurisdiction = x]]
      /\ [Bare EXCEPT !.sender.acquired = x]
           = [Bare EXCEPT !.sender = [Bare.sender EXCEPT !.acquired = x]]
  OBVIOUS
<1>4. /\ [ValidParty EXCEPT !.status = x].status = x
      /\ [ValidParty EXCEPT !.class = x].class = x
      /\ [ValidParty EXCEPT !.jurisdiction = x].jurisdiction = x
      /\ [ValidParty EXCEPT !.acquired = x].acquired = x
      /\ DOMAIN [ValidParty EXCEPT !.status = x] = DOMAIN ValidParty
      /\ DOMAIN [ValidParty EXCEPT !.jurisdiction = x] = DOMAIN ValidParty
      /\ DOMAIN [ValidParty EXCEPT !.acquired = x] = DOMAIN ValidParty
  BY BareFacts
<1>5. Bare.sender = ValidParty /\ Bare.receiver = ValidParty
      /\ DOMAIN ValidParty = {"status", "jurisdiction", "class", "acquired"}
  BY BareFacts
<1> QED  BY <1>1, <1>2, <1>3, <1>4, <1>5

\* Which cases of parties are answered as expected: the predicate, on what the file says.
LEMMA PartyRules ==
  ASSUME MissingApart, NEW ctx, TestAsset(ctx)
  PROVE  /\ LET rule == TestRule("TRANSFER_ELIGIBILITY", NoParams)
                ok == ctx.sender.status = "VALID" /\ ctx.receiver.status = "VALID"
            IN  (ok => Good(Allows(rule, ctx))) /\ (~ok => Good(BlocksOn(rule, ctx)))
         /\ \A set :
              LET rule == TestRule("INVESTOR_CLASSIFICATION", [allowedClasses |-> set])
                  ok == ctx.receiver.class # Missing /\ ctx.receiver.class \in set
              IN  (ok => Good(Allows(rule, ctx))) /\ (~ok => Good(BlocksOn(rule, ctx)))
         /\ Good(BlocksOn(TestRule("INVESTOR_CLASSIFICATION", NoParams), ctx))
         /\ \A period \in Small : ctx.sender.acquired \in Nat =>
              LET rule == TestRule("HOLDING_PERIOD", [holdingPeriodSec |-> Num(period)])
                  ok == ctx.sender.acquired # 0 /\ Now - ctx.sender.acquired >= period
              IN  (ok => Good(Allows(rule, ctx))) /\ (~ok => Good(BlocksOn(rule, ctx)))
         /\ \A set :
              LET rule == TestRule("GEOGRAPHIC_RESTRICTION", [blockedJurisdictions |-> set])
                  ok == /\ ctx.sender.jurisdiction # Missing /\ ctx.receiver.jurisdiction # Missing
                        /\ {ctx.sender.jurisdiction, ctx.receiver.jurisdiction} \cap set = {}
              IN  (ok => Good(Allows(rule, ctx))) /\ (~ok => Good(BlocksOn(rule, ctx)))
<1>1. /\ Seen(ctx).timestamp = 2 * Now /\ Seen(ctx).receiver = ctx.receiver
      /\ Seen(ctx).sender.status = ctx.sender.status
      /\ Seen(ctx).sender.jurisdiction = ctx.sender.jurisdiction
      /\ Seen(ctx).sender.acquired = 2 * ctx.sender.acquired
  BY ContextRead DEF TestAsset
<1>2. SmallParams(NoParams) /\ DOMAIN NoParams = {}
  BY BareFacts
<1>3. LET rule == TestRule("TRANSFER_ELIGIBILITY", NoParams)
          ok == ctx.sender.status = "VALID" /\ ctx.receiver.status = "VALID"
      IN  (ok => Good(Allows(rule, ctx))) /\ (~ok => Good(BlocksOn(rule, ctx)))
  <2> DEFINE read == AsRead("TRANSFER_ELIGIBILITY", NoParams)
  <2>1. EvalRule(read, Seen(ctx)) <=> PartiesValid(read, Seen(ctx))
    BY ParamsRead, TypesEvaluated
  <2> QED  BY <1>1, <1>2, <2>1, OneTestRule DEF PartiesValid
<1>4. ASSUME NEW set
      PROVE  LET rule == TestRule("INVESTOR_CLASSIFICATION", [allowedClasses |-> set])
                 ok == ctx.receiver.class # Missing /\ ctx.receiver.class \in set
             IN  (ok => Good(Allows(rule, ctx))) /\ (~ok => Good(BlocksOn(rule, ctx)))
  <2> DEFINE params == [allowedClasses |-> set]
             read == AsRead("INVESTOR_CLASSIFICATION", params)
  <2>1. SmallParams(params)
    BY DEF SmallParams, NumericKeys
  <2>2. ListParam(read, "allowedClasses") = set
    <3>1. "allowedClasses" \in DOMAIN params /\ params["allowedClasses"] = set
          /\ "allowedClasses" \notin NumericKeys
      BY DEF NumericKeys
    <3> HIDE DEF params
    <3> QED  BY <3>1, ParamsRead
  <2> HIDE DEF params
  <2>3. EvalRule(read, Seen(ctx)) <=> ClassAllowed(read, Seen(ctx))
    BY ParamsRead, TypesEvaluated
  <2>4. /\ EvalRule(read, Seen(ctx)) =>
             Good(Allows(TestRule("INVESTOR_CLASSIFICATION", params), ctx))
        /\ ~EvalRule(read, Seen(ctx)) =>
             Good(BlocksOn(TestRule("INVESTOR_CLASSIFICATION", params), ctx))
    BY <2>1, OneTestRule
  <2> HIDE DEF read
  <2> QED  BY <1>1, <2>2, <2>3, <2>4 DEF ClassAllowed, params
<1>5. Good(BlocksOn(TestRule("INVESTOR_CLASSIFICATION", NoParams), ctx))
  <2> DEFINE read == AsRead("INVESTOR_CLASSIFICATION", NoParams)
  <2>1. ListParam(read, "allowedClasses") = {} /\ read.type = "INVESTOR_CLASSIFICATION"
    BY <1>2, ParamsRead
  <2>2. ~EvalRule(read, Seen(ctx))
    BY <2>1, TypesEvaluated DEF ClassAllowed
  <2> QED  BY <1>2, <2>2, OneTestRule
<1>6. ASSUME NEW period \in Small, ctx.sender.acquired \in Nat
      PROVE  LET rule == TestRule("HOLDING_PERIOD", [holdingPeriodSec |-> Num(period)])
                 ok == ctx.sender.acquired # 0 /\ Now - ctx.sender.acquired >= period
             IN  (ok => Good(Allows(rule, ctx))) /\ (~ok => Good(BlocksOn(rule, ctx)))
  <2> DEFINE params == [holdingPeriodSec |-> Num(period)]
             read == AsRead("HOLDING_PERIOD", params)
  <2>1. /\ DOMAIN params = {"holdingPeriodSec"} /\ params["holdingPeriodSec"] = Num(period)
        /\ "holdingPeriodSec" \in NumericKeys
    BY DEF NumericKeys
  <2>2. SmallParams(params)
    BY DEF SmallParams
  <2> HIDE DEF params
  <2>3. period \in Int /\ Now \in Int
    BY DEF Small, Now
  <2>4. NumParam(read, "holdingPeriodSec") = 2 * period /\ read.type = "HOLDING_PERIOD"
    BY <2>1, <2>3, ParamsRead
  <2>5. /\ EvalRule(read, Seen(ctx)) => Good(Allows(TestRule("HOLDING_PERIOD", params), ctx))
        /\ ~EvalRule(read, Seen(ctx)) => Good(BlocksOn(TestRule("HOLDING_PERIOD", params), ctx))
    BY <2>2, OneTestRule
  <2> HIDE DEF read
  <2>6. 2 * period # Missing
    BY <2>3 DEF MissingApart
  <2>7. EvalRule(read, Seen(ctx)) <=>
          2 * ctx.sender.acquired # 0 /\ 2 * Now - 2 * ctx.sender.acquired >= 2 * period
    BY <1>1, <2>4, <2>6, TypesEvaluated DEF HeldLongEnough
  <2>8. 2 * ctx.sender.acquired # 0 /\ 2 * Now - 2 * ctx.sender.acquired >= 2 * period
          <=> ctx.sender.acquired # 0 /\ Now - ctx.sender.acquired >= period
    BY <1>6, <2>3
  <2> QED  BY <2>5, <2>7, <2>8 DEF params
<1>7. ASSUME NEW set
      PROVE  LET rule == TestRule("GEOGRAPHIC_RESTRICTION", [blockedJurisdictions |-> set])
                 ok == /\ ctx.sender.jurisdiction # Missing /\ ctx.receiver.jurisdiction # Missing
                       /\ {ctx.sender.jurisdiction, ctx.receiver.jurisdiction} \cap set = {}
             IN  (ok => Good(Allows(rule, ctx))) /\ (~ok => Good(BlocksOn(rule, ctx)))
  <2> DEFINE params == [blockedJurisdictions |-> set]
             read == AsRead("GEOGRAPHIC_RESTRICTION", params)
  <2>1. SmallParams(params)
    BY DEF SmallParams, NumericKeys
  <2>2. "blockedJurisdictions" \in DOMAIN params /\ params["blockedJurisdictions"] = set
        /\ "blockedJurisdictions" \notin NumericKeys
    BY DEF NumericKeys
  <2> HIDE DEF params
  <2>3. ListParam(read, "blockedJurisdictions") = set /\ read.type = "GEOGRAPHIC_RESTRICTION"
    BY <2>2, ParamsRead
  <2>4. /\ EvalRule(read, Seen(ctx)) =>
             Good(Allows(TestRule("GEOGRAPHIC_RESTRICTION", params), ctx))
        /\ ~EvalRule(read, Seen(ctx)) =>
             Good(BlocksOn(TestRule("GEOGRAPHIC_RESTRICTION", params), ctx))
    BY <2>1, OneTestRule
  <2> HIDE DEF read
  <2>5. EvalRule(read, Seen(ctx)) <=> JurisdictionsClear(read, Seen(ctx))
    BY <2>3, TypesEvaluated
  <2> QED  BY <1>1, <2>3, <2>4, <2>5 DEF JurisdictionsClear, params
<1> QED  BY <1>3, <1>4, <1>5, <1>6, <1>7

\* The cases of parties: eligibility, class, holding period and jurisdiction.
LEMMA PartiesAnswered == ASSUME MissingApart PROVE \A v \in PartyCases : Good(v)
<1> DEFINE eligible == TestRule("TRANSFER_ELIGIBILITY", NoParams)
           classes(set) == TestRule("INVESTOR_CLASSIFICATION", [allowedClasses |-> set])
           received(class) == [Bare EXCEPT !.receiver.class = class]
           held == TestRule("HOLDING_PERIOD", [holdingPeriodSec |-> Num(86400)])
           geographic(set) == TestRule("GEOGRAPHIC_RESTRICTION", [blockedJurisdictions |-> set])
           acquired(time) == [Bare EXCEPT !.sender.acquired = time]
           status(s) == [Bare EXCEPT !.sender.status = s]
           from(j) == [Bare EXCEPT !.sender.jurisdiction = j]
           expired == [Bare EXCEPT !.receiver.status = "EXPIRED"]
<1>1. /\ TestAsset(Bare) /\ Bare.sender.status = "VALID" /\ Bare.receiver.status = "VALID"
      /\ Bare.sender.jurisdiction = "GE" /\ Bare.receiver.jurisdiction = "GE"
      /\ Bare.sender.acquired = 0
  BY BareFacts
<1>2. /\ 86400 \in Small /\ Now - 100000 \in Nat /\ Now - 100 \in Nat
      /\ Now - 100000 # 0 /\ Now - (Now - 100000) >= 86400 /\ ~(Now - (Now - 100) >= 86400)
  BY DEF Small, Future, Now
<1>3. "GE" # Missing /\ "ACCREDITED" # Missing
  BY DEF MissingApart
<1>4. Good(Allows(eligible, Bare)) /\ Good(BlocksOn(eligible, expired))
      /\ Good(BlocksOn(eligible, status("UNKNOWN")))
  <2>1. /\ TestAsset(expired) /\ expired.receiver.status = "EXPIRED"
        /\ TestAsset(status("UNKNOWN")) /\ status("UNKNOWN").sender.status = "UNKNOWN"
    BY BareVariants
  <2> HIDE DEF expired, status, eligible
  <2>2. ASSUME NEW ctx, TestAsset(ctx)
        PROVE  /\ ctx.sender.status = "VALID" /\ ctx.receiver.status = "VALID" =>
                    Good(Allows(eligible, ctx))
               /\ ~(ctx.sender.status = "VALID" /\ ctx.receiver.status = "VALID") =>
                    Good(BlocksOn(eligible, ctx))
    BY <2>2, PartyRules DEF eligible
  <2> QED  BY <1>1, <2>1, <2>2
<1>5. /\ Good(Allows(classes({"ACCREDITED", "QIB"}), received("ACCREDITED")))
      /\ Good(BlocksOn(classes({"ACCREDITED"}), received("RETAIL")))
      /\ Good(BlocksOn(TestRule("INVESTOR_CLASSIFICATION", NoParams), received("ACCREDITED")))
  <2>1. ASSUME NEW class
        PROVE  TestAsset(received(class)) /\ received(class).receiver.class = class
    BY BareVariants
  <2> HIDE DEF received, classes
  <2>2. ASSUME NEW ctx, TestAsset(ctx)
        PROVE  /\ \A set :
                    /\ ctx.receiver.class # Missing /\ ctx.receiver.class \in set =>
                         Good(Allows(classes(set), ctx))
                    /\ ctx.receiver.class \notin set => Good(BlocksOn(classes(set), ctx))
               /\ Good(BlocksOn(TestRule("INVESTOR_CLASSIFICATION", NoParams), ctx))
    BY <2>2, PartyRules DEF classes
  <2> QED  BY <1>3, <2>1, <2>2
<1>6. /\ Good(Allows(held, acquired(Now - 100000))) /\ Good(BlocksOn(held, acquired(Now - 100)))
      /\ Good(BlocksOn(held, Bare))
  <2>1. ASSUME NEW time
        PROVE  TestAsset(acquired(time)) /\ acquired(time).sender.acquired = time
    BY BareVariants
  <2> HIDE DEF acquired, held
  <2>2. ASSUME NEW ctx, TestAsset(ctx), ctx.sender.acquired \in Nat
        PROVE  /\ ctx.sender.acquired # 0 /\ Now - ctx.sender.acquired >= 86400 =>
                    Good(Allows(held, ctx))
               /\ ~(ctx.sender.acquired # 0 /\ Now - ctx.sender.acquired >= 86400) =>
                    Good(BlocksOn(held, ctx))
    BY <1>2, <2>2, PartyRules DEF held
  <2>3. Good(BlocksOn(held, Bare))
    BY <1>1, <2>2
  <2>4. Good(Allows(held, acquired(Now - 100000)))
    <3> DEFINE long == Now - 100000
    <3>1. /\ TestAsset(acquired(long)) /\ acquired(long).sender.acquired = long
          /\ long \in Nat /\ long # 0 /\ Now - long >= 86400
      BY <1>2, <2>1
    <3> HIDE DEF long
    <3>2. Good(Allows(held, acquired(long)))
      BY <2>2, <3>1
    <3> QED  BY <3>2 DEF long
  <2>5. Good(BlocksOn(held, acquired(Now - 100)))
    <3>1. /\ TestAsset(acquired(Now - 100))
          /\ acquired(Now - 100).sender.acquired = Now - 100
      BY <2>1
    <3> QED  BY <1>2, <2>2, <3>1
  <2> QED  BY <2>3, <2>4, <2>5
<1>7. /\ Good(Allows(geographic({"KP", "IR"}), Bare)) /\ Good(BlocksOn(geographic({"GE"}), Bare))
      /\ Good(BlocksOn(geographic({"KP"}), from(Missing)))
  <2>1. ASSUME NEW j
        PROVE  TestAsset(from(j)) /\ from(j).sender.jurisdiction = j
    BY BareVariants
  <2> HIDE DEF from, geographic
  <2>2. ASSUME NEW ctx, TestAsset(ctx), NEW set
        PROVE  LET ok == /\ ctx.sender.jurisdiction # Missing /\ ctx.receiver.jurisdiction # Missing
                         /\ {ctx.sender.jurisdiction, ctx.receiver.jurisdiction} \cap set = {}
               IN  /\ ok => Good(Allows(geographic(set), ctx))
                   /\ ~ok => Good(BlocksOn(geographic(set), ctx))
    BY <2>2, PartyRules DEF geographic
  <2> QED  BY <1>1, <1>3, <2>1, <2>2
<1>8. PartyCases =
        { Allows(eligible, Bare), BlocksOn(eligible, expired),
          BlocksOn(eligible, status("UNKNOWN")),
          Allows(classes({"ACCREDITED", "QIB"}), received("ACCREDITED")),
          BlocksOn(classes({"ACCREDITED"}), received("RETAIL")),
          BlocksOn(TestRule("INVESTOR_CLASSIFICATION", NoParams), received("ACCREDITED")),
          Allows(held, acquired(Now - 100000)), BlocksOn(held, acquired(Now - 100)),
          BlocksOn(held, Bare),
          Allows(geographic({"KP", "IR"}), Bare), BlocksOn(geographic({"GE"}), Bare),
          BlocksOn(geographic({"KP"}), from(Missing)) }
  BY DEF PartyCases
<1> HIDE DEF eligible, classes, received, held, geographic, acquired, status, from, expired
<1> QED  BY <1>4, <1>5, <1>6, <1>7, <1>8

\* Which cases of amounts and trading windows are answered as expected.
LEMMA MarketRules ==
  ASSUME MissingApart, NEW ctx, TestAsset(ctx)
  PROVE  /\ \A n \in Small :
              LET rule == TestRule("TRANSACTION_THRESHOLD", [thresholdAmount |-> Num(n)])
              IN  /\ ctx.amount <= n => Good(Allows(rule, ctx))
                  /\ ~(ctx.amount <= n) => Good(BlocksOn(rule, ctx))
         /\ Good(BlocksOn(TestRule("TRANSACTION_THRESHOLD", NoParams), ctx))
         /\ \A open, close \in Small :
              LET rule == TestRule("MARKET_RESTRICTION",
                                   [windowOpen |-> Num(open), windowClose |-> Num(close)])
                  ok == open <= Now /\ Now < close
              IN  (ok => Good(Allows(rule, ctx))) /\ (~ok => Good(BlocksOn(rule, ctx)))
         /\ ctx.attestations = NoParams =>
              \A hash : Good(BlocksOn(Anchored("MARKET_RESTRICTION", hash), ctx))
<1>1. Seen(ctx).timestamp = 2 * Now /\ Seen(ctx).amount = 2 * ctx.amount
      /\ DOMAIN Seen(ctx).attestations = DOMAIN ctx.attestations
  BY ContextRead DEF TestAsset
<1>2. SmallParams(NoParams) /\ DOMAIN NoParams = {}
  BY BareFacts
<1>3. ctx.amount \in Int /\ Now \in Int
  BY DEF TestAsset, SmallContext, Small, Now
<1>4. ASSUME NEW n \in Small
      PROVE  LET rule == TestRule("TRANSACTION_THRESHOLD", [thresholdAmount |-> Num(n)])
             IN  /\ ctx.amount <= n => Good(Allows(rule, ctx))
                 /\ ~(ctx.amount <= n) => Good(BlocksOn(rule, ctx))
  <2> DEFINE params == [thresholdAmount |-> Num(n)]
             read == AsRead("TRANSACTION_THRESHOLD", params)
  <2>1. /\ DOMAIN params = {"thresholdAmount"} /\ params["thresholdAmount"] = Num(n)
        /\ "thresholdAmount" \in NumericKeys
    BY DEF NumericKeys
  <2>2. SmallParams(params)
    BY DEF SmallParams
  <2> HIDE DEF params
  <2>3. n \in Int
    BY DEF Small
  <2>4. NumParam(read, "thresholdAmount") = 2 * n /\ read.type = "TRANSACTION_THRESHOLD"
    BY <2>1, <2>3, ParamsRead
  <2>5. /\ EvalRule(read, Seen(ctx)) =>
             Good(Allows(TestRule("TRANSACTION_THRESHOLD", params), ctx))
        /\ ~EvalRule(read, Seen(ctx)) =>
             Good(BlocksOn(TestRule("TRANSACTION_THRESHOLD", params), ctx))
    BY <2>2, OneTestRule
  <2> HIDE DEF read
  <2>6. 2 * n # Missing
    BY <2>3 DEF MissingApart
  <2>7. EvalRule(read, Seen(ctx)) <=> 2 * ctx.amount <= 2 * n
    BY <1>1, <2>4, <2>6, TypesEvaluated DEF WithinThreshold
  <2>8. 2 * ctx.amount <= 2 * n <=> ctx.amount <= n
    BY <1>3, <2>3
  <2> QED  BY <2>5, <2>7, <2>8 DEF params
<1>5. Good(BlocksOn(TestRule("TRANSACTION_THRESHOLD", NoParams), ctx))
  <2> DEFINE read == AsRead("TRANSACTION_THRESHOLD", NoParams)
  <2>1. NumParam(read, "thresholdAmount") = Missing /\ read.type = "TRANSACTION_THRESHOLD"
    BY <1>2, ParamsRead
  <2>2. ~EvalRule(read, Seen(ctx))
    BY <2>1, TypesEvaluated DEF WithinThreshold
  <2> QED  BY <1>2, <2>2, OneTestRule
<1>6. ASSUME NEW open \in Small, NEW close \in Small
      PROVE  LET rule == TestRule("MARKET_RESTRICTION",
                                  [windowOpen |-> Num(open), windowClose |-> Num(close)])
                 ok == open <= Now /\ Now < close
             IN  (ok => Good(Allows(rule, ctx))) /\ (~ok => Good(BlocksOn(rule, ctx)))
  <2> DEFINE params == [windowOpen |-> Num(open), windowClose |-> Num(close)]
             read == AsRead("MARKET_RESTRICTION", params)
  <2>1. /\ DOMAIN params = {"windowOpen", "windowClose"}
        /\ params["windowOpen"] = Num(open) /\ params["windowClose"] = Num(close)
        /\ "windowOpen" \in NumericKeys /\ "windowClose" \in NumericKeys
    BY DEF NumericKeys
  <2> HIDE DEF params
  <2>2. SmallParams(params)
    BY <2>1 DEF SmallParams
  <2>3. open \in Int /\ close \in Int
    BY DEF Small
  <2>4. /\ NumParam(read, "windowOpen") = 2 * open /\ NumParam(read, "windowClose") = 2 * close
        /\ read.type = "MARKET_RESTRICTION"
    BY <2>1, <2>3, ParamsRead
  <2>5. /\ EvalRule(read, Seen(ctx)) => Good(Allows(TestRule("MARKET_RESTRICTION", params), ctx))
        /\ ~EvalRule(read, Seen(ctx)) =>
             Good(BlocksOn(TestRule("MARKET_RESTRICTION", params), ctx))
    BY <2>2, OneTestRule
  <2> HIDE DEF read
  <2>6. 2 * open # Missing /\ 2 * close # Missing
    BY <2>3 DEF MissingApart
  <2>7. EvalRule(read, Seen(ctx)) <=> 2 * open <= 2 * Now /\ 2 * Now < 2 * close
    BY <1>1, <2>4, <2>6, TypesEvaluated DEF MarketOpen
  <2>8. (2 * open <= 2 * Now /\ 2 * Now < 2 * close) <=> (open <= Now /\ Now < close)
    BY <1>3, <2>3
  <2> QED  BY <2>5, <2>7, <2>8 DEF params
<1>7. ASSUME ctx.attestations = NoParams, NEW hash
      PROVE  Good(BlocksOn(Anchored("MARKET_RESTRICTION", hash), ctx))
  <2> DEFINE params == [sourceHash |-> hash]
             read == AsRead("MARKET_RESTRICTION", params)
  <2>1. DOMAIN params = {"sourceHash"} /\ "sourceHash" \notin NumericKeys
        /\ "windowOpen" # "sourceHash"
    BY DEF NumericKeys
  <2> HIDE DEF params
  <2>2. SmallParams(params)
    BY <2>1 DEF SmallParams
  <2>3. NumParam(read, "windowOpen") = Missing /\ read.type = "MARKET_RESTRICTION"
    BY <2>1, ParamsRead
  <2>4. ~EvalRule(read, Seen(ctx))
    <3>1. ~AttestationClears(read, Seen(ctx))
      BY <1>1, <1>2, <1>7 DEF AttestationClears
    <3> HIDE DEF read
    <3> QED  BY <2>3, <3>1, TypesEvaluated DEF MarketOpen
  <2> QED  BY <2>2, <2>4, OneTestRule DEF params, Anchored
<1> QED  BY <1>4, <1>5, <1>6, <1>7

\* The cases of amounts and trading windows.
LEMMA MarketAnswered == ASSUME MissingApart PROVE \A v \in ThresholdAndMarketCases : Good(v)
<1> DEFINE threshold == TestRule("TRANSACTION_THRESHOLD", [thresholdAmount |-> Num(1000)])
           window(open, close) ==
             TestRule("MARKET_RESTRICTION", [windowOpen |-> Num(open), windowClose |-> Num(close)])
           sending(n) == [Bare EXCEPT !.amount = n]
<1>1. /\ 1000 \in Small /\ 5000 \in Small /\ 100 <= 1000 /\ ~(5000 <= 1000)
      /\ Now - 10 \in Small /\ Now + 10 \in Small /\ Now + 20 \in Small
      /\ Now - 10 <= Now /\ Now < Now + 10 /\ ~(Now + 10 <= Now)
  BY DEF Small, Future, Now
<1>2. TestAsset(Bare) /\ Bare.amount = 100 /\ Bare.attestations = NoParams
  BY BareFacts
<1>3. ASSUME NEW n \in Small
      PROVE  TestAsset(sending(n)) /\ sending(n).amount = n
  BY BareVariants
<1> HIDE DEF sending
<1>4. /\ Good(Allows(threshold, Bare)) /\ Good(BlocksOn(threshold, sending(5000)))
      /\ Good(BlocksOn(TestRule("TRANSACTION_THRESHOLD", NoParams), Bare))
      /\ Good(BlocksOn(Anchored("MARKET_RESTRICTION", "MIC-2026"), Bare))
  <2>1. ASSUME NEW ctx, TestAsset(ctx)
        PROVE  /\ ctx.amount <= 1000 => Good(Allows(threshold, ctx))
               /\ ~(ctx.amount <= 1000) => Good(BlocksOn(threshold, ctx))
               /\ Good(BlocksOn(TestRule("TRANSACTION_THRESHOLD", NoParams), ctx))
               /\ ctx.attestations = NoParams =>
                    Good(BlocksOn(Anchored("MARKET_RESTRICTION", "MIC-2026"), ctx))
    BY <1>1, <2>1, MarketRules
  <2> HIDE DEF threshold
  <2> QED  BY <1>1, <1>2, <1>3, <2>1
<1>5. /\ Good(Allows(window(Now - 10, Now + 10), Bare))
      /\ Good(BlocksOn(window(Now + 10, Now + 20), Bare))
  <2>1. ASSUME NEW open \in Small, NEW close \in Small
        PROVE  /\ open <= Now /\ Now < close => Good(Allows(window(open, close), Bare))
               /\ ~(open <= Now /\ Now < close) => Good(BlocksOn(window(open, close), Bare))
    BY <1>2, MarketRules
  <2> HIDE DEF window
  <2> DEFINE before == Now - 10
             after == Now + 10
             later == Now + 20
  <2>2. /\ before \in Small /\ after \in Small /\ later \in Small
        /\ before <= Now /\ Now < after /\ ~(after <= Now)
    BY <1>1
  <2> HIDE DEF before, after, later
  <2>3. Good(Allows(window(before, after), Bare)) /\ Good(BlocksOn(window(after, later), Bare))
    BY <2>1, <2>2
  <2> QED  BY <2>3 DEF before, after, later
<1>6. ThresholdAndMarketCases =
        { Allows(threshold, Bare), BlocksOn(threshold, [Bare EXCEPT !.amount = 5000]),
          BlocksOn(TestRule("TRANSACTION_THRESHOLD", NoParams), Bare),
          Allows(window(Now - 10, Now + 10), Bare), BlocksOn(window(Now + 10, Now + 20), Bare),
          BlocksOn(Anchored("MARKET_RESTRICTION", "MIC-2026"), Bare) }
  BY DEF ThresholdAndMarketCases
<1> HIDE DEF threshold, window
<1> QED  BY <1>4, <1>5, <1>6 DEF sending

\* The attestation of a context that has one, and what clears a rule pinned to a source.
AttestationShape(att) ==
  /\ DOMAIN att = {"cleared", "version", "sourceHash", "validUntil"}
  /\ att.version \in Small /\ att.validUntil \in Int

ClearsPin(ctx, type, hash, version) ==
  /\ type \in DOMAIN ctx.attestations
  /\ LET att == ctx.attestations[type]
     IN  att.sourceHash = hash /\ att.version >= version /\ Now < att.validUntil /\ att.cleared

\* The context with one attestation, and Bare with none.
LEMMA AttestedFacts ==
  ASSUME NEW type, NEW cleared, NEW version \in Small, NEW hash, NEW until \in Int
  PROVE  LET ctx == Attested(type, cleared, version, hash, until)
         IN  /\ TestAsset(ctx)
             /\ \A t \in DOMAIN ctx.attestations : AttestationShape(ctx.attestations[t])
             /\ \A pin, least : ClearsPin(ctx, type, pin, least) <=>
                  hash = pin /\ version >= least /\ Now < until /\ cleared
<1> DEFINE att == [cleared |-> cleared, version |-> version, sourceHash |-> hash,
                   validUntil |-> until]
           ctx == Attested(type, cleared, version, hash, until)
<1>1. /\ AttestationShape(att)
      /\ att.sourceHash = hash /\ att.version = version /\ att.validUntil = until
      /\ att.cleared = cleared
  BY DEF AttestationShape
<1> DEFINE held == [t \in {type} |-> att]
<1>2. ctx = TestContext(held)
  BY Zenon DEF Attested
<1> HIDE DEF att, held
<1>3. /\ DOMAIN TestContext(held) = DOMAIN Bare /\ TestContext(held).sender = ValidParty
      /\ TestContext(held).state = "ACTIVE" /\ TestContext(held).timestamp = Now
      /\ TestContext(held).amount = 100 /\ TestContext(held).attestations = held
  BY DEF TestContext, Bare
<1>4. TestAsset(Bare) /\ Bare.amount = 100
      /\ DOMAIN ValidParty = {"status", "jurisdiction", "class", "acquired"}
  BY BareFacts
<1>5. DOMAIN held = {type} /\ held[type] = att
  BY DEF held
<1> HIDE DEF ctx
<1>6. /\ DOMAIN ctx = DOMAIN Bare /\ ctx.sender = ValidParty
      /\ ctx.state = "ACTIVE" /\ ctx.timestamp = Now
      /\ ctx.amount = 100 /\ ctx.attestations = held
  BY <1>2, <1>3
<1>7. SmallContext(ctx) /\ \A t \in DOMAIN ctx.attestations : AttestationShape(ctx.attestations[t])
  BY <1>1, <1>4, <1>5, <1>6 DEF SmallContext, TestAsset
<1>8. TestAsset(ctx)
  BY <1>4, <1>6, <1>7 DEF TestAsset
<1>9. \A pin, least : ClearsPin(ctx, type, pin, least) <=>
         hash = pin /\ version >= least /\ Now < until /\ cleared
  BY <1>1, <1>5, <1>6 DEF ClearsPin
<1> QED  BY <1>7, <1>8, <1>9 DEF ctx

\* Which cases of attestations are answered as expected.
LEMMA OracleRules ==
  ASSUME MissingApart, NEW ctx, TestAsset(ctx),
         \A t \in DOMAIN ctx.attestations : AttestationShape(ctx.attestations[t]),
         NEW type \in {"SANCTIONS_SCREENING", "AML_TRIGGER", "REDEMPTION_ELIGIBILITY"},
         NEW hash, hash # Missing
  PROVE  /\ ClearsPin(ctx, type, hash, 0) => Good(Allows(Anchored(type, hash), ctx))
         /\ \A least \in Small :
              LET rule == TestRule(type, [sourceHash |-> hash, minVersion |-> Num(least)])
              IN  /\ ClearsPin(ctx, type, hash, least) => Good(Allows(rule, ctx))
                  /\ ~ClearsPin(ctx, type, hash, least) => Good(BlocksOn(rule, ctx))
<1> DEFINE seen == Seen(ctx)
<1>1. /\ seen.timestamp = 2 * Now /\ DOMAIN seen.attestations = DOMAIN ctx.attestations
      /\ type \in DOMAIN ctx.attestations =>
           /\ seen.attestations[type].cleared = ctx.attestations[type].cleared
           /\ seen.attestations[type].sourceHash = ctx.attestations[type].sourceHash
           /\ seen.attestations[type].version = 2 * ctx.attestations[type].version
           /\ seen.attestations[type].validUntil = 2 * ctx.attestations[type].validUntil
  BY ContextRead DEF TestAsset, AttestationShape
<1>2. /\ type \in DOMAIN ctx.attestations =>
           /\ ctx.attestations[type].version \in Nat /\ ctx.attestations[type].validUntil \in Int
      /\ Now \in Int
  BY DEF AttestationShape, Small, Now
<1>3. ASSUME NEW rule, rule.type = type, StrParam(rule, "sourceHash") = hash,
             NEW least \in Nat,
             \/ NumParam(rule, "minVersion") = 2 * least
             \/ NumParam(rule, "minVersion") = Missing /\ least = 0
      PROVE  EvalRule(rule, seen) <=> ClearsPin(ctx, type, hash, least)
  <2>1. EvalRule(rule, seen) <=> AttestationClears(rule, seen)
    BY <1>3, TypesEvaluated
  <2>2. 2 * least # Missing
    BY DEF MissingApart
  <2>3. CASE type \notin DOMAIN ctx.attestations
    BY <1>1, <1>3, <2>1, <2>3 DEF AttestationClears, ClearsPin
  <2>4. CASE type \in DOMAIN ctx.attestations
    <3> DEFINE att == ctx.attestations[type]
    <3>1. AttestationClears(rule, seen) <=>
            /\ att.sourceHash = hash
            /\ NumParam(rule, "minVersion") # Missing =>
                 2 * att.version >= NumParam(rule, "minVersion")
            /\ 2 * Now < 2 * att.validUntil /\ att.cleared
      BY <1>1, <1>3, <2>4 DEF AttestationClears
    <3>2. ClearsPin(ctx, type, hash, least) <=>
            att.sourceHash = hash /\ att.version >= least /\ Now < att.validUntil /\ att.cleared
      BY <2>4 DEF ClearsPin
    <3>3. att.version \in Nat /\ att.validUntil \in Int /\ Now \in Int
      BY <1>2, <2>4
    <3> HIDE DEF att
    <3>4. 2 * Now < 2 * att.validUntil <=> Now < att.validUntil
      BY <3>3
    <3>5. (NumParam(rule, "minVersion") # Missing =>
             2 * att.version >= NumParam(rule, "minVersion")) <=> att.version >= least
      BY <1>3, <2>2, <3>3
    <3> QED  BY <2>1, <3>1, <3>2, <3>4, <3>5
  <2> QED  BY <2>3, <2>4
<1> HIDE DEF seen
<1>4. ClearsPin(ctx, type, hash, 0) => Good(Allows(Anchored(type, hash), ctx))
  <2> DEFINE params == [sourceHash |-> hash]
             read == AsRead(type, params)
  <2>1. DOMAIN params = {"sourceHash"} /\ params["sourceHash"] = hash
        /\ "sourceHash" \notin NumericKeys /\ "minVersion" # "sourceHash"
    BY DEF NumericKeys
  <2> HIDE DEF params
  <2>2. SmallParams(params)
    BY <2>1 DEF SmallParams
  <2>3. /\ StrParam(read, "sourceHash") = hash /\ NumParam(read, "minVersion") = Missing
        /\ read.type = type
    BY <2>1, ParamsRead
  <2>4. EvalRule(read, Seen(ctx)) => Good(Allows(TestRule(type, params), ctx))
    BY <2>2, OneTestRule
  <2> HIDE DEF read
  <2>5. EvalRule(read, seen) <=> ClearsPin(ctx, type, hash, 0)
    BY <1>3, <2>3
  <2> QED  BY <2>4, <2>5 DEF params, seen, Anchored
<1>5. ASSUME NEW least \in Small
      PROVE  LET rule == TestRule(type, [sourceHash |-> hash, minVersion |-> Num(least)])
             IN  /\ ClearsPin(ctx, type, hash, least) => Good(Allows(rule, ctx))
                 /\ ~ClearsPin(ctx, type, hash, least) => Good(BlocksOn(rule, ctx))
  <2> DEFINE params == [sourceHash |-> hash, minVersion |-> Num(least)]
             read == AsRead(type, params)
  <2>1. DOMAIN params = {"sourceHash", "minVersion"} /\ params["sourceHash"] = hash
        /\ params["minVersion"] = Num(least)
        /\ "sourceHash" \notin NumericKeys /\ "minVersion" \in NumericKeys
    BY DEF NumericKeys
  <2> HIDE DEF params
  <2>2. SmallParams(params)
    BY <2>1 DEF SmallParams
  <2>3. least \in Nat
    BY DEF Small
  <2>4. StrParam(read, "sourceHash") = hash
    BY <2>1, ParamsRead
  <2>5. NumParam(read, "minVersion") = 2 * least
    BY <2>1, <2>3, ParamsRead
  <2>6. read.type = type
    BY ParamsRead
  <2>7. /\ EvalRule(read, Seen(ctx)) => Good(Allows(TestRule(type, params), ctx))
        /\ ~EvalRule(read, Seen(ctx)) => Good(BlocksOn(TestRule(type, params), ctx))
    BY <2>2, OneTestRule
  <2> HIDE DEF read
  <2>8. EvalRule(read, seen) <=> ClearsPin(ctx, type, hash, least)
    BY <1>3, <2>3, <2>4, <2>5, <2>6
  <2> QED  BY <2>7, <2>8 DEF params, seen
<1> QED  BY <1>4, <1>5 DEF seen

\* The cases of sanctions screening.
LEMMA SanctionsAnswered == ASSUME MissingApart PROVE \A v \in SanctionsCases : Good(v)
<1> DEFINE pinned == "OFAC-2026-06-04"
           attested(cleared, version, sourceHash, validUntil) ==
             Attested("SANCTIONS_SCREENING", cleared, version, sourceHash, validUntil)
<1>1. ASSUME NEW ctx, TestAsset(ctx),
             \A t \in DOMAIN ctx.attestations : AttestationShape(ctx.attestations[t])
      PROVE  /\ ClearsPin(ctx, "SANCTIONS_SCREENING", pinned, 7) => Good(Allows(SanctionsRule, ctx))
             /\ ~ClearsPin(ctx, "SANCTIONS_SCREENING", pinned, 7) =>
                  Good(BlocksOn(SanctionsRule, ctx))
  <2>1. pinned # Missing
    BY DEF MissingApart
  <2>2. 7 \in Small
    BY DEF Small, Future, Now
  <2>3. \A least \in Small :
          LET rule == TestRule("SANCTIONS_SCREENING",
                               [sourceHash |-> pinned, minVersion |-> Num(least)])
          IN  /\ ClearsPin(ctx, "SANCTIONS_SCREENING", pinned, least) => Good(Allows(rule, ctx))
              /\ ~ClearsPin(ctx, "SANCTIONS_SCREENING", pinned, least) => Good(BlocksOn(rule, ctx))
    BY <1>1, <2>1, OracleRules
  <2> QED  BY <2>2, <2>3 DEF SanctionsRule
<1>2. ASSUME NEW cleared, NEW version \in Small, NEW hash, NEW until \in Int
      PROVE  LET ok == hash = pinned /\ version >= 7 /\ Now < until /\ cleared
                 ctx == attested(cleared, version, hash, until)
             IN  /\ ok => Good(Allows(SanctionsRule, ctx))
                 /\ ~ok => Good(BlocksOn(SanctionsRule, ctx))
  <2> DEFINE ctx == attested(cleared, version, hash, until)
  <2>1. /\ TestAsset(ctx)
        /\ \A t \in DOMAIN ctx.attestations : AttestationShape(ctx.attestations[t])
        /\ \A pin, least : ClearsPin(ctx, "SANCTIONS_SCREENING", pin, least) <=>
             hash = pin /\ version >= least /\ Now < until /\ cleared
    BY AttestedFacts, Zenon
  <2> HIDE DEF ctx
  <2> QED  BY <1>1, <2>1 DEF ctx
<1>3. /\ 9 \in Small /\ 3 \in Small /\ ~(3 >= 7) /\ 9 >= 7
      /\ Future \in Int /\ Past \in Int /\ Now < Future /\ ~(Now < Past)
  BY DEF Small, Future, Past, Now
<1>4. Good(BlocksOn(SanctionsRule, Bare))
  <2>1. DOMAIN Bare.attestations = {} /\ TestAsset(Bare)
    BY BareFacts
  <2>2. ~ClearsPin(Bare, "SANCTIONS_SCREENING", pinned, 7)
    BY <2>1 DEF ClearsPin
  <2> QED  BY <1>1, <2>1, <2>2
<1>5. "WRONG" # pinned
  OBVIOUS
<1> HIDE DEF pinned, attested
<1>6. /\ Good(Allows(SanctionsRule, attested(TRUE, 9, pinned, Future)))
      /\ Good(BlocksOn(SanctionsRule, attested(TRUE, 9, "WRONG", Future)))
      /\ Good(BlocksOn(SanctionsRule, attested(TRUE, 3, pinned, Future)))
      /\ Good(BlocksOn(SanctionsRule, attested(TRUE, 9, pinned, Past)))
      /\ Good(BlocksOn(SanctionsRule, attested(FALSE, 9, pinned, Future)))
  BY <1>2, <1>3, <1>5
<1>7. SanctionsCases =
        { Allows(SanctionsRule, attested(TRUE, 9, pinned, Future)),
          BlocksOn(SanctionsRule, Bare),
          BlocksOn(SanctionsRule, attested(TRUE, 9, "WRONG", Future)),
          BlocksOn(SanctionsRule, attested(TRUE, 3, pinned, Future)),
          BlocksOn(SanctionsRule, attested(TRUE, 9, pinned, Past)),
          BlocksOn(SanctionsRule, attested(FALSE, 9, pinned, Future)) }
  BY DEF SanctionsCases, attested, pinned
<1> QED  BY <1>4, <1>6, <1>7

\* The asset is not active, the list is empty, the rule is of another scope or only flags:
\* the rules do not come to decide.
LEMMA NothingBlocks ==
  /\ \A v \in StateAndScopeCases : Good(v)
  /\ Good(Allows([UnpinnedSanctions EXCEPT !.action = "FLAG"], Bare))
<1> DEFINE unpinned == [sourceHash |-> "OFAC-2026-06-04"]
           restricted == [Bare EXCEPT !.state = "RESTRICTED"]
           screening == TestRule("SANCTIONS_SCREENING", NoParams)
           foreign == [UnpinnedSanctions EXCEPT !.scope = "US"]
           flag == [UnpinnedSanctions EXCEPT !.action = "FLAG"]
<1>1. /\ TestAsset(Bare) /\ SmallParams(NoParams) /\ Bare.jurisdiction = "GE"
  BY BareFacts DEF Bare, TestContext
<1>2. Seen(Bare).state = "ACTIVE" /\ Seen(Bare).jurisdiction = "GE" /\ Bare.state = "ACTIVE"
  BY <1>1, ContextRead DEF TestAsset
<1>3. Good(Case(<<screening>>, restricted, FALSE, 0))
  <2> DEFINE v == Case(<<screening>>, restricted, FALSE, 0)
  <2>1. DOMAIN <<screening>> = {1} /\ <<screening>>[1] = screening /\ screening.params = NoParams
    BY DEF TestRule
  <2>2. /\ DOMAIN restricted = DOMAIN Bare /\ restricted.state = "RESTRICTED"
        /\ restricted.sender = Bare.sender /\ restricted.amount = Bare.amount
        /\ restricted.attestations = Bare.attestations
    BY <1>1 DEF TestAsset
  <2> HIDE DEF restricted, screening
  <2>3. v.rules = <<screening>> /\ v.ctx = restricted /\ v.expected = Decision(FALSE, 0)
    BY DEF Case
  <2> HIDE DEF v
  <2>4. SmallVector(v)
    BY <1>1, <2>1, <2>2, <2>3 DEF SmallVector, SmallContext, TestAsset
  <2>5. PythonReads(v).ctx = Seen(restricted)
    BY <2>3, Zenon DEF PythonReads, Read, Seen
  <2>6. Seen(restricted).state = "RESTRICTED"
    BY <1>1, <2>2, ContextRead DEF TestAsset
  <2>7. Answered(v)
    BY <2>3, <2>5, <2>6 DEF Answered, Verdicts
  <2> QED  BY <2>4, <2>7 DEF Good, v
<1>4. Good(Case(<<>>, Bare, TRUE, 0))
  <2> DEFINE v == Case(<<>>, Bare, TRUE, 0)
  <2>1. v.rules = <<>> /\ v.ctx = Bare /\ v.expected = Decision(TRUE, 0) /\ DOMAIN <<>> = {}
    BY DEF Case
  <2> HIDE DEF v
  <2>2. SmallVector(v)
    BY <1>1, <2>1 DEF SmallVector, TestAsset
  <2>3. PythonReads(v).ctx = Seen(Bare) /\ DOMAIN PythonReads(v).rules = {}
    BY <2>1, Zenon DEF PythonReads, Read, Seen
  <2>4. Answered(v)
    BY <1>2, <2>1, <2>3 DEF Answered, Verdicts, Allowed
  <2> QED  BY <2>2, <2>4 DEF Good, v
<1>5. ASSUME NEW rule, rule.params = unpinned,
             ~Blocks(ReadRule(rule, PythonNum), Seen(Bare))
      PROVE  Good(Allows(rule, Bare))
  <2>1. SmallParams(rule.params)
    BY <1>5 DEF SmallParams, NumericKeys
  <2>2. Answered(Allows(rule, Bare))
    BY <1>2, <1>5, OneRule
  <2>3. /\ Allows(rule, Bare).rules = <<rule>> /\ Allows(rule, Bare).ctx = Bare
        /\ \A i \in DOMAIN <<rule>> : <<rule>>[i] = rule
    BY DEF Allows, Case
  <2>4. SmallVector(Allows(rule, Bare))
    BY <1>1, <2>1, <2>3 DEF SmallVector, TestAsset
  <2> QED  BY <2>2, <2>4 DEF Good
<1>6. ASSUME NEW rule
      PROVE  /\ "scope" \in DOMAIN rule => ReadRule(rule, PythonNum).scope = rule.scope
             /\ "action" \in DOMAIN rule => ReadRule(rule, PythonNum).action = rule.action
  BY DEF ReadRule
<1>7. /\ foreign.params = unpinned /\ foreign.scope = "US" /\ "scope" \in DOMAIN foreign
      /\ flag.params = unpinned /\ flag.action = "FLAG" /\ "action" \in DOMAIN flag
  BY DEF UnpinnedSanctions, Anchored, TestRule
<1> HIDE DEF foreign, flag
<1>8. Good(Allows(foreign, Bare))
  <2>1. ~Blocks(ReadRule(foreign, PythonNum), Seen(Bare))
    BY <1>2, <1>6, <1>7 DEF Blocks, ScopeApplies
  <2> QED  BY <1>5, <1>7, <2>1
<1>9. Good(Allows(flag, Bare))
  <2>1. ~Blocks(ReadRule(flag, PythonNum), Seen(Bare))
    BY <1>6, <1>7 DEF Blocks, Blocking
  <2> QED  BY <1>5, <1>7, <2>1
<1>10. StateAndScopeCases = { Case(<<screening>>, restricted, FALSE, 0), Case(<<>>, Bare, TRUE, 0),
                              Allows(foreign, Bare) }
  BY DEF StateAndScopeCases, foreign
<1> HIDE DEF screening, restricted
<1> QED  BY <1>3, <1>4, <1>8, <1>9, <1>10 DEF flag

\* The case of two rules that block, the second of which comes first.
Sending(n) == [Bare EXCEPT !.amount = n]
LaterThreshold ==
  [TestRule("TRANSACTION_THRESHOLD", [thresholdAmount |-> Num(1000)]) EXCEPT !.priority = 2]
TwoBlock == Case(<<LaterThreshold, UnpinnedSanctions>>, Sending(5000), FALSE, 2)

\* It is the second that is named.
LEMMA PriorityAnswered == ASSUME MissingApart PROVE Good(TwoBlock)
<1> DEFINE params == [thresholdAmount |-> Num(1000)]
           later == LaterThreshold
           ctx == Sending(5000)
           rules == <<later, UnpinnedSanctions>>
           v == TwoBlock
           first == ReadRule(later, PythonNum)
           second == ReadRule(UnpinnedSanctions, PythonNum)
<1>1. /\ 1000 \in Small /\ 5000 \in Small /\ ~(5000 <= 1000) /\ 1000 \in Int
      /\ 2 * 1000 # Missing
  BY DEF Small, Future, Now, MissingApart
<1>2. TestAsset(ctx) /\ ctx.amount = 5000 /\ ctx.attestations = NoParams /\ DOMAIN NoParams = {}
  <2>1. ASSUME NEW n \in Small
        PROVE  TestAsset(Sending(n)) /\ Sending(n).amount = n
    BY BareVariants DEF Sending
  <2>2. ctx.attestations = Bare.attestations
    BY BareFacts DEF TestAsset, Sending
  <2> QED  BY <1>1, <2>1, <2>2, BareFacts
<1> HIDE DEF ctx
<1>3. /\ Seen(ctx).state = "ACTIVE" /\ Seen(ctx).amount = 2 * 5000
      /\ DOMAIN Seen(ctx).attestations = {}
  BY <1>2, ContextRead DEF TestAsset
<1>4. /\ DOMAIN params = {"thresholdAmount"} /\ params["thresholdAmount"] = Num(1000)
      /\ "thresholdAmount" \in NumericKeys
  BY DEF NumericKeys
<1>5. /\ later.type = "TRANSACTION_THRESHOLD" /\ later.scope = "*" /\ later.action = "REJECT"
      /\ later.priority = 2 /\ later.params = params
      /\ DOMAIN later = {"type", "scope", "action", "priority", "params"}
  BY DEF LaterThreshold, TestRule
<1> HIDE DEF params
<1>6. /\ UnpinnedSanctions.type = "SANCTIONS_SCREENING" /\ UnpinnedSanctions.scope = "*"
      /\ UnpinnedSanctions.action = "REJECT" /\ UnpinnedSanctions.priority = 1
      /\ UnpinnedSanctions.params = [sourceHash |-> "OFAC-2026-06-04"]
      /\ DOMAIN UnpinnedSanctions = {"type", "scope", "action", "priority", "params"}
  BY DEF UnpinnedSanctions, Anchored, TestRule
<1> HIDE DEF later
<1>7. ASSUME NEW rule, DOMAIN rule = {"type", "scope", "action", "priority", "params"}
      PROVE  LET read == ReadRule(rule, PythonNum)
             IN  /\ read.type = rule.type /\ read.scope = rule.scope
                 /\ read.action = rule.action /\ read.priority = rule.priority
                 /\ read.params = ReadParams(rule.params)
  BY <1>7 DEF ReadRule, ReadParams
<1>8. Blocks(first, Seen(ctx)) /\ first.priority = 2
  <2>1. ReadParams(params)["thresholdAmount"] = 2 * 1000
        /\ "thresholdAmount" \in DOMAIN ReadParams(params)
    BY <1>1, <1>4, NumRead DEF ReadParams
  <2>2. /\ first.type = "TRANSACTION_THRESHOLD" /\ first.scope = "*" /\ first.action = "REJECT"
        /\ first.priority = 2 /\ first.params = ReadParams(params)
    BY <1>5, <1>7
  <2> HIDE DEF first
  <2>3. NumParam(first, "thresholdAmount") = 2 * 1000
    BY <2>1, <2>2 DEF NumParam
  <2>4. ~EvalRule(first, Seen(ctx))
    BY <1>3, <2>2, <2>3, TypesEvaluated DEF WithinThreshold
  <2> QED  BY <2>2, <2>4 DEF Blocks, ScopeApplies, Blocking
<1>9. Blocks(second, Seen(ctx)) /\ second.priority = 1
  <2>1. /\ second.type = "SANCTIONS_SCREENING" /\ second.scope = "*" /\ second.action = "REJECT"
        /\ second.priority = 1
    BY <1>6, <1>7
  <2> HIDE DEF second
  <2>2. ~EvalRule(second, Seen(ctx))
    BY <1>3, <2>1, TypesEvaluated DEF AttestationClears
  <2> QED  BY <2>1, <2>2 DEF Blocks, ScopeApplies, Blocking
<1>10. DOMAIN rules = {1, 2} /\ rules[1] = later /\ rules[2] = UnpinnedSanctions
  OBVIOUS
<1> HIDE DEF rules, first, second
<1>11. v.rules = rules /\ v.ctx = ctx /\ v.expected = Decision(FALSE, 2)
  BY DEF TwoBlock, Case, rules, later, ctx
<1> HIDE DEF v
<1>12. SmallVector(v)
  <2>1. SmallParams(params)
    BY <1>1, <1>4 DEF SmallParams
  <2>2. SmallParams(UnpinnedSanctions.params)
    BY <1>6 DEF SmallParams, NumericKeys
  <2> QED  BY <1>2, <1>5, <1>10, <1>11, <2>1, <2>2 DEF SmallVector, TestAsset
<1>13. /\ PythonReads(v).ctx = Seen(ctx) /\ DOMAIN PythonReads(v).rules = {1, 2}
       /\ PythonReads(v).rules[1] = first /\ PythonReads(v).rules[2] = second
  <2>1. PythonReads(v).rules = [i \in {1, 2} |-> ReadRule(rules[i], PythonNum)]
    BY <1>10, <1>11, Zenon DEF PythonReads, Read
  <2>2. PythonReads(v).ctx = Seen(ctx)
    BY <1>11, Zenon DEF PythonReads, Read, Seen
  <2> QED  BY <1>10, <2>1, <2>2, Zenon DEF first, second
<1>14. ASSUME NEW r, r.ctx = Seen(ctx), DOMAIN r.rules = {1, 2},
              r.rules[1] = first, r.rules[2] = second, NEW s \in BOOLEAN,
              NEW x \in Verdicts(r, s)
       PROVE  x = Decision(FALSE, 2)
  <2>1. Blamed(r.rules, r.ctx, s) = {2}
    BY <1>8, <1>9, <1>14 DEF Blamed
  <2>2. ~Allowed(r.rules, r.ctx)
    BY <1>8, <1>14 DEF Allowed
  <2>3. r.ctx.state = "ACTIVE"
    BY <1>3, <1>14
  <2>4. \E i \in Blamed(r.rules, r.ctx, s) : x = Decision(FALSE, i)
    BY <2>2, <2>3 DEF Verdicts
  <2> QED  BY <2>1, <2>4
<1>15. Answered(v)
  BY <1>11, <1>13, <1>14 DEF Answered
<1> QED  BY <1>12, <1>15 DEF Good, v

\* The other cases of oracles.
LEMMA OraclesAnswered == ASSUME MissingApart PROVE \A v \in OracleAndPriorityCases : Good(v)
<1> DEFINE cleared(type, hash) ==
             Allows(Anchored(type, hash), Attested(type, TRUE, 1, hash, Future))
           flagged == Allows([UnpinnedSanctions EXCEPT !.action = "FLAG"], Bare)
<1>1. ASSUME NEW type \in {"AML_TRIGGER", "REDEMPTION_ELIGIBILITY"}, NEW hash, hash # Missing
      PROVE  Good(cleared(type, hash))
  <2>1. ASSUME NEW c, c, NEW version \in Small, NEW until \in Int, Now < until
        PROVE  Good(Allows(Anchored(type, hash), Attested(type, c, version, hash, until)))
    <3> DEFINE ctx == Attested(type, c, version, hash, until)
    <3>1. /\ TestAsset(ctx)
          /\ \A t \in DOMAIN ctx.attestations : AttestationShape(ctx.attestations[t])
          /\ \A pin, least : ClearsPin(ctx, type, pin, least) <=>
               hash = pin /\ version >= least /\ Now < until /\ c
      BY AttestedFacts, Zenon
    <3> HIDE DEF ctx
    <3>2. version >= 0
      BY DEF Small
    <3>3. ClearsPin(ctx, type, hash, 0)
      BY <2>1, <3>1, <3>2
    <3>4. ClearsPin(ctx, type, hash, 0) => Good(Allows(Anchored(type, hash), ctx))
      BY <1>1, <3>1, OracleRules
    <3> QED  BY <3>3, <3>4 DEF ctx
  <2>2. 1 \in Small /\ Future \in Int /\ Now < Future
    BY DEF Small, Future, Now
  <2> QED  BY <2>1, <2>2
<1>2. "AML-2026" # Missing /\ "NAV-2026" # Missing
  BY DEF MissingApart
<1>3. Good(TwoBlock)
  BY PriorityAnswered
<1>4. Good(flagged)
  BY NothingBlocks
<1>5. OracleAndPriorityCases = { cleared("AML_TRIGGER", "AML-2026"),
                                 cleared("REDEMPTION_ELIGIBILITY", "NAV-2026"), TwoBlock, flagged }
  BY DEF OracleAndPriorityCases, TwoBlock, LaterThreshold, Sending
<1> HIDE DEF cleared, flagged
<1> QED  BY <1>1, <1>2, <1>3, <1>4, <1>5

\* Every SDK passes the shipped vectors, wherever it runs, for every word size and every
\* precision of doubles that hold the numbers in them.
THEOREM ShippedPass == ASSUME NumbersFit, MissingApart PROVE Spec => []ShippedVectorsPass
<1>1. ResultsOK => ShippedVectorsPass
  <2> SUFFICES ASSUME ResultsOK, vector \in Cases, NEW sdk \in Sdk, Reported(sdk)
               PROVE  results[sdk] = vector.expected
    BY DEF ShippedVectorsPass
  <2>1. Good(vector)
    BY PartiesAnswered, MarketAnswered, SanctionsAnswered, OraclesAnswered, NothingBlocks DEF Cases
  <2>2. SafeVector(vector)
    BY <2>1, SmallIsSafe DEF Good
  <2>3. Reads(sdk, vector) = PythonReads(vector)
    BY <2>2, SafeReads DEF ResultsOK
  <2>4. results[sdk] \in Verdicts(PythonReads(vector), sdk # "go")
    BY <2>3 DEF ResultsOK
  <2>5. (sdk # "go") \in BOOLEAN
    OBVIOUS
  <2> QED  BY <2>1, <2>4, <2>5 DEF Good, Answered
<1> QED
  BY <1>1, ResultsCorrect, PTL
=============================================================================
