----------------------- MODULE ComplianceEngineProofs -----------------------
(***************************************************************************)
(* The verdict of the compliance engine, for every list of rules, every    *)
(* context and every order the sort may leave the rules in.                *)
(***************************************************************************)
EXTENDS ComplianceEngine, OperatorLemmas

-----------------------------------------------------------------------------
(* The sort and the loop *)

\* What the loop knows of the order it follows: it visits every rule, and what it
\* visits earlier comes before.
LEMMA SortedOrderFacts ==
  ASSUME NEW rs, NEW p \in SortedOrders(rs)
  PROVE  /\ p \in [DOMAIN rs -> DOMAIN rs]
         /\ \A i \in DOMAIN rs : \E k \in DOMAIN rs : p[k] = i
         /\ \A k, l \in DOMAIN rs : k < l => Precedes(rs, p[k], p[l])
BY DEF SortedOrders, Bijection, Injection, Surjection

\* Type correctness of the evaluation; the loop follows a sorted order throughout.
THEOREM TypeCorrect == Spec => []TypeOK
<1>1. Init => TypeOK
  BY EngineParameters DEF Init, TypeOK, Decision
<1>2. TypeOK /\ [Next]_vars => TypeOK'
  <2> SUFFICES ASSUME TypeOK, [Next]_vars PROVE TypeOK'
    OBVIOUS
  <2>1. Len(rules) \in Nat /\ DOMAIN rules = 1 .. Len(rules)
    BY EngineParameters DEF TypeOK
  <2>2. CASE StateGate
    BY <2>1, <2>2 DEF StateGate, Return, Decision, TypeOK, input
  <2>3. CASE Sort
    BY <2>1, <2>3 DEF Sort, TypeOK, input, SortedOrders, Precedes
  <2>4. CASE SkipOutOfScope \/ PassRule
    <3>1. /\ pc = "loop" /\ next \in 1 .. Len(rules) /\ next' = next + 1
          /\ UNCHANGED <<rules, ctx, stable, pc, order, decision>>
      BY <2>1, <2>4 DEF SkipOutOfScope, PassRule, InLoop, Continue, input
    <3>2. SortedOrders(rules)' = SortedOrders(rules)
      BY <3>1 DEF SortedOrders, Precedes
    <3>3. QED
      BY <2>1, <3>1, <3>2 DEF TypeOK
  <2>5. CASE BlockOnRule
    <3>1. order[next] \in DOMAIN rules
      BY <2>5, SortedOrderFacts DEF BlockOnRule, InLoop, TypeOK
    <3>2. QED
      BY <2>1, <2>5, <3>1 DEF BlockOnRule, Return, Decision, TypeOK, input
  <2>6. CASE AllowTransfer
    BY <2>1, <2>6 DEF AllowTransfer, Return, Decision, TypeOK, input
  <2>7. CASE UNCHANGED vars
    BY <2>7 DEF vars, input, TypeOK, SortedOrders, Precedes
  <2>8. QED
    BY <2>2, <2>3, <2>4, <2>5, <2>6, <2>7 DEF Next
<1>3. QED
  BY <1>1, <1>2, PTL DEF Spec

\* The loop computes the conjunction and blames the first blocking rule: inductive
\* because the rules gone past do not block and the order visits every rule once.
THEOREM ScanCorrect == Spec => []ScanInv
<1> USE DEF Decision
<1>1. Init => ScanInv
  BY DEF Init, ScanInv, VerdictIsConjunction, BlameIsFirst
<1>2. TypeOK /\ TypeOK' /\ ScanInv /\ [Next]_vars => ScanInv'
  <2> SUFFICES ASSUME TypeOK, TypeOK', ScanInv, [Next]_vars PROVE ScanInv'
    OBVIOUS
  <2>1. Len(rules) \in Nat /\ DOMAIN rules = 1 .. Len(rules) /\ next \in 1 .. Len(rules) + 1
    BY EngineParameters DEF TypeOK
  <2>2. CASE StateGate
    <3>1. Allowed(rules, ctx) = FALSE
      BY <2>2 DEF StateGate, Allowed
    <3>2. /\ pc' = "done" /\ decision'.allowed = FALSE /\ decision'.blockedBy = 0
          /\ UNCHANGED <<rules, ctx>> /\ ctx.state # "ACTIVE"
      BY <2>2 DEF StateGate, Return, input
    <3>3. QED
      BY <3>1, <3>2 DEF ScanInv, VerdictIsConjunction, BlameIsFirst
  <2>3. CASE Sort
    <3>1. pc' = "loop" /\ next' = next /\ UNCHANGED <<rules, ctx>> /\ ctx.state = "ACTIVE"
      BY <2>3 DEF Sort, input
    <3>2. next = 1
      BY <2>3 DEF Sort, ScanInv
    <3>3. \A k \in 1 .. next' - 1 : ~Blocks(rules'[order'[k]], ctx')
      BY <3>1, <3>2
    <3>4. VerdictIsConjunction' /\ BlameIsFirst'
      BY <3>1 DEF VerdictIsConjunction, BlameIsFirst
    <3>5. QED
      BY <3>1, <3>3, <3>4 DEF ScanInv
  <2>4. CASE SkipOutOfScope \/ PassRule
    <3>1. ~Blocks(rules[order[next]], ctx)
      BY <2>4 DEF SkipOutOfScope, PassRule, Current, Blocks
    <3>2. /\ pc = "loop" /\ next' = next + 1
          /\ UNCHANGED <<rules, ctx, order, pc>>
      BY <2>4 DEF SkipOutOfScope, PassRule, InLoop, Continue, input
    <3>3. \A k \in 1 .. next' - 1 : ~Blocks(rules[order[k]], ctx)
      BY <2>1, <3>1, <3>2 DEF ScanInv
    <3>4. QED
      BY <3>2, <3>3 DEF ScanInv, VerdictIsConjunction, BlameIsFirst
  <2>5. CASE BlockOnRule
    <3> DEFINE i == order[next]
    <3>1. /\ pc = "loop" /\ next \in DOMAIN rules /\ Blocks(rules[i], ctx)
          /\ order \in SortedOrders(rules)
      BY <2>5 DEF BlockOnRule, InLoop, Current, TypeOK
    <3>2. i \in DOMAIN rules
      BY <3>1, SortedOrderFacts
    <3>3. /\ pc' = "done" /\ decision'.allowed = FALSE /\ decision'.blockedBy = i
          /\ UNCHANGED <<rules, ctx, stable>>
      BY <2>5 DEF BlockOnRule, Return, input
    <3>4. ctx.state = "ACTIVE" /\ \A k \in 1 .. next - 1 : ~Blocks(rules[order[k]], ctx)
      BY <3>1 DEF ScanInv
    <3>5. ASSUME NEW j \in DOMAIN rules \ {i}, Blocks(rules[j], ctx)
          PROVE  Precedes(rules, i, j)
      <4>1. PICK k \in DOMAIN rules : order[k] = j
        BY <3>1, SortedOrderFacts
      <4>2. next < k
        BY <2>1, <3>1, <3>4, <3>5, <4>1
      <4>3. QED
        BY <3>1, <4>1, <4>2, SortedOrderFacts
    <3>6. \A j \in DOMAIN rules \ {i} : Blocks(rules[j], ctx) =>
             \/ rules[i].priority < rules[j].priority
             \/ rules[i].priority = rules[j].priority /\ (stable => i < j)
      BY <3>5 DEF Precedes
    <3>7. VerdictIsConjunction'
      BY <3>1, <3>2, <3>3 DEF VerdictIsConjunction, Allowed
    <3>8. BlameIsFirst'
      BY <3>1, <3>2, <3>3, <3>4, <3>6 DEF BlameIsFirst, Precedes
    <3>9. QED
      BY <3>3, <3>7, <3>8 DEF ScanInv
  <2>6. CASE AllowTransfer
    <3>1. pc = "loop" /\ next = Len(rules) + 1 /\ order \in SortedOrders(rules)
      BY <2>1, <2>6 DEF AllowTransfer, TypeOK
    <3>2. \A i \in DOMAIN rules : ~Blocks(rules[i], ctx)
      <4> TAKE i \in DOMAIN rules
      <4>1. PICK k \in DOMAIN rules : order[k] = i
        BY <3>1, SortedOrderFacts
      <4>2. QED
        BY <2>1, <3>1, <4>1 DEF ScanInv
    <3>3. Allowed(rules, ctx) = TRUE
      BY <3>1, <3>2 DEF Allowed, ScanInv
    <3>4. pc' = "done" /\ decision'.allowed = TRUE /\ UNCHANGED <<rules, ctx>>
      BY <2>6 DEF AllowTransfer, Return, input
    <3>5. QED
      BY <3>3, <3>4 DEF ScanInv, VerdictIsConjunction, BlameIsFirst
  <2>7. CASE UNCHANGED vars
    BY <2>7 DEF vars, input, ScanInv, VerdictIsConjunction, BlameIsFirst, Precedes
  <2>8. QED
    BY <2>2, <2>3, <2>4, <2>5, <2>6, <2>7 DEF Next
<1>3. QED
  BY <1>1, <1>2, TypeCorrect, PTL DEF Spec

\* The verdict never depends on the order the sort left the rules in.
COROLLARY Verdict == Spec => []VerdictIsConjunction
<1>1. ScanInv => VerdictIsConjunction
  BY DEF ScanInv
<1>2. QED
  BY <1>1, ScanCorrect, PTL

\* The rule reported is the first blocking one.
COROLLARY Blame == Spec => []BlameIsFirst
<1>1. ScanInv => BlameIsFirst
  BY DEF ScanInv
<1>2. QED
  BY <1>1, ScanCorrect, PTL

\* Failing closed, for every context: supplying what was missing never turns an allowed
\* transfer into a blocked one.
THEOREM FailsClosed == Spec => []IgnoranceNeverHelps
<1>1. TypeOK /\ ScanInv => IgnoranceNeverHelps
  BY AllowedMonotone DEF ScanInv, VerdictIsConjunction, IgnoranceNeverHelps
<1>2. QED
  BY <1>1, TypeCorrect, ScanCorrect, PTL

-----------------------------------------------------------------------------
(* The refinement *)

\* Sorting and looping implement a service that answers in one step: every return gives
\* an answer the service may give, and every other step is invisible to its caller.
THEOREM EngineRefines == Spec => Service!Safety
<1>1. Init => Service!Init
  BY DEF Init, Service!Init, input
<1>2. TypeOK /\ ScanInv /\ TypeOK' /\ ScanInv' /\ [Next]_vars => [Service!Answer]_(Service!vars)
  <2> SUFFICES ASSUME TypeOK, ScanInv, TypeOK', ScanInv', [Next]_vars
               PROVE  [Service!Answer]_(Service!vars)
    OBVIOUS
  <2>1. CASE UNCHANGED vars
    BY <2>1, Zenon DEF vars, Service!vars
  <2>2. CASE Sort \/ SkipOutOfScope \/ PassRule
    <3>1. pc # "done" /\ pc' # "done" /\ UNCHANGED <<rules, ctx, stable>>
      BY <2>2 DEF Sort, SkipOutOfScope, PassRule, InLoop, Continue, input
    <3> QED
      BY <3>1 DEF Service!vars, input
  <2>3. ASSUME pc # "done", pc' = "done", UNCHANGED <<rules, ctx, stable>>,
               decision' \in Verdicts([rules |-> rules, ctx |-> ctx], stable)
        PROVE  Service!Answer
    BY <2>3 DEF Service!Answer, EngineAnswers, input
  <2>4. CASE StateGate
    <3>1. /\ pc # "done" /\ pc' = "done" /\ UNCHANGED <<rules, ctx, stable>>
          /\ ctx.state # "ACTIVE" /\ decision' = Decision(FALSE, 0)
      BY <2>4 DEF StateGate, Return, input
    <3> QED
      BY <2>3, <3>1 DEF Verdicts
  <2>5. CASE BlockOnRule
    <3>1. /\ pc = "loop" /\ pc' = "done" /\ UNCHANGED <<rules, ctx, stable>>
          /\ decision' = Decision(FALSE, order[next])
      BY <2>5 DEF BlockOnRule, InLoop, Return, input
    <3>2. ctx.state = "ACTIVE" /\ ~Allowed(rules, ctx)
      BY <3>1 DEF ScanInv, VerdictIsConjunction, Decision
    <3>3. order[next] \in Blamed(rules, ctx, stable)
      BY <3>1, <3>2 DEF ScanInv, BlameIsFirst, Precedes, Blamed, Decision
    <3> QED
      BY <2>3, <3>1, <3>2, <3>3 DEF Verdicts
  <2>6. CASE AllowTransfer
    <3>1. /\ pc = "loop" /\ pc' = "done" /\ UNCHANGED <<rules, ctx, stable>>
          /\ decision' = Decision(TRUE, 0)
      BY <2>6 DEF AllowTransfer, Return, input
    <3>2. ctx.state = "ACTIVE" /\ Allowed(rules, ctx)
      BY <3>1 DEF ScanInv, VerdictIsConjunction, Decision
    <3> QED
      BY <2>3, <3>1, <3>2 DEF Verdicts
  <2> QED
    BY <2>1, <2>2, <2>4, <2>5, <2>6 DEF Next
<1> QED
  BY <1>1, <1>2, TypeCorrect, ScanCorrect, PTL DEF Spec, Service!Safety
-----------------------------------------------------------------------------
(* The return *)

\* The order a stable sort makes: by priority, and by the list among equals.
Before(rs, i, j) ==
  \/ rs[i].priority < rs[j].priority
  \/ rs[i].priority = rs[j].priority /\ i < j
Earlier(rs, i) == {j \in DOMAIN rs : Before(rs, j, i)}
Rank(rs) == [i \in DOMAIN rs |-> Cardinality(Earlier(rs, i)) + 1]

\* No two rules have one rank, and so every rank is some rule's.
LEMMA RanksPermute ==
  ASSUME NEW rs \in RuleList
  PROVE  /\ Rank(rs) \in [DOMAIN rs -> DOMAIN rs]
         /\ \A i, j \in DOMAIN rs : Before(rs, i, j) => Rank(rs)[i] < Rank(rs)[j]
         /\ \A k \in DOMAIN rs : \E i \in DOMAIN rs : Rank(rs)[i] = k
<1> DEFINE n == Len(rs)
           S == DOMAIN rs
<1>1. n \in Nat /\ S = 1 .. n /\ \A i \in S : rs[i].priority \in Int
  BY EngineParameters
<1>2. IsFiniteSet(S) /\ Cardinality(S) = n
  <2>1. 1 \in Int /\ n \in Int /\ (1 > n => n = 0) /\ n - 1 + 1 = n
    BY <1>1
  <2> HIDE DEF n
  <2>2. IsFiniteSet(1 .. n) /\ Cardinality(1 .. n) = IF 1 > n THEN 0 ELSE n - 1 + 1
    BY <2>1, FS_Interval
  <2>3. IsFiniteSet(1 .. n) /\ Cardinality(1 .. n) = n
    BY <2>1, <2>2
  <2> QED  BY <1>1, <2>3
<1> HIDE DEF n, S
<1>3. ASSUME NEW i \in S, NEW X \in SUBSET (S \ {i})
      PROVE  IsFiniteSet(X) /\ Cardinality(X) \in 0 .. n - 1
  <2>1. IsFiniteSet(S \ {i}) /\ Cardinality(S \ {i}) = n - 1
    BY <1>2, FS_RemoveElement
  <2>2. IsFiniteSet(X) /\ Cardinality(X) <= n - 1
    BY <2>1, FS_Subset
  <2>3. Cardinality(X) \in Nat
    BY <2>2, FS_CardinalityType
  <2> QED  BY <1>1, <2>2, <2>3
<1>4. ASSUME NEW i \in S
      PROVE  /\ Earlier(rs, i) \in SUBSET (S \ {i})
             /\ IsFiniteSet(Earlier(rs, i)) /\ Cardinality(Earlier(rs, i)) \in 0 .. n - 1
  <2>1. Earlier(rs, i) \in SUBSET (S \ {i})
    BY <1>1 DEF Earlier, Before, S
  <2> QED  BY <1>3, <2>1
<1>5. Rank(rs) \in [S -> S]
  <2>1. \A i \in S : Cardinality(Earlier(rs, i)) + 1 \in S
    BY <1>1, <1>4
  <2> QED  BY <2>1 DEF Rank, S
<1>6. ASSUME NEW i \in S, NEW j \in S, Before(rs, i, j)
      PROVE  Rank(rs)[i] < Rank(rs)[j]
  <2> DEFINE A == Earlier(rs, i)
             B == Earlier(rs, j)
  <2>1. A \subseteq B /\ i \in B /\ i \notin A
    BY <1>1, <1>6 DEF Earlier, Before, S
  <2>2. /\ IsFiniteSet(A) /\ Cardinality(A) \in Nat
        /\ IsFiniteSet(B) /\ Cardinality(B) \in Nat
    BY <1>1, <1>4
  <2>3. Rank(rs)[i] = Cardinality(A) + 1 /\ Rank(rs)[j] = Cardinality(B) + 1
    BY DEF Rank, S
  <2> HIDE DEF A, B
  <2>4. IsFiniteSet(B \ {i}) /\ Cardinality(B \ {i}) = Cardinality(B) - 1
    BY <2>1, <2>2, FS_RemoveElement
  <2>5. Cardinality(A) <= Cardinality(B \ {i})
    <3>1. A \in SUBSET (B \ {i})
      BY <2>1
    <3> QED  BY <2>4, <3>1, FS_Subset
  <2> QED  BY <2>2, <2>3, <2>4, <2>5
<1>7. Rank(rs) \in Injection(S, S)
  <2>1. ASSUME NEW i \in S, NEW j \in S, Rank(rs)[i] = Rank(rs)[j]
        PROVE  i = j
    <3>1. Before(rs, i, j) \/ Before(rs, j, i) \/ i = j
      BY <1>1 DEF Before, S
    <3>2. Rank(rs)[i] \in Int
      BY <1>1, <1>5
    <3> QED  BY <1>6, <2>1, <3>1, <3>2
  <2> QED  BY <1>5, <2>1 DEF Injection, IsInjective
<1>8. Rank(rs) \in Surjection(S, S)
  BY <1>2, <1>7, FS_Injection
<1> QED  BY <1>5, <1>6, <1>8 DEF Surjection, S

\* Some order agrees with the priorities, whatever rules the list holds.
LEMMA Sortable ==
  ASSUME NEW rs \in RuleList
  PROVE  SortedOrders(rs) # {}
<1> DEFINE n == Len(rs)
           S == DOMAIN rs
           r == Rank(rs)
           p == [k \in S |-> CHOOSE i \in S : r[i] = k]
<1>1. n \in Nat /\ S = 1 .. n /\ \A i \in S : rs[i].priority \in Int
  BY EngineParameters
<1>2. /\ r \in [S -> S]
      /\ \A i, j \in S : Before(rs, i, j) => r[i] < r[j]
      /\ \A k \in S : \E i \in S : r[i] = k
  BY RanksPermute
<1>3. \A i, j \in S : Before(rs, i, j) \/ Before(rs, j, i) \/ i = j
  BY <1>1 DEF Before
<1> HIDE DEF r, S, n
<1>4. p \in [S -> S] /\ \A k \in S : r[p[k]] = k
  BY <1>2
<1> HIDE DEF p
<1>5. ASSUME NEW i \in S, NEW j \in S, r[i] = r[j]
      PROVE  i = j
  <2>1. r[i] \in Int
    BY <1>1, <1>2
  <2>2. ~Before(rs, i, j) /\ ~Before(rs, j, i)
    BY <1>2, <1>5, <2>1
  <2> QED  BY <1>3, <2>2
<1>6. \A i \in S : p[r[i]] = i
  BY <1>2, <1>4, <1>5
<1>7. p \in Bijection(S, S)
  <2>1. \A k \in S : \E i \in S : p[i] = k
    BY <1>2, <1>6
  <2>2. \A k, l \in S : p[k] = p[l] => k = l
    BY <1>4
  <2>3. p \in Injection(S, S)
    BY <1>4, <2>2 DEF Injection, IsInjective
  <2>4. p \in Surjection(S, S)
    BY <1>4, <2>1 DEF Surjection
  <2> QED  BY <2>3, <2>4 DEF Bijection
<1>8. ASSUME NEW k \in S, NEW l \in S, k < l
      PROVE  Precedes(rs, p[k], p[l])
  <2>1. p[k] \in S /\ p[l] \in S /\ r[p[k]] = k /\ r[p[l]] = l
    BY <1>4
  <2>2. k \in Int /\ l \in Int /\ ~(l < k) /\ k # l
    BY <1>1, <1>8
  <2>3. Before(rs, p[l], p[k]) => l < k
    BY <1>2, <2>1
  <2>4. Before(rs, p[k], p[l])
    BY <1>3, <2>1, <2>2, <2>3
  <2> QED  BY <2>4 DEF Before, Precedes
<1>9. p \in SortedOrders(rs)
  BY <1>7, <1>8 DEF SortedOrders, S
<1> QED  BY <1>9

\* The call is never stuck at its sort: there is an order it may leave the rules in.
THEOREM SortSucceeds == Spec => [](SortedOrders(rules) # {})
<1>1. TypeOK => SortedOrders(rules) # {}
  BY Sortable DEF TypeOK
<1> QED  BY <1>1, TypeCorrect, PTL

\* The steps the call has left: one to sort, one for a rule, one to return.
StepsLeft ==
  IF pc = "done" THEN 0
  ELSE IF pc = "loop" THEN Len(rules) + 2 - next
  ELSE Len(rules) + 2

Nearer == StepsLeft \in 1 .. Len(rules) + 2 /\ StepsLeft' \in 0 .. StepsLeft - 1

\* Every step brings the return nearer, whatever the rules: the evaluation takes at most
\* two steps more than there are rules.
THEOREM ReturnsInTime == Spec => [][Nearer]_vars
<1>1. TypeOK /\ ScanInv /\ [Next]_vars => [Nearer]_vars
  <2> SUFFICES ASSUME TypeOK, ScanInv, Next
               PROVE  Nearer
    OBVIOUS
  <2> USE DEF Nearer
  <2>1. Len(rules) \in Nat /\ DOMAIN rules = 1 .. Len(rules) /\ next \in 1 .. Len(rules) + 1
    BY EngineParameters DEF TypeOK
  <2>2. CASE StateGate
    BY <2>1, <2>2 DEF StateGate, Return, StepsLeft
  <2>3. CASE Sort
    BY <2>1, <2>3 DEF Sort, ScanInv, StepsLeft, input
  <2>4. CASE SkipOutOfScope \/ PassRule
    <3>1. pc = "loop" /\ next \in 1 .. Len(rules) /\ next' = next + 1 /\ UNCHANGED <<pc, rules>>
      BY <2>1, <2>4 DEF SkipOutOfScope, PassRule, InLoop, Continue, input
    <3> QED  BY <2>1, <3>1 DEF StepsLeft
  <2>5. CASE BlockOnRule
    BY <2>1, <2>5 DEF BlockOnRule, InLoop, Return, StepsLeft
  <2>6. CASE AllowTransfer
    BY <2>1, <2>6 DEF AllowTransfer, Return, StepsLeft
  <2> QED  BY <2>2, <2>3, <2>4, <2>5, <2>6 DEF Next
<1> QED  BY <1>1, TypeCorrect, ScanCorrect, PTL DEF Spec
=============================================================================
