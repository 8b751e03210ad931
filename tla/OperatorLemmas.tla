--------------------------- MODULE OperatorLemmas ---------------------------
(***************************************************************************)
(* Facts about the operators the models are built from: the rule           *)
(* predicates, which fail closed; division with remainder, for shares of a *)
(* fee and digits of a number; the sum of a function over a finite set, in *)
(* which the supply and the fee shares are stated; and sequences laid end  *)
(* to end, as texts and the fields of an identifier are.                   *)
(*                                                                         *)
(* Sums and flattening are recursive, so their facts need induction.       *)
(* Induction is stated here over a SET of good numbers or subsets, which   *)
(* the provers can instantiate, and follows from the well-foundedness of < *)
(* and of strict inclusion.                                                *)
(***************************************************************************)
EXTENDS ComplianceRules, SequencesExt, FiniteSetTheorems, SequenceTheorems,
        WellFoundedInduction, TLAPS

-----------------------------------------------------------------------------
(* Rules *)

\* An attestation that clears still clears when more is known.
LEMMA AttestationMonotone ==
  ASSUME NEW rule, NEW less, NEW more, Withholds(less, more), AttestationClears(rule, less)
  PROVE  AttestationClears(rule, more)
<1>1. rule.type \in DOMAIN more.attestations
  BY DEF Withholds, AttestationClears, IsRestriction
<1>2. less.attestations[rule.type] = more.attestations[rule.type]
  BY <1>1 DEF Withholds, AttestationClears, IsRestriction
<1>3. less.timestamp = more.timestamp
  BY DEF Withholds
<1>4. QED
  BY <1>1, <1>2, <1>3 DEF AttestationClears

\* Fail-closed predicates: a rule that holds with some inputs withheld holds with them.
THEOREM RuleMonotone ==
  ASSUME NEW rule, NEW less, NEW more, Withholds(less, more), EvalRule(rule, less)
  PROVE  EvalRule(rule, more)
<1>1. ASSUME PartiesValid(rule, less) PROVE PartiesValid(rule, more)
  BY <1>1 DEF PartiesValid, Withholds
<1>2. ASSUME ClassAllowed(rule, less) PROVE ClassAllowed(rule, more)
  BY <1>2 DEF ClassAllowed, Withholds
<1>3. ASSUME HeldLongEnough(rule, less) PROVE HeldLongEnough(rule, more)
  <2>1. less.sender.acquired = more.sender.acquired /\ less.timestamp = more.timestamp
    BY <1>3 DEF HeldLongEnough, Withholds
  <2>2. QED
    BY <1>3, <2>1 DEF HeldLongEnough
<1>4. ASSUME JurisdictionsClear(rule, less) PROVE JurisdictionsClear(rule, more)
  <2>1. /\ less.sender.jurisdiction = more.sender.jurisdiction
        /\ less.receiver.jurisdiction = more.receiver.jurisdiction
    BY <1>4 DEF JurisdictionsClear, Withholds
  <2>2. QED
    BY <1>4, <2>1 DEF JurisdictionsClear
<1>5. ASSUME WithinThreshold(rule, less) PROVE WithinThreshold(rule, more)
  BY <1>5 DEF WithinThreshold, Withholds
<1>6. ASSUME MarketOpen(rule, less) PROVE MarketOpen(rule, more)
  <2>1. less.timestamp = more.timestamp
    BY DEF Withholds
  <2>2. QED
    BY <1>6, <2>1, AttestationMonotone DEF MarketOpen
<1>7. QED
  BY <1>1, <1>2, <1>3, <1>4, <1>5, <1>6, AttestationMonotone DEF EvalRule

\* With none of its parameters there a rule about anything but the parties' validity is
\* false, for every context, but for one: a geographic rule, which holds of any two
\* parties whose jurisdictions are known.
THEOREM WithoutParameters ==
  ASSUME NEW rule, NEW ctx, DOMAIN rule.params = {}, rule.type # "TRANSFER_ELIGIBILITY"
  PROVE  EvalRule(rule, ctx) <=>
           /\ rule.type = "GEOGRAPHIC_RESTRICTION"
           /\ ctx.sender.jurisdiction # Missing /\ ctx.receiver.jurisdiction # Missing
<1>1. ASSUME NEW key
      PROVE  /\ NumParam(rule, key) = Missing /\ StrParam(rule, key) = Missing
             /\ ListParam(rule, key) = {}
  BY DEF NumParam, StrParam, ListParam
<1>2. ~ClassAllowed(rule, ctx)
  BY <1>1 DEF ClassAllowed
<1>3. ~HeldLongEnough(rule, ctx) /\ ~WithinThreshold(rule, ctx)
  BY <1>1 DEF HeldLongEnough, WithinThreshold
<1>4. ~AttestationClears(rule, ctx) /\ ~MarketOpen(rule, ctx)
  BY <1>1 DEF AttestationClears, MarketOpen
<1>5. JurisdictionsClear(rule, ctx) <=>
        ctx.sender.jurisdiction # Missing /\ ctx.receiver.jurisdiction # Missing
  BY <1>1 DEF JurisdictionsClear
<1> QED  BY <1>2, <1>3, <1>4, <1>5 DEF EvalRule

\* Hence the whole decision: what is allowed on less evidence is allowed on more.
THEOREM AllowedMonotone ==
  ASSUME NEW rs, NEW less, NEW more, Withholds(less, more), Allowed(rs, less)
  PROVE  Allowed(rs, more)
<1>1. more.state = less.state /\ more.jurisdiction = less.jurisdiction
  BY DEF Withholds
<1>2. ASSUME NEW i \in DOMAIN rs, Blocks(rs[i], more) PROVE Blocks(rs[i], less)
  BY <1>1, <1>2, RuleMonotone DEF Blocks, ScopeApplies
<1>3. QED
  BY <1>1, <1>2 DEF Allowed

-----------------------------------------------------------------------------
(* Induction *)

\* A set with 0 in it that each of its naturals has a successor in holds them all.
LEMMA NatInductionInSet ==
  ASSUME NEW F, 0 \in F, \A n \in Nat : n \in F => n + 1 \in F
  PROVE  Nat \subseteq F
<1> DEFINE T == Nat \ F
<1>1. ASSUME T # {} PROVE FALSE
  <2>1. PICK x \in T : \A y \in T : ~(<<y, x>> \in OpToRel(<, Nat))
    <3> HIDE DEF T
    <3>1. T \subseteq Nat
      BY DEF T
    <3>2. QED
      BY <1>1, <3>1, NatLessThanWellFounded, WFMin
  <2>2. x \in Nat /\ x \notin F
    OBVIOUS
  <2>3. x - 1 \in Nat /\ x - 1 < x /\ x = (x - 1) + 1
    <3>1. x # 0
      BY <2>2, Zenon
    <3>2. QED
      BY <2>2, <3>1
  <2>4. <<x - 1, x>> \in OpToRel(<, Nat)
    BY <2>2, <2>3 DEF OpToRel
  <2>5. x - 1 \in F
    BY <2>1, <2>3, <2>4
  <2>6. QED
    BY <2>2, <2>3, <2>5
<1>2. QED
  BY <1>1

\* A finite set belongs to F where F takes every subset whose strict subsets it has.
LEMMA SubsetInduction ==
  ASSUME NEW S, IsFiniteSet(S), NEW F,
         \A T \in SUBSET S : (\A U \in SUBSET T : U # T => U \in F) => T \in F
  PROVE  S \in F
<1> DEFINE Bad == (SUBSET S) \ F
<1>1. ASSUME Bad # {} PROVE FALSE
  <2>0. Bad \subseteq FiniteSubsetsOf(S)
    BY FS_FiniteSubsetsOfFinite
  <2>1. PICK T \in Bad : \A U \in Bad : ~(<<U, T>> \in StrictSubsetOrdering(S))
    <3> HIDE DEF Bad
    <3>1. QED
      BY <1>1, <2>0, FS_StrictSubsetOrderingWellFounded, WFMin
  <2>2. ASSUME NEW U \in SUBSET T, U # T PROVE U \in F
    <3>1. <<U, T>> \in StrictSubsetOrdering(S)
      BY <2>2 DEF StrictSubsetOrdering
    <3>2. QED
      BY <2>1, <3>1
  <2>3. QED
    BY <2>2
<1>2. QED
  BY <1>1

-----------------------------------------------------------------------------
(* Division *)

\* Division with remainder.
LEMMA Remainder ==
  ASSUME NEW w \in Nat \ {0}, NEW p \in Int
  PROVE  p \div w \in Int /\ p % w \in 0 .. w - 1 /\ p = (p \div w) * w + (p % w)
OBVIOUS

\* The remainder is unique.
LEMMA RemainderUnique ==
  ASSUME NEW w \in Nat \ {0}, NEW d \in Int, NEW e \in Int,
         NEW r \in 0 .. w - 1, NEW s \in 0 .. w - 1, d * w + r = e * w + s
  PROVE  r = s
<1>1. ASSUME NEW x \in Int, NEW y \in Int, x > y PROVE x * w >= y * w + w
  <2>1. PICK z \in Nat : x = (y + 1) + z
    <3>1. x - (y + 1) \in Nat /\ x = (y + 1) + (x - (y + 1))
      BY <1>1
    <3>2. QED
      BY <3>1
  <2>2. x * w = (y * w + w) + z * w
    BY <2>1
  <2>3. z * w \in Nat /\ y * w \in Int
    OBVIOUS
  <2>4. QED
    BY <2>2, <2>3
<1>2. d * w \in Int /\ e * w \in Int
  OBVIOUS
<1>3. ~(d > e) /\ ~(e > d)
  BY <1>1, <1>2
<1>4. QED
  BY <1>2, <1>3

\* One more digit to the base 256 extends the remainder.
LEMMA DigitStep ==
  ASSUME NEW p \in Nat \ {0}, NEW x \in Int
  PROVE  x % (256 * p) = ((x \div p) % 256) * p + (x % p)
<1> DEFINE q == x \div p
           r == x % p
           e == q \div 256
           b == q % 256
           w == 256 * p
           d == x \div w
           s == x % w
<1>1. q \in Int /\ r \in 0 .. p - 1 /\ x = q * p + r
  BY Remainder
<1>2. e \in Int /\ b \in 0 .. 255 /\ q = e * 256 + b
  <2>1. q \in Int
    BY <1>1
  <2> HIDE DEF q
  <2>2. 256 \in Nat \ {0}
    OBVIOUS
  <2> QED  BY <2>1, <2>2, Remainder
<1>3. w \in Nat \ {0}
  OBVIOUS
<1>4. d \in Int /\ s \in 0 .. w - 1 /\ x = d * w + s
  <2> HIDE DEF w
  <2> QED  BY <1>3, Remainder
<1> HIDE DEF q, r, e, b, d, s
<1>5. b * p \in 0 .. 255 * p
  <2>1. \A i \in 0 .. 255 : i * p \in 0 .. 255 * p
    OBVIOUS
  <2> QED  BY <1>2, <2>1
<1>6. b * p + r \in 0 .. w - 1
  BY <1>1, <1>5
<1>7. x = e * w + (b * p + r)
  <2>1. q * p = (e * 256) * p + b * p
    BY <1>2
  <2>2. (e * 256) * p = e * w
    BY <1>2
  <2>3. e * w \in Int /\ b * p \in Int /\ r \in Int
    BY <1>1, <1>2, <1>5
  <2>4. x = (e * w + b * p) + r
    BY <1>1, <2>1, <2>2, Zenon
  <2>5. \A i, j, k \in Int : (i + j) + k = i + (j + k)
    OBVIOUS
  <2> HIDE DEF w
  <2> QED  BY <2>3, <2>4, <2>5
<1>8. s = b * p + r
  <2> HIDE DEF w
  <2>1. b * p + r \in 0 .. w - 1
    BY <1>6
  <2>2. d * w + s = e * w + (b * p + r)
    BY <1>4, <1>7
  <2> DEFINE z == b * p + r
  <2> HIDE DEF z
  <2>3. z \in 0 .. w - 1 /\ d * w + s = e * w + z
    BY <2>1, <2>2 DEF z
  <2>4. s = z
    BY <1>2, <1>3, <1>4, <2>3, RemainderUnique
  <2> QED  BY <2>4 DEF z
<1> QED  BY <1>8 DEF s, b, q, r

\* Numbers of one remainder differ by a multiple.
LEMMA SameRemainder ==
  ASSUME NEW w \in Nat \ {0}, NEW m \in Int, NEW n \in Int, m % w = n % w
  PROVE  (m - n) % w = 0
<1> DEFINE i == m \div w
           j == n \div w
           r == m % w
           d == (m - n) \div w
           s == (m - n) % w
<1>1. i \in Int /\ r \in 0 .. w - 1 /\ m = i * w + r
  BY Remainder
<1>2. j \in Int /\ n = j * w + r
  BY Remainder
<1>3. m - n \in Int
  OBVIOUS
<1>4. d \in Int /\ s \in 0 .. w - 1 /\ m - n = d * w + s
  BY <1>3, Remainder
<1> HIDE DEF i, j, r, d, s
<1>5. m - n = (i - j) * w + 0
  <2>1. (i - j) * w = i * w - j * w
    BY <1>1, <1>2
  <2>2. i * w \in Int /\ j * w \in Int
    BY <1>1, <1>2
  <2> QED  BY <1>1, <1>2, <2>1, <2>2
<1>6. i - j \in Int /\ 0 \in 0 .. w - 1
  BY <1>1, <1>2
<1>7. s = 0
  <2> DEFINE k == i - j
  <2>1. k \in Int /\ d * w + s = k * w + 0
    BY <1>4, <1>5, <1>6
  <2> HIDE DEF k
  <2> QED  BY <1>4, <1>6, <2>1, RemainderUnique
<1> QED  BY <1>7 DEF s

-----------------------------------------------------------------------------
(* Sums *)

Pick(s) == CHOOSE x \in s : TRUE

\* The sum over s, given the sums over smaller sets: the equation the fold is defined by.
SumStep(f, g, s) == IF s = {} THEN 0 ELSE f[Pick(s)] + g[s \ {Pick(s)}]

Sums(f, F) == CHOOSE g : g = [s \in F |-> SumStep(f, g, s)]

\* The community modules' sum, its fold expanded.
LEMMA SumUnfolds ==
  ASSUME NEW f, NEW S
  PROVE SumFunctionOnSet(f, S) = Sums(f, SUBSET S)[S]
BY DEF SumFunctionOnSet, FoldFunctionOnSet, MapThenFoldSet, Sums, Pick, SumStep

\* The fold picks an element of the set.
LEMMA PickIn == ASSUME NEW s, s # {} PROVE Pick(s) \in s
BY DEF Pick

\* Some function satisfies the equation: built up to one cardinality after another.
LEMMA SumsExist ==
  ASSUME NEW f, NEW S, IsFiniteSet(S)
  PROVE  \E g : g = [s \in SUBSET S |-> SumStep(f, g, s)]
<1> DEFINE Upto(n) == {s \in SUBSET S : Cardinality(s) <= n}
           IsSum(g, n) == g = [s \in Upto(n) |-> SumStep(f, g, s)]
           Good == {n \in Nat : \E g : IsSum(g, n)}
<1>1. ASSUME NEW s \in SUBSET S
      PROVE  IsFiniteSet(s) /\ Cardinality(s) \in Nat /\ (Cardinality(s) = 0 <=> s = {})
  BY FS_Subset, FS_CardinalityType, FS_EmptySet
<1>2. ASSUME NEW n \in Nat, NEW s \in Upto(n + 1), s # {}
      PROVE  s \ {Pick(s)} \in Upto(n)
  <2>1. Cardinality(s \ {Pick(s)}) = Cardinality(s) - 1
    BY <1>1, <1>2, PickIn, FS_RemoveElement
  <2>2. QED
    BY <1>1, <2>1
<1>3. 0 \in Good
  <2>1. Upto(0) = {{}}
    BY <1>1, FS_EmptySet
  <2>2. IsSum([s \in Upto(0) |-> 0], 0)
    BY <2>1 DEF SumStep
  <2>3. QED
    BY <2>2
<1>4. ASSUME NEW n \in Nat, n \in Good PROVE n + 1 \in Good
  <2>1. PICK g : IsSum(g, n)
    BY <1>4
  <2> DEFINE h == [s \in Upto(n + 1) |-> SumStep(f, g, s)]
  <2>2. Upto(n) \subseteq Upto(n + 1)
    BY <1>1
  <2>3. ASSUME NEW s \in Upto(n) PROVE h[s] = g[s]
    BY <2>1, <2>2, <2>3
  <2>4. ASSUME NEW s \in Upto(n + 1) PROVE SumStep(f, g, s) = SumStep(f, h, s)
    <3> HIDE DEF h, Upto
    <3>1. QED
      BY <1>2, <2>3, <2>4 DEF SumStep
  <2>5. IsSum(h, n + 1)
    <3>1. h = [s \in Upto(n + 1) |-> SumStep(f, h, s)]
      BY <2>4, Zenon
    <3>2. QED
      BY <3>1
  <2>6. QED
    <3> HIDE DEF IsSum, h
    <3>1. QED
      BY <2>5
<1>5. Cardinality(S) \in Good
  <2> HIDE DEF Good
  <2>1. Nat \subseteq Good
    BY <1>3, <1>4, NatInductionInSet
  <2>2. QED
    BY <2>1, FS_CardinalityType
<1>6. Upto(Cardinality(S)) = SUBSET S
  BY FS_Subset
<1>7. QED
  BY <1>5, <1>6

\* So the chosen one does.
LEMMA SumsAt ==
  ASSUME NEW f, NEW S, IsFiniteSet(S), NEW s \in SUBSET S
  PROVE  Sums(f, SUBSET S)[s] = SumStep(f, Sums(f, SUBSET S), s)
<1>1. Sums(f, SUBSET S) = [u \in SUBSET S |-> SumStep(f, Sums(f, SUBSET S), u)]
  BY SumsExist, Zenon DEF Sums
<1>2. [u \in SUBSET S |-> SumStep(f, Sums(f, SUBSET S), u)][s]
        = SumStep(f, Sums(f, SUBSET S), s)
  BY Zenon
<1>3. QED
  BY <1>1, <1>2, Zenon

\* The sum over s depends neither on the set it is computed within nor on values outside s.
LEMMA SumsAgreeOn ==
  ASSUME NEW f, NEW g, NEW S, IsFiniteSet(S), NEW T, IsFiniteSet(T),
         NEW s, s \subseteq S, s \subseteq T, \A x \in s : f[x] = g[x]
  PROVE  Sums(f, SUBSET S)[s] = Sums(g, SUBSET T)[s]
<1> DEFINE Same == {u \in SUBSET s : Sums(f, SUBSET S)[u] = Sums(g, SUBSET T)[u]}
<1>1. IsFiniteSet(s)
  BY FS_Subset
<1>2. ASSUME NEW u \in SUBSET s, \A v \in SUBSET u : v # u => v \in Same PROVE u \in Same
  <2>1. /\ Sums(f, SUBSET S)[u] = SumStep(f, Sums(f, SUBSET S), u)
        /\ Sums(g, SUBSET T)[u] = SumStep(g, Sums(g, SUBSET T), u)
    BY SumsAt
  <2>2. CASE u = {}
    BY <2>1, <2>2 DEF SumStep
  <2>3. CASE u # {}
    <3>1. Pick(u) \in u /\ u \ {Pick(u)} \in SUBSET u /\ u \ {Pick(u)} # u
      BY <2>3, PickIn
    <3>2. u \ {Pick(u)} \in Same /\ f[Pick(u)] = g[Pick(u)]
      BY <1>2, <3>1
    <3>3. QED
      BY <2>1, <2>3, <3>2 DEF SumStep
  <2>4. QED
    BY <2>2, <2>3
<1>3. s \in Same
  <2> HIDE DEF Same
  <2>1. QED
    BY <1>1, <1>2, SubsetInduction
<1>4. QED
  BY <1>3

\* Functions that agree on a finite set have one sum over it.
LEMMA SumSame ==
  ASSUME NEW f, NEW g, NEW S, IsFiniteSet(S), \A x \in S : f[x] = g[x]
  PROVE  SumFunctionOnSet(f, S) = SumFunctionOnSet(g, S)
<1>1. Sums(f, SUBSET S)[S] = Sums(g, SUBSET S)[S]
  BY SumsAgreeOn
<1>2. QED
  BY <1>1, SumUnfolds

\* The defining equation, in sums alone.
LEMMA SumPicked ==
  ASSUME NEW f, NEW S, IsFiniteSet(S)
  PROVE  SumFunctionOnSet(f, S)
           = IF S = {} THEN 0 ELSE f[Pick(S)] + SumFunctionOnSet(f, S \ {Pick(S)})
<1>1. SumFunctionOnSet(f, S) = SumStep(f, Sums(f, SUBSET S), S)
  <2>1. SumFunctionOnSet(f, S) = Sums(f, SUBSET S)[S]
    BY SumUnfolds
  <2>2. Sums(f, SUBSET S)[S] = SumStep(f, Sums(f, SUBSET S), S)
    BY SumsAt
  <2>3. QED
    BY <2>1, <2>2, Zenon
<1>2. ASSUME S # {}
      PROVE  Sums(f, SUBSET S)[S \ {Pick(S)}] = SumFunctionOnSet(f, S \ {Pick(S)})
  <2> DEFINE R == S \ {Pick(S)}
  <2>1. IsFiniteSet(R) /\ R \subseteq S
    BY FS_RemoveElement
  <2> HIDE DEF R
  <2>2. Sums(f, SUBSET S)[R] = Sums(f, SUBSET R)[R]
    BY <2>1, SumsAgreeOn
  <2>3. Sums(f, SUBSET R)[R] = SumFunctionOnSet(f, R)
    BY SumUnfolds
  <2>4. QED
    BY <2>2, <2>3, Zenon DEF R
<1>3. QED
  BY <1>1, <1>2 DEF SumStep

\* A sum stays within any type that has 0 and is closed under addition: Int, Nat, {0}.
LEMMA SumType ==
  ASSUME NEW f, NEW S, IsFiniteSet(S), NEW Typ, 0 \in Typ,
         \A t, u \in Typ : t + u \in Typ, \A x \in S : f[x] \in Typ
  PROVE  SumFunctionOnSet(f, S) \in Typ
<1> DEFINE F == {s \in SUBSET S : SumFunctionOnSet(f, s) \in Typ}
<1>1. ASSUME NEW s \in SUBSET S, \A u \in SUBSET s : u # s => u \in F PROVE s \in F
  <2>1. IsFiniteSet(s)
    BY FS_Subset
  <2>2. CASE s = {}
    <3>1. SumFunctionOnSet(f, s) = 0
      BY <2>1, <2>2, SumPicked
    <3>2. QED
      BY <3>1
  <2>3. CASE s # {}
    <3> DEFINE r == s \ {Pick(s)}
    <3>1. SumFunctionOnSet(f, r) \in Typ /\ f[Pick(s)] \in Typ
      BY <1>1, <2>3, PickIn
    <3>2. SumFunctionOnSet(f, s) = f[Pick(s)] + SumFunctionOnSet(f, r)
      BY <2>1, <2>3, SumPicked
    <3>3. f[Pick(s)] + SumFunctionOnSet(f, r) \in Typ
      <4> HIDE DEF r
      <4>1. QED
        BY <3>1
    <3>4. QED
      BY <3>2, <3>3
  <2>4. QED
    BY <2>2, <2>3
<1>2. S \in F
  <2> HIDE DEF F
  <2>1. QED
    BY <1>1, SubsetInduction
<1>3. QED
  BY <1>2

\* Any element can be taken out of a sum of integers, not only the one the fold picks.
LEMMA SumRemove ==
  ASSUME NEW f, NEW S, IsFiniteSet(S), \A x \in S : f[x] \in Int, NEW a \in S
  PROVE  SumFunctionOnSet(f, S) = f[a] + SumFunctionOnSet(f, S \ {a})
<1> DEFINE Sum(s) == SumFunctionOnSet(f, s)
           F == {s \in SUBSET S : \A x \in s : Sum(s) = f[x] + Sum(s \ {x})}
<1>1. ASSUME NEW s \in SUBSET S PROVE IsFiniteSet(s) /\ Sum(s) \in Int
  <2>1. IsFiniteSet(s)
    BY FS_Subset
  <2>2. QED
    BY <2>1, SumType
<1>2. ASSUME NEW s \in SUBSET S, s # {} PROVE Sum(s) = f[Pick(s)] + Sum(s \ {Pick(s)})
  BY <1>1, <1>2, SumPicked
<1> HIDE DEF Sum
<1>3. ASSUME NEW s \in SUBSET S, \A u \in SUBSET s : u # s => u \in F PROVE s \in F
  <2> SUFFICES ASSUME NEW x \in s PROVE Sum(s) = f[x] + Sum(s \ {x})
    OBVIOUS
  <2> DEFINE p == Pick(s)
  <2>1. p \in s /\ Sum(s) = f[p] + Sum(s \ {p})
    BY <1>2, PickIn
  <2> HIDE DEF p
  <2>2. CASE x = p
    BY <2>1, <2>2
  <2>3. CASE x # p
    <3>1. /\ s \ {p} \in SUBSET s /\ s \ {p} # s /\ x \in s \ {p}
          /\ s \ {x} \in SUBSET s /\ s \ {x} # s /\ p \in s \ {x}
      BY <2>1, <2>3
    <3> DEFINE r == s \ {p, x}
    <3>2. r \in SUBSET S /\ (s \ {p}) \ {x} = r /\ (s \ {x}) \ {p} = r
      OBVIOUS
    <3> HIDE DEF r
    <3>3. Sum(s \ {p}) = f[x] + Sum(r) /\ Sum(s \ {x}) = f[p] + Sum(r)
      BY <1>3, <3>1, <3>2
    <3>4. Sum(r) \in Int /\ f[x] \in Int /\ f[p] \in Int
      BY <1>1, <2>1, <3>2
    <3>5. \A i, j, k \in Int : i + (j + k) = j + (i + k)
      OBVIOUS
    <3>6. Sum(s) = f[p] + (f[x] + Sum(r))
      BY <2>1, <3>3, Zenon
    <3>7. Sum(s) = f[x] + (f[p] + Sum(r))
      BY <3>4, <3>5, <3>6
    <3>8. QED
      BY <3>3, <3>7, Zenon
  <2>4. QED
    BY <2>2, <2>3
<1>4. S \in F
  <2> HIDE DEF F
  <2>1. QED
    BY <1>3, SubsetInduction
<1>5. QED
  BY <1>4 DEF Sum

\* Changing one value changes the sum by as much.
LEMMA SumExcept ==
  ASSUME NEW S, IsFiniteSet(S), NEW f \in [S -> Int], NEW a \in S, NEW v \in Int
  PROVE  SumFunction([f EXCEPT ![a] = v]) = (SumFunction(f) - f[a]) + v
<1> DEFINE g == [f EXCEPT ![a] = v]
           R == S \ {a}
<1>1. g \in [S -> Int] /\ g[a] = v /\ \A x \in R : g[x] = f[x]
  OBVIOUS
<1>2. DOMAIN f = S /\ DOMAIN g = S /\ IsFiniteSet(R)
  BY FS_RemoveElement
<1>3. SumFunctionOnSet(f, R) = SumFunctionOnSet(g, R)
  <2> HIDE DEF g, R
  <2>1. QED
    BY <1>1, <1>2, SumSame
<1>4. SumFunctionOnSet(f, S) = f[a] + SumFunctionOnSet(f, R)
  BY SumRemove
<1>5. SumFunctionOnSet(g, S) = g[a] + SumFunctionOnSet(g, R)
  <2> HIDE DEF g
  <2>1. QED
    BY <1>1, SumRemove
<1>6. SumFunctionOnSet(f, R) \in Int
  BY <1>2, SumType
<1>7. f[a] \in Int
  OBVIOUS
<1>8. QED
  <2> HIDE DEF g, R
  <2>1. SumFunction(g) = v + SumFunctionOnSet(f, R)
    BY <1>1, <1>2, <1>3, <1>5 DEF SumFunction
  <2>2. SumFunction(f) = f[a] + SumFunctionOnSet(f, R)
    BY <1>2, <1>4 DEF SumFunction
  <2>3. SumFunction(g) = (SumFunction(f) - f[a]) + v
    BY <1>6, <1>7, <2>1, <2>2
  <2>4. QED
    BY <2>3 DEF g

\* The sum of a sequence's first k + 1 values adds the last to that of its first k.
LEMMA SumPrefix ==
  ASSUME NEW q \in Seq(Int), NEW k \in Nat, k < Len(q)
  PROVE  SumFunctionOnSet(q, 1 .. k + 1) = SumFunctionOnSet(q, 1 .. k) + q[k + 1]
<1> DEFINE S == 1 .. k + 1
           a == k + 1
<1>1. a \in S /\ S \ {a} = 1 .. k /\ \A x \in S : q[x] \in Int
  OBVIOUS
<1>2. IsFiniteSet(S) /\ IsFiniteSet(1 .. k)
  BY FS_Interval
<1>3. SumFunctionOnSet(q, S) = q[a] + SumFunctionOnSet(q, S \ {a})
  <2> HIDE DEF S, a
  <2>1. QED
    BY <1>1, <1>2, SumRemove
<1>4. SumFunctionOnSet(q, 1 .. k) \in Int
  BY <1>1, <1>2, SumType
<1>5. SumFunctionOnSet(q, S) = q[a] + SumFunctionOnSet(q, 1 .. k)
  BY <1>1, <1>3, Zenon
<1>6. q[a] \in Int
  BY <1>1
<1>7. q[a] + SumFunctionOnSet(q, 1 .. k) = SumFunctionOnSet(q, 1 .. k) + q[a]
  <2>1. \A t, u \in Int : t + u = u + t
    OBVIOUS
  <2> HIDE DEF a
  <2>2. QED
    BY <1>4, <1>6, <2>1
<1>8. QED
  BY <1>5, <1>7

-----------------------------------------------------------------------------
(* Sequences *)

\* A sequence that is not empty has a last element, after the others.
LEMMA LastSplit ==
  ASSUME NEW S, NEW x \in Seq(S), Len(x) # 0
  PROVE  \E y \in Seq(S), e \in S : x = Append(y, e) /\ Len(y) = Len(x) - 1
<1> DEFINE y == [i \in 1 .. Len(x) - 1 |-> x[i]]
           e == x[Len(x)]
<1>1. Len(x) \in Nat /\ Len(x) - 1 \in Nat /\ \A i \in 1 .. Len(x) : x[i] \in S
  OBVIOUS
<1>2. e \in S
  BY <1>1
<1>3. y \in Seq(S) /\ Len(y) = Len(x) - 1
  BY <1>1
<1>4. x = Append(y, e)
  BY <1>1, <1>2, <1>3
<1> QED  BY <1>2, <1>3, <1>4

\* Where two sequences laid end to end are one, so are their parts of equal length.
LEMMA FrontsCancel ==
  ASSUME NEW S, NEW a \in Seq(S), NEW b \in Seq(S), NEW c \in Seq(S), NEW d \in Seq(S),
         Len(a) = Len(c), a \o b = c \o d
  PROVE  a = c /\ b = d
<1>1. Len(a) \in Nat /\ Len(b) \in Nat /\ Len(c) \in Nat /\ Len(d) \in Nat
  OBVIOUS
<1>2. /\ Len(a \o b) = Len(a) + Len(b)
      /\ \A k \in 1 .. Len(a) + Len(b) :
           (a \o b)[k] = IF k <= Len(a) THEN a[k] ELSE b[k - Len(a)]
  BY ConcatProperties
<1>3. /\ Len(c \o d) = Len(c) + Len(d)
      /\ \A k \in 1 .. Len(c) + Len(d) :
           (c \o d)[k] = IF k <= Len(c) THEN c[k] ELSE d[k - Len(c)]
  BY ConcatProperties
<1>4. Len(b) = Len(d)
  BY <1>1, <1>2, <1>3
<1>5. \A k \in 1 .. Len(a) : a[k] = c[k]
  <2> SUFFICES ASSUME NEW k \in 1 .. Len(a)
               PROVE  a[k] = c[k]
    OBVIOUS
  <2>1. k \in 1 .. Len(a) + Len(b) /\ k <= Len(a)
    BY <1>1
  <2>2. (a \o b)[k] = a[k]
    BY <1>2, <2>1
  <2>3. (c \o d)[k] = c[k]
    BY <1>3, <1>4, <2>1
  <2> QED  BY <2>2, <2>3
<1>6. \A k \in 1 .. Len(b) : b[k] = d[k]
  <2> SUFFICES ASSUME NEW k \in 1 .. Len(b)
               PROVE  b[k] = d[k]
    OBVIOUS
  <2> DEFINE m == Len(a) + k
  <2>1. m \in 1 .. Len(a) + Len(b) /\ ~(m <= Len(a)) /\ m - Len(a) = k
    BY <1>1
  <2> HIDE DEF m
  <2>2. (a \o b)[m] = b[k]
    BY <1>2, <2>1
  <2>3. (c \o d)[m] = d[k]
    BY <1>3, <1>4, <2>1
  <2> QED  BY <2>2, <2>3
<1>7. a = c
  BY <1>5, SeqEqual
<1>8. b = d
  BY <1>4, <1>6, SeqEqual
<1> QED  BY <1>7, <1>8

\* Sequences that end alike agree from the end on.
LEMMA EndsAgree ==
  ASSUME NEW S, NEW p \in Seq(S), NEW u \in Seq(S), NEW q \in Seq(S), NEW v \in Seq(S),
         p \o u = q \o v, NEW j \in Nat, j < Len(u), j < Len(v)
  PROVE  u[Len(u) - j] = v[Len(v) - j]
<1>1. Len(p) \in Nat /\ Len(u) \in Nat /\ Len(q) \in Nat /\ Len(v) \in Nat
  OBVIOUS
<1>2. /\ Len(p \o u) = Len(p) + Len(u)
      /\ \A k \in 1 .. Len(p) + Len(u) :
           (p \o u)[k] = IF k <= Len(p) THEN p[k] ELSE u[k - Len(p)]
  BY ConcatProperties
<1>3. /\ Len(q \o v) = Len(q) + Len(v)
      /\ \A k \in 1 .. Len(q) + Len(v) :
           (q \o v)[k] = IF k <= Len(q) THEN q[k] ELSE v[k - Len(q)]
  BY ConcatProperties
<1> DEFINE n == Len(p) + Len(u)
           k == n - j
<1>4. n = Len(q) + Len(v)
  BY <1>2, <1>3
<1>5. /\ k \in 1 .. Len(p) + Len(u) /\ ~(k <= Len(p)) /\ k - Len(p) = Len(u) - j
      /\ k \in 1 .. Len(q) + Len(v) /\ ~(k <= Len(q)) /\ k - Len(q) = Len(v) - j
  BY <1>1, <1>4
<1> HIDE DEF n, k
<1>6. (p \o u)[k] = u[Len(u) - j] /\ (q \o v)[k] = v[Len(v) - j]
  BY <1>2, <1>3, <1>5
<1> QED  BY <1>6

\* What FlattenSeq computes the flattened prefixes by.
FlatStep(q, g, i) == IF i = 1 THEN q[i] ELSE g[i - 1] \o q[i]

Flats(q) == CHOOSE g : g = [i \in 1 .. Len(q) |-> FlatStep(q, g, i)]

\* The community modules' flattening, its recursion named.
LEMMA FlattenUnfolds ==
  ASSUME NEW q
  PROVE  FlattenSeq(q) = IF Len(q) = 0 THEN q ELSE Flats(q)[Len(q)]
BY DEF FlattenSeq, Flats, FlatStep

\* Some function satisfies the equation.
LEMMA FlatsExist ==
  ASSUME NEW q, NEW N \in Nat
  PROVE  \E g : g = [i \in 1 .. N |-> FlatStep(q, g, i)]
<1> DEFINE IsFlat(g, n) == g = [i \in 1 .. n |-> FlatStep(q, g, i)]
           Good == {n \in Nat : \E g : IsFlat(g, n)}
<1>1. 0 \in Good
  <2>1. IsFlat([i \in 1 .. 0 |-> 0], 0)
    OBVIOUS
  <2> QED  BY <2>1
<1>2. ASSUME NEW n \in Nat, n \in Good
      PROVE  n + 1 \in Good
  <2>1. PICK g : IsFlat(g, n)
    BY <1>2
  <2> DEFINE h == [i \in 1 .. n + 1 |-> IF i = n + 1 THEN FlatStep(q, g, i) ELSE g[i]]
  <2>2. ASSUME NEW i \in 1 .. n + 1
        PROVE  h[i] = FlatStep(q, h, i)
    <3>1. h[i] = FlatStep(q, g, i)
      <4>1. CASE i = n + 1
        BY <4>1
      <4>2. CASE i # n + 1
        <5>1. i \in 1 .. n
          BY <4>2
        <5>2. g[i] = FlatStep(q, g, i)
          BY <2>1, <5>1
        <5> HIDE DEF FlatStep
        <5> QED  BY <4>2, <5>2
      <4> QED  BY <4>1, <4>2
    <3>2. i # 1 => h[i - 1] = g[i - 1]
      BY DEF FlatStep
    <3> HIDE DEF h
    <3> QED  BY <3>1, <3>2 DEF FlatStep
  <2>3. IsFlat(h, n + 1)
    <3>1. h = [i \in 1 .. n + 1 |-> h[i]]
      OBVIOUS
    <3> HIDE DEF h
    <3> QED  BY <2>2, <3>1
  <2> HIDE DEF IsFlat, h
  <2> QED  BY <2>3
<1>3. N \in Good
  <2> HIDE DEF Good
  <2> QED  BY <1>1, <1>2, NatInductionInSet
<1> QED  BY <1>3

\* So the chosen one does.
LEMMA FlatsAt ==
  ASSUME NEW q, Len(q) \in Nat, NEW i \in 1 .. Len(q)
  PROVE  Flats(q)[i] = FlatStep(q, Flats(q), i)
<1>1. Flats(q) = [k \in 1 .. Len(q) |-> FlatStep(q, Flats(q), k)]
  BY FlatsExist, Zenon DEF Flats
<1>2. [k \in 1 .. Len(q) |-> FlatStep(q, Flats(q), k)][i] = FlatStep(q, Flats(q), i)
  BY Zenon
<1> QED  BY <1>1, <1>2, Zenon

\* Flattened sequences over S are such a sequence.
LEMMA FlatsType ==
  ASSUME NEW S, NEW q \in Seq(Seq(S)), NEW i \in 1 .. Len(q)
  PROVE  Flats(q)[i] \in Seq(S)
<1> DEFINE Good == {n \in Nat : n + 1 <= Len(q) => Flats(q)[n + 1] \in Seq(S)}
<1>1. Len(q) \in Nat /\ \A k \in 1 .. Len(q) : q[k] \in Seq(S)
  OBVIOUS
<1>2. 0 \in Good
  <2> SUFFICES ASSUME 1 <= Len(q)
               PROVE  Flats(q)[1] \in Seq(S)
    OBVIOUS
  <2>1. 1 \in 1 .. Len(q)
    BY <1>1
  <2>2. Flats(q)[1] = q[1]
    BY <1>1, <2>1, FlatsAt DEF FlatStep
  <2> QED  BY <1>1, <2>1, <2>2
<1>3. ASSUME NEW n \in Nat, n \in Good
      PROVE  n + 1 \in Good
  <2> DEFINE j == (n + 1) + 1
  <2> SUFFICES ASSUME j <= Len(q)
               PROVE  Flats(q)[j] \in Seq(S)
    OBVIOUS
  <2>1. j \in 1 .. Len(q) /\ j # 1 /\ j - 1 = n + 1 /\ n + 1 <= Len(q)
    BY <1>1
  <2> HIDE DEF j
  <2>2. Flats(q)[j] = Flats(q)[n + 1] \o q[j]
    BY <1>1, <2>1, FlatsAt DEF FlatStep
  <2>3. Flats(q)[n + 1] \in Seq(S) /\ q[j] \in Seq(S)
    BY <1>1, <1>3, <2>1
  <2>4. Flats(q)[n + 1] \o q[j] \in Seq(S)
    BY <2>3, ConcatProperties
  <2> QED  BY <2>2, <2>4
<1>4. i - 1 \in Good
  <2>1. i - 1 \in Nat
    BY <1>1
  <2> HIDE DEF Good
  <2> QED  BY <1>2, <1>3, <2>1, NatInductionInSet
<1>5. i - 1 + 1 = i /\ i <= Len(q)
  BY <1>1
<1> QED  BY <1>4, <1>5

\* A prefix is flattened whatever follows it.
LEMMA FlatsAppend ==
  ASSUME NEW S, NEW q \in Seq(Seq(S)), NEW e \in Seq(S), NEW i \in 1 .. Len(q)
  PROVE  Flats(Append(q, e))[i] = Flats(q)[i]
<1> DEFINE r == Append(q, e)
           Good == {n \in Nat : n + 1 <= Len(q) => Flats(r)[n + 1] = Flats(q)[n + 1]}
<1>1. /\ Len(q) \in Nat /\ Len(r) = Len(q) + 1
      /\ \A k \in 1 .. Len(q) : r[k] = q[k]
  OBVIOUS
<1> HIDE DEF r
<1>2. 0 \in Good
  <2> SUFFICES ASSUME 1 <= Len(q)
               PROVE  Flats(r)[1] = Flats(q)[1]
    OBVIOUS
  <2>1. 1 \in 1 .. Len(q) /\ 1 \in 1 .. Len(r) /\ Len(r) \in Nat
    BY <1>1
  <2>2. Flats(q)[1] = q[1] /\ Flats(r)[1] = r[1]
    BY <1>1, <2>1, FlatsAt DEF FlatStep
  <2> QED  BY <1>1, <2>1, <2>2
<1>3. ASSUME NEW n \in Nat, n \in Good
      PROVE  n + 1 \in Good
  <2> DEFINE j == (n + 1) + 1
  <2> SUFFICES ASSUME j <= Len(q)
               PROVE  Flats(r)[j] = Flats(q)[j]
    OBVIOUS
  <2>1. /\ j \in 1 .. Len(q) /\ j \in 1 .. Len(r) /\ Len(r) \in Nat
        /\ j # 1 /\ j - 1 = n + 1 /\ n + 1 <= Len(q)
    BY <1>1
  <2> HIDE DEF j
  <2>2. Flats(q)[j] = Flats(q)[n + 1] \o q[j] /\ Flats(r)[j] = Flats(r)[n + 1] \o r[j]
    BY <1>1, <2>1, FlatsAt DEF FlatStep
  <2>3. Flats(r)[n + 1] = Flats(q)[n + 1] /\ r[j] = q[j]
    BY <1>1, <1>3, <2>1
  <2> QED  BY <2>2, <2>3
<1>4. i - 1 \in Good
  <2>1. i - 1 \in Nat
    BY <1>1
  <2> HIDE DEF Good
  <2> QED  BY <1>2, <1>3, <2>1, NatInductionInSet
<1>5. i - 1 + 1 = i /\ i <= Len(q)
  BY <1>1
<1> QED  BY <1>4, <1>5 DEF r

\* Flattening adds one part after another.
LEMMA FlattenFacts ==
  ASSUME NEW S, NEW q \in Seq(Seq(S)), NEW e \in Seq(S)
  PROVE  /\ FlattenSeq(q) \in Seq(S)
         /\ FlattenSeq(Append(q, e)) = FlattenSeq(q) \o e
<1> DEFINE n == Len(q)
           r == Append(q, e)
<1>1. /\ n \in Nat /\ Len(r) = n + 1 /\ r[n + 1] = e /\ Len(r) \in Nat /\ Len(r) # 0
      /\ n + 1 \in 1 .. Len(r)
  OBVIOUS
<1>2. FlattenSeq(r) = FlatStep(r, Flats(r), n + 1)
  <2> HIDE DEF n, r
  <2>1. FlattenSeq(r) = Flats(r)[n + 1]
    BY <1>1, FlattenUnfolds
  <2> QED  BY <1>1, <2>1, FlatsAt
<1>3. CASE n = 0
  <2>1. q = <<>>
    BY <1>3
  <2>2. FlattenSeq(q) = <<>>
    BY <1>3, <2>1, FlattenUnfolds
  <2>3. <<>> \in Seq(S) /\ <<>> \o e = e
    BY EmptySeq, ConcatEmptySeq
  <2>4. FlattenSeq(r) = e
    <3> HIDE DEF r, n
    <3> QED  BY <1>1, <1>2, <1>3 DEF FlatStep
  <2> QED  BY <2>2, <2>3, <2>4
<1>4. CASE n # 0
  <2>1. n \in 1 .. Len(q) /\ n + 1 # 1 /\ (n + 1) - 1 = n
    BY <1>1, <1>4
  <2>2. FlattenSeq(q) = Flats(q)[n]
    BY <1>4, FlattenUnfolds
  <2>3. Flats(q)[n] \in Seq(S)
    BY <2>1, FlatsType
  <2>4. Flats(r)[n] = Flats(q)[n]
    <3> HIDE DEF n
    <3> QED  BY <2>1, FlatsAppend
  <2>5. FlattenSeq(r) = Flats(r)[n] \o e
    <3> HIDE DEF r, n
    <3> QED  BY <1>1, <1>2, <2>1 DEF FlatStep
  <2> HIDE DEF n, r
  <2>6. FlattenSeq(r) = FlattenSeq(q) \o e
    BY <2>2, <2>4, <2>5
  <2> QED  BY <2>2, <2>3, <2>6 DEF r
<1> QED  BY <1>3, <1>4

\* Two parts laid end to end.
LEMMA FlattenTwo ==
  ASSUME NEW S, NEW a \in Seq(S), NEW b \in Seq(S)
  PROVE  FlattenSeq(<<a, b>>) = a \o b
<1>1. FlattenSeq(<<>>) = <<>>
  BY FlattenUnfolds
<1>2. /\ <<>> \in Seq(Seq(S)) /\ <<a>> \in Seq(Seq(S))
      /\ <<a>> = Append(<<>>, a) /\ <<a, b>> = Append(<<a>>, b)
  OBVIOUS
<1>3. <<>> \o a = a
  BY ConcatEmptySeq
<1>4. FlattenSeq(<<a>>) = a
  BY <1>1, <1>2, <1>3, FlattenFacts
<1> QED  BY <1>2, <1>4, FlattenFacts
=============================================================================
