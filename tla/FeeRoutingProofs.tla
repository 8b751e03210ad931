-------------------------- MODULE FeeRoutingProofs --------------------------
(***************************************************************************)
(* What fee routing pays out, for every fee module, amount and scale.      *)
(***************************************************************************)
EXTENDS FeeRouting, OperatorLemmas

\* Flooring: a share is short of its exact value by less than one unit.
LEMMA ShareFacts ==
  ASSUME NEW total \in Int, NEW bps \in Int
  PROVE  /\ ShareOf(total, bps) \in Int
         /\ ShareOf(total, bps) * BpsScale <= total * bps
         /\ total * bps <= ShareOf(total, bps) * BpsScale + (BpsScale - 1)
<1>1. BpsScale \in Nat \ {0}
  BY FeeParameters
<1>2. \A p \in Int, q \in Nat \ {0} :
        p \div q \in Int /\ (p \div q) * q <= p /\ p <= (p \div q) * q + (q - 1)
  OBVIOUS
<1>3. total * bps \in Int
  OBVIOUS
<1>4. QED
  BY <1>1, <1>2, <1>3 DEF ShareOf

\* A share of a whole fee lies between nothing and the fee.
LEMMA ShareWithin ==
  ASSUME NEW total \in Nat, NEW bps \in 0 .. BpsScale
  PROVE  ShareOf(total, bps) \in 0 .. total
<1>1. BpsScale \in Nat \ {0} /\ bps \in Nat /\ bps <= BpsScale
  BY FeeParameters
<1>2. \A p \in Nat, q \in Nat \ {0} : p \div q \in Nat
  OBVIOUS
<1>3. total * bps \in Nat /\ ShareOf(total, bps) \in Nat
  BY <1>1, <1>2 DEF ShareOf
<1>4. total * bps <= total * BpsScale
  BY <1>1
<1>5. ShareOf(total, bps) * BpsScale <= total * BpsScale
  <2>1. ShareOf(total, bps) * BpsScale <= total * bps
    BY <1>1, ShareFacts
  <2>2. /\ ShareOf(total, bps) * BpsScale \in Int /\ total * bps \in Int
        /\ total * BpsScale \in Int
    BY <1>1, <1>3
  <2>3. QED
    BY <1>4, <2>1, <2>2
<1>6. \A a, b \in Nat, q \in Nat \ {0} : a * q <= b * q => a <= b
  OBVIOUS
<1>7. QED
  BY <1>1, <1>3, <1>5, <1>6

\* The total is an integer, and a natural where it can be encoded.
LEMMA TotalIsInt ==
  ASSUME NEW f, f.rate \in Int, NEW a \in Nat
  PROVE  TotalFee(f, a) \in Int
<1>1. a * f.rate \in Int /\ BpsScale \in Nat \ {0}
  BY FeeParameters
<1>2. \A p \in Int, q \in Nat \ {0} : p \div q \in Int
  OBVIOUS
<1>3. QED
  BY <1>1, <1>2 DEF TotalFee

\* Whatever a sum becomes in an SDK's word, it is an integer; in Python it is itself.
LEMMA WrappedFacts ==
  ASSUME NEW n \in Int
  PROVE  Wrapped(sdk, n) \in Int /\ (sdk = "python" => Wrapped(sdk, n) = n)
<1>1. Word \in Nat \ {0}
  BY FeeParameters
<1>2. \A m \in Int, q \in Nat \ {0} : m % q \in Int
  OBVIOUS
<1>3. Word \div 2 \in Int
  BY <1>1
<1>4. n % Word \in Int /\ ((n + Word \div 2) % Word) - Word \div 2 \in Int
  BY <1>1, <1>2, <1>3
<1>5. QED
  BY <1>4 DEF Wrapped

\* Type correctness of the routing.
THEOREM TypeCorrect == Spec => []TypeOK
<1>1. Init => TypeOK
  BY FeeParameters DEF Init, TypeOK
<1>2. TypeOK /\ [Next]_vars => TypeOK'
  <2> SUFFICES ASSUME TypeOK, [Next]_vars PROVE TypeOK'
    OBVIOUS
  <2>1. /\ fee.shares \in Seq(Int) /\ fee.rate \in Int /\ amount \in Nat
        /\ Len(fee.shares) \in Nat /\ Len(running) \in Nat /\ Len(allocations) \in Nat
    BY FeeParameters DEF TypeOK
  <2>2. CASE AddShare
    <3>1. /\ running[Len(running)] \in Int
          /\ fee.shares[Len(running)] \in Int
      BY <2>1, <2>2 DEF AddShare, Summed, TypeOK
    <3>2. Wrapped(sdk, running[Len(running)] + fee.shares[Len(running)]) \in Int
      BY <3>1, WrappedFacts
    <3>3. running' \in Seq(Int) /\ Len(running') = Len(running) + 1
      BY <2>1, <2>2, <3>2 DEF AddShare, SharesTotal, NextShare, TypeOK
    <3>4. QED
      BY <2>1, <2>2, <3>3 DEF AddShare, Summed, TypeOK, input
  <2>3. CASE RefuseShare \/ PanicOnOverflow \/ RefuseModule
    BY <2>3 DEF RefuseShare, PanicOnOverflow, RefuseModule, TypeOK, input
  <2>4. CASE AcceptModule
    <3>1. TotalFee(fee, amount) \in Int
      BY <2>1, TotalIsInt
    <3>2. QED
      BY <2>4, <3>1 DEF AcceptModule, TypeOK, input
  <2>5. CASE AllocateShare
    <3> DEFINE i == Len(allocations) + 1
               share == ShareOf(totalFee, fee.shares[i])
    <3>1. /\ allocations' = Append(allocations, share) /\ paid' = paid + share
          /\ Len(allocations) < Len(fee.shares)
          /\ UNCHANGED <<sdk, fee, amount, pc, running, totalFee>>
      BY <2>5 DEF AllocateShare, input
    <3>2. i \in 1 .. Len(fee.shares)
      BY <2>1, <3>1
    <3>3. fee.shares[i] \in Int /\ totalFee \in Int
      BY <2>1, <3>2 DEF TypeOK
    <3>4. share \in Int
      BY <3>3, ShareFacts
    <3>5. allocations' \in Seq(Int) /\ Len(allocations') = i
      <4> HIDE DEF share
      <4>1. allocations \in Seq(Int)
        BY DEF TypeOK
      <4>2. QED
        BY <3>1, <3>4, <4>1
    <3>6. paid' \in Int
      <4> HIDE DEF share
      <4>1. paid \in Int
        BY DEF TypeOK
      <4>2. QED
        BY <3>1, <3>4, <4>1
    <3>7. Len(allocations') \in 0 .. Len(fee.shares)
      <4> HIDE DEF i
      <4>1. QED
        BY <2>1, <3>2, <3>5
    <3>8. QED
      <4> HIDE DEF i, share
      <4>1. QED
        BY <3>1, <3>5, <3>6, <3>7 DEF TypeOK
  <2>6. CASE ReturnDistribution
    BY <2>6 DEF ReturnDistribution, TypeOK, input
  <2>7. CASE UNCHANGED vars
    BY <2>7 DEF vars, input, TypeOK
  <2>8. QED
    BY <2>2, <2>3, <2>4, <2>5, <2>6, <2>7 DEF Next
<1>3. QED
  BY <1>1, <1>2, PTL DEF Spec

\* The routing invariant is inductive: each share paid accounts for the part of the fee
\* its basis points grant, up to the rounding of that share.
THEOREM RoutingCorrect == Spec => []RoutingInv
<1>1. Init => RoutingInv
  BY DEF Init, RoutingInv, SumsAgree
<1>2. TypeOK /\ RoutingInv /\ [Next]_vars => RoutingInv'
  <2> SUFFICES ASSUME TypeOK, RoutingInv, [Next]_vars PROVE RoutingInv'
    OBVIOUS
  <2>1. /\ fee.shares \in Seq(Int) /\ fee.rate \in Int /\ amount \in Nat
        /\ Len(fee.shares) \in Nat /\ Len(running) \in Nat \ {0} /\ Len(allocations) \in Nat
        /\ running \in Seq(Int) /\ totalFee \in Int /\ paid \in Int
        /\ BpsScale \in Nat \ {0}
    BY FeeParameters DEF TypeOK
  <2>2. CASE AddShare
    <3> DEFINE total == running[Len(running)] + fee.shares[Len(running)]
    <3>1. /\ pc = "validate" /\ UNCHANGED <<sdk, fee, amount, pc, totalFee, allocations, paid>>
          /\ Len(running) <= Len(fee.shares)
          /\ running' = Append(running, Wrapped(sdk, total))
      BY <2>1, <2>2 DEF AddShare, Summed, SharesTotal, NextShare, input
    <3>2. /\ Len(running') = Len(running) + 1
          /\ \A k \in 1 .. Len(running) : running'[k] = running[k]
          /\ sdk = "python" => running'[Len(running) + 1] = total
      <4>1. total \in Int
        BY <2>1, <3>1
      <4> HIDE DEF total
      <4>2. Wrapped(sdk, total) \in Int /\ (sdk = "python" => Wrapped(sdk, total) = total)
        BY <4>1, WrappedFacts
      <4>3. QED
        BY <2>1, <3>1, <4>2
    <3>3. SumsAgree'
      <4>1. SumsAgree /\ fee' = fee /\ sdk' = sdk
        BY <3>1 DEF RoutingInv
      <4>2. running'[1] = 0
        BY <2>1, <3>2, <4>1 DEF SumsAgree
      <4>3. ASSUME sdk = "python", NEW k \in 1 .. Len(running') - 1
            PROVE  running'[k + 1] = running'[k] + fee.shares[k]
        <5>1. CASE k = Len(running)
          BY <2>1, <3>2, <4>3, <5>1
        <5>2. CASE k # Len(running)
          <6>1. k \in 1 .. Len(running) - 1 /\ k + 1 \in 1 .. Len(running)
            BY <2>1, <3>2, <5>2
          <6>2. QED
            BY <3>2, <4>1, <4>3, <6>1 DEF SumsAgree
        <5>3. QED
          BY <5>1, <5>2
      <4>4. QED
        BY <4>1, <4>2, <4>3 DEF SumsAgree
    <3>4. QED
      BY <3>1, <3>3 DEF RoutingInv
  <2>3. CASE RefuseShare \/ PanicOnOverflow \/ RefuseModule
    BY <2>3 DEF RefuseShare, PanicOnOverflow, RefuseModule, RoutingInv, SumsAgree, input
  <2>4. CASE AcceptModule
    <3>1. /\ pc = "validate"
          /\ UNCHANGED <<sdk, fee, amount, running, allocations, paid>>
          /\ Summed /\ SharesTotal = BpsScale /\ NoNegativeShare(fee)
      BY <2>4 DEF AcceptModule, ModuleAccepted, input
    <3>2. allocations = <<>> /\ paid = 0 /\ running[1] = 0 /\ SumsAgree
      BY <3>1 DEF RoutingInv, SumsAgree
    <3>3. CASE sdk = "python"
      <4>1. pc' = "allocate" /\ totalFee' = TotalFee(fee, amount)
        BY <2>4, <3>3 DEF AcceptModule
      <4>2. totalFee' \in Int
        BY <2>1, <4>1, TotalIsInt
      <4>3. /\ totalFee' * running[Len(allocations) + 1] = 0
            /\ paid * BpsScale = 0 /\ Len(allocations) * (BpsScale - 1) = 0
        BY <2>1, <3>2, <4>2
      <4>4. QED
        BY <3>1, <3>2, <3>3, <4>1, <4>3
           DEF RoutingInv, SumsAgree, Summed, SharesTotal, NoNegativeShare
    <3>4. CASE sdk # "python"
      <4>1. pc' = "accepted"
        BY <2>4, <3>4 DEF AcceptModule
      <4>2. QED
        BY <3>1, <3>2, <4>1 DEF RoutingInv, SumsAgree
    <3>5. QED
      BY <3>3, <3>4
  <2>5. CASE AllocateShare
    <3> DEFINE n == Len(allocations)
               bps == fee.shares[n + 1]
               share == ShareOf(totalFee, bps)
    <3>1. /\ pc = "allocate" /\ UNCHANGED <<sdk, fee, amount, pc, running, totalFee>>
          /\ n < Len(fee.shares)
          /\ allocations' = Append(allocations, share) /\ paid' = paid + share
      BY <2>5 DEF AllocateShare, input
    <3>2. /\ sdk = "python"
          /\ Summed /\ SharesTotal = BpsScale /\ NoNegativeShare(fee)
          /\ totalFee = TotalFee(fee, amount) /\ SumsAgree
          /\ \A i \in DOMAIN allocations : allocations[i] = ShareOf(totalFee, fee.shares[i])
          /\ paid * BpsScale <= totalFee * running[n + 1]
          /\ totalFee * running[n + 1] <= paid * BpsScale + n * (BpsScale - 1)
      BY <3>1 DEF RoutingInv
    <3>3. /\ n + 1 \in 1 .. Len(fee.shares) /\ bps \in Int
          /\ n + 1 \in 1 .. Len(running) - 1
      <4> HIDE DEF bps, share
      <4>1. n \in Nat /\ n < Len(fee.shares) /\ Len(running) > Len(fee.shares)
        BY <2>1, <3>1, <3>2 DEF Summed
      <4>2. n + 1 \in 1 .. Len(fee.shares) /\ n + 1 \in 1 .. Len(running) - 1
        <5> HIDE DEF n
        <5>1. QED
          BY <2>1, <4>1
      <4>3. bps \in Int
        BY <2>1, <4>2 DEF bps
      <4>4. QED
        BY <4>2, <4>3
    <3>4. running[n + 2] = running[n + 1] + bps /\ running[n + 1] \in Int
      BY <2>1, <3>2, <3>3 DEF SumsAgree
    <3>5. /\ share \in Int /\ share * BpsScale <= totalFee * bps
          /\ totalFee * bps <= share * BpsScale + (BpsScale - 1)
      BY <2>1, <3>3, ShareFacts
    <3>6. totalFee * running[n + 2] = totalFee * running[n + 1] + totalFee * bps
      <4>1. \A p, q, t \in Int : t * (p + q) = t * p + t * q
        OBVIOUS
      <4> HIDE DEF n, bps, share
      <4>2. running[n + 1] \in Int /\ bps \in Int /\ totalFee \in Int
        BY <2>1, <3>3, <3>4
      <4>3. totalFee * (running[n + 1] + bps)
              = totalFee * running[n + 1] + totalFee * bps
        BY ONLY <4>1, <4>2
      <4>4. QED
        BY <3>4, <4>3, Zenon
    <3>7. /\ (paid + share) * BpsScale = paid * BpsScale + share * BpsScale
          /\ (n + 1) * (BpsScale - 1) = n * (BpsScale - 1) + (BpsScale - 1)
      <4>1. \A p, q, t \in Int : (p + q) * t = p * t + q * t
        OBVIOUS
      <4>2. paid \in Int /\ share \in Int /\ n \in Int /\ BpsScale \in Int
        BY <2>1, <3>5
      <4>3. BpsScale - 1 \in Int /\ 1 * (BpsScale - 1) = BpsScale - 1
        BY <4>2
      <4> HIDE DEF n, bps, share
      <4>4. (paid + share) * BpsScale = paid * BpsScale + share * BpsScale
        BY ONLY <4>1, <4>2
      <4>5. (n + 1) * (BpsScale - 1) = n * (BpsScale - 1) + 1 * (BpsScale - 1)
        BY ONLY <4>1, <4>2, <4>3
      <4>6. QED
        BY <4>3, <4>4, <4>5, Zenon
    <3>8. /\ (paid + share) * BpsScale <= totalFee * running[n + 2]
          /\ totalFee * running[n + 2]
               <= (paid + share) * BpsScale + (n + 1) * (BpsScale - 1)
      <4> DEFINE a == paid * BpsScale
                 b == totalFee * running[n + 1]
                 c == n * (BpsScale - 1)
                 x == share * BpsScale
                 y == totalFee * bps
      <4>1. a \in Int /\ b \in Int /\ c \in Int /\ x \in Int /\ y \in Int
        <5>1. \A p, q \in Int : p * q \in Int
          OBVIOUS
        <5>2. BpsScale \in Int /\ BpsScale - 1 \in Int /\ n \in Int
          BY <2>1
        <5>3. QED
          BY <2>1, <3>3, <3>4, <3>5, <5>1, <5>2
      <4>2. a <= b /\ b <= a + c /\ x <= y /\ y <= x + (BpsScale - 1)
        BY <3>2, <3>5
      <4>3. a + x <= b + y /\ b + y <= (a + x) + (c + (BpsScale - 1))
        <5> HIDE DEF a, b, c, x, y
        <5>1. QED
          BY <2>1, <4>1, <4>2
      <4>4. QED
        BY <3>6, <3>7, <4>3
    <3>9. /\ Len(allocations') = n + 1
          /\ \A i \in DOMAIN allocations' : allocations'[i] = ShareOf(totalFee, fee.shares[i])
      <4>1. allocations \in Seq(Int) /\ DOMAIN allocations = 1 .. n
        BY DEF TypeOK
      <4>2. /\ Len(allocations') = n + 1 /\ DOMAIN allocations' = 1 .. n + 1
            /\ allocations'[n + 1] = share
            /\ \A i \in 1 .. n : allocations'[i] = allocations[i]
        BY <3>1, <3>5, <4>1
      <4>3. \A i \in 1 .. n : allocations[i] = ShareOf(totalFee, fee.shares[i])
        BY <3>2, <4>1
      <4>4. ASSUME NEW i \in 1 .. n + 1
            PROVE  allocations'[i] = ShareOf(totalFee, fee.shares[i])
        <5>1. CASE i = n + 1
          BY <4>2, <5>1
        <5>2. CASE i # n + 1
          <6>1. i \in 1 .. n
            BY <2>1, <5>2
          <6>2. QED
            BY <4>2, <4>3, <6>1
        <5>3. QED
          BY <5>1, <5>2
      <4>5. QED
        BY <4>2, <4>4
    <3>10. /\ Summed' /\ (SharesTotal = BpsScale)' /\ NoNegativeShare(fee)' /\ SumsAgree'
           /\ (totalFee = TotalFee(fee, amount))'
      BY <3>1, <3>2 DEF Summed, SharesTotal, NoNegativeShare, SumsAgree
    <3>11. Len(allocations') + 1 = n + 2
      BY <2>1, <3>9
    <3>12. QED
      BY <3>1, <3>8, <3>9, <3>10, <3>11 DEF RoutingInv
  <2>6. CASE ReturnDistribution
    BY <2>1, <2>6 DEF ReturnDistribution, RoutingInv, SumsAgree, Summed, SharesTotal,
                      NoNegativeShare, input
  <2>7. CASE UNCHANGED vars
    BY <2>7 DEF vars, input, RoutingInv, SumsAgree, Summed, SharesTotal, NoNegativeShare
  <2>8. QED
    BY <2>2, <2>3, <2>4, <2>5, <2>6, <2>7 DEF Next
<1>3. QED
  BY <1>1, <1>2, TypeCorrect, PTL DEF Spec

\* Rounding loses less than one unit per allocation and creates nothing.
THEOREM DustBounded == Spec => []DustIsBounded
<1>1. TypeOK /\ RoutingInv => DustIsBounded
  <2> SUFFICES ASSUME TypeOK, RoutingInv, pc = "done"
               PROVE  totalFee - paid \in 0 .. Len(fee.shares) - 1
    BY DEF DustIsBounded
  <2> DEFINE n == Len(fee.shares)
  <2>1. /\ n \in Nat /\ totalFee \in Int /\ paid \in Int /\ BpsScale \in Nat \ {0}
        /\ Len(running) = n + 1
    BY FeeParameters DEF TypeOK, RoutingInv, Summed
  <2>2. /\ Len(allocations) = n /\ running[n + 1] = BpsScale /\ running[1] = 0
    BY <2>1 DEF RoutingInv, SharesTotal, SumsAgree
  <2>3. n > 0
    BY <2>1, <2>2
  <2>4. /\ paid * BpsScale <= totalFee * BpsScale
        /\ totalFee * BpsScale <= paid * BpsScale + n * (BpsScale - 1)
    BY <2>2 DEF RoutingInv
  <2>5. paid <= totalFee
    <3>1. \A a, b \in Int, q \in Nat \ {0} : a * q <= b * q => a <= b
      OBVIOUS
    <3>2. QED
      BY <2>1, <2>4, <3>1
  <2>6. totalFee - paid < n
    <3>1. (totalFee - paid) * BpsScale <= n * (BpsScale - 1)
      <4>1. (totalFee - paid) * BpsScale = totalFee * BpsScale - paid * BpsScale
        BY <2>1
      <4>2. /\ totalFee * BpsScale \in Int /\ paid * BpsScale \in Int
            /\ n * (BpsScale - 1) \in Int
        BY <2>1
      <4>3. QED
        BY <2>4, <4>1, <4>2
    <3>2. \A d \in Int, m \in Nat \ {0}, q \in Nat \ {0} : d * q <= m * (q - 1) => d < m
      <4> SUFFICES ASSUME NEW d \in Int, NEW m \in Nat \ {0}, NEW q \in Nat \ {0}, d >= m
                   PROVE  ~(d * q <= m * (q - 1))
        OBVIOUS
      <4>1. d * q >= m * q
        OBVIOUS
      <4>2. m * (q - 1) = m * q - m
        OBVIOUS
      <4>3. d * q \in Int /\ m * q \in Int
        OBVIOUS
      <4>4. QED
        BY <4>1, <4>2, <4>3
    <3>3. totalFee - paid \in Int /\ n \in Nat \ {0}
      BY <2>1, <2>3
    <3>4. QED
      BY <2>1, <3>1, <3>2, <3>3
  <2>7. QED
    BY <2>1, <2>5, <2>6
<1>2. QED
  BY <1>1, TypeCorrect, RoutingCorrect, PTL

\* The sums validation runs over grow, unless a share is negative.
THEOREM SumsGrowing == Spec => []SumsGrow
<1>1. Init => SumsGrow
  BY DEF Init, SumsGrow
<1>2. TypeOK /\ SumsGrow /\ [Next]_vars => SumsGrow'
  <2> SUFFICES ASSUME TypeOK, SumsGrow, [Next]_vars PROVE SumsGrow'
    OBVIOUS
  <2>1. CASE AddShare
    <3>1. /\ fee.shares \in Seq(Int) /\ running \in Seq(Int)
          /\ Len(fee.shares) \in Nat /\ Len(running) \in Nat \ {0}
      BY FeeParameters DEF TypeOK
    <3> DEFINE total == running[Len(running)] + fee.shares[Len(running)]
    <3>2. /\ sdk' = sdk /\ fee' = fee /\ Len(running) \in 1 .. Len(fee.shares)
          /\ running' = Append(running, Wrapped(sdk, total))
      BY <2>1, <3>1 DEF AddShare, Summed, SharesTotal, NextShare, input
    <3>3. /\ Len(running') = Len(running) + 1
          /\ \A k \in 1 .. Len(running) : running'[k] = running[k] /\ running[k] \in Int
          /\ sdk = "python" => running'[Len(running) + 1] = total
      <4>1. total \in Int
        BY <3>1, <3>2
      <4> HIDE DEF total
      <4>2. Wrapped(sdk, total) \in Int /\ (sdk = "python" => Wrapped(sdk, total) = total)
        BY <4>1, WrappedFacts
      <4>3. QED
        BY <3>1, <3>2, <4>2
    <3>4. ASSUME sdk = "python", NoNegativeShare(fee),
                 NEW j \in 1 .. Len(running'), NEW k \in 1 .. Len(running'), j <= k
          PROVE  running'[j] <= running'[k]
      <4>1. fee.shares[Len(running)] \in Int /\ fee.shares[Len(running)] >= 0
        BY <3>1, <3>2, <3>4 DEF NoNegativeShare
      <4>2. \A i \in 1 .. Len(running) : running[i] <= running[Len(running)]
        BY <3>1, <3>4 DEF SumsGrow
      <4>3. CASE k \in 1 .. Len(running)
        <5>1. j \in 1 .. Len(running)
          BY <3>1, <3>3, <3>4, <4>3
        <5>2. running[j] <= running[k]
          BY <3>4, <4>3, <5>1 DEF SumsGrow
        <5>3. QED
          BY <3>3, <4>3, <5>1, <5>2
      <4>4. CASE k = Len(running) + 1 /\ j \in 1 .. Len(running)
        <5>1. /\ running[j] \in Int /\ running[Len(running)] \in Int
              /\ running'[j] = running[j]
          BY <3>1, <3>3, <4>4
        <5>2. running[j] <= running[Len(running)] + fee.shares[Len(running)]
          BY <4>1, <4>2, <4>4, <5>1
        <5>3. QED
          BY <3>3, <3>4, <4>4, <5>1, <5>2
      <4>5. CASE k = Len(running) + 1 /\ j = Len(running) + 1
        <5>1. running'[k] \in Int
          BY <3>1, <3>3, <3>4, <4>1, <4>5
        <5>2. QED
          BY <4>5, <5>1
      <4>6. QED
        BY <3>1, <3>3, <4>3, <4>4, <4>5
    <3>5. QED
      BY <3>2, <3>4 DEF SumsGrow
  <2>2. CASE UNCHANGED <<sdk, fee, running>>
    BY <2>2 DEF SumsGrow
  <2>3. QED
    BY <2>1, <2>2 DEF Next, RefuseShare, PanicOnOverflow, RefuseModule, AcceptModule,
                      AllocateShare, ReturnDistribution, vars, input
<1>3. QED
  BY <1>1, <1>2, TypeCorrect, PTL DEF Spec

\* A rate of at most the whole takes at most the amount.
LEMMA TotalWithin ==
  ASSUME NEW f, f.rate \in Int, f.rate <= BpsScale, NEW a \in Nat, TotalFee(f, a) \in Nat
  PROVE  TotalFee(f, a) <= a
<1>1. BpsScale \in Nat \ {0}
  BY FeeParameters
<1>2. a * f.rate \in Int /\ a * BpsScale \in Int
  BY <1>1
<1>3. a * f.rate <= a * BpsScale
  <2>1. \A m \in Nat, p, q \in Int : p <= q => m * p <= m * q
    OBVIOUS
  <2>2. QED
    BY <1>1, <2>1
<1>4. TotalFee(f, a) * BpsScale <= a * f.rate
  <2>1. \A p \in Int, q \in Nat \ {0} : (p \div q) * q <= p
    OBVIOUS
  <2>2. QED
    BY <1>1, <1>2, <2>1 DEF TotalFee
<1>5. TotalFee(f, a) * BpsScale <= a * BpsScale
  <2>1. TotalFee(f, a) * BpsScale \in Int
    BY <1>1
  <2>2. QED
    BY <1>2, <1>3, <1>4, <2>1
<1>6. \A x, y \in Nat, q \in Nat \ {0} : x * q <= y * q => x <= y
  OBVIOUS
<1>7. QED
  BY <1>1, <1>5, <1>6

\* No recipient is paid a negative amount or more than the whole fee, and at a rate of at
\* most the whole the fee is at most the amount.
THEOREM SharesBounded == Spec => []SharesWithinFee
<1>1. TypeOK /\ RoutingInv /\ SumsGrow => SharesWithinFee
  <2> SUFFICES ASSUME TypeOK, RoutingInv, SumsGrow, pc = "done"
               PROVE  /\ \A i \in DOMAIN allocations : allocations[i] \in 0 .. totalFee
                      /\ fee.rate <= BpsScale => totalFee <= amount
    BY DEF SharesWithinFee
  <2> DEFINE n == Len(fee.shares)
  <2>1. /\ n \in Nat /\ BpsScale \in Nat \ {0} /\ amount \in Nat /\ fee.rate \in Int
        /\ fee.shares \in Seq(Int) /\ running \in Seq(Int) /\ Len(running) = n + 1
        /\ allocations \in Seq(Int) /\ Len(allocations) = n
    BY FeeParameters DEF TypeOK, RoutingInv, Summed
  <2> HIDE DEF n
  <2>2. /\ running[n + 1] = BpsScale /\ running[1] = 0 /\ NoNegativeShare(fee)
        /\ sdk = "python"
        /\ \A k \in 1 .. n : running[k + 1] = running[k] + fee.shares[k]
        /\ \A i \in 1 .. n : allocations[i] = ShareOf(totalFee, fee.shares[i])
    <3>1. Len(running) - 1 = n /\ DOMAIN allocations = 1 .. n
      BY <2>1
    <3>2. SharesTotal = BpsScale /\ NoNegativeShare(fee) /\ SumsAgree /\ sdk = "python"
      BY DEF RoutingInv
    <3>3. \A i \in DOMAIN allocations : allocations[i] = ShareOf(totalFee, fee.shares[i])
      BY DEF RoutingInv
    <3>4. QED
      BY <2>1, <3>1, <3>2, <3>3 DEF SharesTotal, SumsAgree
  <2>3. totalFee \in Nat /\ totalFee = TotalFee(fee, amount)
    BY DEF TypeOK, RoutingInv, Encodable
  <2>4. ASSUME NEW i \in 1 .. n PROVE fee.shares[i] \in 0 .. BpsScale
    <3>1. i \in 1 .. n + 1 /\ i + 1 \in 1 .. n + 1 /\ 1 \in 1 .. n + 1
          /\ n + 1 \in 1 .. n + 1 /\ 1 <= i /\ i + 1 <= n + 1
      BY <2>1
    <3>2. running[1] <= running[i] /\ running[i + 1] <= running[n + 1]
      BY <2>1, <2>2, <3>1 DEF SumsGrow
    <3>3. DOMAIN fee.shares = 1 .. n
      BY <2>1 DEF n
    <3>4. fee.shares[i] \in Int /\ fee.shares[i] >= 0
      <4>1. \A q \in Seq(Int), k \in Nat : k \in DOMAIN q => q[k] \in Int
        OBVIOUS
      <4>2. NoNegativeShare(fee) /\ i \in DOMAIN fee.shares /\ i \in Nat
        BY <2>1, <2>2, <3>3
      <4>3. fee.shares[i] >= 0
        BY <4>2 DEF NoNegativeShare
      <4>4. QED
        BY <2>1, <4>1, <4>2, <4>3
    <3>5. running[i] \in Int
      BY <2>1, <3>1
    <3>6. running[i + 1] = running[i] + fee.shares[i]
      BY <2>2
    <3>7. running[1] = 0 /\ running[n + 1] = BpsScale /\ BpsScale \in Int
      BY <2>1, <2>2
    <3>8. QED
      BY <3>2, <3>4, <3>5, <3>6, <3>7
  <2>5. \A i \in DOMAIN allocations : allocations[i] \in 0 .. totalFee
    <3>1. DOMAIN allocations = 1 .. n
      BY <2>1
    <3>2. QED
      BY <2>2, <2>3, <2>4, <3>1, ShareWithin
  <2>6. fee.rate <= BpsScale => totalFee <= amount
    BY <2>1, <2>3, TotalWithin
  <2>7. QED
    BY <2>5, <2>6
<1>2. QED
  BY <1>1, TypeCorrect, RoutingCorrect, SumsGrowing, PTL

-----------------------------------------------------------------------------
(* The sums of the validation *)

\* Reducing a summand first does not change the remainder of a sum.
LEMMA RemainderOfSum ==
  ASSUME NEW w \in Nat \ {0}, NEW p \in Int, NEW x \in Int
  PROVE  ((p % w) + x) % w = (p + x) % w
<1> DEFINE r == p % w
           d == p \div w
           a == (r + x) % w
           e == (r + x) \div w
           b == (p + x) % w
           f == (p + x) \div w
<1>1. d \in Int /\ r \in 0 .. w - 1 /\ p = d * w + r
  BY Remainder
<1>2. r + x \in Int /\ p + x \in Int
  BY <1>1
<1>3. e \in Int /\ a \in 0 .. w - 1 /\ r + x = e * w + a
  BY <1>2, Remainder
<1>4. f \in Int /\ b \in 0 .. w - 1 /\ p + x = f * w + b
  BY <1>2, Remainder
<1>5. (d + e) * w + a = f * w + b
  <2> HIDE DEF r, d, a, e, b, f
  <2>1. (d + e) * w = d * w + e * w
    BY <1>1, <1>3
  <2>2. d * w \in Int /\ e * w \in Int /\ f * w \in Int
    BY <1>1, <1>3, <1>4
  <2>3. QED
    BY <1>1, <1>3, <1>4, <2>1, <2>2
<1>6. d + e \in Int
  BY <1>1, <1>3
<1>7. a = b
  <2> HIDE DEF r, d, a, e, b, f
  <2>1. QED
    BY <1>3, <1>4, <1>5, <1>6, RemainderUnique
<1>8. QED
  BY <1>7

\* Wrapping at every step comes to the same as wrapping once.
LEMMA WrappedSum ==
  ASSUME NEW p \in Int, NEW x \in Int
  PROVE  Wrapped(sdk, Wrapped(sdk, p) + x) = Wrapped(sdk, p + x)
<1> DEFINE half == Word \div 2
<1>1. Word \in Nat \ {0} /\ half \in Int
  BY FeeParameters
<1>2. CASE sdk = "rust"
  BY <1>1, <1>2, RemainderOfSum DEF Wrapped
<1>3. CASE sdk = "java"
  <2> DEFINE r == (p + half) % Word
  <2>1. r \in Int
    BY <1>1, Remainder
  <2>2. (r + x) % Word = ((p + half) + x) % Word
    <3>1. p + half \in Int
      BY <1>1
    <3> HIDE DEF half
    <3>2. QED
      BY <1>1, <3>1, RemainderOfSum
  <2>3. /\ Wrapped(sdk, p) = r - half
        /\ Wrapped(sdk, Wrapped(sdk, p) + x) = ((((r - half) + x) + half) % Word) - half
        /\ Wrapped(sdk, p + x) = (((p + x) + half) % Word) - half
    BY <1>3, Zenon DEF Wrapped
  <2>4. ((r - half) + x) + half = r + x /\ (p + x) + half = (p + half) + x
    <3> HIDE DEF r, half
    <3>1. QED
      BY <1>1, <2>1
  <2>5. QED
    BY <2>2, <2>3, <2>4, Zenon
<1>4. CASE sdk \notin {"rust", "java"}
  BY <1>4 DEF Wrapped
<1>5. QED
  BY <1>2, <1>3, <1>4

\* A sum the word holds is not changed by wrapping.
LEMMA WrappedHeld ==
  ASSUME NEW n \in Int, Holds(sdk, n)
  PROVE  Wrapped(sdk, n) = n
<1> DEFINE half == Word \div 2
<1>1. Word \in Nat \ {0} /\ half \in Int /\ half * 2 <= Word
  BY FeeParameters
<1>2. \A w \in Nat \ {0}, p \in Int : p >= 0 /\ p < w => p % w = p
  OBVIOUS
<1>3. CASE sdk = "rust"
  <2>1. n >= 0 /\ n < Word
    BY <1>1, <1>3 DEF Holds, U32
  <2>2. QED
    BY <1>1, <1>2, <1>3, <2>1 DEF Wrapped
<1>4. CASE sdk = "java"
  <2>1. n >= -half /\ n <= half - 1
    BY <1>1, <1>4 DEF Holds, I32
  <2>2. n + half \in Int /\ n + half >= 0 /\ n + half < Word
    <3> HIDE DEF half
    <3>1. QED
      BY <1>1, <2>1
  <2>3. (n + half) % Word = n + half
    <3> HIDE DEF half
    <3>1. QED
      BY <1>1, <1>2, <2>2
  <2>4. Wrapped(sdk, n) = ((n + half) % Word) - half
    BY <1>4 DEF Wrapped
  <2>5. (n + half) - half = n
    <3> HIDE DEF half
    <3>1. QED
      BY <1>1
  <2>6. QED
    BY <2>3, <2>4, <2>5, Zenon
<1>5. CASE sdk \notin {"rust", "java"}
  BY <1>5 DEF Wrapped
<1>6. QED
  BY <1>3, <1>4, <1>5

\* The exact sums: the first is zero, the last the sum of all shares, and each adds a share.
LEMMA PrefixSums ==
  ASSUME fee.shares \in Seq(Int)
  PROVE  /\ PrefixSum(0) = 0
         /\ PrefixSum(Len(fee.shares)) = SumFunction(fee.shares)
         /\ \A k \in 0 .. Len(fee.shares) : PrefixSum(k) \in Int
         /\ \A k \in 0 .. Len(fee.shares) - 1 :
              PrefixSum(k + 1) = PrefixSum(k) + fee.shares[k + 1]
<1> DEFINE q == fee.shares
<1>1. Len(q) \in Nat /\ DOMAIN q = 1 .. Len(q)
  OBVIOUS
<1>2. PrefixSum(0) = 0
  <2>1. IsFiniteSet({}) /\ 1 .. 0 = {}
    BY FS_EmptySet
  <2>2. QED
    BY <2>1, SumPicked DEF PrefixSum
<1>3. PrefixSum(Len(q)) = SumFunction(q)
  BY <1>1 DEF PrefixSum, SumFunction
<1>4. ASSUME NEW k \in 0 .. Len(q) PROVE PrefixSum(k) \in Int
  <2>1. k \in Nat /\ IsFiniteSet(1 .. k)
    BY <1>1, FS_Interval
  <2>2. \A x \in 1 .. k : q[x] \in Int
    BY <1>1
  <2>3. SumFunctionOnSet(q, 1 .. k) \in Int
    <3> HIDE DEF q
    <3>1. QED
      BY <2>1, <2>2, SumType
  <2>4. QED
    BY <2>3 DEF PrefixSum
<1>5. ASSUME NEW k \in 0 .. Len(q) - 1 PROVE PrefixSum(k + 1) = PrefixSum(k) + q[k + 1]
  BY <1>1, SumPrefix DEF PrefixSum
<1>6. QED
  BY <1>2, <1>3, <1>4, <1>5

\* Without a negative share no sum exceeds a later one.
LEMMA PrefixSumsGrow ==
  ASSUME fee.shares \in Seq(Int), NoNegativeShare(fee),
         NEW m \in 0 .. Len(fee.shares), NEW k \in 0 .. m
  PROVE  PrefixSum(k) <= PrefixSum(m)
<1> DEFINE n == Len(fee.shares)
           F == {j \in Nat : j <= n => \A i \in 0 .. j : PrefixSum(i) <= PrefixSum(j)}
<1>1. n \in Nat /\ DOMAIN fee.shares = 1 .. n
  OBVIOUS
<1> HIDE DEF n
<1>2. 0 \in F
  <2>1. PrefixSum(0) = 0 /\ \A i \in 0 .. 0 : i = 0
    BY PrefixSums
  <2>2. QED
    BY <2>1
<1>3. ASSUME NEW j \in Nat, j \in F PROVE j + 1 \in F
  <2> SUFFICES ASSUME j + 1 <= n, NEW i \in 0 .. j + 1
               PROVE  PrefixSum(i) <= PrefixSum(j + 1)
    OBVIOUS
  <2>1. j \in 0 .. n - 1 /\ j \in 0 .. n /\ j + 1 \in 0 .. n /\ i \in 0 .. n
    BY <1>1
  <2>2. /\ PrefixSum(j + 1) = PrefixSum(j) + fee.shares[j + 1]
        /\ PrefixSum(i) \in Int /\ PrefixSum(j) \in Int
    BY <2>1, PrefixSums DEF n
  <2>3. fee.shares[j + 1] \in Int /\ fee.shares[j + 1] >= 0
    <3>1. j + 1 \in 1 .. n
      BY <1>1, <2>1
    <3>2. QED
      BY <1>1, <3>1 DEF NoNegativeShare
  <2>4. CASE i = j + 1
    BY <2>2, <2>3, <2>4
  <2>5. CASE i \in 0 .. j
    <3>1. PrefixSum(i) <= PrefixSum(j)
      BY <1>3, <2>1, <2>5
    <3>2. QED
      BY <2>2, <2>3, <3>1
  <2>6. QED
    BY <2>4, <2>5
<1>4. m \in F
  <2> HIDE DEF F
  <2>1. Nat \subseteq F
    BY <1>2, <1>3, NatInductionInSet
  <2>2. QED
    BY <2>1
<1>5. QED
  BY <1>1, <1>4 DEF n

\* Appending keeps what was there.
LEMMA AppendFacts ==
  ASSUME NEW q \in Seq(Int), NEW x \in Int
  PROVE  /\ Len(Append(q, x)) = Len(q) + 1 /\ Append(q, x)[Len(q) + 1] = x
         /\ \A k \in 1 .. Len(q) : Append(q, x)[k] = q[k]
OBVIOUS

\* Every word holds the whole, and with it the sum of a valid module.
LEMMA WholeHeld == Holds(sdk, 0) /\ Holds(sdk, BpsScale)
<1> DEFINE half == Word \div 2
<1>1. /\ BpsScale \in Nat /\ Word \in Nat \ {0} /\ half \in Nat /\ half * 2 = Word
      /\ 2 * BpsScale < Word
  BY FeeParameters
<1>2. BpsScale <= Word - 1 /\ BpsScale <= half - 1 /\ 0 - half <= 0
  <2> HIDE DEF half
  <2>1. QED
    BY <1>1
<1>3. 0 \in U32 /\ BpsScale \in U32
  BY <1>1, <1>2 DEF U32
<1>4. 0 \in I32 /\ BpsScale \in I32
  BY <1>1, <1>2 DEF I32
<1>5. QED
  BY <1>3, <1>4 DEF Holds

\* Rust's shares are naturals: where the word holds their sum, it holds every sum on the
\* way.
LEMMA RustSumsHeld ==
  ASSUME sdk = "rust", fee.shares \in Seq(Int),
         \A i \in DOMAIN fee.shares : Holds(sdk, fee.shares[i]),
         Holds(sdk, SumFunction(fee.shares)), NEW k \in 0 .. Len(fee.shares)
  PROVE  PrefixSum(k) \in U32
<1>1. NoNegativeShare(fee)
  BY DEF Holds, U32, NoNegativeShare
<1>2. Len(fee.shares) \in 0 .. Len(fee.shares) /\ 0 \in 0 .. k
  OBVIOUS
<1>3. PrefixSum(0) <= PrefixSum(k) /\ PrefixSum(k) <= PrefixSum(Len(fee.shares))
  BY <1>1, <1>2, PrefixSumsGrow
<1>4. /\ PrefixSum(0) = 0 /\ PrefixSum(k) \in Int
      /\ PrefixSum(Len(fee.shares)) = SumFunction(fee.shares)
  BY PrefixSums
<1>5. SumFunction(fee.shares) \in U32 /\ Word \in Nat
  BY FeeParameters DEF Holds
<1>6. QED
  BY <1>3, <1>4, <1>5 DEF U32

\* Hence a sum panics only where the word does not hold the sum of the shares.
LEMMA PanicMeansNotHeld ==
  ASSUME TypeOK, ValidationInv, PanicOnOverflow
  PROVE  ~Holds(sdk, SumFunction(fee.shares))
<1> DEFINE j == Len(running)
<1>1. /\ sdk = "rust" /\ j <= Len(fee.shares) /\ SharesTotal + NextShare \notin U32
      /\ fee.shares \in Seq(Int) /\ j \in Nat \ {0} /\ Len(fee.shares) \in Nat
      /\ \A i \in DOMAIN fee.shares : Holds(sdk, fee.shares[i])
  BY FeeParameters DEF TypeOK, ValidationInv, PanicOnOverflow, Summed
<1>2. running[j] = Wrapped(sdk, PrefixSum(j - 1))
  BY <1>1 DEF ValidationInv, SumsTrackShares
<1> HIDE DEF j
<1>3. j - 1 \in 0 .. Len(fee.shares) - 1 /\ j - 1 \in 0 .. Len(fee.shares)
      /\ j \in 0 .. Len(fee.shares) /\ (j - 1) + 1 = j
  BY <1>1
<1>4. PrefixSum(j) = PrefixSum(j - 1) + fee.shares[j] /\ PrefixSum(j - 1) \in Int
  BY <1>1, <1>3, PrefixSums
<1>5. ASSUME Holds(sdk, SumFunction(fee.shares)) PROVE FALSE
  <2>1. PrefixSum(j - 1) \in U32 /\ PrefixSum(j) \in U32
    BY <1>1, <1>3, <1>5, RustSumsHeld
  <2>2. Wrapped(sdk, PrefixSum(j - 1)) = PrefixSum(j - 1)
    <3>1. Holds(sdk, PrefixSum(j - 1))
      BY <1>1, <2>1 DEF Holds
    <3>2. QED
      BY <1>4, <3>1, WrappedHeld
  <2>3. SharesTotal + NextShare = PrefixSum(j)
    BY <1>2, <1>4, <2>2 DEF SharesTotal, NextShare, j
  <2>4. QED
    BY <1>1, <2>1, <2>3
<1>6. QED
  BY <1>5

\* Go refuses a share before it adds it, and then one is negative.
LEMMA RefusedShareNegative ==
  ASSUME TypeOK, RefuseShare
  PROVE  ~NoNegativeShare(fee)
<1>1. Len(running) \in 1 .. Len(fee.shares) /\ fee.shares \in Seq(Int)
  BY FeeParameters DEF RefuseShare, Summed, TypeOK
<1>2. Len(running) \in DOMAIN fee.shares /\ fee.shares[Len(running)] \in Int
  BY <1>1
<1>3. fee.shares[Len(running)] < 0
  BY DEF RefuseShare, NextShare
<1>4. ~(fee.shares[Len(running)] >= 0)
  BY <1>2, <1>3
<1>5. QED
  BY <1>2, <1>4 DEF NoNegativeShare

\* The sums end in the sum of the shares, wrapped once.
LEMMA SumsEndWrapped ==
  ASSUME TypeOK, ValidationInv, Summed
  PROVE  SumFunction(fee.shares) \in Int /\ SharesTotal = Wrapped(sdk, SumFunction(fee.shares))
<1> DEFINE n == Len(fee.shares)
<1>1. fee.shares \in Seq(Int) /\ n \in Nat /\ Len(running) = n + 1
  BY FeeParameters DEF TypeOK, Summed
<1>2. running[n + 1] = Wrapped(sdk, PrefixSum(n))
  BY <1>1 DEF ValidationInv, SumsTrackShares
<1>3. PrefixSum(n) = SumFunction(fee.shares) /\ PrefixSum(n) \in Int
  BY <1>1, PrefixSums
<1>4. QED
  BY <1>1, <1>2, <1>3 DEF SharesTotal

\* Hence where the word holds the sum of the shares, the sums end in it.
LEMMA SumsEndInTotal ==
  ASSUME TypeOK, ValidationInv, Summed, Holds(sdk, SumFunction(fee.shares))
  PROVE  SharesTotal = SumFunction(fee.shares)
BY SumsEndWrapped, WrappedHeld

\* The validation invariant is inductive: a wrapped sum is the wrapped total, and none of
\* a valid module's sums exceeds the whole.
THEOREM ValidationCorrect == Spec => []ValidationInv
<1>1. Init => ValidationInv
  <2> SUFFICES ASSUME Init PROVE ValidationInv
    OBVIOUS
  <2>1. \A i \in DOMAIN fee.shares : Holds(sdk, fee.shares[i])
    BY DEF Init
  <2>2. fee.shares \in Seq(Int) /\ running = <<0>> /\ pc = "validate"
    BY FeeParameters DEF Init
  <2>3. Wrapped(sdk, PrefixSum(0)) = 0
    BY <2>2, PrefixSums, WholeHeld, WrappedHeld
  <2>4. SumsTrackShares
    <3>1. Len(running) = 1 /\ running[1] = 0 /\ 1 - 1 = 0
      BY <2>2
    <3>2. \A k \in 1 .. 1 : k = 1
      OBVIOUS
    <3>3. QED
      BY <2>3, <3>1, <3>2 DEF SumsTrackShares
  <2>5. QED
    BY <2>1, <2>2, <2>4 DEF ValidationInv, RejectsExactlyInvalid
<1>2. TypeOK /\ ValidationInv /\ [Next]_vars => ValidationInv'
  <2> SUFFICES ASSUME TypeOK, ValidationInv, [Next]_vars PROVE ValidationInv'
    OBVIOUS
  <2>1. /\ sdk' = sdk /\ fee' = fee
        /\ \A i \in DOMAIN fee.shares : Holds(sdk, fee.shares[i])
    BY DEF ValidationInv, Next, AddShare, RefuseShare, PanicOnOverflow, RefuseModule,
           AcceptModule, AllocateShare, ReturnDistribution, vars, input
  <2>2. (\A i \in DOMAIN fee.shares : Holds(sdk, fee.shares[i]))'
    BY <2>1 DEF Holds, U32, I32
  <2>3. ASSUME UNCHANGED running PROVE SumsTrackShares'
    BY <2>1, <2>3 DEF ValidationInv, SumsTrackShares, PrefixSum, Wrapped
  <2>4. /\ ValidFeeModule(fee)' = ValidFeeModule(fee)
        /\ Holds(sdk, SumFunction(fee.shares))' = Holds(sdk, SumFunction(fee.shares))
    BY <2>1 DEF ValidFeeModule, NoNegativeShare, Holds, U32, I32
  <2>5. ValidFeeModule(fee) => Holds(sdk, SumFunction(fee.shares))
    BY WholeHeld DEF ValidFeeModule
  <2>6. CASE AddShare
    <3> DEFINE j == Len(running)
    <3>1. /\ pc' = "validate" /\ j \in 1 .. Len(fee.shares)
          /\ running' = Append(running, Wrapped(sdk, running[j] + fee.shares[j]))
          /\ running \in Seq(Int) /\ fee.shares \in Seq(Int)
      BY <2>6, FeeParameters DEF AddShare, SharesTotal, NextShare, Summed, TypeOK
    <3>2. \A k \in 1 .. j : running[k] = Wrapped(sdk, PrefixSum(k - 1))
      BY DEF ValidationInv, SumsTrackShares
    <3>3. /\ Len(running') = j + 1 /\ running'[j + 1] = Wrapped(sdk, running[j] + fee.shares[j])
          /\ \A k \in 1 .. j : running'[k] = running[k]
      BY <3>1, AppendFacts
    <3> HIDE DEF j
    <3>4. Wrapped(sdk, running[j] + fee.shares[j]) = Wrapped(sdk, PrefixSum(j))
      <4>1. j - 1 \in 0 .. Len(fee.shares) - 1 /\ j - 1 \in 0 .. Len(fee.shares)
            /\ (j - 1) + 1 = j
        BY <3>1
      <4>2. PrefixSum(j) = PrefixSum(j - 1) + fee.shares[j] /\ PrefixSum(j - 1) \in Int
        BY <3>1, <4>1, PrefixSums
      <4>3. fee.shares[j] \in Int
        BY <3>1
      <4>4. running[j] = Wrapped(sdk, PrefixSum(j - 1))
        BY <3>1, <3>2
      <4>5. QED
        BY <4>2, <4>3, <4>4, WrappedSum
    <3>5. ASSUME NEW k \in 1 .. j + 1 PROVE running'[k] = Wrapped(sdk, PrefixSum(k - 1))
      <4>1. CASE k = j + 1
        <5>1. k - 1 = j
          BY <3>1, <4>1
        <5>2. QED
          BY <3>3, <3>4, <4>1, <5>1
      <4>2. CASE k \in 1 .. j
        BY <3>2, <3>3, <4>2
      <4>3. k = j + 1 \/ k \in 1 .. j
        <5>1. j \in Nat
          BY <3>1
        <5>2. QED
          BY <5>1
      <4>4. QED
        BY <4>1, <4>2, <4>3
    <3>6. SumsTrackShares'
      BY <2>1, <3>3, <3>5 DEF SumsTrackShares, PrefixSum, Wrapped
    <3>7. QED
      BY <2>2, <3>1, <3>6 DEF ValidationInv, RejectsExactlyInvalid
  <2>7. CASE RefuseShare
    <3>1. pc' = "rejected" /\ UNCHANGED running
      BY <2>7 DEF RefuseShare
    <3>2. ~NoNegativeShare(fee)
      BY <2>7, RefusedShareNegative
    <3>3. ~ValidFeeModule(fee)
      BY <3>2 DEF ValidFeeModule
    <3>4. QED
      BY <2>2, <2>3, <2>4, <3>1, <3>3 DEF ValidationInv, RejectsExactlyInvalid
  <2>8. CASE PanicOnOverflow
    <3>1. pc' = "panicked" /\ UNCHANGED running
      BY <2>8 DEF PanicOnOverflow
    <3>2. ~Holds(sdk, SumFunction(fee.shares))
      BY <2>8, PanicMeansNotHeld
    <3>3. QED
      BY <2>2, <2>3, <2>4, <2>5, <3>1, <3>2 DEF ValidationInv, RejectsExactlyInvalid
  <2>9. CASE RefuseModule
    <3>1. pc' = "rejected" /\ UNCHANGED running /\ Summed /\ ~ModuleAccepted
      BY <2>9 DEF RefuseModule
    <3>2. ~ValidFeeModule(fee)
      BY <2>5, <3>1, SumsEndInTotal DEF ValidFeeModule, ModuleAccepted
    <3>3. QED
      BY <2>2, <2>3, <2>4, <3>1, <3>2 DEF ValidationInv, RejectsExactlyInvalid
  <2>10. CASE AcceptModule
    <3>1. /\ pc' \in {"allocate", "accepted"} /\ UNCHANGED running
          /\ Summed /\ ModuleAccepted
      BY <2>10 DEF AcceptModule
    <3>2. Holds(sdk, SumFunction(fee.shares)) => ValidFeeModule(fee)
      BY <3>1, SumsEndInTotal DEF ValidFeeModule, ModuleAccepted
    <3>3. QED
      BY <2>2, <2>3, <2>4, <3>1, <3>2 DEF ValidationInv, RejectsExactlyInvalid
  <2>11. CASE AllocateShare \/ ReturnDistribution
    <3>1. /\ pc = "allocate" /\ pc' \in {"allocate", "done", "raised"}
          /\ UNCHANGED running
      BY <2>11 DEF AllocateShare, ReturnDistribution
    <3>2. ValidFeeModule(fee) \/ ~Holds(sdk, SumFunction(fee.shares))
      BY <3>1 DEF ValidationInv, RejectsExactlyInvalid
    <3>3. QED
      BY <2>2, <2>3, <2>4, <3>1, <3>2 DEF ValidationInv, RejectsExactlyInvalid
  <2>12. CASE UNCHANGED vars
    <3>1. UNCHANGED running /\ UNCHANGED pc
      BY <2>12 DEF vars
    <3>2. QED
      BY <2>2, <2>3, <2>4, <3>1 DEF ValidationInv, RejectsExactlyInvalid
  <2>13. QED
    BY <2>6, <2>7, <2>8, <2>9, <2>10, <2>11, <2>12 DEF Next
<1>3. QED
  BY <1>1, <1>2, TypeCorrect, PTL DEF Spec

\* Validation is exact: no SDK refuses a valid fee module or panics on one, and each
\* refuses every invalid one whose shares sum to something its word holds.
COROLLARY ValidationExact == Spec => []RejectsExactlyInvalid
<1>1. ValidationInv => RejectsExactlyInvalid
  BY DEF ValidationInv
<1>2. QED
  BY <1>1, ValidationCorrect, PTL

-----------------------------------------------------------------------------
(* The refinement *)

\* Adding up, paying out and recording implement a call that answers in one step with
\* what its arguments call for: every return gives such an answer, the module wrapped
\* once, the shares of the whole fee; and no other step is seen by the caller.
THEOREM RoutingRefines == Spec => Service!Safety
<1> DEFINE sum == SumFunction(fee.shares)
<1>1. Init => Service!Init
  <2> SUFFICES ASSUME Init PROVE Service!Init
    OBVIOUS
  <2>1. sdk \in SDK /\ fee \in FeeModule /\ amount \in Amount \cup {0} /\ pc = "validate"
    BY DEF Init
  <2>2. QED
    BY <2>1 DEF Service!Init, input
<1>2. TypeOK /\ ValidationInv /\ RoutingInv /\ [Next]_vars => [Service!Answer]_(Service!vars)
  <2> SUFFICES ASSUME TypeOK, ValidationInv, RoutingInv, [Next]_vars
               PROVE  [Service!Answer]_(Service!vars)
    OBVIOUS
  <2>1. CASE UNCHANGED vars
    BY <2>1 DEF vars, input, Service!vars
  <2>2. ASSUME pc \in {"validate", "allocate"}, pc' \in {"validate", "allocate"},
               UNCHANGED input
        PROVE  UNCHANGED Service!vars
    BY <2>2 DEF Service!vars, input
  <2>3. ASSUME pc \in {"validate", "allocate"}, UNCHANGED input,
               pc' \in {"rejected", "panicked", "accepted", "raised"},
               Verdict(pc') \in FeeAnswers(input)
        PROVE  Service!Answer
    BY <2>3 DEF Service!Answer
  <2>4. ASSUME pc \in {"validate", "allocate"}, UNCHANGED input, pc' = "done",
               FeeAnswer("done", totalFee', allocations') \in FeeAnswers(input)
        PROVE  Service!Answer
    BY <2>4 DEF Service!Answer
  <2>5. CASE AddShare \/ AllocateShare
    BY <2>2, <2>5 DEF AddShare, AllocateShare
  <2>6. CASE RefuseShare
    <3>1. pc = "validate" /\ pc' = "rejected" /\ UNCHANGED input
      BY <2>6 DEF RefuseShare
    <3>2. ~NoNegativeShare(fee)
      BY <2>6, RefusedShareNegative
    <3>3. Verdict("rejected") \in FeeAnswers(input)
      BY <3>2 DEF FeeAnswers, input
    <3> QED
      BY <2>3, <3>1, <3>3
  <2>7. CASE PanicOnOverflow
    <3>1. pc = "validate" /\ pc' = "panicked" /\ UNCHANGED input /\ sdk = "rust"
      BY <2>7 DEF PanicOnOverflow
    <3>2. ~Holds(sdk, sum)
      BY <2>7, PanicMeansNotHeld
    <3>3. Verdict("panicked") \in FeeAnswers(input)
      BY <3>1, <3>2 DEF FeeAnswers, Panics, input
    <3> QED
      BY <2>3, <3>1, <3>3
  <2>8. CASE RefuseModule
    <3>1. pc = "validate" /\ pc' = "rejected" /\ UNCHANGED input /\ Summed /\ ~ModuleAccepted
      BY <2>8 DEF RefuseModule
    <3>2. ~(NoNegativeShare(fee) /\ Wrapped(sdk, sum) = BpsScale)
      BY <3>1, SumsEndWrapped DEF ModuleAccepted
    <3>3. Verdict("rejected") \in FeeAnswers(input)
      BY <3>2 DEF FeeAnswers, input
    <3> QED
      BY <2>3, <3>1, <3>3
  <2>9. CASE AcceptModule
    <3>1. pc = "validate" /\ UNCHANGED input /\ Summed /\ ModuleAccepted
      BY <2>9 DEF AcceptModule
    <3>2. CASE sdk = "python"
      BY <2>2, <2>9, <3>1, <3>2 DEF AcceptModule
    <3>3. CASE sdk # "python"
      <4>1. pc' = "accepted"
        BY <2>9, <3>3 DEF AcceptModule
      <4>2. NoNegativeShare(fee) /\ Wrapped(sdk, sum) = BpsScale
        BY <3>1, SumsEndWrapped DEF ModuleAccepted
      <4>3. Verdict("accepted") \in FeeAnswers(input)
        BY <3>3, <4>2 DEF FeeAnswers, input
      <4> QED
        BY <2>3, <3>1, <4>1, <4>3
    <3> QED
      BY <3>2, <3>3
  <2>10. CASE ReturnDistribution
    <3>1. /\ pc = "allocate" /\ UNCHANGED <<input, totalFee, allocations>>
          /\ pc' = IF Encodable(totalFee) THEN "done" ELSE "raised"
          /\ Len(allocations) = Len(fee.shares)
      BY <2>10 DEF ReturnDistribution
    <3>2. /\ sdk = "python" /\ Summed /\ SharesTotal = BpsScale /\ NoNegativeShare(fee)
          /\ totalFee = TotalFee(fee, amount)
          /\ \A i \in DOMAIN allocations : allocations[i] = ShareOf(totalFee, fee.shares[i])
      BY <3>1 DEF RoutingInv
    <3>3. Wrapped(sdk, sum) = BpsScale
      BY <3>2, SumsEndWrapped
    <3>4. Distribution(fee, amount) \in FeeAnswers(input)
      BY <3>2, <3>3 DEF FeeAnswers, input
    <3>5. CASE ~Encodable(totalFee)
      <4>1. Distribution(fee, amount) = Verdict("raised")
        BY <3>2, <3>5 DEF Distribution
      <4> QED
        BY <2>3, <3>1, <3>4, <3>5, <4>1
    <3>6. CASE Encodable(totalFee)
      <4>1. allocations \in Seq(Int) /\ fee.shares \in Seq(Int)
        BY FeeParameters DEF TypeOK
      <4>2. allocations = [i \in DOMAIN fee.shares |-> ShareOf(totalFee, fee.shares[i])]
        BY <3>1, <3>2, <4>1
      <4>3. Distribution(fee, amount) = FeeAnswer("done", totalFee, allocations)
        BY <3>2, <3>6, <4>2 DEF Distribution
      <4> QED
        BY <2>4, <3>1, <3>4, <3>6, <4>3
    <3> QED
      BY <3>5, <3>6
  <2> QED
    BY <2>1, <2>5, <2>6, <2>7, <2>8, <2>9, <2>10 DEF Next
<1> QED
  BY <1>1, <1>2, TypeCorrect, ValidationCorrect, RoutingCorrect, PTL DEF Spec, Service!Safety
-----------------------------------------------------------------------------
(* The return *)

\* The steps the call has left: one a share to add up, one to decide, and in Python one a
\* share to pay out and one to record.
StepsLeft ==
  IF pc = "validate" THEN 2 * Len(fee.shares) + 3 - Len(running)
  ELSE IF pc = "allocate" THEN Len(fee.shares) + 1 - Len(allocations)
  ELSE 0

Nearer == StepsLeft \in 1 .. 2 * Len(fee.shares) + 2 /\ StepsLeft' \in 0 .. StepsLeft - 1

\* Every step brings the return nearer, whatever the shares: a validation and a payout
\* take at most two steps more than twice the shares.
THEOREM ReturnsInTime == Spec => [][Nearer]_vars
<1>1. TypeOK /\ TypeOK' /\ RoutingInv /\ [Next]_vars => [Nearer]_vars
  <2> SUFFICES ASSUME TypeOK, TypeOK', RoutingInv, Next
               PROVE  Nearer
    OBVIOUS
  <2> DEFINE n == Len(fee.shares)
             r == Len(running)       r2 == Len(running')
             a == Len(allocations)   a2 == Len(allocations')
             left == StepsLeft       left2 == StepsLeft'
             Fewer == left \in 1 .. 2 * n + 2 /\ left2 \in 0 .. left - 1
  <2>1. /\ n \in Nat /\ r \in 1 .. n + 1 /\ a \in 0 .. n
        /\ n' = n /\ a2 \in 0 .. n /\ r2 \in 1 .. n + 1
    <3>1. fee.shares \in Seq(Int) /\ n \in Nat
      BY FeeParameters DEF TypeOK
    <3>2. UNCHANGED fee
      BY DEF Next, AddShare, RefuseShare, PanicOnOverflow, RefuseModule, AcceptModule,
             AllocateShare, ReturnDistribution, input
    <3> QED  BY <3>1, <3>2 DEF TypeOK
  <2>2. left = IF pc = "validate" THEN 2 * n + 3 - r
               ELSE IF pc = "allocate" THEN n + 1 - a ELSE 0
    BY DEF StepsLeft
  <2>3. left2 = IF pc' = "validate" THEN 2 * n + 3 - r2
                ELSE IF pc' = "allocate" THEN n + 1 - a2 ELSE 0
    BY <2>1 DEF StepsLeft
  <2>4. ASSUME AddShare PROVE Fewer
    <3>1. pc = "validate" /\ pc' = pc /\ r2 = r + 1
      BY <2>4 DEF AddShare, TypeOK
    <3> HIDE DEF n, r, a, r2, a2, left, left2
    <3> QED  BY <2>1, <2>2, <2>3, <3>1
  <2>5. ASSUME RefuseShare \/ PanicOnOverflow \/ RefuseModule PROVE Fewer
    <3>1. pc = "validate" /\ pc' \in {"rejected", "panicked"}
      BY <2>5 DEF RefuseShare, PanicOnOverflow, RefuseModule
    <3> HIDE DEF n, r, a, r2, a2, left, left2
    <3> QED  BY <2>1, <2>2, <2>3, <3>1
  <2>6. ASSUME AcceptModule PROVE Fewer
    <3>1. /\ pc = "validate" /\ pc' \in {"allocate", "accepted"}
          /\ a = 0 /\ a2 = 0
      BY <2>6 DEF AcceptModule, RoutingInv
    <3> HIDE DEF n, r, a, r2, a2, left, left2
    <3> QED  BY <2>1, <2>2, <2>3, <3>1
  <2>7. ASSUME AllocateShare PROVE Fewer
    <3>1. pc = "allocate" /\ pc' = pc /\ a2 = a + 1
      BY <2>7 DEF AllocateShare, TypeOK
    <3> HIDE DEF n, r, a, r2, a2, left, left2
    <3> QED  BY <2>1, <2>2, <2>3, <3>1
  <2>8. ASSUME ReturnDistribution PROVE Fewer
    <3>1. pc = "allocate" /\ pc' \in {"done", "raised"}
      BY <2>8 DEF ReturnDistribution
    <3> HIDE DEF n, r, a, r2, a2, left, left2
    <3> QED  BY <2>1, <2>2, <2>3, <3>1
  <2>9. Fewer
    BY <2>4, <2>5, <2>6, <2>7, <2>8 DEF Next
  <2> QED  BY <2>9 DEF Nearer
<1> QED  BY <1>1, TypeCorrect, RoutingCorrect, PTL DEF Spec
=============================================================================
