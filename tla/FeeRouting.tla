----------------------------- MODULE FeeRouting -----------------------------
(***************************************************************************)
(* A fee module validated by one of the five SDKs and, in Python, which    *)
(* alone distributes fees, paid out by distribute_fees: the validation,    *)
(* then the total, then one floored share per allocation, then the record, *)
(* which raises where the total is not a 32-byte natural.                  *)
(*                                                                         *)
(* Rust and Java sum the shares in 32-bit words.  Rust's sum wraps in a    *)
(* release build and panics in a checked one.                              *)
(***************************************************************************)
EXTENDS FeeRules

CONSTANTS
  FeeModule, Amount,
  Word             \* 2^32

ASSUME FeeParameters ==
  /\ BpsScale \in Nat \ {0}
  /\ MaxUint \in Nat
  /\ Word \in Nat /\ Word % 2 = 0 /\ 2 * BpsScale < Word
  /\ FeeModule \subseteq [rate : Int, shares : Seq(Int)]
  /\ Amount \subseteq Nat

SDK == {"python", "rust", "go", "typescript", "java"}

VARIABLES
  sdk,
  fee,
  amount,
  pc,            \* "validate", then "rejected", "panicked" or "accepted"; in Python
                 \*   "allocate" in place of the last, then "done" or "raised"
  running,       \* running[k]: the sum of the first k-1 shares, as the sum runs
  totalFee,      \* total_fee
  allocations,   \* the amounts of the allocations made so far
  paid           \* History: their sum

input == <<sdk, fee, amount>>
vars == <<input, pc, running, totalFee, allocations, paid>>

U32 == 0 .. Word - 1
I32 == -(Word \div 2) .. Word \div 2 - 1

\* The integers a share or a rate can be in the SDK's own type.
Holds(by, n) ==
  /\ by = "rust" => n \in U32
  /\ by = "java" => n \in I32

\* What the SDK's sum makes of n.
Wrapped(by, n) ==
  IF by = "rust" THEN n % Word
  ELSE IF by = "java" THEN ((n + Word \div 2) % Word) - Word \div 2
  ELSE n

Init ==
  /\ sdk \in SDK
  /\ fee \in FeeModule
  /\ Holds(sdk, fee.rate) /\ \A i \in DOMAIN fee.shares : Holds(sdk, fee.shares[i])
  /\ amount \in (IF sdk = "python" THEN Amount ELSE {0})
  /\ pc = "validate"
  /\ running = <<0>>
  /\ totalFee = 0
  /\ allocations = <<>>
  /\ paid = 0

SharesTotal == running[Len(running)]
Summed == Len(running) > Len(fee.shares)

NextShare == fee.shares[Len(running)]

AddShare ==
  /\ pc = "validate" /\ ~Summed
  /\ sdk = "go" => NextShare >= 0
  /\ running' = Append(running, Wrapped(sdk, SharesTotal + NextShare))
  /\ UNCHANGED <<input, pc, totalFee, allocations, paid>>

\* Go looks at the sign before it adds.
RefuseShare ==
  /\ pc = "validate" /\ ~Summed
  /\ sdk = "go" /\ NextShare < 0
  /\ pc' = "rejected"
  /\ UNCHANGED <<input, running, totalFee, allocations, paid>>

\* With overflow checks on, Rust's sum panics rather than wraps.
PanicOnOverflow ==
  /\ pc = "validate" /\ ~Summed
  /\ sdk = "rust" /\ SharesTotal + NextShare \notin U32
  /\ pc' = "panicked"
  /\ UNCHANGED <<input, running, totalFee, allocations, paid>>

\* A sum short of the whole accepted (a mutant).
ModuleAtMostWhole == SharesTotal <= BpsScale /\ NoNegativeShare(fee)

\* The sign of the shares forgotten: their sum says nothing of it (a mutant).
ModuleSumsOnly == SharesTotal = BpsScale

\* Rust needs no test of signs, and Go has made it.
ModuleAccepted == SharesTotal = BpsScale /\ NoNegativeShare(fee)

RefuseModule ==
  /\ pc = "validate" /\ Summed
  /\ ~ModuleAccepted
  /\ pc' = "rejected"
  /\ UNCHANGED <<input, running, totalFee, allocations, paid>>

AcceptModule ==
  /\ pc = "validate" /\ Summed
  /\ ModuleAccepted
  /\ IF sdk = "python"
     THEN pc' = "allocate" /\ totalFee' = TotalFee(fee, amount)
     ELSE pc' = "accepted" /\ UNCHANGED totalFee
  /\ UNCHANGED <<input, running, allocations, paid>>

\* A share of what the recipients before it have left (a mutant).
AllocateFromRest ==
  /\ pc = "allocate" /\ Len(allocations) < Len(fee.shares)
  /\ LET share == ShareOf(totalFee - paid, fee.shares[Len(allocations) + 1])
     IN  /\ allocations' = Append(allocations, share)
         /\ paid' = paid + share
  /\ UNCHANGED <<input, pc, running, totalFee>>

AllocateShare ==
  /\ pc = "allocate" /\ Len(allocations) < Len(fee.shares)
  /\ LET share == ShareOf(totalFee, fee.shares[Len(allocations) + 1])
     IN  /\ allocations' = Append(allocations, share)
         /\ paid' = paid + share
  /\ UNCHANGED <<input, pc, running, totalFee>>

ReturnDistribution ==
  /\ pc = "allocate" /\ Len(allocations) = Len(fee.shares)
  /\ pc' = IF Encodable(totalFee) THEN "done" ELSE "raised"
  /\ UNCHANGED <<input, running, totalFee, allocations, paid>>

Next ==
  \/ AddShare \/ RefuseShare \/ PanicOnOverflow \/ RefuseModule \/ AcceptModule
  \/ AllocateShare \/ ReturnDistribution

\* The call runs to its return: nothing in it waits.
Spec == Init /\ [][Next]_vars /\ WF_vars(Next)

-----------------------------------------------------------------------------
(* Properties *)

TypeOK ==
  /\ sdk \in SDK /\ fee \in FeeModule /\ amount \in Amount \cup {0}
  /\ pc \in {"validate", "rejected", "panicked", "accepted", "allocate", "done", "raised"}
  /\ running \in Seq(Int) /\ Len(running) \in 1 .. Len(fee.shares) + 1
  /\ totalFee \in Int
  /\ allocations \in Seq(Int) /\ Len(allocations) \in 0 .. Len(fee.shares)
  /\ paid \in Int

\* No SDK refuses a valid module, or panics on one; and none accepts an invalid one whose
\* shares sum to something its word holds, whether it looks at the signs before, while or
\* after it sums.
RejectsExactlyInvalid ==
  pc # "validate" =>
    IF ValidFeeModule(fee) THEN pc \notin {"rejected", "panicked"}
    ELSE Holds(sdk, SumFunction(fee.shares)) => pc = "rejected"

\* What a call may return, by its arguments alone: the sum wraps at most once, signs are
\* looked at whatever the order, and each recipient gets the floor of its share of the
\* total, not of what is left of it.
FeeAnswer(outcome, total, amounts) ==
  [outcome |-> outcome, total |-> total, amounts |-> amounts]
Verdict(outcome) == FeeAnswer(outcome, 0, <<>>)
Distribution(module, value) ==
  LET total == TotalFee(module, value)
  IN  IF Encodable(total)
      THEN FeeAnswer("done", total,
                     [i \in DOMAIN module.shares |-> ShareOf(total, module.shares[i])])
      ELSE Verdict("raised")
Panics(by, sum) == by = "rust" /\ ~Holds(by, sum)
FeeAnswers(arguments) ==
  LET by == arguments[1]
      module == arguments[2]
      sum == SumFunction(module.shares)
  IN  { IF ~(NoNegativeShare(module) /\ Wrapped(by, sum) = BpsScale) THEN Verdict("rejected")
        ELSE IF by # "python" THEN Verdict("accepted")
        ELSE Distribution(module, arguments[3]) }
        \cup { v \in {Verdict("panicked")} : Panics(by, sum) }

\* The call, seen from outside: adding up and paying out are steps nobody sees, and the
\* answer comes at once, comes once, and is one its arguments call for.
Service ==
  INSTANCE CallService WITH
    Arguments <- SDK \X FeeModule \X (Amount \cup {0}),
    Pending <- Verdict("pending"),
    Answers <- FeeAnswers,
    arguments <- input,
    answer <- IF pc \in {"validate", "allocate"} THEN Verdict("pending")
              ELSE IF pc = "done" THEN FeeAnswer(pc, totalFee, allocations)
              ELSE Verdict(pc)
ImplementsService == Service!Spec

\* Rounding only ever leaves value over: the allocations never exceed the total fee, and
\* what they leave unallocated is less than one unit per allocation.
DustIsBounded ==
  pc = "done" => totalFee - paid \in 0 .. Len(fee.shares) - 1

\* No recipient is paid a negative amount or more than the whole fee, and with a rate of
\* at most the whole the fee never exceeds the amount transferred.
SharesWithinFee ==
  pc = "done" =>
    /\ \A i \in DOMAIN allocations : allocations[i] \in 0 .. totalFee
    /\ fee.rate <= BpsScale => totalFee <= amount

\* What the sums establish as they run; running is the ghost that ties the sum the
\* validation accepted to the shares that are then paid out.
SumsAgree ==
  /\ running[1] = 0
  /\ sdk = "python" =>
       \A k \in 1 .. Len(running) - 1 : running[k + 1] = running[k] + fee.shares[k]
\* Without a negative share the sums only grow, so that none exceeds the whole.
SumsGrow ==
  sdk = "python" /\ NoNegativeShare(fee) =>
    \A j, k \in 1 .. Len(running) : j <= k => running[j] <= running[k]

\* The k-th sum is the exact sum of the shares before it, wrapped: wrapping at every
\* step comes to the same as wrapping once.
PrefixSum(k) == SumFunctionOnSet(fee.shares, 1 .. k)
SumsTrackShares == \A k \in 1 .. Len(running) : running[k] = Wrapped(sdk, PrefixSum(k - 1))
ValidationInv ==
  /\ \A i \in DOMAIN fee.shares : Holds(sdk, fee.shares[i])
  /\ SumsTrackShares
  /\ RejectsExactlyInvalid

RoutingInv ==
  /\ SumsAgree
  /\ pc = "validate" => allocations = <<>> /\ paid = 0
  /\ pc \in {"allocate", "done", "raised"} =>
       /\ sdk = "python"
       /\ Summed /\ SharesTotal = BpsScale /\ NoNegativeShare(fee)
       /\ totalFee = TotalFee(fee, amount)
       /\ \A i \in DOMAIN allocations :
            allocations[i] = ShareOf(totalFee, fee.shares[i])
       /\ LET granted == totalFee * running[Len(allocations) + 1]
          IN  /\ paid * BpsScale <= granted
              /\ granted <= paid * BpsScale + Len(allocations) * (BpsScale - 1)
  /\ pc \in {"done", "raised"} => Len(allocations) = Len(fee.shares)
  /\ pc = "done" => Encodable(totalFee)
=============================================================================
