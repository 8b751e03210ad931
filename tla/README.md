# L3RS-1: models, checks and proofs

L3RS-1 is a standard for regulated assets: a Solidity contract that holds balances, and
five SDKs (Python, Rust, Go, TypeScript, Java) that evaluate compliance rules, identities,
fees, governance overrides and cross-chain certificates. This directory models their
decision logic in TLA+, checks it with TLC on small instances and proves the main results
with TLAPS for every value of the constants.

Only the contract keeps state of its own. The SDK functions take everything they need as
arguments and return a decision, so their hazards lie in what the *host* does between
calls: the same event twice, an identity that lapsed meanwhile, a certificate that arrives
after an amendment. Each SDK function is therefore modelled whole, inside the least
demanding host that could call it.

## 1. Inventory

| Component (source) | State | Operations | Interacts with | Hard part | Correct when |
|---|---|---|---|---|---|
| Asset contract (`solidity/contracts/L3RS1Asset.sol`) | life-cycle state, two oracle addresses, used nonces, balances, identity statuses | `setIdentityOracle`, `setComplianceOracle`, `setIdentityStatus`, `activate`, `transfer`, `mint`, `checkCompliance` | calls the compliance oracle; is called by the identity oracle and the issuer | transactions of all senders interleave; oracle and identities change between two of them; 256-bit checked arithmetic; retries | supply is conserved, a nonce settles once, value leaves only cleared accounts |
| Life cycle (`modules`: transition table) | the asset's state | `apply_state_transition` | executor, chains | which sequences lead back to trading | nothing trades after redemption |
| Compliance engine (`modules`: `evaluate_compliance`, `_eval_rule`) | none; a loop over sorted rules | nine rule predicates, scope, sort, early exit | executor, oracles' attestations | any input may be missing; Go's sort is unstable; five ports | the verdict is the conjunction of the predicates; missing inputs never help |
| Numeric parameters across SDKs | none | JSON to int, double, `i64` | engine | width, rounding, fractions, JSON types | the ports give one verdict; all shipped vectors pass |
| Identity binding | records per party | status, validation, enforced levels 0, 1, 3 | executor | several records, expiry, revocation, reissue | what is revoked, or lapsed before the event, vouches for nothing |
| Transfer executor, replay check | none; the host keeps the history | `execute_transfer`, `is_replay`, `construct_tx_id` | all of the above and fee routing | delayed, repeated, reordered events | settles once; always answers a replay as one |
| Fee routing | none | `validate_fee_module`, `distribute_fees` | executor | rounding, negative shares, 32-bit sums, totals that do not encode | pays out at most the fee, short by less than a unit each |
| Governance override | none; the host keeps records | `validate_override`, `validate_quorum`, `create_override_record` | signature verifier, chains | list against set, rounding, amendments in between | two rollbacks share authorities |
| Cross-chain certificate | none; certificates in flight | `build_cross_chain_certificate`, `verify_cross_chain`, `construct_cid` | hosts on several chains, relays | stale, repeated, mixed-up certificates | accepted only where rules and authorities match |
| Identifiers and shared ledger | none; the host keeps the history and the proofs | `construct_asset_id`, `construct_cid`, `construct_tx_id`, `construct_override_hash`, `is_replay`, `build_settlement_proof` | hosts on five SDKs over one ledger | text encodings, hex decoders, widths and errors differ per SDK | one claim has one id; one id means one claim; a transfer settles once, whoever it is handed to |
| Test vectors and crate tests | none | 31 decision vectors, unit tests of the Rust crate | all of the above | the model must answer as the tests say | every shipped case gives its expected answer |
| Canonical JSON, declared types, documents | none | formatting, declarations | | | see section 7 |

`PROJECT.json` lists the hazards at their lines with the properties that would catch them.

## 2. Modules

```
RegulatedLedger   AssetLifecycle
        ^                ^    ^
        | refines        |    |
        L3RS1Asset       |    +---------------- CrossChain -- GovernanceRules
                         |
ComplianceRules ---------+-- TransferExecutor -- FeeRules, IdentityRules
   ^        ^                    | refines           ^
   |        |                SettlementBook          |
ComplianceEngine  EngineParity                   FeeRouting
   | refines         ^                               | refines
CallService       ConformanceVectors             CallService

TransactionIds -- SharedLedger

CrateTests instantiates AssetLifecycle, IdentityRules, FeeRules and TransactionIds.
```

| Module | Models | Correspondence |
|---|---|---|
| `RegulatedLedger` | abstract: what the contract promises its holders | trading opens once; value moves between cleared parties while the gate is open; an id settles once |
| `AssetLifecycle` | the SDKs' transition table | `Successors` is the search of the table, `ApplyStateTransition` the call |
| `L3RS1Asset` | the contract | one variable per storage slot, one action per state-changing external function; a revert changes nothing, so an action's guard is exactly "the call does not revert", checked arithmetic included (`ArithmeticOK`). `Evaluate` is `_evaluate`. `SetResult` is the oracle contract's own change of mind. Four ghost variables record what settled, was minted, withheld and entitled. |
| `ComplianceRules` | the nine predicates, scope test, blocking actions | pure operators, one per rule type |
| `ComplianceEngine` | the loop | gate, sort, then one action per path through the body; the sort may leave any order that agrees with the priorities unless it is stable |
| `CallService` | abstract: what the caller of a function is promised | one answer, among those its arguments leave open, never changed; the engine leaves open `Verdicts`, a fee module `FeeAnswers` |
| `FeeRules`, `FeeRouting` | fee arithmetic; validation in five SDKs and distribution in Python, step by step | floored shares, the sum that runs in the SDK's word (it wraps in Java and a Rust release build, panics in a checked one), the sign tests where each SDK makes them, the record that raises |
| `IdentityRules` | status and validation of an identity record | used by the executor and the crate tests |
| `TransferExecutor` | `execute_transfer` with identities, replay, life cycle and rules composed | `Outcome` names the first step that fails in the code's order; the host makes events, delays and repeats them, revokes and reissues records, moves the asset through its life cycle and adds returned ids to its history |
| `SettlementBook` | abstract: what the executor promises the holders of an asset | ids entered while trading is open, none twice; trading halts, resumes and ends for good |
| `EngineParity` | what each SDK makes of a vector's numbers | one conversion per SDK, then the predicates of `ComplianceRules` on what was read; one job per SDK, ending in any order |
| `ConformanceVectors` | `compliance_vectors.json` and the Rust engine's unit tests | a case is a vector of `EngineParity` with its expected answer; fixtures of the Rust tests are operators of the same names |
| `CrateTests` | the other unit tests of the Rust crate | each is an assumption about the operators of the module it tests, which TLC evaluates with the parity runs |
| `TransactionIds` | the four identifiers, per SDK | an identifier is the sequence of bytes that is hashed: text encoder, hex decoder, integers and the error answer of each SDK |
| `SharedLedger` | hosts on five SDKs over one history | `Settle` is `is_replay` and the host's entry, `Publish` the other identifiers, `Prove` is `build_settlement_proof` |
| `GovernanceRules`, `CrossChain` | overrides and certificates on several chains | `ValidateOverride` and `VerifyCrossChain` are conjunctions of the code's tests; hosts certify, relays mix up fields, issuers amend, hosts accept and carry out |

Each `MC*` module gives the constants of one system their small sets. An operator marked
"a mutant" is a plausible bug; no action uses it.

Hashes are taken to be injective: an identifier is what is hashed, in the order the code
hashes it. In `TransactionIds` that is a sequence of bytes, so that texts laid end to end run
together as they do in the code; `TransferExecutor` and `CrossChain` keep the fields, and
concatenate texts alone.

Where the five SDKs agree on an operation the map names the Rust source.
`src/mod.rs` and `src/mnt/user-data/outputs/l3rs-multilang/rust/src/types/mod.rs` are
byte-for-byte copies of the crate's `modules/mod.rs` and `types/mod.rs`; what is said of the
crate holds of them.

## 3. Runs

| Run | Question | Distinct states |
|---|---|---|
| `asset_contract` | do supply, nonces, clearances and refinement survive every interleaving on one contract? | 113,216 |
| `compliance_engine` | does the loop compute the conjunction, blame the right rule, fail closed, and implement a service that answers once? | 293,768 |
| `fee_routing` | do five validations refuse exactly the invalid modules, does distribution stay within the fee, and is a call one answer that its arguments call for? | 243,893 |
| `transfer_executor` | do settlements stay unique, compliant and, but for lapses on the way, in good standing in an unreliable host, and does it implement the settlement book? | 564,440 |
| `engine_parity` | do the models give every shipped vector its answer, and on which others do the five SDKs agree? | 27,936 |
| `cross_chain` | do certificates link like with like, and do rollbacks of linked assets overlap? | 213,995 |
| `shared_ledger` | where do two SDKs agree on an id, does a transfer settle once among those that do, and does an id mean one claim? | 41,236 |

Five further runs each find a behaviour of the code that a document, comment or vector of
the repository says it does not have:

| Run | What the code does | What is said |
|---|---|---|
| `eligible_refused` | the executor evaluates rules without the parties' attributes, so `TRANSFER_ELIGIBILITY` refuses everyone | the vector `transfer_eligibility_both_valid_allows` |
| `lapsed_identity` | the executor judges identities at the time written in the event, so a delayed event settles after a party's record has lapsed | "VALID if current time < EXP", "settlement MUST NOT proceed unless Status(IR)=VALID", verification "at settlement time" |
| `engines_disagree` | an amount from 2^63 on passes a threshold in Rust, Go, Java | "MUST produce identical (allowed, blockedBy)" |
| `changed_destination` | a certificate is accepted where the asset has left the state certified and has other parameters or permitted overrides: no state is compared, and neither change is hashed | "configuration cannot be downgraded during cross-chain transfer"; "StateHash mismatch SHALL reject transfer", "State SHALL NOT be modified during cross-chain movement" (which the specification's own pseudo-code omits too) |
| `astral_names` | TypeScript encodes a character beyond U+FFFF as two three-byte sequences, so its ids differ from the other SDKs' | "Encode a string to UTF-8 bytes"; "all strings MUST be UTF-8 encoded" |

`ChangedAssetRefused` is weaker than each of the two statements it is about: a destination that
has changed in both respects should be refused on either ground. Its violation therefore
counts against both, and is two findings.

`StandingUnlessLapsedSince`, which holds, says how far `lapsed_identity` goes. It judges
settlements by the clock, as the specification does, with one exception: a record that lapsed
between the making of the event and its settlement. A revocation is never missed, and an
event that settles when it is made meets the specification. `LinksMatch` is about identity, rules
and authorities, and claims nothing of the state.

One more disagreement has a theorem instead of a run. The docstring of `_eval_rule`
(`modules/__init__.py:131`) says "Every branch fails closed: missing inputs, ... all -> False", and
a geographic rule without its list passes (line 154). `WithoutParameters` proves that it is
the only rule that does, party validity needing no parameter.

Two behaviours of the id follow from its construction and are stated positively by
`IdsIdentify`, which says what the id does tell apart: names hashed end to end run
together (the specification says that a replay "requires collision in H or reuse of
nonce"), and a nonce used again at another time makes another id ("Nonce SHALL be unique per
sender"; the contract, which keys on the nonce alone, enforces that). The asset is no part
of the id.

Every property of a passing run has a mutant in `PROJECT.json`: a definition and a form of
it with a plausible bug, under which TLC finds that property violated.

### Bounds, and why they are enough

- `asset_contract`: two accounts, one oracle contract, two nonces, `MaxUint` 4, rate 2/3.
  Sums and products overflow, fees round, self-transfers and a replay across two
  settlements happen. `address(0)` as a receiver and rates above the whole are left to the
  proofs, which bound neither accounts nor rate. Nonces are symmetric.
- `compliance_engine`: every list of up to two of thirteen rules (all nine types, both kinds of
  action, a foreign scope, missing parameters), and of three with two that tie; contexts on
  both sides of each boundary, each also with inputs withheld.
- `fee_routing`: up to three shares of -1 to 5 fifths, or four of 0 to 2, and
  some of 2, 5 and 7 for the word; rates from -1 to 6;
  amounts whose fee exceeds the largest total (6). Words of 12 values, so that sums wrap, some
  to exactly the whole, and overflow in a checked build.
- `transfer_executor`: two parties whose names are `x` and `xx`, two events, two times, two
  nonces, seven assets, two identity files. Two events are enough for a repeat, a reorder
  and a collision; one clock tick is enough for a record to lapse. Nonces are symmetric.
- `engine_parity`: the 31 shipped cases; beside them words of 20 bits and doubles exact up to
  2^18, so that there are numbers too long for a double, for `i64` and for `u64`, with
  fractions, quoted numbers and booleans, while every number of the shipped cases (times
  counted from a common origin) is small, as it is in the file.
- `shared_ledger`: words of one byte and amounts of two, so that amounts and times exceed what
  each SDK holds; names that run together, take two bytes, or are astral; nonces that differ
  in case, are malformed or of odd length. Two entries are the pair every property is about.
- `cross_chain`: two chains, one amendment or state change, two certificates (one may be a
  mixture), two overrides on record, three lists of two to four authorities of which one
  has a repetition. One amendment is enough to make origin and destination differ, two
  records are the pair the property is about. Chains are symmetric.

`MaxTime`, `MaxEvents`, `MaxAmendments`, `MaxCertificates`, `MaxRecords` and `MaxEntries` are the only
bounds in guards; no proof depends on their values.

Deadlock is checked for the contract and the executor, which must always accept some call.
It is not checked for the engine, fee and parity runs, whose behaviours end when the call or
the jobs return, nor for the chains and the shared ledger, where nobody need make another
call once amendments, certificates, records or entries have reached their bounds.

### Fairness

Only `ComplianceEngine` and `FeeRouting` assume any: `WF_vars(Next)`, for a function that
runs to its return and waits for nothing. Each implements the fairness of `CallService`:
every call gets its answer (`ImplementsService`). Contract, executor, ledger and chains get
none: nothing in the code makes a client call.

## 4. What is proved

`tlapm` checks every theorem below to the last leaf; "for every" means for every value of
the constants under the named assumptions of section 5.

| Module | Theorems | Argument |
|---|---|---|
| `OperatorLemmas` | `RuleMonotone`, `AllowedMonotone`, `WithoutParameters` | each predicate in turn: what it tests of a context with inputs withheld it finds unchanged in one that knows more; and of a rule without its parameters, that only the geographic predicate can hold, and when it does. The lemmas of the other modules are here too: division with remainder, sums over finite sets, flattened sequences, and the induction both need |
| `L3RS1AssetProofs` | `TypeCorrect`, `NonceOnce`, `HoldersEntitled`, `DebitsCleared`, `UnclearedFrozen`, `SettlementLocal`, `SupplyIsConserved`, `LedgerImplemented` | `TypeOK` is inductive because `ArithmeticOK` is exactly what keeps each result within a word. `NonceSettlesOnce` and `HoldersWereEntitled` are inductive with it. Action properties follow from `TypeOK` step by step; refinement from one step per action, `Transfer` mapping to `Settle` with gross amount and net amount. `SupplyConserved` is inductive with `TypeOK`: a credit or a debit changes the sum of the balances by as much (`SumExcept`), twice at one account where a transfer is to oneself, and what a transfer does not credit is the fee. |
| `ComplianceEngineProofs` | `TypeCorrect`, `Verdict`, `Blame`, `FailsClosed`, `EngineRefines`, `SortSucceeds`, `ReturnsInTime` | `ScanInv`: no rule the loop has gone past blocks. Neither the verdict nor the blame is inductive alone, since they speak only of the end; with the sorted order the invariant gives both. `EngineRefines`: every return is then an `Answer` of `CallService`, every other step a stutter (its safety part). `SortSucceeds`: the number of rules that come before a rule, by priority and then by the list, is different for every rule (`RanksPermute`), so an injection of the list into itself, hence onto it, and its inverse is an order the sort may leave. `ReturnsInTime`: the measure `StepsLeft` is a natural that every step lowers |
| `FeeRoutingProofs` | `TypeCorrect`, `RoutingCorrect`, `SumsGrowing`, `DustBounded`, `SharesBounded`, `ValidationCorrect`, `ValidationExact`, `RoutingRefines`, `ReturnsInTime` | `RoutingInv`, for the SDK that distributes: the ghost `running` keeps the partial sums validation ran over, so what has been paid accounts for the part granted up to rounding; without it nothing ties the accepted sum to the shares paid later. `SumsGrow`: without a negative share those sums only grow from 0 to the whole, so that each step between them, a share, lies within the whole. `ValidationInv`, for all five SDKs: every running sum is the sum of the shares so far, wrapped once to the word (`SumsTrackShares`), however often it wrapped on the way; the property alone speaks only of the end. The last running sum is then the total wherever the word holds it, and Rust's shares, unsigned, only make the sums grow, so that a checked build panics only where the total is too large. `RoutingRefines` puts both invariants together: every return is an `Answer` of `CallService`, computed from the module and the amount alone. A share Go refuses early is a negative share of the module, whose whole sum is not asked; the amounts paid out one by one are the function of the shares that `Distribution` states at once. `ReturnsInTime` as for the engine |
| `TransferExecutorProofs` | `TypeCorrect`, `SettledOnce`, `ReplayAnswered`, `SettledCompliant`, `OnlyNumbersSettle`, `GoodStanding`, `RedemptionFinal`, `BookImplemented` | `TypeOK` says that the history is exactly the set of ids of the log. What settled was allowed in the context the executor builds (`Blindly`, inductive): by `AllowedMonotone` it is allowed in any that knows more, and since only a threshold or a trading window can hold in that context, no other blocking rule is in force where anything settles, which is how far the finding `eligible_refused` reaches. `GoodStanding` does the same for `lapsed_identity`: a record found valid at the event's time is either valid by the clock or has lapsed since (`VouchesOrLapsed`) |
| `EngineParityProofs` | `ResultsCorrect`, `SafeAgreement`, `IntegerAgreement`, `ShippedPass` | each conversion is the identity on safe numbers, for any word size and precision; decisions that read equal numbers are equal. `ShippedPass`, for every word and precision that holds the numbers of the cases (`NumbersFit`): its cases are safe (`SmallIsSafe`), so all five read what Python reads, and the answer comes down to the predicate of the rule on the fields the file gives (`OneTestRule`, then one lemma per group of cases); the two rules of the priority case are compared in `PriorityAnswered`. The run has 20-bit words and 2^18 in a double, the SDKs 2^63 and 2^53 |
| `SharedLedgerProofs` | `TypeCorrect`, `SettledOnce`, `RecordedVerified`, `CidIdentifies`, `IdsIdentified` | on standard fields in range each decoder and integer field is the same function in all SDKs, and so is each encoder but TypeScript's, which differs on astral characters alone: where SDKs agree, ids are equal and the history, which `TypeOK` ties to the entries, catches a second settlement. `RecordedVerified` is exact, both ways: if TypeScript's id equals another's, the texts have the same bytes in both; their last characters end alike and are compared (four bytes are not six), and what precedes them by induction, so that none is astral. That is how far the finding `astral_names` reaches. `IdsIdentified` inverts each identifier: its fields of fixed length are taken off the end one by one; bytes decide a number modulo what they hold, one digit after another; hex decides its digits up to case. What is left is text, of any length: no character's bytes, in any SDK, end another's, UTF-8 and TypeScript's pairs of surrogates mixed, so the last character is decided and what precedes it follows by induction |
| `CrossChainProofs` | `TypeCorrect`, `CidsGenuine`, `LinksAgree`, `QuorumsHeld`, `RollbacksOverlap` | `CidOfOrigin`: a certificate in flight keeps the id of one built from its origin, so acceptance compares the destination with the origin. With lists equal, `QuorumsOverlap` counts: two sets of two thirds of a list share a third, repetitions included |

## 5. Assumptions

`ParametersOK`, `EngineParameters`, `FeeParameters`, `ExecutorParameters`, `WordsOK`,
`VectorsOK`, `WidthsOK`, `LedgerParameters` and `ChainParameters` give constants their types,
and TLC evaluates each. `FeeParameters` has the word hold twice the whole, as 2^32 does. They bound
nothing the code leaves unbounded: the contract's rate is any natural, lists have any
length. The accounts of the contract are a finite set, an address being 20 bytes; the word of
`FeeRouting` has an even number of values, as its signed readings need; texts are sequences
of Unicode scalar values, which is what a Rust `String` holds. Beyond them: hash functions are injective; timestamps are small enough for every
SDK; the host's signature verifier is correct; a call to the contract is atomic, and the
oracle's `evaluate` does not call back (the interface declares it `view`). `ShippedPass` names
its two: `NumbersFit`, and `MissingApart`, an absent value being no number and none of the
texts of the cases (it is the empty string, or null).

## 6. What is only model-checked

- The assumptions of `CrateTests`, and `CorpusComplete` of `ConformanceVectors` (31 cases): they
  are about concrete values, which an evaluation settles.
- The liveness half of `ImplementsService`, of the engine and of fee routing, under fairness:
  `ENABLED` is beyond the prover. What it rests on is proved: every step lowers a natural
  measure (`ReturnsInTime`), so a call that keeps taking steps returns, and the only guard
  that could leave a call without a step, the choice of a sorted order, never does
  (`SortSucceeds`); the other guards of a program counter are complementary tests.

The provers cannot instantiate the library's induction theorems, which take an operator.
Where a proof needs induction it is over a set instead (`NatInductionInSet`,
`SubsetInduction`), and an operator of the community modules defined by recursion (a sum, a
flattened sequence) is first given the equation it is computed by: that a function which
satisfies the equation exists is itself shown by induction (`SumsExist`, `FlatsExist`).

`RejectsExactlyInvalid` leaves out a sum beyond the word: one that wraps to exactly
the whole is accepted by Java and by Rust in a release build. `IdsIdentify` says nothing of
where one text ends and the next begins, since the code does not either.

## 7. What is not modelled, and why

- Canonical JSON (key order, escapes, number formatting): no decision reads it; the hashes of
  rules and authorities it feeds are modelled by what they cover (`ComplianceHash`,
  `GovernanceHash`).
- SHA-256 and the hash of identity data (Python only): taken to be injective.
- Reserve, legal, insolvency, redemption and metadata types are declarations that no
  operation reads.
- The contract's `block.timestamp` and the ids hashed from it are emitted and returned, and
  nothing branches on them.
- White space and signs in hex texts, which Python's and TypeScript's decoders read in ways of
  their own; unpaired surrogates in names.
- The settlement proof that `execute_transfer` returns, whose state hash is always the empty string
  where the specification hashes balances and states; `build_settlement_proof`, handed a hash, is
  modelled.
- Fractional fee shares in TypeScript, and sums beyond the 64-bit `int` of Go.
- Co-signatures are not verified by the code, and so not by the model: a co-signer is a
  name that appears in a list.
- Two workers of one host racing between `is_replay` and the entry in the history: the
  functions are handed the history, and the repository has no host that says what it locks.

## 8. Plan

Contract, engine with its abstract service, fee routing in five SDKs, executor with its
abstract book, parity with
the shipped vectors, governance with certificates, and identifiers over a shared ledger
are done. What would come next:

1. Contract and SDK together: the executor deciding off chain and the contract settling on
   chain, whose replay keys, fee rules and identity tests differ.
2. Proofs: what the executor's fees and the contract's have in common once the two are
   composed, from the lemmas on sums and division.
