----------------------------- MODULE CrateTests -----------------------------
(***************************************************************************)
(* The unit tests of the Rust crate, as assumptions about the models they  *)
(* are tests of: what the crate asserts of its functions the operators     *)
(* must give too.  The tests of the engine are in ConformanceVectors.      *)
(*                                                                         *)
(* Timestamps are packed in three bytes and counted in hours, which is all *)
(* that fits TLC's integers; hex texts keep their digits.                  *)
(***************************************************************************)
EXTENDS Integers, Sequences

Lifecycle == INSTANCE AssetLifecycle WITH state <- "ISSUED"
Identity  == INSTANCE IdentityRules
Fees      == INSTANCE FeeRules WITH BpsScale <- 10000, MaxUint <- 0
Crypto    == INSTANCE TransactionIds WITH WordBytes <- 3, AmountBytes <- 3

-----------------------------------------------------------------------------
(* Texts as character codes *)

Digit(n) == 48 + n
Repeated(text, n) == [i \in 1 .. n * Len(text) |-> text[((i - 1) % Len(text)) + 1]]

\* The generator point of secp256k1, compressed; its 33 bytes are shortened to the first four.
PUBKEY == <<48, 50, 55, 57, 98, 101, 54, 54>>
TS == 483432
Nonce(n) == Append(Repeated(<<48>>, 15), Digit(n))

-----------------------------------------------------------------------------
(* Identifiers *)

Issuance(nonce) == [pubkey |-> PUBKEY, timestamp |-> TS, nonce |-> nonce]

\* The bytes hashed for the canonical asset id: the key, the time and the nonce.
AssetIdTests ==
  /\ Crypto!ConstructAssetId("rust", Issuance(Nonce(1)))
       = <<2, 121, 190, 102>> \o Crypto!BigEndian(TS, 3) \o <<0, 0, 0, 0, 0, 0, 0, 1>>
  /\ Crypto!ConstructAssetId("rust", Issuance(Nonce(1)))
       # Crypto!ConstructAssetId("rust", Issuance(Nonce(2)))

Fill(c) == Repeated(<<c>>, 64)

Certificate(timestamp) ==
  [asset_id |-> Fill(97), state_hash |-> Fill(98), compliance_hash |-> Fill(99),
   governance_hash |-> Fill(100), timestamp |-> timestamp]

CidTests ==
  Crypto!ConstructCid("rust", Certificate(1000)) # Crypto!ConstructCid("rust", Certificate(1001))

Event(nonce) ==
  [sender |-> <<97, 108, 105, 99, 101>>, receiver |-> <<98, 111, 98>>, amount |-> 1000,
   nonce |-> nonce, timestamp |-> TS]

ReplayTests ==
  LET history == {Crypto!ConstructTxId("rust", Event(Nonce(1)))}
  IN  /\ Crypto!ConstructTxId("rust", Event(Nonce(1))) \in history
      /\ Crypto!ConstructTxId("rust", Event(Nonce(2))) \notin history

-----------------------------------------------------------------------------
(* Life cycle *)

ValidCases ==
  { <<"ISSUED", "ACTIVATION", "ACTIVE">>, <<"ACTIVE", "BREACH", "RESTRICTED">>,
    <<"ACTIVE", "FREEZE", "FROZEN">>, <<"RESTRICTED", "CLEARED", "ACTIVE">>,
    <<"FROZEN", "RELEASE", "ACTIVE">>, <<"ACTIVE", "REDEMPTION", "REDEEMED">>,
    <<"REDEEMED", "FINALIZATION", "BURNED">>, <<"ACTIVE", "SUSPENSION", "SUSPENDED">>,
    <<"SUSPENDED", "REINSTATEMENT", "ACTIVE">> }

RejectedCases == {<<"BURNED", "ACTIVATION">>, <<"ISSUED", "FREEZE">>}

TransitionTests ==
  /\ \A case \in ValidCases : Lifecycle!Successors(case[1], case[2]) = {case[3]}
  /\ \A case \in RejectedCases : Lifecycle!Successors(case[1], case[2]) = {}

-----------------------------------------------------------------------------
(* Fees and identities *)

FeeModule(shares) == [rate |-> 100, shares |-> shares]

FeeTests ==
  /\ Fees!ValidFeeModule(FeeModule(<<2000, 3000, 2000, 2500, 500>>))
  /\ ~Fees!ValidFeeModule(FeeModule(<<5000>>))

Record(expiry, revoked) ==
  [jurisdiction |-> "US", expiry |-> expiry, revoked |-> revoked, proof |-> FALSE]

IdentityTests ==
  /\ Identity!IdentityStatus(Record(TS + 1, FALSE), TS) = "VALID"
  /\ Identity!IdentityStatus(Record(TS - 1, FALSE), TS) = "EXPIRED"
  /\ Identity!IdentityStatus(Record(TS + 1, TRUE), TS) = "REVOKED"

-----------------------------------------------------------------------------
ASSUME CrateTestsPass ==
  AssetIdTests /\ CidTests /\ ReplayTests /\ TransitionTests /\ FeeTests /\ IdentityTests
=============================================================================
