--------------------------- MODULE TransactionIds ---------------------------
(***************************************************************************)
(* The identifiers the SDKs construct (sections 2.2, 5.10, 8.3 and 9.6):   *)
(* every one is SHA-256 over fields laid end to end.  The hash is taken to *)
(* be injective, so an identifier is the sequence of bytes that is hashed. *)
(*                                                                         *)
(* A text is a sequence of Unicode scalar values.  A hex text holds hex    *)
(* digits of either case and, where it is malformed, other letters; white  *)
(* space and signs, which Python and TypeScript read in ways of their own, *)
(* are left out.                                                           *)
(***************************************************************************)
EXTENDS Integers, Sequences, SequencesExt

CONSTANTS
  WordBytes,     \* 8: the bytes of u64, i64 and a timestamp
  AmountBytes    \* 32: the bytes an amount is padded to

ASSUME WidthsOK == WordBytes \in Nat /\ AmountBytes \in Nat /\ WordBytes <= AmountBytes

\* The powers of 256, by the equation they are proved from.
Power[k \in 0 .. AmountBytes] == IF k = 0 THEN 1 ELSE 256 * Power[k - 1]

Unsigned(bytes) == Power[bytes]

SDK == {"python", "rust", "go", "typescript", "java"}

\* The answer of an SDK that reports an error: no byte sequence.
Refused == <<-1>>

Signed(n) == 2 * n < Unsigned(WordBytes) /\ -(2 * n) <= Unsigned(WordBytes)

-----------------------------------------------------------------------------
(* Texts *)

\* A character: a code point that is no surrogate.
IsScalar(c) == c < 1114112 /\ ~(c >= 55296 /\ c < 57344)

Utf8(c) ==
  IF c < 128 THEN <<c>>
  ELSE IF c < 2048 THEN <<192 + c \div 64, 128 + (c % 64)>>
  ELSE IF c < 65536 THEN <<224 + c \div 4096, 128 + ((c \div 64) % 64), 128 + (c % 64)>>
  ELSE <<240 + c \div 262144, 128 + ((c \div 4096) % 64),
         128 + ((c \div 64) % 64), 128 + (c % 64)>>

Astral(c) == c >= 65536

\* fromUtf8 of the TypeScript SDK encodes the two UTF-16 units of an astral character one
\* by one, three bytes each.
SurrogateBytes(c) ==
  Utf8(55296 + (c - 65536) \div 1024) \o Utf8(56320 + ((c - 65536) % 1024))

\* TypeScript's char codes stored as bytes, which keeps the low eight bits (a mutant).
CharBytesUnencoded(sdk, c) == IF sdk = "typescript" THEN <<c % 256>> ELSE Utf8(c)

CharBytes(sdk, c) ==
  IF sdk = "typescript" /\ Astral(c) THEN SurrogateBytes(c) ELSE Utf8(c)

TextBytes(sdk, text) == FlattenSeq([i \in DOMAIN text |-> CharBytes(sdk, text[i])])

-----------------------------------------------------------------------------
(* Hex texts *)

HexValue(c) ==
  IF c \in 48 .. 57 THEN c - 48
  ELSE IF c \in 65 .. 70 THEN c - 55
  ELSE IF c \in 97 .. 102 THEN c - 87
  ELSE -1

AllDigits(hex) == \A i \in DOMAIN hex : HexValue(hex[i]) # -1

WellFormedHex(hex) == Len(hex) % 2 = 0 /\ AllDigits(hex)

\* The pair of characters from i on as Java reads it: a character that is no digit
\* counts as -1.
DigitPair(hex, i) == (16 * HexValue(hex[i]) + HexValue(hex[i + 1])) % 256

\* As parseInt reads it: up to the first character that is no digit, NaN being stored as 0.
ParsedPair(hex, i) ==
  IF HexValue(hex[i]) = -1 THEN 0
  ELSE IF HexValue(hex[i + 1]) = -1 THEN HexValue(hex[i])
  ELSE DigitPair(hex, i)

\* Rust, Go and Python refuse what is malformed.  Java raises on an odd length alone;
\* TypeScript drops the last digit of an odd length.
HexBytes(sdk, hex) ==
  IF sdk = "typescript" THEN [k \in 1 .. Len(hex) \div 2 |-> ParsedPair(hex, 2 * k - 1)]
  ELSE IF Len(hex) % 2 = 1 \/ (sdk # "java" /\ ~AllDigits(hex)) THEN Refused
  ELSE [k \in 1 .. Len(hex) \div 2 |-> DigitPair(hex, 2 * k - 1)]

-----------------------------------------------------------------------------
(* Numbers *)

\* The low bytes of n, in two's complement where n is negative.
BigEndian(n, bytes) == [i \in 1 .. bytes |-> (n \div Power[bytes - i]) % 256]

\* Rust, Go and Java hold a timestamp as a signed word; Python packs it unsigned and raises.
TimeBytes(sdk, t) ==
  IF \/ sdk \in {"rust", "go", "java"} /\ ~Signed(t)
     \/ sdk = "python" /\ t \notin 0 .. Unsigned(WordBytes) - 1
  THEN Refused ELSE BigEndian(t, WordBytes)

\* Go's eight bytes written without the padding before them (a mutant).
UnpaddedAmountField(sdk, n) ==
  BigEndian(n, IF sdk = "go" THEN WordBytes ELSE AmountBytes)

\* Rust and Go hold an amount as u64; Python raises where it exceeds 32 bytes, TypeScript
\* and Java keep the low 32.
AmountField(sdk, n) ==
  IF \/ sdk \in {"rust", "go"} /\ n >= Unsigned(WordBytes)
     \/ sdk = "python" /\ n >= Unsigned(AmountBytes)
  THEN Refused ELSE BigEndian(n, AmountBytes)

-----------------------------------------------------------------------------
(* Identifiers *)

\* An error in any field is the answer of the whole call.
HashUnlessRefused(fields, bytes) ==
  IF \E i \in DOMAIN fields : fields[i] = Refused THEN Refused ELSE bytes

ConstructAssetId(sdk, issuance) ==
  LET pk == HexBytes(sdk, issuance.pubkey)
      ts == TimeBytes(sdk, issuance.timestamp)
      nonce == HexBytes(sdk, issuance.nonce)
  IN  HashUnlessRefused(<<pk, ts, nonce>>, pk \o ts \o nonce)

\* The governance hash left out (a mutant).
ConstructCidUngoverned(sdk, certificate) ==
  LET id == HexBytes(sdk, certificate.asset_id)
      sh == HexBytes(sdk, certificate.state_hash)
      ch == HexBytes(sdk, certificate.compliance_hash)
      ts == TimeBytes(sdk, certificate.timestamp)
  IN  HashUnlessRefused(<<id, sh, ch, ts>>, id \o sh \o ch \o ts)

ConstructCid(sdk, certificate) ==
  LET id == HexBytes(sdk, certificate.asset_id)
      sh == HexBytes(sdk, certificate.state_hash)
      ch == HexBytes(sdk, certificate.compliance_hash)
      gh == HexBytes(sdk, certificate.governance_hash)
      ts == TimeBytes(sdk, certificate.timestamp)
  IN  HashUnlessRefused(<<id, sh, ch, gh, ts>>, id \o sh \o ch \o gh \o ts)

ConstructTxId(sdk, event) ==
  LET amount == AmountField(sdk, event.amount)
      nonce == HexBytes(sdk, event.nonce)
      ts == TimeBytes(sdk, event.timestamp)
  IN  HashUnlessRefused(<<amount, nonce, ts>>,
        TextBytes(sdk, event.sender) \o TextBytes(sdk, event.receiver)
          \o amount \o nonce \o ts)

ConstructOverrideHash(sdk, override) ==
  LET ts == TimeBytes(sdk, override.timestamp)
  IN  HashUnlessRefused(<<ts>>,
        TextBytes(sdk, override.override_id) \o TextBytes(sdk, override.authority)
          \o TextBytes(sdk, override.action) \o ts)

\* build_settlement_proof, of the Python SDK, constructs the id anew.
BuildSettlementProof(event, block_height, state_hash) ==
  [tx_id |-> ConstructTxId("python", event), block_height |-> block_height,
   state_hash |-> state_hash, timestamp |-> event.timestamp]
=============================================================================
