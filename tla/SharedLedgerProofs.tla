------------------------- MODULE SharedLedgerProofs -------------------------
(***************************************************************************)
(* What one ledger shared by five SDKs may rely on, for every width of the *)
(* words, every set of claims and every length of a hash.                  *)
(*                                                                         *)
(* That an identifier tells what it was made from rests on three facts:    *)
(* bytes decide a number modulo what they hold, the bytes of a text decide *)
(* its characters, the last first, and fields of fixed length can be taken *)
(* off the end one after the other.                                        *)
(***************************************************************************)
EXTENDS SharedLedger, OperatorLemmas

-----------------------------------------------------------------------------
(* Numbers as bytes *)

\* Some function satisfies the equation of the powers of 256.
LEMMA PowersExist ==
  ASSUME NEW N \in Nat
  PROVE  \E g : g = [k \in 0 .. N |-> IF k = 0 THEN 1 ELSE 256 * g[k - 1]]
<1> DEFINE IsPower(g, n) == g = [k \in 0 .. n |-> IF k = 0 THEN 1 ELSE 256 * g[k - 1]]
           Good == {n \in Nat : \E g : IsPower(g, n)}
<1>1. 0 \in Good
  <2>1. IsPower([k \in 0 .. 0 |-> 1], 0)
    OBVIOUS
  <2> QED  BY <2>1
<1>2. ASSUME NEW n \in Nat, n \in Good
      PROVE  n + 1 \in Good
  <2>1. PICK g : IsPower(g, n)
    BY <1>2
  <2> DEFINE h == [k \in 0 .. n + 1 |-> IF k = n + 1 THEN 256 * g[n] ELSE g[k]]
  <2>2. ASSUME NEW k \in 0 .. n + 1
        PROVE  h[k] = IF k = 0 THEN 1 ELSE 256 * h[k - 1]
    <3>1. CASE k = n + 1
      BY <3>1
    <3>2. CASE k # n + 1
      <4>1. k \in 0 .. n
        BY <3>2
      <4>2. g[k] = IF k = 0 THEN 1 ELSE 256 * g[k - 1]
        BY <2>1, <4>1
      <4> QED  BY <4>1, <4>2
    <3> QED  BY <3>1, <3>2
  <2>3. IsPower(h, n + 1)
    <3>1. h = [k \in 0 .. n + 1 |-> h[k]]
      OBVIOUS
    <3> HIDE DEF h
    <3> QED  BY <2>2, <3>1
  <2> HIDE DEF IsPower, h
  <2> QED  BY <2>3
<1>3. N \in Good
  <2> HIDE DEF Good
  <2> QED  BY <1>1, <1>2, NatInductionInSet
<1> QED  BY <1>3

\* So the chosen one does.
LEMMA PowerAt ==
  ASSUME NEW k \in 0 .. AmountBytes
  PROVE  Power[k] = IF k = 0 THEN 1 ELSE 256 * Power[k - 1]
<1>1. AmountBytes \in Nat
  BY WidthsOK
<1>2. Power = [i \in 0 .. AmountBytes |-> IF i = 0 THEN 1 ELSE 256 * Power[i - 1]]
  BY <1>1, PowersExist, Zenon DEF Power
<1> QED  BY <1>2

\* The powers are positive and grow.
LEMMA PowerFacts ==
  ASSUME NEW k \in 0 .. AmountBytes
  PROVE  Power[k] \in Nat \ {0} /\ \A j \in 0 .. k : Power[j] \in Nat /\ Power[j] <= Power[k]
<1> DEFINE Good == {n \in Nat : n <= AmountBytes =>
                      Power[n] \in Nat \ {0} /\ \A j \in 0 .. n : Power[j] \in Nat /\ Power[j] <= Power[n]}
<1>1. AmountBytes \in Nat
  BY WidthsOK
<1>2. 0 \in Good
  <2>1. 0 \in 0 .. AmountBytes
    BY <1>1
  <2>2. Power[0] = 1
    BY <2>1, PowerAt
  <2> QED  BY <2>2
<1>3. ASSUME NEW n \in Nat, n \in Good
      PROVE  n + 1 \in Good
  <2> SUFFICES ASSUME n + 1 <= AmountBytes
               PROVE  /\ Power[n + 1] \in Nat \ {0}
                      /\ \A j \in 0 .. n + 1 : Power[j] \in Nat /\ Power[j] <= Power[n + 1]
    OBVIOUS
  <2>1. n + 1 \in 0 .. AmountBytes /\ n + 1 # 0 /\ (n + 1) - 1 = n
    BY <1>1
  <2>2. Power[n + 1] = 256 * Power[n]
    BY <2>1, PowerAt
  <2>3. Power[n] \in Nat \ {0} /\ \A j \in 0 .. n : Power[j] \in Nat /\ Power[j] <= Power[n]
    BY <1>1, <1>3
  <2>4. Power[n + 1] \in Nat \ {0} /\ Power[n] <= Power[n + 1]
    BY <2>2, <2>3
  <2> SUFFICES ASSUME NEW j \in 0 .. n + 1
               PROVE  Power[j] \in Nat /\ Power[j] <= Power[n + 1]
    BY <2>4
  <2>5. CASE j = n + 1
    BY <2>4, <2>5
  <2>6. CASE j # n + 1
    <3>1. j \in 0 .. n
      BY <2>6
    <3>2. Power[j] \in Nat /\ Power[j] <= Power[n]
      BY <2>3, <3>1
    <3> QED  BY <2>3, <2>4, <3>2
  <2> QED  BY <2>5, <2>6
<1>4. k \in Good
  <2> HIDE DEF Good
  <2> QED  BY <1>1, <1>2, <1>3, NatInductionInSet
<1> QED  BY <1>1, <1>4

\* A word holds something, and no more than the field of an amount does.
LEMMA Widths ==
  /\ Unsigned(WordBytes) \in Nat \ {0} /\ Unsigned(AmountBytes) \in Nat \ {0}
  /\ Unsigned(WordBytes) <= Unsigned(AmountBytes)
<1>1. WordBytes \in 0 .. AmountBytes /\ AmountBytes \in 0 .. AmountBytes
  BY WidthsOK
<1> QED  BY <1>1, PowerFacts DEF Unsigned

Byte == 0 .. 255

\* A number laid out is so many bytes.
LEMMA BigEndianType ==
  ASSUME NEW n \in Int, NEW bytes \in 0 .. AmountBytes
  PROVE  BigEndian(n, bytes) \in Seq(Byte) /\ Len(BigEndian(n, bytes)) = bytes
<1>1. bytes \in Nat /\ AmountBytes \in Nat
  BY WidthsOK
<1>2. ASSUME NEW i \in 1 .. bytes
      PROVE  (n \div Power[bytes - i]) % 256 \in Byte
  <2>1. bytes - i \in 0 .. AmountBytes
    BY <1>1
  <2>2. Power[bytes - i] \in Nat \ {0}
    BY <2>1, PowerFacts
  <2>3. \A p \in Nat \ {0} : (n \div p) % 256 \in 0 .. 255
    OBVIOUS
  <2> QED  BY <2>2, <2>3 DEF Byte
<1>3. DOMAIN BigEndian(n, bytes) = 1 .. bytes /\ \A i \in 1 .. bytes : BigEndian(n, bytes)[i] \in Byte
  BY <1>2 DEF BigEndian
<1>4. BigEndian(n, bytes) = [i \in 1 .. bytes |-> BigEndian(n, bytes)[i]]
  BY DEF BigEndian
<1>5. BigEndian(n, bytes) \in [1 .. bytes -> Byte]
  BY <1>3, <1>4
<1> QED  BY <1>1, <1>5

\* The bytes decide a number up to what they hold.
LEMMA BytesDecide ==
  ASSUME NEW m \in Int, NEW n \in Int, NEW bytes \in 0 .. AmountBytes,
         BigEndian(m, bytes) = BigEndian(n, bytes)
  PROVE  Congruent(m, n, bytes)
<1> DEFINE Good == {k \in Nat : k <= bytes => m % Power[k] = n % Power[k]}
<1>1. bytes \in Nat /\ AmountBytes \in Nat /\ bytes <= AmountBytes
  BY WidthsOK
<1>2. 0 \in Good
  <2>1. Power[0] = 1
    BY <1>1, PowerAt
  <2>2. m % 1 = 0 /\ n % 1 = 0
    OBVIOUS
  <2> QED  BY <2>1, <2>2
<1>3. ASSUME NEW k \in Nat, k \in Good
      PROVE  k + 1 \in Good
  <2> SUFFICES ASSUME k + 1 <= bytes
               PROVE  m % Power[k + 1] = n % Power[k + 1]
    OBVIOUS
  <2>1. /\ k \in 0 .. AmountBytes /\ k + 1 \in 0 .. AmountBytes /\ k + 1 # 0 /\ (k + 1) - 1 = k
        /\ bytes - k \in 1 .. bytes /\ bytes - (bytes - k) = k
    BY <1>1
  <2>2. Power[k + 1] = 256 * Power[k]
    BY <2>1, PowerAt
  <2>3. Power[k] \in Nat \ {0}
    BY <2>1, PowerFacts
  <2>4. m % Power[k] = n % Power[k]
    BY <1>1, <1>3, <2>1
  <2>5. (m \div Power[k]) % 256 = (n \div Power[k]) % 256
    <3>1. /\ BigEndian(m, bytes)[bytes - k] = (m \div Power[k]) % 256
          /\ BigEndian(n, bytes)[bytes - k] = (n \div Power[k]) % 256
      BY <2>1 DEF BigEndian
    <3> QED  BY <3>1
  <2>6. /\ m % (256 * Power[k]) = ((m \div Power[k]) % 256) * Power[k] + (m % Power[k])
        /\ n % (256 * Power[k]) = ((n \div Power[k]) % 256) * Power[k] + (n % Power[k])
    BY <2>3, DigitStep
  <2> QED  BY <2>2, <2>4, <2>5, <2>6, Zenon
<1>4. m % Power[bytes] = n % Power[bytes]
  <2>1. bytes \in Good
    <3> HIDE DEF Good
    <3> QED  BY <1>1, <1>2, <1>3, NatInductionInSet
  <2> QED  BY <1>1, <2>1
<1>5. Power[bytes] \in Nat \ {0}
  BY PowerFacts
<1> QED  BY <1>4, <1>5, SameRemainder DEF Congruent, Unsigned

-----------------------------------------------------------------------------
(* Encodings that agree *)

\* Hex digits in pairs are read alike by all five.
LEMMA HexAgrees ==
  ASSUME NEW sdk \in SDK, NEW hex \in Seq(Nat), WellFormedHex(hex)
  PROVE  HexBytes(sdk, hex) = [k \in 1 .. Len(hex) \div 2 |-> DigitPair(hex, 2 * k - 1)]
<1>1. CASE sdk # "typescript"
  <2>1. Len(hex) % 2 # 1 /\ AllDigits(hex)
    BY DEF WellFormedHex
  <2> QED  BY <1>1, <2>1 DEF HexBytes
<1>2. CASE sdk = "typescript"
  <2>1. ASSUME NEW k \in 1 .. Len(hex) \div 2
        PROVE  ParsedPair(hex, 2 * k - 1) = DigitPair(hex, 2 * k - 1)
    <3>1. 2 * k - 1 \in DOMAIN hex /\ (2 * k - 1) + 1 \in DOMAIN hex
      <4>1. Len(hex) \in Nat /\ DOMAIN hex = 1 .. Len(hex)
        OBVIOUS
      <4>2. 2 * k <= Len(hex)
        BY <4>1
      <4> QED  BY <4>1, <4>2
    <3>2. HexValue(hex[2 * k - 1]) # -1 /\ HexValue(hex[(2 * k - 1) + 1]) # -1
      BY <3>1 DEF WellFormedHex, AllDigits
    <3> QED  BY <3>2 DEF ParsedPair
  <2> QED  BY <1>2, <2>1 DEF HexBytes
<1> QED  BY <1>1, <1>2

\* Two SDKs encode a text alike if neither is TypeScript, both are, or the text has no
\* astral character.
LEMMA TextAgrees ==
  ASSUME NEW s \in SDK, NEW t \in SDK, NEW text \in Seq(Nat),
         (\A k \in DOMAIN text : ~Astral(text[k])) \/ (s = "typescript") = (t = "typescript")
  PROVE  TextBytes(s, text) = TextBytes(t, text)
<1>1. \A k \in DOMAIN text : CharBytes(s, text[k]) = CharBytes(t, text[k])
  BY DEF CharBytes
<1>2. [k \in DOMAIN text |-> CharBytes(s, text[k])] = [k \in DOMAIN text |-> CharBytes(t, text[k])]
  BY <1>1
<1> QED  BY <1>2 DEF TextBytes

\* Times and amounts that every SDK holds are laid out alike.
LEMMA NumbersAgree ==
  ASSUME NEW sdk \in SDK
  PROVE  /\ \A t \in Int : t >= 0 /\ Signed(t) => TimeBytes(sdk, t) = BigEndian(t, WordBytes)
         /\ \A n \in Nat : n < Unsigned(WordBytes) =>
              AmountField(sdk, n) = BigEndian(n, AmountBytes)
<1>1. ASSUME NEW t \in Int, t >= 0, Signed(t)
      PROVE  TimeBytes(sdk, t) = BigEndian(t, WordBytes)
  <2>1. t \in 0 .. Unsigned(WordBytes) - 1
    BY <1>1, Widths DEF Signed
  <2> QED  BY <1>1, <2>1 DEF TimeBytes
<1>2. ASSUME NEW n \in Nat, n < Unsigned(WordBytes)
      PROVE  AmountField(sdk, n) = BigEndian(n, AmountBytes)
  <2>1. ~(n >= Unsigned(WordBytes)) /\ ~(n >= Unsigned(AmountBytes))
    BY <1>2, Widths
  <2> QED  BY <2>1 DEF AmountField
<1> QED  BY <1>1, <1>2

\* Two SDKs that agree on a claim have one identifier for it.
LEMMA AgreeOnId ==
  ASSUME NEW claim \in Claim, NEW s \in SDK, NEW t \in SDK, Agree(s, t, claim)
  PROVE  IdOf(s, claim) = IdOf(t, claim)
<1>1. /\ claim.kind \in Kind
      /\ \A hex \in HexFields(claim) : hex \in Seq(Nat) /\ WellFormedHex(hex)
      /\ claim.timestamp \in Int /\ claim.timestamp >= 0 /\ Signed(claim.timestamp)
  BY LedgerParameters DEF Agree, Standard, InRange
<1>2. \A hex \in HexFields(claim) : HexBytes(s, hex) = HexBytes(t, hex)
  <2> SUFFICES ASSUME NEW hex \in HexFields(claim)
               PROVE  HexBytes(s, hex) = HexBytes(t, hex)
    OBVIOUS
  <2>1. hex \in Seq(Nat) /\ WellFormedHex(hex)
    BY <1>1
  <2> QED  BY <2>1, HexAgrees
<1>3. TimeBytes(s, claim.timestamp) = TimeBytes(t, claim.timestamp)
  BY <1>1, NumbersAgree
<1>4. \A i \in DOMAIN Texts(claim) :
        TextBytes(s, Texts(claim)[i]) = TextBytes(t, Texts(claim)[i])
  <2> SUFFICES ASSUME NEW i \in DOMAIN Texts(claim)
               PROVE  TextBytes(s, Texts(claim)[i]) = TextBytes(t, Texts(claim)[i])
    OBVIOUS
  <2>1. Texts(claim)[i] \in Seq(Nat)
    BY LedgerParameters
  <2>2. \/ \A k \in DOMAIN Texts(claim)[i] : ~Astral(Texts(claim)[i][k])
        \/ (s = "typescript") = (t = "typescript")
    BY DEF Agree, BasicTexts
  <2> QED  BY <2>1, <2>2, TextAgrees
<1>5. CASE claim.kind = "transfer"
  <2>1. AmountField(s, claim.amount) = AmountField(t, claim.amount)
    BY <1>5, LedgerParameters, NumbersAgree DEF Agree, InRange
  <2>2. HexBytes(s, claim.nonce) = HexBytes(t, claim.nonce)
    BY <1>2, <1>5 DEF HexFields
  <2>3. Texts(claim) = <<claim.sender, claim.receiver>>
    BY <1>5 DEF Texts
  <2>4. /\ TextBytes(s, claim.sender) = TextBytes(t, claim.sender)
        /\ TextBytes(s, claim.receiver) = TextBytes(t, claim.receiver)
    <3>1. 1 \in DOMAIN Texts(claim) /\ 2 \in DOMAIN Texts(claim)
      BY <2>3
    <3>2. Texts(claim)[1] = claim.sender /\ Texts(claim)[2] = claim.receiver
      BY <2>3
    <3> QED  BY <1>4, <3>1, <3>2
  <2>5. ConstructTxId(s, claim) = ConstructTxId(t, claim)
    BY <2>1, <2>2, <2>4, <1>3 DEF ConstructTxId
  <2> QED  BY <1>5, <2>5 DEF IdOf
<1>6. CASE claim.kind = "issuance"
  <2>1. /\ HexBytes(s, claim.pubkey) = HexBytes(t, claim.pubkey)
        /\ HexBytes(s, claim.nonce) = HexBytes(t, claim.nonce)
    BY <1>2, <1>6 DEF HexFields
  <2>2. ConstructAssetId(s, claim) = ConstructAssetId(t, claim)
    BY <2>1, <1>3 DEF ConstructAssetId
  <2> QED  BY <1>6, <2>2 DEF IdOf
<1>7. CASE claim.kind = "certificate"
  <2>1. /\ HexBytes(s, claim.asset_id) = HexBytes(t, claim.asset_id)
        /\ HexBytes(s, claim.state_hash) = HexBytes(t, claim.state_hash)
        /\ HexBytes(s, claim.compliance_hash) = HexBytes(t, claim.compliance_hash)
        /\ HexBytes(s, claim.governance_hash) = HexBytes(t, claim.governance_hash)
    BY <1>2, <1>7 DEF HexFields
  <2>2. ConstructCid(s, claim) = ConstructCid(t, claim)
    BY <2>1, <1>3 DEF ConstructCid
  <2> QED  BY <1>7, <2>2 DEF IdOf
<1>8. CASE claim.kind = "override"
  <2>1. Texts(claim) = <<claim.override_id, claim.authority, claim.action>>
    BY <1>8 DEF Texts
  <2>2. /\ TextBytes(s, claim.override_id) = TextBytes(t, claim.override_id)
        /\ TextBytes(s, claim.authority) = TextBytes(t, claim.authority)
        /\ TextBytes(s, claim.action) = TextBytes(t, claim.action)
    <3>1. 1 \in DOMAIN Texts(claim) /\ 2 \in DOMAIN Texts(claim) /\ 3 \in DOMAIN Texts(claim)
      BY <2>1
    <3>2. /\ Texts(claim)[1] = claim.override_id /\ Texts(claim)[2] = claim.authority
          /\ Texts(claim)[3] = claim.action
      BY <2>1
    <3> QED  BY <1>4, <3>1, <3>2
  <2>3. ConstructOverrideHash(s, claim) = ConstructOverrideHash(t, claim)
    BY <2>2, <1>3 DEF ConstructOverrideHash
  <2> QED  BY <1>8, <2>3 DEF IdOf
<1> QED  BY <1>1, <1>5, <1>6, <1>7, <1>8 DEF Kind

-----------------------------------------------------------------------------
(* The ledger *)

EntrySet == {Entry(sdk, claim) : sdk \in SDK, claim \in Claim}

\* What is in the set of entries.
LEMMA EntryFacts ==
  ASSUME NEW e \in EntrySet
  PROVE  e.sdk \in SDK /\ e.claim \in Claim /\ e.id = IdOf(e.sdk, e.claim)
<1>1. PICK sdk \in SDK, claim \in Claim : e = Entry(sdk, claim)
  BY DEF EntrySet
<1>2. e = [sdk |-> sdk, claim |-> claim, id |-> IdOf(sdk, claim)]
  BY <1>1 DEF Entry, Ids
<1> QED  BY <1>2

\* One more entry leaves those before it as they are.
LEMMA AppendFacts ==
  ASSUME NEW S, NEW s \in Seq(S), NEW e \in S
  PROVE  /\ Append(s, e) \in Seq(S)
         /\ DOMAIN Append(s, e) = DOMAIN s \cup {Len(s) + 1}
         /\ Len(s) + 1 \notin DOMAIN s
         /\ Append(s, e)[Len(s) + 1] = e
         /\ \A i \in DOMAIN s : Append(s, e)[i] = s[i]
OBVIOUS

\* A settlement keeps the history equal to the ids of what settled.
LEMMA SettleKeepsType ==
  ASSUME TypeOK, NEW sdk \in SDK, NEW event \in Claim, Settle(sdk, event)
  PROVE  TypeOK'
<1> DEFINE e == Entry(sdk, event)
           n == Len(entries) + 1
<1>1. entries \in Seq(EntrySet) /\ e \in EntrySet /\ entries' = Append(entries, e)
  BY DEF TypeOK, EntrySet, Settle
<1> HIDE DEF e
<1>2. /\ entries' \in Seq(EntrySet) /\ DOMAIN entries' = DOMAIN entries \cup {n}
      /\ n \notin DOMAIN entries /\ entries'[n] = e
      /\ \A i \in DOMAIN entries : entries'[i] = entries[i]
  BY <1>1, AppendFacts
<1> HIDE DEF n
<1>3. e.id # Refused /\ e.id = Ids[sdk][event] /\ e.claim = event /\ event.kind = "transfer"
  BY DEF e, Entry, Settle
<1>4. Settled' = Settled \cup {n}
  BY <1>2, <1>3 DEF Settled
<1>5. \A i \in DOMAIN entries' : entries'[i].id # Refused
  BY <1>2, <1>3 DEF TypeOK
<1>6. ledgerHistory' = {entries'[i].id : i \in Settled'}
  <2>1. \A i \in Settled : entries'[i] = entries[i]
    BY <1>2 DEF Settled
  <2>2. ledgerHistory' = {entries[i].id : i \in Settled} \cup {e.id}
    BY <1>3 DEF TypeOK, Settle
  <2> QED  BY <1>2, <1>4, <2>1, <2>2
<1>7. DOMAIN proofs \subseteq Settled /\ proofs' = proofs
  BY DEF TypeOK, Settle
<1>8. \A i \in DOMAIN proofs : i \in DOMAIN entries
  BY <1>7 DEF Settled
<1>9. DOMAIN proofs' \subseteq Settled'
  BY <1>4, <1>7
<1>10. \A i \in DOMAIN proofs' : proofs'[i] = BuildSettlementProof(entries'[i].claim, i, i)
  BY <1>2, <1>7, <1>8 DEF TypeOK
<1> QED  BY <1>2, <1>5, <1>6, <1>9, <1>10 DEF TypeOK, EntrySet, Entry, Ids

\* Publishing leaves transfers and their proofs alone.
LEMMA PublishKeepsType ==
  ASSUME TypeOK, NEW sdk \in SDK, NEW claim \in Claim, Publish(sdk, claim)
  PROVE  TypeOK'
<1> DEFINE e == Entry(sdk, claim)
           n == Len(entries) + 1
<1>1. entries \in Seq(EntrySet) /\ e \in EntrySet /\ entries' = Append(entries, e)
  BY DEF TypeOK, EntrySet, Publish
<1> HIDE DEF e
<1>2. /\ entries' \in Seq(EntrySet) /\ DOMAIN entries' = DOMAIN entries \cup {n}
      /\ n \notin DOMAIN entries /\ entries'[n] = e
      /\ \A i \in DOMAIN entries : entries'[i] = entries[i]
  BY <1>1, AppendFacts
<1> HIDE DEF n
<1>3. e.id # Refused /\ e.claim.kind # "transfer"
  BY DEF e, Entry, Publish
<1>4. Settled' = Settled /\ \A i \in Settled : entries'[i] = entries[i]
  BY <1>2, <1>3 DEF Settled
<1>5. \A i \in DOMAIN entries' : entries'[i].id # Refused
  BY <1>2, <1>3 DEF TypeOK
<1>6. ledgerHistory' = {entries'[i].id : i \in Settled'}
  BY <1>4 DEF TypeOK, Publish
<1>7. proofs' = proofs /\ DOMAIN proofs \subseteq Settled
  BY DEF TypeOK, Publish
<1>8. \A i \in DOMAIN proofs' : proofs'[i] = BuildSettlementProof(entries'[i].claim, i, i)
  BY <1>4, <1>7 DEF TypeOK
<1> QED  BY <1>2, <1>4, <1>5, <1>6, <1>7, <1>8 DEF TypeOK, EntrySet, Entry, Ids

\* Proving adds the proof of an entry that settled.
LEMMA ProveKeepsType ==
  ASSUME TypeOK, NEW i \in DOMAIN entries, Prove(i)
  PROVE  TypeOK'
<1>1. entries' = entries /\ ledgerHistory' = ledgerHistory /\ Settled' = Settled
  BY DEF Prove, Settled
<1>2. proofs' = [k \in DOMAIN proofs \cup {i} |->
                   IF k = i THEN BuildSettlementProof(entries[i].claim, i, i) ELSE proofs[k]]
  BY DEF Prove
<1>3. i \in Settled
  BY DEF Prove, Settled
<1>4. DOMAIN proofs' \subseteq Settled'
  BY <1>1, <1>2, <1>3 DEF TypeOK
<1>5. \A k \in DOMAIN proofs' : proofs'[k] = BuildSettlementProof(entries'[k].claim, k, k)
  BY <1>1, <1>2 DEF TypeOK
<1> QED  BY <1>1, <1>4, <1>5 DEF TypeOK, EntrySet, Entry, Ids

\* Types, and the history being exactly the ids of what settled, in whatever SDK.
THEOREM TypeCorrect == Spec => []TypeOK
<1>1. Init => TypeOK
  BY DEF Init, TypeOK, Settled
<1>2. TypeOK /\ [Next]_vars => TypeOK'
  <2> SUFFICES ASSUME TypeOK, [Next]_vars
               PROVE  TypeOK'
    OBVIOUS
  <2>1. CASE UNCHANGED vars
    BY <2>1 DEF vars, TypeOK, Settled, Entry, Ids
  <2>2. ASSUME NEW sdk \in SDK, NEW claim \in Claim, Settle(sdk, claim)
        PROVE  TypeOK'
    BY <2>2, SettleKeepsType
  <2>3. ASSUME NEW sdk \in SDK, NEW claim \in Claim, Publish(sdk, claim)
        PROVE  TypeOK'
    BY <2>3, PublishKeepsType
  <2>4. ASSUME NEW i \in DOMAIN entries, Prove(i)
        PROVE  TypeOK'
    BY <2>4, ProveKeepsType
  <2> QED  BY <2>1, <2>2, <2>3, <2>4 DEF Next
<1> QED  BY <1>1, <1>2, PTL DEF Spec

\* No SDK settles a transfer that an SDK which agrees with it has settled: the id it
\* computes is the one that is in the history.
THEOREM SettledOnce == Spec => []SettlesOnceAnywhere
<1>1. Init => SettlesOnceAnywhere
  BY DEF Init, SettlesOnceAnywhere, Settled
<1>2. TypeOK /\ SettlesOnceAnywhere /\ [Next]_vars => SettlesOnceAnywhere'
  <2> SUFFICES ASSUME TypeOK, SettlesOnceAnywhere, [Next]_vars
               PROVE  SettlesOnceAnywhere'
    OBVIOUS
  <2>1. entries \in Seq(EntrySet)
    BY DEF TypeOK, EntrySet
  <2>2. CASE UNCHANGED entries
    BY <2>2 DEF SettlesOnceAnywhere, Settled
  <2>3. ASSUME NEW sdk \in SDK, NEW claim \in Claim, Publish(sdk, claim)
        PROVE  SettlesOnceAnywhere'
    <3>1. Entry(sdk, claim) \in EntrySet /\ entries' = Append(entries, Entry(sdk, claim))
      BY <2>3 DEF EntrySet, Publish
    <3>2. Entry(sdk, claim).claim.kind # "transfer"
      BY <2>3 DEF Entry, Publish
    <3>3. Settled' = Settled /\ \A i \in Settled : entries'[i] = entries[i]
      BY <2>1, <3>1, <3>2, AppendFacts DEF Settled
    <3> QED  BY <3>3 DEF SettlesOnceAnywhere
  <2>4. ASSUME NEW sdk \in SDK, NEW event \in Claim, Settle(sdk, event)
        PROVE  SettlesOnceAnywhere'
    <3> DEFINE e == Entry(sdk, event)
               n == Len(entries) + 1
    <3>1. e \in EntrySet /\ entries' = Append(entries, e)
      BY <2>4 DEF EntrySet, Settle
    <3>2. /\ e.sdk = sdk /\ e.claim = event /\ event.kind = "transfer"
          /\ IdOf(sdk, event) \notin ledgerHistory
      BY <2>4 DEF Entry, Settle, IsReplay, Ids
    <3> HIDE DEF e
    <3>3. /\ DOMAIN entries' = DOMAIN entries \cup {n} /\ entries'[n] = e
          /\ \A i \in DOMAIN entries : entries'[i] = entries[i]
      BY <2>1, <3>1, AppendFacts
    <3> HIDE DEF n
    <3>4. Settled' = Settled \cup {n} /\ \A i \in Settled : i \in DOMAIN entries
      BY <3>2, <3>3 DEF Settled
    <3>5. ASSUME NEW i \in Settled, entries[i].claim = event,
                 Agree(entries[i].sdk, sdk, event)
          PROVE  FALSE
      <4>1. entries[i] \in EntrySet
        BY <2>1, <3>4
      <4>2. entries[i].sdk \in SDK /\ entries[i].id = IdOf(entries[i].sdk, event)
        BY <3>5, <4>1, EntryFacts
      <4>3. entries[i].id = IdOf(sdk, event)
        BY <3>5, <4>2, AgreeOnId
      <4> QED  BY <3>2, <4>3 DEF TypeOK
    <3>6. \A i \in Settled : entries[i].claim = event =>
             /\ ~Agree(entries[i].sdk, sdk, event)
             /\ ~Agree(sdk, entries[i].sdk, event)
      BY <3>5 DEF Agree
    <3> QED  BY <3>2, <3>3, <3>4, <3>6 DEF SettlesOnceAnywhere
  <2> QED  BY <2>2, <2>3, <2>4 DEF Next, Prove, vars
<1> QED  BY <1>1, <1>2, TypeCorrect, PTL DEF Spec

-----------------------------------------------------------------------------
(* Texts can be told apart by their bytes *)

Char == {c \in Nat : IsScalar(c)}

Cont == 128 .. 191

\* What the bytes of a character look like: a first byte that ends no character, then
\* continuation bytes; TypeScript's astral characters in two such groups, each led by bytes
\* that no scalar value begins with.
CharShape(w) ==
  \/ Len(w) = 1 /\ w[1] \in 0 .. 127
  \/ Len(w) = 2 /\ w[1] \in 192 .. 223 /\ w[2] \in Cont
  \/ /\ Len(w) = 3 /\ w[1] \in 224 .. 239 /\ w[2] \in Cont /\ w[3] \in Cont
     /\ w[1] = 237 => w[2] < 160
  \/ /\ Len(w) = 4 /\ w[1] \in 240 .. 247
     /\ w[2] \in Cont /\ w[3] \in Cont /\ w[4] \in Cont
  \/ /\ Len(w) = 6 /\ w[1] = 237 /\ w[2] \in 160 .. 175 /\ w[3] \in Cont
     /\ w[4] = 237 /\ w[5] \in 176 .. 191 /\ w[6] \in Cont

\* The character such bytes stand for.
Decoded(w) ==
  IF Len(w) = 1 THEN w[1]
  ELSE IF Len(w) = 2 THEN (w[1] - 192) * 64 + (w[2] - 128)
  ELSE IF Len(w) = 3 THEN (w[1] - 224) * 4096 + (w[2] - 128) * 64 + (w[3] - 128)
  ELSE IF Len(w) = 4
  THEN (w[1] - 240) * 262144 + (w[2] - 128) * 4096 + (w[3] - 128) * 64 + (w[4] - 128)
  ELSE 65536 + ((w[2] - 160) * 64 + (w[3] - 128)) * 1024
         + ((w[5] - 176) * 64 + (w[6] - 128))

\* Every SDK's encoding of a character has that shape and can be decoded.
LEMMA CharShapes ==
  ASSUME NEW sdk \in SDK, NEW c \in Char
  PROVE  /\ CharBytes(sdk, c) \in Seq(Byte) /\ CharShape(CharBytes(sdk, c))
         /\ c = Decoded(CharBytes(sdk, c))
<1>1. c \in Nat /\ c < 1114112 /\ (c < 55296 \/ c > 57343)
  BY DEF Char, IsScalar
<1> DEFINE w == CharBytes(sdk, c)
<1>2. CASE sdk = "typescript" /\ Astral(c)
  <2> DEFINE h == 55296 + (c - 65536) \div 1024
             l == 56320 + ((c - 65536) % 1024)
  <2>1. w = Utf8(h) \o Utf8(l)
    BY <1>2 DEF CharBytes, SurrogateBytes
  <2>2. c \in Nat /\ c >= 65536 /\ c < 1114112
    BY <1>1, <1>2 DEF Astral
  <2>3. h \in 55296 .. 56319 /\ l \in 56320 .. 57343
        /\ c = 65536 + (h - 55296) * 1024 + (l - 56320)
    BY <2>2
  <2> HIDE DEF h, l
  <2>4. /\ Utf8(h) = <<237, 128 + ((h \div 64) % 64), 128 + (h % 64)>>
        /\ Utf8(l) = <<237, 128 + ((l \div 64) % 64), 128 + (l % 64)>>
    BY <2>3 DEF Utf8
  <2> DEFINE p == 128 + ((h \div 64) % 64)  q == 128 + (h % 64)
             r == 128 + ((l \div 64) % 64)  s == 128 + (l % 64)
  <2>5. h \div 64 \in 864 .. 879 /\ l \div 64 \in 880 .. 895
    BY <2>3
  <2>6. /\ p \in 160 .. 175 /\ q \in 128 .. 191 /\ h - 55296 = (p - 160) * 64 + (q - 128)
        /\ r \in 176 .. 191 /\ s \in 128 .. 191 /\ l - 56320 = (r - 176) * 64 + (s - 128)
    BY <2>3, <2>5
  <2>7. Utf8(h) = <<237, p, q>> /\ Utf8(l) = <<237, r, s>>
    BY <2>4
  <2> HIDE DEF p, q, r, s, w
  <2>8. /\ w \in Seq(Byte) /\ Len(w) = 6 /\ w[1] = 237 /\ w[2] = p /\ w[3] = q
        /\ w[4] = 237 /\ w[5] = r /\ w[6] = s
    <3> DEFINE a == <<237, p, q>>
               b == <<237, r, s>>
    <3>1. /\ a \in Seq(Byte) /\ Len(a) = 3 /\ a[1] = 237 /\ a[2] = p /\ a[3] = q
          /\ b \in Seq(Byte) /\ Len(b) = 3 /\ b[1] = 237 /\ b[2] = r /\ b[3] = s
      BY <2>6 DEF Byte
    <3> HIDE DEF a, b
    <3>2. w = a \o b
      BY <2>1, <2>7 DEF a, b
    <3>3. /\ a \o b \in Seq(Byte) /\ Len(a \o b) = Len(a) + Len(b)
          /\ \A i \in 1 .. Len(a) + Len(b) :
               (a \o b)[i] = IF i <= Len(a) THEN a[i] ELSE b[i - Len(a)]
      <4>1. a \in Seq(Byte) /\ b \in Seq(Byte)
        BY <3>1
      <4> QED  BY <4>1, ConcatProperties
    <3>4. Len(a \o b) = 6 /\ \A i \in 1 .. 6 : (a \o b)[i] = IF i <= 3 THEN a[i] ELSE b[i - 3]
      BY <3>1, <3>3
    <3> QED  BY <3>1, <3>2, <3>3, <3>4
  <2>9. c = 65536 + ((p - 160) * 64 + (q - 128)) * 1024 + ((r - 176) * 64 + (s - 128))
    BY <2>3, <2>6
  <2> QED  BY <2>6, <2>8, <2>9 DEF Cont, w, CharShape, Decoded
<1>3. CASE ~(sdk = "typescript" /\ Astral(c))
  <2>1. w = Utf8(c)
    BY <1>3 DEF CharBytes
  <2>2. CASE c < 128
    <3>1. w = <<c>>
      BY <2>1, <2>2 DEF Utf8
    <3> QED  BY <1>1, <2>2, <3>1 DEF Byte, CharShape, Decoded
  <2>3. CASE c >= 128 /\ c < 2048
    <3> DEFINE p == 192 + c \div 64  q == 128 + (c % 64)
    <3>1. w = <<p, q>>
      BY <1>1, <2>1, <2>3 DEF Utf8
    <3>2. p \in 192 .. 223 /\ q \in 128 .. 191 /\ c = (p - 192) * 64 + (q - 128)
      BY <1>1, <2>3
    <3> HIDE DEF p, q, w
    <3> QED  BY <3>1, <3>2 DEF Cont, Byte, w, CharShape, Decoded
  <2>4. CASE c >= 2048 /\ c < 65536
    <3> DEFINE p == 224 + c \div 4096  q == 128 + ((c \div 64) % 64)  r == 128 + (c % 64)
    <3>1. w = <<p, q, r>>
      BY <1>1, <2>1, <2>4 DEF Utf8
    <3>2. /\ p \in 224 .. 239 /\ q \in 128 .. 191 /\ r \in 128 .. 191
          /\ p = 237 => q < 160
          /\ c = (p - 224) * 4096 + (q - 128) * 64 + (r - 128)
      BY <1>1, <2>4
    <3> HIDE DEF p, q, r, w
    <3> QED  BY <3>1, <3>2 DEF Cont, Byte, w, CharShape, Decoded
  <2>5. CASE c >= 65536
    <3> DEFINE p == 240 + c \div 262144    q == 128 + ((c \div 4096) % 64)
               r == 128 + ((c \div 64) % 64)  s == 128 + (c % 64)
    <3>1. w = <<p, q, r, s>>
      BY <1>1, <2>1, <2>5 DEF Utf8
    <3>2. /\ p \in 240 .. 247 /\ q \in 128 .. 191 /\ r \in 128 .. 191 /\ s \in 128 .. 191
          /\ c = (p - 240) * 262144 + (q - 128) * 4096 + (r - 128) * 64 + (s - 128)
      BY <1>1, <2>5
    <3> HIDE DEF p, q, r, s, w
    <3> QED  BY <3>1, <3>2 DEF Cont, Byte, w, CharShape, Decoded
  <2> QED  BY <1>1, <2>2, <2>3, <2>4, <2>5
<1> QED  BY <1>2, <1>3

\* Sequences that agree from the end on, as far as both go.
EndAlike(u, v) ==
  \A i \in 1 .. Len(u), k \in 1 .. Len(v) : Len(u) - i = Len(v) - k => u[i] = v[k]

\* The bytes of two characters of different length do not end alike: where the shorter one
\* begins, the longer one goes on.
LEMMA LongerDiffers ==
  ASSUME NEW u, NEW v, CharShape(u), CharShape(v),
         Len(u) < Len(v), EndAlike(u, v)
  PROVE  FALSE
<1>1. /\ Len(u) \in {1, 2, 3, 4, 6} /\ Len(v) \in {1, 2, 3, 4, 6} /\ Len(u) < Len(v)
  BY Zenon DEF CharShape
<1>2. /\ Len(u) = 1 => Len(v) \in {2, 3, 4, 6}
      /\ Len(u) = 2 => Len(v) \in {3, 4, 6}
      /\ Len(u) = 3 => Len(v) \in {4, 6}
      /\ Len(u) = 4 => Len(v) = 6
      /\ Len(u) # 6
  <2>1. ASSUME NEW a \in {1, 2, 3, 4, 6}, NEW b \in {1, 2, 3, 4, 6}, a < b
        PROVE  /\ a = 1 => b \in {2, 3, 4, 6}
               /\ a = 2 => b \in {3, 4, 6}
               /\ a = 3 => b \in {4, 6}
               /\ a = 4 => b = 6
               /\ a # 6
    BY <2>1
  <2> QED  BY <1>1, <2>1, Zenon
<1>3. CASE Len(u) = 1
  <2>1. CASE Len(v) = 2
    <3>1. u[1] = v[2]
      BY <1>3, <2>1 DEF EndAlike
    <3> QED  BY <1>3, <2>1, <3>1 DEF CharShape, Cont
  <2>2. CASE Len(v) = 3
    <3>1. u[1] = v[3]
      BY <1>3, <2>2 DEF EndAlike
    <3> QED  BY <1>3, <2>2, <3>1 DEF CharShape, Cont
  <2>3. CASE Len(v) = 4
    <3>1. u[1] = v[4]
      BY <1>3, <2>3 DEF EndAlike
    <3> QED  BY <1>3, <2>3, <3>1 DEF CharShape, Cont
  <2>4. CASE Len(v) = 6
    <3>1. u[1] = v[6]
      BY <1>3, <2>4 DEF EndAlike
    <3> QED  BY <1>3, <2>4, <3>1 DEF CharShape, Cont
  <2>5. Len(v) \in {2, 3, 4, 6}
    BY <1>2, <1>3
  <2> QED  BY <2>1, <2>2, <2>3, <2>4, <2>5
<1>4. CASE Len(u) = 2
  <2>1. CASE Len(v) = 3
    <3>1. u[1] = v[2]
      BY <1>4, <2>1 DEF EndAlike
    <3> QED  BY <1>4, <2>1, <3>1 DEF CharShape, Cont
  <2>2. CASE Len(v) = 4
    <3>1. u[1] = v[3]
      BY <1>4, <2>2 DEF EndAlike
    <3> QED  BY <1>4, <2>2, <3>1 DEF CharShape, Cont
  <2>3. CASE Len(v) = 6
    <3>1. u[1] = v[5]
      BY <1>4, <2>3 DEF EndAlike
    <3> QED  BY <1>4, <2>3, <3>1 DEF CharShape, Cont
  <2>4. Len(v) \in {3, 4, 6}
    BY <1>2, <1>4
  <2> QED  BY <2>1, <2>2, <2>3, <2>4
<1>5. CASE Len(u) = 3
  <2>1. CASE Len(v) = 4
    <3>1. u[1] = v[2]
      BY <1>5, <2>1 DEF EndAlike
    <3> QED  BY <1>5, <2>1, <3>1 DEF CharShape, Cont
  <2>2. CASE Len(v) = 6
    <3>1. u[1] = v[4] /\ u[2] = v[5]
      BY <1>5, <2>2 DEF EndAlike
    <3> QED  BY <1>5, <2>2, <3>1 DEF CharShape, Cont
  <2>3. Len(v) \in {4, 6}
    BY <1>2, <1>5
  <2> QED  BY <2>1, <2>2, <2>3
<1>6. CASE Len(u) = 4
  <2>1. Len(v) = 6
    BY <1>2, <1>6
  <2>2. u[2] = v[4]
    BY <1>6, <2>1 DEF EndAlike
  <2> QED  BY <1>6, <2>1, <2>2 DEF CharShape, Cont
<1> QED  BY <1>1, <1>2, <1>3, <1>4, <1>5, <1>6

\* The bytes z are p followed by w.
Joined(z, p, w) == z = p \o w

\* No character's bytes end another's, whichever SDKs encode the two: what ends alike ends
\* with one character, after the same bytes.
LEMMA LastCharacter ==
  ASSUME NEW s \in SDK, NEW t \in SDK, NEW c \in Char, NEW d \in Char,
         NEW p \in Seq(Byte), NEW q \in Seq(Byte), NEW z,
         Joined(z, p, CharBytes(s, c)), Joined(z, q, CharBytes(t, d))
  PROVE  c = d /\ p = q
<1> DEFINE u == CharBytes(s, c)
           v == CharBytes(t, d)
<1>1. /\ u \in Seq(Byte) /\ v \in Seq(Byte)
      /\ CharShape(u) /\ CharShape(v)
      /\ c = Decoded(u) /\ d = Decoded(v)
  BY CharShapes
<1>2. p \o u = q \o v
  BY DEF Joined
<1> HIDE DEF u, v
<1>3. ASSUME NEW i \in 1 .. Len(u), NEW k \in 1 .. Len(v), Len(u) - i = Len(v) - k
      PROVE  u[i] = v[k]
  <2> DEFINE j == Len(u) - i
  <2>1. Len(u) \in Nat /\ Len(v) \in Nat
    BY <1>1
  <2>2. /\ j \in Nat /\ j < Len(u) /\ j < Len(v) /\ Len(u) - j = i /\ Len(v) - j = k
    BY <1>3, <2>1
  <2> HIDE DEF j
  <2>3. p \o u = q \o v /\ u \in Seq(Byte) /\ v \in Seq(Byte)
    BY <1>1, <1>2
  <2>4. u[Len(u) - j] = v[Len(v) - j]
    BY <2>2, <2>3, EndsAgree
  <2> QED  BY <2>2, <2>4
<1>4. Len(u) = Len(v)
  <2>1. ~(Len(u) < Len(v))
    BY <1>1, <1>3, LongerDiffers DEF EndAlike
  <2>2. ~(Len(v) < Len(u))
    <3>1. \A k \in 1 .. Len(v), i \in 1 .. Len(u) : Len(v) - k = Len(u) - i => v[k] = u[i]
      BY <1>3
    <3> QED  BY <1>1, <3>1, LongerDiffers DEF EndAlike
  <2> QED  BY <1>1, <2>1, <2>2
<1>5. p = q /\ u = v
  <2>1. Len(p \o u) = Len(p) + Len(u) /\ Len(q \o v) = Len(q) + Len(v)
    BY <1>1, ConcatProperties
  <2>2. Len(p) = Len(q)
    BY <1>1, <1>2, <1>4, <2>1
  <2> QED  BY <1>1, <1>2, <2>2, FrontsCancel
<1>6. c = d
  BY <1>1, <1>5
<1> QED  BY <1>5, <1>6

\* A text is encoded one character after another.
LEMMA TextBytesAppend ==
  ASSUME NEW sdk \in SDK, NEW x \in Seq(Char), NEW c \in Char
  PROVE  /\ TextBytes(sdk, <<>>) = <<>>
         /\ TextBytes(sdk, x) \in Seq(Byte)
         /\ TextBytes(sdk, Append(x, c)) = TextBytes(sdk, x) \o CharBytes(sdk, c)
<1> DEFINE Coded(t) == [i \in DOMAIN t |-> CharBytes(sdk, t[i])]
           y == Append(x, c)
<1>1. /\ Len(x) \in Nat /\ DOMAIN x = 1 .. Len(x) /\ DOMAIN y = 1 .. Len(x) + 1
      /\ y[Len(x) + 1] = c
      /\ \A i \in 1 .. Len(x) : y[i] = x[i] /\ x[i] \in Char
  OBVIOUS
<1> HIDE DEF y
<1>2. \A d \in Char : CharBytes(sdk, d) \in Seq(Byte)
  BY CharShapes
<1>3. Coded(x) \in Seq(Seq(Byte)) /\ Len(Coded(x)) = Len(x)
  BY <1>1, <1>2
<1>4. Coded(y) = Append(Coded(x), CharBytes(sdk, c))
  <2> DEFINE z == Append(Coded(x), CharBytes(sdk, c))
  <2>1. DOMAIN z = 1 .. Len(x) + 1 /\ z[Len(x) + 1] = CharBytes(sdk, c)
        /\ z = [i \in 1 .. Len(x) + 1 |-> z[i]]
    BY <1>1, <1>2, <1>3
  <2>2. ASSUME NEW i \in 1 .. Len(x)
        PROVE  z[i] = CharBytes(sdk, x[i])
    <3> DEFINE w == Coded(x)
    <3>1. w \in Seq(Seq(Byte)) /\ i \in 1 .. Len(w) /\ w[i] = CharBytes(sdk, x[i])
      BY <1>1, <1>3
    <3> HIDE DEF w
    <3>2. Append(w, CharBytes(sdk, c))[i] = w[i]
      BY <3>1
    <3> QED  BY <3>1, <3>2 DEF w
  <2>3. ASSUME NEW i \in 1 .. Len(x) + 1
        PROVE  z[i] = CharBytes(sdk, y[i])
    <3>1. i = Len(x) + 1 \/ i \in 1 .. Len(x)
      BY <1>1
    <3> HIDE DEF z
    <3> QED  BY <1>1, <2>1, <2>2, <3>1
  <2>4. z = [i \in 1 .. Len(x) + 1 |-> CharBytes(sdk, y[i])]
    <3> HIDE DEF z
    <3> QED  BY <2>1, <2>3
  <2>5. Coded(y) = [i \in 1 .. Len(x) + 1 |-> CharBytes(sdk, y[i])]
    BY <1>1
  <2> QED  BY <2>4, <2>5
<1>5. /\ FlattenSeq(Coded(x)) \in Seq(Byte)
      /\ FlattenSeq(Append(Coded(x), CharBytes(sdk, c))) = FlattenSeq(Coded(x)) \o CharBytes(sdk, c)
  <2> HIDE DEF Coded
  <2> QED  BY <1>2, <1>3, FlattenFacts
<1>6. FlattenSeq(<<>>) = <<>>
  BY FlattenUnfolds
<1>7. Coded(<<>>) = <<>>
  OBVIOUS
<1>8. \A t : TextBytes(sdk, t) = FlattenSeq(Coded(t))
  BY DEF TextBytes
<1> HIDE DEF Coded
<1>9. TextBytes(sdk, <<>>) = <<>>
  BY <1>6, <1>7, <1>8
<1> QED  BY <1>4, <1>5, <1>8, <1>9 DEF y

\* Texts can be told apart by their bytes, whichever SDKs encode them.
LEMMA TextDecided ==
  ASSUME NEW s \in SDK, NEW t \in SDK, NEW x \in Seq(Char), NEW y \in Seq(Char),
         TextBytes(s, x) = TextBytes(t, y)
  PROVE  x = y
<1> DEFINE Good == {n \in Nat : \A a \in Seq(Char), b \in Seq(Char) :
                      Len(a) = n /\ TextBytes(s, a) = TextBytes(t, b) => a = b}
<1>1. ASSUME NEW u \in SDK, NEW a \in Seq(Char), NEW c \in Char
      PROVE  TextBytes(u, Append(a, c)) # <<>>
  <2>1. CharBytes(u, c) \in Seq(Byte) /\ CharShape(CharBytes(u, c))
    BY CharShapes
  <2>2. CharBytes(u, c) # <<>>
    <3> DEFINE w == CharBytes(u, c)
    <3>1. CharShape(w)
      BY <2>1
    <3> HIDE DEF w
    <3>2. Len(w) # 0
      BY <3>1 DEF CharShape
    <3> QED  BY <3>2 DEF w
  <2>3. TextBytes(u, a) \in Seq(Byte)
        /\ TextBytes(u, Append(a, c)) = TextBytes(u, a) \o CharBytes(u, c)
    BY TextBytesAppend
  <2> QED  BY <2>1, <2>2, <2>3, ConcatEqualIffEmpty
<1>2. 0 \in Good
  <2> SUFFICES ASSUME NEW a \in Seq(Char), NEW b \in Seq(Char), Len(a) = 0,
                      TextBytes(s, a) = TextBytes(t, b)
               PROVE  a = b
    OBVIOUS
  <2>1. a = <<>>
    OBVIOUS
  <2>2. 97 \in Char
    BY DEF Char, IsScalar
  <2>3. TextBytes(s, a) = <<>>
    BY <2>1, <2>2, TextBytesAppend
  <2>4. ASSUME Len(b) # 0
        PROVE  FALSE
    <3>1. PICK r \in Seq(Char), c \in Char : b = Append(r, c)
      BY <2>4, LastSplit
    <3> QED  BY <1>1, <2>3, <3>1
  <2>5. b = <<>>
    BY <2>4
  <2> QED  BY <2>1, <2>5
<1>3. ASSUME NEW n \in Nat, n \in Good
      PROVE  n + 1 \in Good
  <2> SUFFICES ASSUME NEW a \in Seq(Char), NEW b \in Seq(Char), Len(a) = n + 1,
                      TextBytes(s, a) = TextBytes(t, b)
               PROVE  a = b
    OBVIOUS
  <2>1. PICK p \in Seq(Char), c \in Char : a = Append(p, c) /\ Len(p) = n
    <3>1. Len(a) # 0 /\ Len(a) - 1 = n
      OBVIOUS
    <3> QED  BY <3>1, LastSplit
  <2>2. Len(b) # 0
    <3> SUFFICES ASSUME Len(b) = 0
                 PROVE  FALSE
      OBVIOUS
    <3>1. b = <<>>
      OBVIOUS
    <3>2. TextBytes(t, b) = <<>>
      BY <2>1, <3>1, TextBytesAppend
    <3> QED  BY <1>1, <2>1, <3>2
  <2>3. PICK q \in Seq(Char), d \in Char : b = Append(q, d)
    BY <2>2, LastSplit
  <2>4. /\ TextBytes(s, p) \in Seq(Byte) /\ TextBytes(t, q) \in Seq(Byte)
        /\ TextBytes(s, a) = TextBytes(s, p) \o CharBytes(s, c)
        /\ TextBytes(t, b) = TextBytes(t, q) \o CharBytes(t, d)
    BY <2>1, <2>3, TextBytesAppend
  <2>5. c = d /\ TextBytes(s, p) = TextBytes(t, q)
    <3> DEFINE u == TextBytes(s, p)
               v == TextBytes(t, q)
    <3>1. /\ u \in Seq(Byte) /\ v \in Seq(Byte)
          /\ Joined(TextBytes(s, a), u, CharBytes(s, c))
          /\ Joined(TextBytes(s, a), v, CharBytes(t, d))
      BY <2>4 DEF Joined
    <3> HIDE DEF u, v
    <3>2. c = d /\ u = v
      BY <3>1, LastCharacter, Zenon
    <3> QED  BY <3>2 DEF u, v
  <2>6. p = q
    BY <1>3, <2>1, <2>5
  <2> QED  BY <2>1, <2>3, <2>5, <2>6
<1>4. Len(x) \in Good
  <2> HIDE DEF Good
  <2> QED  BY <1>2, <1>3, NatInductionInSet
<1> QED  BY <1>4

\* Texts laid end to end are encoded as one text.
LEMMA TextBytesConcat ==
  ASSUME NEW sdk \in SDK, NEW x \in Seq(Char), NEW y \in Seq(Char)
  PROVE  /\ x \o y \in Seq(Char)
         /\ TextBytes(sdk, x \o y) = TextBytes(sdk, x) \o TextBytes(sdk, y)
<1> DEFINE T(z) == TextBytes(sdk, z)
           Good == {n \in Nat : \A b \in Seq(Char) : Len(b) = n => T(x \o b) = T(x) \o T(b)}
<1>1. 97 \in Char
  BY DEF Char, IsScalar
<1>2. \A z \in Seq(Char) : T(z) \in Seq(Byte)
  BY <1>1, TextBytesAppend
<1>3. \A z \in Seq(Char), c \in Char : T(Append(z, c)) = T(z) \o CharBytes(sdk, c)
  BY TextBytesAppend
<1>4. T(<<>>) = <<>>
  BY <1>1, TextBytesAppend
<1> HIDE DEF T
<1>5. 0 \in Good
  <2> SUFFICES ASSUME NEW b \in Seq(Char), Len(b) = 0
               PROVE  T(x \o b) = T(x) \o T(b)
    OBVIOUS
  <2>1. b = <<>>
    OBVIOUS
  <2>2. x \o <<>> = x /\ T(x) \o <<>> = T(x)
    BY <1>2, ConcatEmptySeq
  <2> QED  BY <1>4, <2>1, <2>2
<1>6. ASSUME NEW n \in Nat, n \in Good
      PROVE  n + 1 \in Good
  <2> SUFFICES ASSUME NEW b \in Seq(Char), Len(b) = n + 1
               PROVE  T(x \o b) = T(x) \o T(b)
    OBVIOUS
  <2>1. PICK q \in Seq(Char), d \in Char : b = Append(q, d) /\ Len(q) = n
    <3>1. Len(b) # 0 /\ Len(b) - 1 = n
      OBVIOUS
    <3> QED  BY <3>1, LastSplit
  <2>2. x \o b = Append(x \o q, d) /\ x \o q \in Seq(Char)
    <3>1. b = q \o <<d>> /\ <<d>> \in Seq(Char) /\ x \o q \in Seq(Char)
      BY <2>1, AppendIsConcat, ConcatProperties
    <3>2. x \o b = (x \o q) \o <<d>>
      BY <3>1, ConcatAssociative, SMTT(30)
    <3> QED  BY <3>1, <3>2, AppendIsConcat
  <2>3. T(x \o b) = T(x \o q) \o CharBytes(sdk, d)
    BY <1>3, <2>2
  <2>4. T(x \o q) = T(x) \o T(q)
    BY <1>6, <2>1
  <2>5. CharBytes(sdk, d) \in Seq(Byte)
    BY CharShapes
  <2>6. (T(x) \o T(q)) \o CharBytes(sdk, d) = T(x) \o (T(q) \o CharBytes(sdk, d))
    <3> DEFINE u == T(x)
               v == T(q)
               w == CharBytes(sdk, d)
    <3>1. u \in Seq(Byte) /\ v \in Seq(Byte) /\ w \in Seq(Byte)
      BY <1>2, <2>5
    <3> HIDE DEF u, v, w
    <3>2. (u \o v) \o w = u \o (v \o w)
      BY <3>1, ConcatAssociative, SMTT(30)
    <3> QED  BY <3>2 DEF u, v, w
  <2>7. T(b) = T(q) \o CharBytes(sdk, d)
    BY <1>3, <2>1
  <2> QED  BY <2>3, <2>4, <2>6, <2>7
<1>7. Len(y) \in Good
  <2> HIDE DEF Good
  <2> QED  BY <1>5, <1>6, NatInductionInSet
<1>8. x \o y \in Seq(Char)
  BY ConcatProperties
<1> QED  BY <1>7, <1>8 DEF T

-----------------------------------------------------------------------------
(* The fields of an identifier *)

\* A byte is its own low byte.
LEMMA ByteKept ==
  ASSUME NEW x \in Int, 0 <= x, x < 256
  PROVE  x % 256 = x
OBVIOUS

\* Well-formed hex of one length that decodes alike differs in case at most.
LEMMA HexRecovered ==
  ASSUME NEW a \in Seq(Nat), NEW b \in Seq(Nat), WellFormedHex(a), WellFormedHex(b),
         Len(a) = Len(b),
         \A k \in 1 .. Len(a) \div 2 : DigitPair(a, 2 * k - 1) = DigitPair(b, 2 * k - 1)
  PROVE  SameHex(a, b)
<1> SUFFICES ASSUME NEW i \in DOMAIN a
             PROVE  HexValue(a[i]) = HexValue(b[i])
  BY DEF SameHex
<1> DEFINE k == (i + 1) \div 2
<1>1. /\ k \in 1 .. Len(a) \div 2
      /\ 2 * k - 1 \in 1 .. Len(a) /\ (2 * k - 1) + 1 \in 1 .. Len(a)
      /\ i = 2 * k - 1 \/ i = (2 * k - 1) + 1
  <2>1. i \in 1 .. Len(a) /\ Len(a) \in Nat /\ Len(a) % 2 = 0
    BY DEF WellFormedHex
  <2>2. ASSUME NEW n \in Nat, n % 2 = 0, NEW j \in 1 .. n
        PROVE  LET m == (j + 1) \div 2
               IN  /\ m \in 1 .. n \div 2
                   /\ 2 * m - 1 \in 1 .. n /\ (2 * m - 1) + 1 \in 1 .. n
                   /\ j = 2 * m - 1 \/ j = (2 * m - 1) + 1
    BY <2>2, SMTT(30)
  <2> QED  BY <2>1, <2>2
<1> HIDE DEF k
<1>2. DigitPair(a, 2 * k - 1) = DigitPair(b, 2 * k - 1)
  BY <1>1
<1>3. ASSUME NEW c \in Nat, HexValue(c) # -1
      PROVE  HexValue(c) \in 0 .. 15
  BY <1>3 DEF HexValue
<1>4. /\ HexValue(a[2 * k - 1]) \in 0 .. 15 /\ HexValue(a[(2 * k - 1) + 1]) \in 0 .. 15
      /\ HexValue(b[2 * k - 1]) \in 0 .. 15 /\ HexValue(b[(2 * k - 1) + 1]) \in 0 .. 15
  <2>1. ASSUME NEW j \in 1 .. Len(a)
        PROVE  HexValue(a[j]) \in 0 .. 15 /\ HexValue(b[j]) \in 0 .. 15
    <3>1. j \in DOMAIN a /\ j \in DOMAIN b /\ a[j] \in Nat /\ b[j] \in Nat
      OBVIOUS
    <3> QED  BY <3>1, <1>3 DEF WellFormedHex, AllDigits
  <2> QED  BY <1>1, <2>1
<1> DEFINE p == HexValue(a[2 * k - 1])  q == HexValue(a[(2 * k - 1) + 1])
           r == HexValue(b[2 * k - 1])  s == HexValue(b[(2 * k - 1) + 1])
<1>5. (16 * p + q) % 256 = (16 * r + s) % 256
  BY <1>2 DEF DigitPair
<1>6. p \in 0 .. 15 /\ q \in 0 .. 15 /\ r \in 0 .. 15 /\ s \in 0 .. 15
  BY <1>4
<1>7. p = r /\ q = s
  <2> HIDE DEF p, q, r, s
  <2>1. 16 * p + q \in 0 .. 255 /\ 16 * r + s \in 0 .. 255
    BY <1>6
  <2> DEFINE x == 16 * p + q  y == 16 * r + s
  <2>2. x = y
    <3>1. x % 256 = y % 256 /\ x \in 0 .. 255 /\ y \in 0 .. 255
      BY <1>5, <2>1
    <3> HIDE DEF x, y
    <3>2. x % 256 = x /\ y % 256 = y
      BY <3>1, ByteKept
    <3> QED  BY <3>1, <3>2
  <2> QED  BY <1>6, <2>2
<1> QED  BY <1>1, <1>7

\* The bytes of well-formed hex.
Pairs(hex) == [k \in 1 .. Len(hex) \div 2 |-> DigitPair(hex, 2 * k - 1)]

\* Well-formed hex is half as many bytes as it has digits, in every SDK, and differs in case
\* at most from what has the same bytes.
LEMMA HexFacts ==
  ASSUME NEW hex \in Seq(Nat), WellFormedHex(hex)
  PROVE  /\ \A sdk \in SDK : HexBytes(sdk, hex) = Pairs(hex)
         /\ Pairs(hex) \in Seq(Byte) /\ Len(Pairs(hex)) = Len(hex) \div 2
         /\ \A other \in Seq(Nat) :
              WellFormedHex(other) /\ Pairs(hex) = Pairs(other) => SameHex(hex, other)
<1>1. \A sdk \in SDK : HexBytes(sdk, hex) = Pairs(hex)
  BY HexAgrees DEF Pairs
<1>2. Len(hex) \in Nat /\ Len(hex) \div 2 \in Nat /\ Len(hex) % 2 = 0
  BY DEF WellFormedHex
<1>3. ASSUME NEW k \in 1 .. Len(hex) \div 2
      PROVE  DigitPair(hex, 2 * k - 1) \in Byte
  <2>1. \A i \in DOMAIN hex : HexValue(hex[i]) \in Int
    <3>1. \A c \in Nat : HexValue(c) \in Int
      BY DEF HexValue
    <3>2. \A i \in DOMAIN hex : hex[i] \in Nat
      OBVIOUS
    <3> QED  BY <3>1, <3>2
  <2>2. 2 * k - 1 \in DOMAIN hex /\ (2 * k - 1) + 1 \in DOMAIN hex
    <3>1. 2 * k <= Len(hex) /\ DOMAIN hex = 1 .. Len(hex)
      BY <1>2
    <3> QED  BY <1>2, <3>1
  <2>3. \A x, y \in Int : (16 * x + y) % 256 \in 0 .. 255
    OBVIOUS
  <2> QED  BY <2>1, <2>2, <2>3 DEF DigitPair, Byte
<1>4. Pairs(hex) \in Seq(Byte) /\ Len(Pairs(hex)) = Len(hex) \div 2
  BY <1>2, <1>3 DEF Pairs
<1>5. ASSUME NEW other \in Seq(Nat), WellFormedHex(other), Pairs(hex) = Pairs(other)
      PROVE  SameHex(hex, other)
  <2>1. Len(other) \in Nat /\ Len(other) % 2 = 0 /\ Len(other) \div 2 \in Nat
    BY <1>5 DEF WellFormedHex
  <2>2. Len(hex) \div 2 = Len(other) \div 2
    <3>1. Len(Pairs(other)) = Len(other) \div 2
      BY <2>1 DEF Pairs
    <3> QED  BY <1>4, <1>5, <3>1
  <2>3. Len(hex) = Len(other)
    BY <1>2, <2>1, <2>2
  <2>4. ASSUME NEW k \in 1 .. Len(hex) \div 2
        PROVE  DigitPair(hex, 2 * k - 1) = DigitPair(other, 2 * k - 1)
    <3>1. /\ Pairs(hex)[k] = DigitPair(hex, 2 * k - 1)
          /\ Pairs(other)[k] = DigitPair(other, 2 * k - 1)
      BY <2>2 DEF Pairs
    <3> QED  BY <1>5, <3>1
  <2> QED  BY <1>5, <2>3, <2>4, HexRecovered
<1> QED  BY <1>1, <1>4, <1>5

\* A time that is not refused is its bytes in a word, and they decide it so far.
LEMMA TimeFacts ==
  ASSUME NEW sdk \in SDK, NEW t \in Int, TimeBytes(sdk, t) # Refused
  PROVE  /\ TimeBytes(sdk, t) = BigEndian(t, WordBytes)
         /\ BigEndian(t, WordBytes) \in Seq(Byte) /\ Len(BigEndian(t, WordBytes)) = WordBytes
         /\ \A u \in Int : BigEndian(t, WordBytes) = BigEndian(u, WordBytes) =>
              Congruent(t, u, WordBytes)
<1>1. WordBytes \in 0 .. AmountBytes
  BY WidthsOK
<1>2. TimeBytes(sdk, t) = BigEndian(t, WordBytes)
  BY DEF TimeBytes
<1> QED  BY <1>1, <1>2, BigEndianType, BytesDecide

\* An amount likewise, in the bytes of an amount.
LEMMA AmountFacts ==
  ASSUME NEW sdk \in SDK, NEW n \in Nat, AmountField(sdk, n) # Refused
  PROVE  /\ AmountField(sdk, n) = BigEndian(n, AmountBytes)
         /\ BigEndian(n, AmountBytes) \in Seq(Byte)
         /\ Len(BigEndian(n, AmountBytes)) = AmountBytes
         /\ \A m \in Nat : BigEndian(n, AmountBytes) = BigEndian(m, AmountBytes) =>
              Congruent(n, m, AmountBytes)
<1>1. AmountBytes \in 0 .. AmountBytes
  BY WidthsOK
<1>2. AmountField(sdk, n) = BigEndian(n, AmountBytes)
  BY DEF AmountField
<1> QED  BY <1>1, <1>2, BigEndianType, BytesDecide

\* An identifier that is not refused is its bytes, and none of its fields was refused.
LEMMA FieldsKept ==
  ASSUME NEW fields, NEW bytes, HashUnlessRefused(fields, bytes) # Refused
  PROVE  /\ HashUnlessRefused(fields, bytes) = bytes
         /\ \A i \in DOMAIN fields : fields[i] # Refused
BY DEF HashUnlessRefused

\* Where two sequences laid end to end are one, so are their last parts of equal length.
LEMMA BacksCancel ==
  ASSUME NEW z, NEW p \in Seq(Byte), NEW u \in Seq(Byte), NEW q \in Seq(Byte), NEW v \in Seq(Byte),
         Joined(z, p, u), Joined(z, q, v), Len(u) = Len(v)
  PROVE  p = q /\ u = v
<1>1. p \o u = q \o v
  BY DEF Joined
<1>2. Len(p \o u) = Len(p) + Len(u) /\ Len(q \o v) = Len(q) + Len(v)
  BY ConcatProperties
<1>3. Len(p) = Len(q)
  BY <1>1, <1>2
<1> QED  BY <1>1, <1>3, FrontsCancel

\* The texts of a claim are sequences of characters.
LEMMA TextsTyped ==
  ASSUME NEW claim \in Claim, NEW i \in DOMAIN Texts(claim)
  PROVE  Texts(claim)[i] \in Seq(Char)
<1> DEFINE text == Texts(claim)[i]
<1>1. text \in Seq(Nat) /\ \A k \in DOMAIN text : IsScalar(text[k])
  BY LedgerParameters
<1> HIDE DEF text
<1>2. /\ text = [k \in 1 .. Len(text) |-> text[k]] /\ Len(text) \in Nat
      /\ \A k \in 1 .. Len(text) : text[k] \in Char
  BY <1>1 DEF Char
<1>3. text \in Seq(Char)
  BY <1>2
<1> QED  BY <1>3 DEF text

-----------------------------------------------------------------------------
(* What an identifier tells *)

\* Two transfers with one id have names that run together alike, and one amount, nonce and
\* time: the fields after the names are of fixed length.  Their names take the same bytes.
LEMMA TransferIdentifies ==
  ASSUME NEW c \in Claim, NEW d \in Claim, c.kind = "transfer", d.kind = "transfer",
         Standard(c), Standard(d), NEW s \in SDK, NEW t \in SDK,
         IdOf(s, c) # Refused, IdOf(s, c) = IdOf(t, d)
  PROVE  /\ SameClaim(c, d)
         /\ TextBytes(s, FlattenSeq(Texts(c))) = TextBytes(t, FlattenSeq(Texts(d)))
<1> DEFINE Names(e) == e.sender \o e.receiver
           F(sdk, e) == TextBytes(sdk, Names(e))
           Am(e) == BigEndian(e.amount, AmountBytes)
           No(e) == Pairs(e.nonce)
           Ti(e) == BigEndian(e.timestamp, WordBytes)
           G(sdk, e) == F(sdk, e) \o Am(e)
           H(sdk, e) == G(sdk, e) \o No(e)
<1>1. ASSUME NEW e \in Claim, e.kind = "transfer", Standard(e), NEW sdk \in SDK,
             IdOf(sdk, e) # Refused
      PROVE  /\ IdOf(sdk, e) = H(sdk, e) \o Ti(e)
             /\ F(sdk, e) \in Seq(Byte) /\ Am(e) \in Seq(Byte) /\ No(e) \in Seq(Byte)
             /\ Ti(e) \in Seq(Byte) /\ G(sdk, e) \in Seq(Byte) /\ H(sdk, e) \in Seq(Byte)
             /\ Len(Am(e)) = AmountBytes /\ Len(No(e)) = NonceDigits \div 2
             /\ Len(Ti(e)) = WordBytes
             /\ Names(e) \in Seq(Char) /\ e.nonce \in Seq(Nat) /\ WellFormedHex(e.nonce)
             /\ Texts(e) = <<e.sender, e.receiver>>
             /\ FlattenSeq(Texts(e)) = Names(e)
             /\ \A n \in Nat : Am(e) = BigEndian(n, AmountBytes) => Congruent(e.amount, n, AmountBytes)
             /\ \A n \in Int : Ti(e) = BigEndian(n, WordBytes) => Congruent(e.timestamp, n, WordBytes)
  <2> DEFINE am == AmountField(sdk, e.amount)
             no == HexBytes(sdk, e.nonce)
             ti == TimeBytes(sdk, e.timestamp)
             a == TextBytes(sdk, e.sender)
             b == TextBytes(sdk, e.receiver)
             fields == <<am, no, ti>>
             bytes == (((a \o b) \o am) \o no) \o ti
  <2>1. IdOf(sdk, e) = HashUnlessRefused(fields, bytes)
    BY <1>1 DEF IdOf, ConstructTxId
  <2>2. /\ 1 \in DOMAIN fields /\ fields[1] = am /\ 2 \in DOMAIN fields /\ fields[2] = no
        /\ 3 \in DOMAIN fields /\ fields[3] = ti
    OBVIOUS
  <2>3. IdOf(sdk, e) = bytes /\ am # Refused /\ ti # Refused
    <3> HIDE DEF am, no, ti, a, b, fields, bytes
    <3> QED  BY <1>1, <2>1, <2>2, FieldsKept
  <2>4. e.amount \in Nat /\ e.timestamp \in Int
    BY <1>1, LedgerParameters
  <2>5. e.nonce \in Seq(Nat) /\ WellFormedHex(e.nonce) /\ Len(e.nonce) = NonceDigits
    BY <1>1, LedgerParameters DEF Standard, HexFields
  <2>6. Texts(e) = <<e.sender, e.receiver>>
    BY <1>1 DEF Texts
  <2>7. e.sender \in Seq(Char) /\ e.receiver \in Seq(Char)
    <3>1. /\ 1 \in DOMAIN Texts(e) /\ 2 \in DOMAIN Texts(e)
          /\ Texts(e)[1] = e.sender /\ Texts(e)[2] = e.receiver
      BY <2>6
    <3> QED  BY <1>1, <3>1, TextsTyped
  <2>8. /\ Names(e) \in Seq(Char) /\ F(sdk, e) = a \o b
    BY <2>7, TextBytesConcat
  <2>9. F(sdk, e) \in Seq(Byte)
    <3>1. 97 \in Char
      BY DEF Char, IsScalar
    <3> HIDE DEF Names
    <3> QED  BY <2>8, <3>1, TextBytesAppend
  <2>10. FlattenSeq(Texts(e)) = Names(e)
    BY <2>6, <2>7, FlattenTwo
  <2>11. /\ am = Am(e) /\ Am(e) \in Seq(Byte) /\ Len(Am(e)) = AmountBytes
         /\ \A n \in Nat : Am(e) = BigEndian(n, AmountBytes) => Congruent(e.amount, n, AmountBytes)
    BY <2>3, <2>4, AmountFacts
  <2>12. /\ ti = Ti(e) /\ Ti(e) \in Seq(Byte) /\ Len(Ti(e)) = WordBytes
         /\ \A n \in Int : Ti(e) = BigEndian(n, WordBytes) => Congruent(e.timestamp, n, WordBytes)
    BY <2>3, <2>4, TimeFacts
  <2>13. no = No(e) /\ No(e) \in Seq(Byte) /\ Len(No(e)) = NonceDigits \div 2
    BY <2>5, HexFacts
  <2>14. G(sdk, e) \in Seq(Byte) /\ H(sdk, e) \in Seq(Byte)
    <3> HIDE DEF F, Am, No
    <3>1. G(sdk, e) \in Seq(Byte)
      BY <2>9, <2>11, ConcatProperties
    <3> HIDE DEF G
    <3> QED  BY <2>13, <3>1, ConcatProperties
  <2>15. IdOf(sdk, e) = H(sdk, e) \o Ti(e)
    <3> HIDE DEF F, Am, No, Ti, am, no, ti, a, b
    <3> QED  BY <2>3, <2>8, <2>11, <2>12, <2>13, Zenon
  <2> HIDE DEF Names, F, Am, No, Ti, G, H
  <2> QED  BY <2>5, <2>6, <2>8, <2>9, <2>10, <2>11, <2>12, <2>13, <2>14, <2>15
<1> HIDE DEF Names, F, Am, No, Ti, G, H
<1>2. IdOf(t, d) # Refused /\ d.amount \in Nat /\ d.timestamp \in Int
  BY LedgerParameters
<1>3. H(s, c) = H(t, d) /\ Ti(c) = Ti(d)
  <2>1. Joined(IdOf(s, c), H(s, c), Ti(c)) /\ Joined(IdOf(s, c), H(t, d), Ti(d))
    BY <1>1, <1>2 DEF Joined
  <2>2. /\ H(s, c) \in Seq(Byte) /\ H(t, d) \in Seq(Byte)
        /\ Ti(c) \in Seq(Byte) /\ Ti(d) \in Seq(Byte) /\ Len(Ti(c)) = Len(Ti(d))
    BY <1>1, <1>2
  <2> QED  BY <2>1, <2>2, BacksCancel, Zenon
<1>4. G(s, c) = G(t, d) /\ No(c) = No(d)
  <2>1. Joined(H(s, c), G(s, c), No(c)) /\ Joined(H(s, c), G(t, d), No(d))
    BY <1>3, Zenon DEF Joined, H
  <2>2. /\ G(s, c) \in Seq(Byte) /\ G(t, d) \in Seq(Byte)
        /\ No(c) \in Seq(Byte) /\ No(d) \in Seq(Byte) /\ Len(No(c)) = Len(No(d))
    BY <1>1, <1>2
  <2> QED  BY <2>1, <2>2, BacksCancel, Zenon
<1>5. F(s, c) = F(t, d) /\ Am(c) = Am(d)
  <2>1. Joined(G(s, c), F(s, c), Am(c)) /\ Joined(G(s, c), F(t, d), Am(d))
    BY <1>4, Zenon DEF Joined, G
  <2>2. /\ F(s, c) \in Seq(Byte) /\ F(t, d) \in Seq(Byte)
        /\ Am(c) \in Seq(Byte) /\ Am(d) \in Seq(Byte) /\ Len(Am(c)) = Len(Am(d))
    BY <1>1, <1>2
  <2> QED  BY <2>1, <2>2, BacksCancel, Zenon
<1>6. FlattenSeq(Texts(c)) = FlattenSeq(Texts(d))
  <2>1. Names(c) = Names(d)
    <3>1. Names(c) \in Seq(Char) /\ Names(d) \in Seq(Char)
      BY <1>1, <1>2
    <3>2. TextBytes(s, Names(c)) = TextBytes(t, Names(d))
      BY <1>5 DEF F
    <3> QED  BY <3>1, <3>2, TextDecided
  <2> QED  BY <1>1, <1>2, <2>1
<1>7. SameHex(c.nonce, d.nonce)
  <2>1. c.nonce \in Seq(Nat) /\ WellFormedHex(c.nonce)
        /\ d.nonce \in Seq(Nat) /\ WellFormedHex(d.nonce)
    BY <1>1, <1>2
  <2> QED  BY <1>4, <2>1, HexFacts DEF No
<1>8. Congruent(c.amount, d.amount, AmountBytes) /\ Congruent(c.timestamp, d.timestamp, WordBytes)
  <2>1. Am(c) = BigEndian(d.amount, AmountBytes) /\ Ti(c) = BigEndian(d.timestamp, WordBytes)
    BY <1>3, <1>5 DEF Am, Ti
  <2> QED  BY <1>1, <1>2, <2>1
<1>9. TextBytes(s, FlattenSeq(Texts(c))) = TextBytes(t, FlattenSeq(Texts(d)))
  BY <1>1, <1>2, <1>5 DEF F
<1> QED  BY <1>6, <1>7, <1>8, <1>9 DEF SameClaim

\* Two asset ids that are one are of one key, one nonce and one time.
LEMMA AssetIdIdentifies ==
  ASSUME NEW c \in Claim, NEW d \in Claim, c.kind = "issuance", d.kind = "issuance",
         Standard(c), Standard(d), NEW s \in SDK, NEW t \in SDK,
         IdOf(s, c) # Refused, IdOf(s, c) = IdOf(t, d)
  PROVE  SameClaim(c, d)
<1> DEFINE Pk(e) == Pairs(e.pubkey)
           Ti(e) == BigEndian(e.timestamp, WordBytes)
           No(e) == Pairs(e.nonce)
           G(e) == Pk(e) \o Ti(e)
<1>1. ASSUME NEW e \in Claim, e.kind = "issuance", Standard(e), NEW sdk \in SDK,
             IdOf(sdk, e) # Refused
      PROVE  /\ IdOf(sdk, e) = G(e) \o No(e)
             /\ Pk(e) \in Seq(Byte) /\ Ti(e) \in Seq(Byte) /\ No(e) \in Seq(Byte)
             /\ G(e) \in Seq(Byte)
             /\ Len(Ti(e)) = WordBytes /\ Len(No(e)) = NonceDigits \div 2
             /\ e.pubkey \in Seq(Nat) /\ WellFormedHex(e.pubkey)
             /\ e.nonce \in Seq(Nat) /\ WellFormedHex(e.nonce)
             /\ Texts(e) = <<>>
             /\ \A n \in Int : Ti(e) = BigEndian(n, WordBytes) => Congruent(e.timestamp, n, WordBytes)
  <2> DEFINE pk == HexBytes(sdk, e.pubkey)
             ti == TimeBytes(sdk, e.timestamp)
             no == HexBytes(sdk, e.nonce)
             fields == <<pk, ti, no>>
             bytes == (pk \o ti) \o no
  <2>1. IdOf(sdk, e) = HashUnlessRefused(fields, bytes)
    BY <1>1 DEF IdOf, ConstructAssetId
  <2>2. 2 \in DOMAIN fields /\ fields[2] = ti
    OBVIOUS
  <2>3. IdOf(sdk, e) = bytes /\ ti # Refused
    <3> HIDE DEF pk, ti, no, fields, bytes
    <3> QED  BY <1>1, <2>1, <2>2, FieldsKept
  <2>4. e.timestamp \in Int
    BY LedgerParameters
  <2>5. /\ e.pubkey \in Seq(Nat) /\ WellFormedHex(e.pubkey)
        /\ e.nonce \in Seq(Nat) /\ WellFormedHex(e.nonce) /\ Len(e.nonce) = NonceDigits
    BY <1>1, LedgerParameters DEF Standard, HexFields
  <2>6. Texts(e) = <<>>
    BY <1>1 DEF Texts
  <2>7. pk = Pk(e) /\ Pk(e) \in Seq(Byte)
    BY <2>5, HexFacts
  <2>8. /\ ti = Ti(e) /\ Ti(e) \in Seq(Byte) /\ Len(Ti(e)) = WordBytes
        /\ \A n \in Int : Ti(e) = BigEndian(n, WordBytes) => Congruent(e.timestamp, n, WordBytes)
    BY <2>3, <2>4, TimeFacts
  <2>9. no = No(e) /\ No(e) \in Seq(Byte) /\ Len(No(e)) = NonceDigits \div 2
    BY <2>5, HexFacts
  <2>10. G(e) \in Seq(Byte)
    <3> HIDE DEF Pk, Ti
    <3> QED  BY <2>7, <2>8, ConcatProperties
  <2>11. IdOf(sdk, e) = G(e) \o No(e)
    <3> HIDE DEF Pk, Ti, No, pk, ti, no
    <3> QED  BY <2>3, <2>7, <2>8, <2>9, Zenon
  <2> HIDE DEF Pk, Ti, No, G
  <2> QED  BY <2>5, <2>6, <2>7, <2>8, <2>9, <2>10, <2>11
<1> HIDE DEF Pk, Ti, No, G
<1>2. IdOf(t, d) # Refused /\ d.timestamp \in Int
  BY LedgerParameters
<1>3. G(c) = G(d) /\ No(c) = No(d)
  <2>1. Joined(IdOf(s, c), G(c), No(c)) /\ Joined(IdOf(s, c), G(d), No(d))
    BY <1>1, <1>2 DEF Joined
  <2>2. /\ G(c) \in Seq(Byte) /\ G(d) \in Seq(Byte)
        /\ No(c) \in Seq(Byte) /\ No(d) \in Seq(Byte) /\ Len(No(c)) = Len(No(d))
    BY <1>1, <1>2
  <2> QED  BY <2>1, <2>2, BacksCancel, Zenon
<1>4. Pk(c) = Pk(d) /\ Ti(c) = Ti(d)
  <2>1. Joined(G(c), Pk(c), Ti(c)) /\ Joined(G(c), Pk(d), Ti(d))
    BY <1>3, Zenon DEF Joined, G
  <2>2. /\ Pk(c) \in Seq(Byte) /\ Pk(d) \in Seq(Byte)
        /\ Ti(c) \in Seq(Byte) /\ Ti(d) \in Seq(Byte) /\ Len(Ti(c)) = Len(Ti(d))
    BY <1>1, <1>2
  <2> QED  BY <2>1, <2>2, BacksCancel, Zenon
<1>5. SameHex(c.pubkey, d.pubkey) /\ SameHex(c.nonce, d.nonce)
  <2>1. /\ c.pubkey \in Seq(Nat) /\ WellFormedHex(c.pubkey)
        /\ d.pubkey \in Seq(Nat) /\ WellFormedHex(d.pubkey)
        /\ c.nonce \in Seq(Nat) /\ WellFormedHex(c.nonce)
        /\ d.nonce \in Seq(Nat) /\ WellFormedHex(d.nonce)
    BY <1>1, <1>2
  <2> QED  BY <1>3, <1>4, <2>1, HexFacts DEF Pk, No
<1>6. Congruent(c.timestamp, d.timestamp, WordBytes)
  <2>1. Ti(c) = BigEndian(d.timestamp, WordBytes)
    BY <1>4 DEF Ti
  <2> QED  BY <1>1, <1>2, <2>1
<1>7. Texts(c) = Texts(d)
  BY <1>1, <1>2
<1> QED  BY <1>5, <1>6, <1>7 DEF SameClaim

\* A certificate id, whichever two SDKs computed it, stands for one asset, one state, one
\* set of rules, one set of authorities and one time: hashes of one length cannot run
\* together.
THEOREM CidIdentifies ==
  ASSUME NEW c \in Claim, NEW d \in Claim, c.kind = "certificate", d.kind = "certificate",
         Standard(c), Standard(d), NEW s \in SDK, NEW t \in SDK,
         IdOf(s, c) # Refused, IdOf(s, c) = IdOf(t, d)
  PROVE  SameClaim(c, d)
<1> DEFINE A(e) == Pairs(e.asset_id)
           S(e) == Pairs(e.state_hash)
           C(e) == Pairs(e.compliance_hash)
           G(e) == Pairs(e.governance_hash)
           Ti(e) == BigEndian(e.timestamp, WordBytes)
           AS(e) == A(e) \o S(e)
           ASC(e) == AS(e) \o C(e)
           ASCG(e) == ASC(e) \o G(e)
           Hash(hex) == hex \in Seq(Nat) /\ WellFormedHex(hex) /\ Len(hex) = HashDigits
           h == HashDigits \div 2
<1>1. ASSUME NEW e \in Claim, e.kind = "certificate", Standard(e), NEW sdk \in SDK,
             IdOf(sdk, e) # Refused
      PROVE  /\ IdOf(sdk, e) = ASCG(e) \o Ti(e)
             /\ A(e) \in Seq(Byte) /\ S(e) \in Seq(Byte) /\ C(e) \in Seq(Byte)
             /\ G(e) \in Seq(Byte) /\ Ti(e) \in Seq(Byte)
             /\ AS(e) \in Seq(Byte) /\ ASC(e) \in Seq(Byte) /\ ASCG(e) \in Seq(Byte)
             /\ Len(S(e)) = h /\ Len(C(e)) = h /\ Len(G(e)) = h /\ Len(Ti(e)) = WordBytes
             /\ Hash(e.asset_id) /\ Hash(e.state_hash) /\ Hash(e.compliance_hash)
             /\ Hash(e.governance_hash)
             /\ Texts(e) = <<>>
             /\ \A n \in Int : Ti(e) = BigEndian(n, WordBytes) => Congruent(e.timestamp, n, WordBytes)
  <2> DEFINE a == HexBytes(sdk, e.asset_id)
             u == HexBytes(sdk, e.state_hash)
             v == HexBytes(sdk, e.compliance_hash)
             g == HexBytes(sdk, e.governance_hash)
             ti == TimeBytes(sdk, e.timestamp)
             fields == <<a, u, v, g, ti>>
             bytes == (((a \o u) \o v) \o g) \o ti
  <2>1. IdOf(sdk, e) = HashUnlessRefused(fields, bytes)
    BY <1>1 DEF IdOf, ConstructCid
  <2>2. 5 \in DOMAIN fields /\ fields[5] = ti
    OBVIOUS
  <2>3. IdOf(sdk, e) = bytes /\ ti # Refused
    <3> HIDE DEF a, u, v, g, ti, fields, bytes
    <3> QED  BY <1>1, <2>1, <2>2, FieldsKept
  <2>4. e.timestamp \in Int
    BY LedgerParameters
  <2>5. Hash(e.asset_id) /\ Hash(e.state_hash) /\ Hash(e.compliance_hash)
        /\ Hash(e.governance_hash)
    BY <1>1, LedgerParameters DEF Standard, HexFields
  <2>6. Texts(e) = <<>>
    BY <1>1 DEF Texts
  <2>7. /\ a = A(e) /\ A(e) \in Seq(Byte)
        /\ u = S(e) /\ S(e) \in Seq(Byte) /\ Len(S(e)) = h
    BY <2>5, HexFacts
  <2>8. /\ v = C(e) /\ C(e) \in Seq(Byte) /\ Len(C(e)) = h
        /\ g = G(e) /\ G(e) \in Seq(Byte) /\ Len(G(e)) = h
    BY <2>5, HexFacts
  <2>9. /\ ti = Ti(e) /\ Ti(e) \in Seq(Byte) /\ Len(Ti(e)) = WordBytes
        /\ \A n \in Int : Ti(e) = BigEndian(n, WordBytes) => Congruent(e.timestamp, n, WordBytes)
    BY <2>3, <2>4, TimeFacts
  <2>10. AS(e) \in Seq(Byte) /\ ASC(e) \in Seq(Byte) /\ ASCG(e) \in Seq(Byte)
    <3> HIDE DEF A, S, C, G
    <3>1. AS(e) \in Seq(Byte)
      BY <2>7, ConcatProperties
    <3> HIDE DEF AS
    <3>2. ASC(e) \in Seq(Byte)
      BY <2>8, <3>1, ConcatProperties
    <3> HIDE DEF ASC
    <3> QED  BY <2>8, <3>1, <3>2, ConcatProperties
  <2>11. IdOf(sdk, e) = ASCG(e) \o Ti(e)
    <3> HIDE DEF A, S, C, G, Ti, a, u, v, g, ti
    <3> QED  BY <2>3, <2>7, <2>8, <2>9, Zenon
  <2> HIDE DEF A, S, C, G, Ti, AS, ASC, ASCG, Hash, h
  <2> QED  BY <2>5, <2>6, <2>7, <2>8, <2>9, <2>10, <2>11
<1> HIDE DEF A, S, C, G, Ti, AS, ASC, ASCG, h
<1>2. IdOf(t, d) # Refused /\ d.timestamp \in Int
  BY LedgerParameters
<1>3. ASCG(c) = ASCG(d) /\ Ti(c) = Ti(d)
  <2>1. Joined(IdOf(s, c), ASCG(c), Ti(c)) /\ Joined(IdOf(s, c), ASCG(d), Ti(d))
    BY <1>1, <1>2 DEF Joined
  <2>2. /\ ASCG(c) \in Seq(Byte) /\ ASCG(d) \in Seq(Byte)
        /\ Ti(c) \in Seq(Byte) /\ Ti(d) \in Seq(Byte) /\ Len(Ti(c)) = Len(Ti(d))
    BY <1>1, <1>2
  <2> QED  BY <2>1, <2>2, BacksCancel, Zenon
<1>4. ASC(c) = ASC(d) /\ G(c) = G(d)
  <2>1. Joined(ASCG(c), ASC(c), G(c)) /\ Joined(ASCG(c), ASC(d), G(d))
    BY <1>3, Zenon DEF Joined, ASCG
  <2>2. /\ ASC(c) \in Seq(Byte) /\ ASC(d) \in Seq(Byte)
        /\ G(c) \in Seq(Byte) /\ G(d) \in Seq(Byte) /\ Len(G(c)) = Len(G(d))
    BY <1>1, <1>2
  <2> QED  BY <2>1, <2>2, BacksCancel, Zenon
<1>5. AS(c) = AS(d) /\ C(c) = C(d)
  <2>1. Joined(ASC(c), AS(c), C(c)) /\ Joined(ASC(c), AS(d), C(d))
    BY <1>4, Zenon DEF Joined, ASC
  <2>2. /\ AS(c) \in Seq(Byte) /\ AS(d) \in Seq(Byte)
        /\ C(c) \in Seq(Byte) /\ C(d) \in Seq(Byte) /\ Len(C(c)) = Len(C(d))
    BY <1>1, <1>2
  <2> QED  BY <2>1, <2>2, BacksCancel, Zenon
<1>6. A(c) = A(d) /\ S(c) = S(d)
  <2>1. Joined(AS(c), A(c), S(c)) /\ Joined(AS(c), A(d), S(d))
    BY <1>5, Zenon DEF Joined, AS
  <2>2. /\ A(c) \in Seq(Byte) /\ A(d) \in Seq(Byte)
        /\ S(c) \in Seq(Byte) /\ S(d) \in Seq(Byte) /\ Len(S(c)) = Len(S(d))
    BY <1>1, <1>2
  <2> QED  BY <2>1, <2>2, BacksCancel, Zenon
<1>7. ASSUME NEW a, NEW b, Hash(a), Hash(b), Pairs(a) = Pairs(b)
      PROVE  SameHex(a, b)
  BY <1>7, HexFacts
<1>8. /\ Hash(c.asset_id) /\ Hash(c.state_hash) /\ Hash(c.compliance_hash)
      /\ Hash(c.governance_hash)
      /\ Hash(d.asset_id) /\ Hash(d.state_hash) /\ Hash(d.compliance_hash)
      /\ Hash(d.governance_hash)
      /\ Texts(c) = Texts(d)
  BY <1>1, <1>2
<1> HIDE DEF Hash
<1>9. /\ SameHex(c.asset_id, d.asset_id) /\ SameHex(c.state_hash, d.state_hash)
      /\ SameHex(c.compliance_hash, d.compliance_hash)
      /\ SameHex(c.governance_hash, d.governance_hash)
  BY <1>4, <1>5, <1>6, <1>7, <1>8 DEF A, S, C, G
<1>10. Congruent(c.timestamp, d.timestamp, WordBytes)
  <2>1. Ti(c) = BigEndian(d.timestamp, WordBytes)
    BY <1>3 DEF Ti
  <2> QED  BY <1>1, <1>2, <2>1
<1> QED  BY <1>8, <1>9, <1>10 DEF SameClaim

\* Three texts laid end to end.
LEMMA FlattenThree ==
  ASSUME NEW a \in Seq(Char), NEW b \in Seq(Char), NEW c \in Seq(Char)
  PROVE  FlattenSeq(<<a, b, c>>) = (a \o b) \o c
<1> DEFINE x == <<a, b>>
<1>1. x \in Seq(Seq(Char)) /\ <<a, b, c>> = Append(x, c)
  OBVIOUS
<1>2. FlattenSeq(x) = a \o b
  BY FlattenTwo
<1> HIDE DEF x
<1>3. FlattenSeq(Append(x, c)) = FlattenSeq(x) \o c
  BY <1>1, FlattenFacts
<1> QED  BY <1>1, <1>2, <1>3, Zenon

\* Two overrides with one id have texts that run together alike and take the same bytes, and
\* one time.
LEMMA OverrideIdentifies ==
  ASSUME NEW c \in Claim, NEW d \in Claim, c.kind = "override", d.kind = "override",
         NEW s \in SDK, NEW t \in SDK, IdOf(s, c) # Refused, IdOf(s, c) = IdOf(t, d)
  PROVE  /\ SameClaim(c, d)
         /\ TextBytes(s, FlattenSeq(Texts(c))) = TextBytes(t, FlattenSeq(Texts(d)))
<1> DEFINE All(e) == (e.override_id \o e.authority) \o e.action
           F(sdk, e) == TextBytes(sdk, All(e))
           Ti(e) == BigEndian(e.timestamp, WordBytes)
<1>1. ASSUME NEW e \in Claim, e.kind = "override", NEW sdk \in SDK, IdOf(sdk, e) # Refused
      PROVE  /\ IdOf(sdk, e) = F(sdk, e) \o Ti(e)
             /\ F(sdk, e) \in Seq(Byte) /\ Ti(e) \in Seq(Byte) /\ Len(Ti(e)) = WordBytes
             /\ All(e) \in Seq(Char) /\ FlattenSeq(Texts(e)) = All(e)
             /\ \A n \in Int : Ti(e) = BigEndian(n, WordBytes) => Congruent(e.timestamp, n, WordBytes)
  <2> DEFINE ti == TimeBytes(sdk, e.timestamp)
             a == TextBytes(sdk, e.override_id)
             b == TextBytes(sdk, e.authority)
             x == TextBytes(sdk, e.action)
             fields == <<ti>>
             bytes == ((a \o b) \o x) \o ti
  <2>1. IdOf(sdk, e) = HashUnlessRefused(fields, bytes)
    BY <1>1 DEF IdOf, ConstructOverrideHash
  <2>2. 1 \in DOMAIN fields /\ fields[1] = ti
    OBVIOUS
  <2>3. IdOf(sdk, e) = bytes /\ ti # Refused
    <3> HIDE DEF ti, a, b, x, fields, bytes
    <3> QED  BY <1>1, <2>1, <2>2, FieldsKept
  <2>4. e.timestamp \in Int
    BY LedgerParameters
  <2>5. Texts(e) = <<e.override_id, e.authority, e.action>>
    BY <1>1 DEF Texts
  <2>6. e.override_id \in Seq(Char) /\ e.authority \in Seq(Char) /\ e.action \in Seq(Char)
    <3>1. /\ 1 \in DOMAIN Texts(e) /\ 2 \in DOMAIN Texts(e) /\ 3 \in DOMAIN Texts(e)
          /\ Texts(e)[1] = e.override_id /\ Texts(e)[2] = e.authority /\ Texts(e)[3] = e.action
      BY <2>5
    <3> QED  BY <1>1, <3>1, TextsTyped
  <2>7. /\ All(e) \in Seq(Char) /\ F(sdk, e) = (a \o b) \o x
    <3> DEFINE y == e.override_id \o e.authority
    <3>1. y \in Seq(Char) /\ TextBytes(sdk, y) = a \o b
      BY <2>6, TextBytesConcat
    <3> HIDE DEF y
    <3>2. y \o e.action \in Seq(Char)
          /\ TextBytes(sdk, y \o e.action) = TextBytes(sdk, y) \o TextBytes(sdk, e.action)
      BY <2>6, <3>1, TextBytesConcat
    <3> QED  BY <3>1, <3>2, Zenon DEF y
  <2>8. F(sdk, e) \in Seq(Byte)
    <3>1. 97 \in Char
      BY DEF Char, IsScalar
    <3> HIDE DEF All
    <3> QED  BY <2>7, <3>1, TextBytesAppend
  <2>9. FlattenSeq(Texts(e)) = All(e)
    <3>1. FlattenSeq(<<e.override_id, e.authority, e.action>>) = All(e)
      BY <2>6, FlattenThree, Zenon
    <3> QED  BY <2>5, <3>1, Zenon
  <2>10. /\ ti = Ti(e) /\ Ti(e) \in Seq(Byte) /\ Len(Ti(e)) = WordBytes
         /\ \A n \in Int : Ti(e) = BigEndian(n, WordBytes) => Congruent(e.timestamp, n, WordBytes)
    BY <2>3, <2>4, TimeFacts
  <2>11. IdOf(sdk, e) = F(sdk, e) \o Ti(e)
    <3> HIDE DEF F, Ti, ti, a, b, x
    <3> QED  BY <2>3, <2>7, <2>10, Zenon
  <2> HIDE DEF All, F, Ti
  <2> QED  BY <2>7, <2>8, <2>9, <2>10, <2>11
<1> HIDE DEF All, F, Ti
<1>2. IdOf(t, d) # Refused /\ d.timestamp \in Int
  BY LedgerParameters
<1>3. F(s, c) = F(t, d) /\ Ti(c) = Ti(d)
  <2>1. Joined(IdOf(s, c), F(s, c), Ti(c)) /\ Joined(IdOf(s, c), F(t, d), Ti(d))
    BY <1>1, <1>2 DEF Joined
  <2>2. /\ F(s, c) \in Seq(Byte) /\ F(t, d) \in Seq(Byte)
        /\ Ti(c) \in Seq(Byte) /\ Ti(d) \in Seq(Byte) /\ Len(Ti(c)) = Len(Ti(d))
    BY <1>1, <1>2
  <2> QED  BY <2>1, <2>2, BacksCancel, Zenon
<1>4. FlattenSeq(Texts(c)) = FlattenSeq(Texts(d))
  <2>1. All(c) \in Seq(Char) /\ All(d) \in Seq(Char)
    BY <1>1, <1>2
  <2>2. TextBytes(s, All(c)) = TextBytes(t, All(d))
    BY <1>3 DEF F
  <2>3. All(c) = All(d)
    BY <2>1, <2>2, TextDecided
  <2> QED  BY <1>1, <1>2, <2>3
<1>5. Congruent(c.timestamp, d.timestamp, WordBytes)
  <2>1. Ti(c) = BigEndian(d.timestamp, WordBytes)
    BY <1>3 DEF Ti
  <2> QED  BY <1>1, <1>2, <2>1
<1>6. TextBytes(s, FlattenSeq(Texts(c))) = TextBytes(t, FlattenSeq(Texts(d)))
  BY <1>1, <1>2, <1>3 DEF F
<1> QED  BY <1>4, <1>5, <1>6 DEF SameClaim

\* Whatever is on the ledger, an identifier stands for what was recorded under it: the
\* claims that have it, in whatever SDKs, say the same.
LEMMA Identified ==
  ASSUME TypeOK
  PROVE  IdsIdentify
<1> SUFFICES ASSUME NEW i \in DOMAIN entries, Standard(entries[i].claim),
                    NEW sdk \in SDK, NEW claim \in Claim, Ids[sdk][claim] = entries[i].id,
                    claim.kind = entries[i].claim.kind, Standard(claim)
             PROVE  SameClaim(claim, entries[i].claim)
  BY DEF IdsIdentify
<1> DEFINE d == entries[i].claim
           t == entries[i].sdk
<1>1. entries[i] \in EntrySet /\ entries[i].id # Refused
  BY DEF TypeOK, EntrySet
<1>2. t \in SDK /\ d \in Claim /\ entries[i].id = IdOf(t, d)
  BY <1>1, EntryFacts
<1>3. IdOf(sdk, claim) # Refused /\ IdOf(sdk, claim) = IdOf(t, d)
  BY <1>1, <1>2 DEF Ids
<1>4. Standard(d) /\ claim.kind = d.kind
  OBVIOUS
<1> HIDE DEF d, t
<1>5. ASSUME claim.kind = "transfer"
      PROVE  SameClaim(claim, d)
  BY <1>2, <1>3, <1>4, <1>5, TransferIdentifies
<1>6. ASSUME claim.kind = "issuance"
      PROVE  SameClaim(claim, d)
  BY <1>2, <1>3, <1>4, <1>6, AssetIdIdentifies
<1>7. ASSUME claim.kind = "certificate"
      PROVE  SameClaim(claim, d)
  BY <1>2, <1>3, <1>4, <1>7, CidIdentifies
<1>8. ASSUME claim.kind = "override"
      PROVE  SameClaim(claim, d)
  BY <1>2, <1>3, <1>4, <1>8, OverrideIdentifies
<1>9. claim.kind \in Kind
  BY LedgerParameters
<1>10. SameClaim(claim, d)
  BY <1>5, <1>6, <1>7, <1>8, <1>9 DEF Kind
<1> QED  BY <1>10 DEF d

\* An identifier on the ledger stands for what was recorded under it, for every claim and
\* every SDK: no field can take over bytes of its neighbour, texts but for where one ends.
THEOREM IdsIdentified == Spec => []IdsIdentify
BY Identified, TypeCorrect, PTL

-----------------------------------------------------------------------------
(* Where the SDKs part *)

\* An astral character takes six bytes in TypeScript and four elsewhere.
LEMMA AstralDiffers ==
  ASSUME NEW t \in SDK, t # "typescript", NEW c \in Char, Astral(c)
  PROVE  CharBytes("typescript", c) # CharBytes(t, c)
<1> DEFINE u == CharBytes("typescript", c)
           v == CharBytes(t, c)
<1>1. c \in Nat /\ c >= 65536 /\ c < 1114112
  BY DEF Astral, Char, IsScalar
<1>2. v = Utf8(c)
  BY DEF CharBytes
<1>3. Len(v) = 4
  BY <1>1, <1>2 DEF Utf8
<1>4. Len(u) = 6
  <2> DEFINE h == 55296 + (c - 65536) \div 1024
             l == 56320 + ((c - 65536) % 1024)
  <2>1. u = Utf8(h) \o Utf8(l)
    BY DEF CharBytes, SurrogateBytes
  <2>2. h \in 55296 .. 56319 /\ l \in 56320 .. 57343
    BY <1>1
  <2> HIDE DEF h, l, u
  <2>3. /\ Utf8(h) = <<237, 128 + ((h \div 64) % 64), 128 + (h % 64)>>
        /\ Utf8(l) = <<237, 128 + ((l \div 64) % 64), 128 + (l % 64)>>
    BY <2>2 DEF Utf8
  <2> DEFINE p == 128 + ((h \div 64) % 64)  q == 128 + (h % 64)
             r == 128 + ((l \div 64) % 64)  s == 128 + (l % 64)
             a == <<237, p, q>>
             b == <<237, r, s>>
  <2>4. p \in Int /\ q \in Int /\ r \in Int /\ s \in Int
    BY <2>2
  <2>5. u = a \o b
    BY <2>1, <2>3
  <2> HIDE DEF p, q, r, s
  <2>6. a \in Seq(Int) /\ Len(a) = 3 /\ b \in Seq(Int) /\ Len(b) = 3
    BY <2>4
  <2> HIDE DEF a, b
  <2>7. Len(a \o b) = Len(a) + Len(b)
    BY <2>6, ConcatProperties
  <2> QED  BY <2>5, <2>6, <2>7
<1> HIDE DEF u, v
<1>5. u # v
  BY <1>3, <1>4
<1> QED  BY <1>5 DEF u, v

\* A text that TypeScript and another SDK encode alike has no astral character: the last
\* characters end alike, so they and what precedes them are encoded alike.
LEMMA AlikeIsBasic ==
  ASSUME NEW t \in SDK, t # "typescript", NEW x \in Seq(Char),
         TextBytes("typescript", x) = TextBytes(t, x)
  PROVE  \A k \in DOMAIN x : ~Astral(x[k])
<1> DEFINE Good == {n \in Nat : \A a \in Seq(Char) :
                      Len(a) = n /\ TextBytes("typescript", a) = TextBytes(t, a) =>
                        \A k \in DOMAIN a : ~Astral(a[k])}
<1>1. 0 \in Good
  OBVIOUS
<1>2. ASSUME NEW n \in Nat, n \in Good
      PROVE  n + 1 \in Good
  <2> SUFFICES ASSUME NEW a \in Seq(Char), Len(a) = n + 1,
                      TextBytes("typescript", a) = TextBytes(t, a)
               PROVE  \A k \in DOMAIN a : ~Astral(a[k])
    OBVIOUS
  <2>1. PICK p \in Seq(Char), c \in Char : a = Append(p, c) /\ Len(p) = n
    <3>1. Len(a) # 0 /\ Len(a) - 1 = n
      OBVIOUS
    <3> QED  BY <3>1, LastSplit
  <2>2. "typescript" \in SDK
    BY DEF SDK
  <2> DEFINE u == TextBytes("typescript", p)
             v == TextBytes(t, p)
             y == CharBytes("typescript", c)
             z == CharBytes(t, c)
  <2>3. /\ u \in Seq(Byte) /\ v \in Seq(Byte)
        /\ TextBytes("typescript", a) = u \o y /\ TextBytes(t, a) = v \o z
    BY <2>1, <2>2, TextBytesAppend
  <2>4. y \in Seq(Byte) /\ z \in Seq(Byte)
    BY <2>2, CharShapes
  <2>5. u = v
    <3>1. Joined(TextBytes(t, a), u, y) /\ Joined(TextBytes(t, a), v, z)
      BY <2>3 DEF Joined
    <3> HIDE DEF u, v
    <3>2. u = v
      BY <2>2, <2>3, <3>1, LastCharacter, Zenon
    <3> QED  BY <3>2
  <2>6. y = z
    <3>1. u \o y = u \o z /\ u \in Seq(Byte)
      BY <2>3, <2>5
    <3> HIDE DEF u, v, y, z
    <3> QED  BY <2>4, <3>1, FrontsCancel
  <2>7. ~Astral(c)
    BY <2>6, AstralDiffers
  <2>8. \A k \in DOMAIN p : ~Astral(p[k])
    BY <1>2, <2>1, <2>5
  <2>9. ASSUME NEW k \in DOMAIN a
        PROVE  ~Astral(a[k])
    <3>1. DOMAIN a = 1 .. n + 1 /\ DOMAIN p = 1 .. n /\ a[n + 1] = c
          /\ \A j \in 1 .. n : a[j] = p[j]
      BY <2>1
    <3>2. k = n + 1 \/ k \in 1 .. n
      BY <3>1
    <3> QED  BY <2>7, <2>8, <3>1, <3>2
  <2> QED  BY <2>9
<1>3. Len(x) \in Good
  <2> HIDE DEF Good
  <2> QED  BY <1>1, <1>2, NatInductionInSet
<1> QED  BY <1>3

\* What is laid end to end has the elements of its parts.
LEMMA PartsKept ==
  ASSUME NEW a \in Seq(Char), NEW b \in Seq(Char)
  PROVE  /\ a \o b \in Seq(Char)
         /\ \A i \in DOMAIN a : i \in DOMAIN (a \o b) /\ (a \o b)[i] = a[i]
         /\ \A i \in DOMAIN b :
              Len(a) + i \in DOMAIN (a \o b) /\ (a \o b)[Len(a) + i] = b[i]
OBVIOUS

\* The texts of a claim laid end to end are one text.
LEMMA TextsTogether ==
  ASSUME NEW claim \in Claim, claim.kind \in {"transfer", "override"}
  PROVE  FlattenSeq(Texts(claim)) \in Seq(Char)
<1>1. CASE claim.kind = "transfer"
  <2> DEFINE a == claim.sender
             b == claim.receiver
  <2>1. Texts(claim) = <<a, b>>
    BY <1>1 DEF Texts
  <2>2. a \in Seq(Char) /\ b \in Seq(Char)
    <3>1. 1 \in DOMAIN Texts(claim) /\ 2 \in DOMAIN Texts(claim)
      BY <2>1
    <3>2. Texts(claim)[1] = a /\ Texts(claim)[2] = b
      BY <2>1
    <3> QED  BY <3>1, <3>2, TextsTyped
  <2> HIDE DEF a, b
  <2>3. FlattenSeq(<<a, b>>) = a \o b
    BY <2>2, FlattenTwo
  <2>4. a \o b \in Seq(Char)
    BY <2>2
  <2> QED  BY <2>1, <2>3, <2>4, Zenon
<1>2. CASE claim.kind = "override"
  <2> DEFINE a == claim.override_id
             b == claim.authority
             c == claim.action
  <2>1. Texts(claim) = <<a, b, c>>
    BY <1>2 DEF Texts
  <2>2. a \in Seq(Char) /\ b \in Seq(Char) /\ c \in Seq(Char)
    <3>1. 1 \in DOMAIN Texts(claim) /\ 2 \in DOMAIN Texts(claim) /\ 3 \in DOMAIN Texts(claim)
      BY <2>1
    <3>2. Texts(claim)[1] = a /\ Texts(claim)[2] = b /\ Texts(claim)[3] = c
      BY <2>1
    <3> QED  BY <3>1, <3>2, TextsTyped
  <2> HIDE DEF a, b, c
  <2>3. FlattenSeq(<<a, b, c>>) = (a \o b) \o c
    BY <2>2, FlattenThree
  <2>4. a \o b \in Seq(Char)
    BY <2>2
  <2> DEFINE x == a \o b
  <2> HIDE DEF x
  <2>5. x \o c \in Seq(Char)
    BY <2>2, <2>4 DEF x
  <2>6. FlattenSeq(Texts(claim)) = x \o c
    BY <2>1, <2>3, Zenon DEF x
  <2> QED  BY <2>5, <2>6, Zenon
<1> QED  BY <1>1, <1>2

\* Where a claim's texts laid end to end have no astral character, none of them has.
LEMMA BasicWhenRunTogether ==
  ASSUME NEW claim \in Claim, claim.kind \in {"transfer", "override"},
         \A k \in DOMAIN FlattenSeq(Texts(claim)) : ~Astral(FlattenSeq(Texts(claim))[k])
  PROVE  BasicTexts(claim)
<1> DEFINE Basic(x) == \A k \in DOMAIN x : ~Astral(x[k])
<1>1. ASSUME NEW a \in Seq(Char), NEW b \in Seq(Char), Basic(a \o b)
      PROVE  Basic(a) /\ Basic(b)
  <2>1. ASSUME NEW k \in DOMAIN a
        PROVE  ~Astral(a[k])
    <3>1. k \in DOMAIN (a \o b) /\ (a \o b)[k] = a[k]
      BY PartsKept
    <3> QED  BY <1>1, <3>1
  <2>2. ASSUME NEW k \in DOMAIN b
        PROVE  ~Astral(b[k])
    <3>1. Len(a) + k \in DOMAIN (a \o b) /\ (a \o b)[Len(a) + k] = b[k]
      BY PartsKept
    <3> QED  BY <1>1, <3>1
  <2> QED  BY <2>1, <2>2
<1>2. Basic(FlattenSeq(Texts(claim)))
  OBVIOUS
<1>3. \A i \in DOMAIN Texts(claim) : Texts(claim)[i] \in Seq(Char)
  BY TextsTyped
<1>4. ASSUME \A i \in DOMAIN Texts(claim) : Basic(Texts(claim)[i])
      PROVE  BasicTexts(claim)
  BY <1>4 DEF BasicTexts
<1> HIDE DEF Basic
<1>5. CASE claim.kind = "transfer"
  <2> DEFINE a == claim.sender
             b == claim.receiver
  <2>1. Texts(claim) = <<a, b>>
    BY <1>5 DEF Texts
  <2>2. a \in Seq(Char) /\ b \in Seq(Char)
    <3>1. 1 \in DOMAIN Texts(claim) /\ 2 \in DOMAIN Texts(claim)
      BY <2>1
    <3>2. Texts(claim)[1] = a /\ Texts(claim)[2] = b
      BY <2>1
    <3> QED  BY <1>3, <3>1, <3>2
  <2> HIDE DEF a, b
  <2>3. FlattenSeq(<<a, b>>) = a \o b
    BY <2>2, FlattenTwo
  <2>4. Basic(a) /\ Basic(b)
    BY <1>1, <1>2, <2>1, <2>2, <2>3
  <2>5. \A i \in DOMAIN <<a, b>> : Basic(<<a, b>>[i])
    BY <2>4
  <2> QED  BY <1>4, <2>1, <2>5
<1>6. CASE claim.kind = "override"
  <2> DEFINE a == claim.override_id
             b == claim.authority
             c == claim.action
  <2>1. Texts(claim) = <<a, b, c>>
    BY <1>6 DEF Texts
  <2>2. a \in Seq(Char) /\ b \in Seq(Char) /\ c \in Seq(Char)
    <3>1. 1 \in DOMAIN Texts(claim) /\ 2 \in DOMAIN Texts(claim) /\ 3 \in DOMAIN Texts(claim)
      BY <2>1
    <3>2. Texts(claim)[1] = a /\ Texts(claim)[2] = b /\ Texts(claim)[3] = c
      BY <2>1
    <3> QED  BY <1>3, <3>1, <3>2
  <2> HIDE DEF a, b, c
  <2>3. FlattenSeq(<<a, b, c>>) = (a \o b) \o c
    BY <2>2, FlattenThree
  <2>4. a \o b \in Seq(Char)
    BY <2>2, PartsKept
  <2>5. Basic(a \o b) /\ Basic(c)
    BY <1>1, <1>2, <2>1, <2>2, <2>3, <2>4
  <2>6. Basic(a) /\ Basic(b)
    BY <1>1, <2>2, <2>5
  <2>7. \A i \in DOMAIN <<a, b, c>> : Basic(<<a, b, c>>[i])
    BY <2>5, <2>6
  <2> QED  BY <1>4, <2>1, <2>7
<1> QED  BY <1>5, <1>6

\* TypeScript has an identifier of its own for every claim with an astral character.
LEMMA TypescriptParts ==
  ASSUME NEW claim \in Claim, Standard(claim), NEW t \in SDK, t # "typescript",
         IdOf("typescript", claim) # Refused, IdOf("typescript", claim) = IdOf(t, claim)
  PROVE  BasicTexts(claim)
<1>1. "typescript" \in SDK
  BY DEF SDK
<1>2. CASE claim.kind \in {"transfer", "override"}
  <2> DEFINE x == FlattenSeq(Texts(claim))
  <2>1. TextBytes("typescript", x) = TextBytes(t, x)
    BY <1>1, <1>2, TransferIdentifies, OverrideIdentifies
  <2>2. x \in Seq(Char)
    BY <1>2, TextsTogether
  <2> HIDE DEF x
  <2>3. \A k \in DOMAIN x : ~Astral(x[k])
    BY <2>1, <2>2, AlikeIsBasic
  <2> QED  BY <1>2, <2>3, BasicWhenRunTogether DEF x
<1>3. CASE claim.kind \in {"issuance", "certificate"}
  <2>1. Texts(claim) = <<>>
    BY <1>3 DEF Texts
  <2> QED  BY <2>1 DEF BasicTexts
<1> QED  BY <1>2, <1>3, LedgerParameters DEF Kind

\* What one SDK has recorded of standard fields another recomputes exactly where the two
\* agree on its texts, and the proof of what Python agrees on quotes an id of the history.
THEOREM RecordedVerified == Spec => []RecordedVerifies
<1>1. TypeOK => RecordedVerifies
  <2> SUFFICES ASSUME TypeOK, NEW i \in DOMAIN entries,
                      Standard(entries[i].claim), InRange(entries[i].claim)
               PROVE  /\ \A sdk \in SDK : Ids[sdk][entries[i].claim] = entries[i].id
                                         <=> Agree(sdk, entries[i].sdk, entries[i].claim)
                      /\ i \in DOMAIN proofs /\ Agree("python", entries[i].sdk, entries[i].claim) =>
                           proofs[i].tx_id \in ledgerHistory
    BY DEF RecordedVerifies
  <2> DEFINE claim == entries[i].claim
             by == entries[i].sdk
  <2>1. entries[i] \in EntrySet /\ entries[i].id # Refused
    BY DEF TypeOK, EntrySet
  <2>2. by \in SDK /\ claim \in Claim /\ entries[i].id = IdOf(by, claim)
    BY <2>1, EntryFacts
  <2>3. ASSUME NEW sdk \in SDK
        PROVE  IdOf(sdk, claim) = entries[i].id <=> Agree(sdk, by, claim)
    <3>1. Agree(sdk, by, claim) => IdOf(sdk, claim) = entries[i].id
      BY <2>2, AgreeOnId
    <3>2. ASSUME IdOf(sdk, claim) = entries[i].id, (sdk = "typescript") # (by = "typescript")
          PROVE  BasicTexts(claim)
      <4>1. CASE sdk = "typescript" /\ by # "typescript"
        BY <2>1, <2>2, <3>2, <4>1, TypescriptParts
      <4>2. CASE sdk # "typescript" /\ by = "typescript"
        BY <2>1, <2>2, <3>2, <4>2, TypescriptParts
      <4> QED  BY <3>2, <4>1, <4>2
    <3> QED  BY <3>1, <3>2 DEF Agree
  <2>4. \A sdk \in SDK : Ids[sdk][claim] = IdOf(sdk, claim)
    BY <2>2 DEF Ids
  <2>5. ASSUME i \in DOMAIN proofs, Agree("python", by, claim)
        PROVE  proofs[i].tx_id \in ledgerHistory
    <3>1. i \in Settled /\ claim.kind = "transfer"
      BY <2>5 DEF TypeOK, Settled
    <3>2. proofs[i].tx_id = ConstructTxId("python", claim)
      BY <2>5 DEF TypeOK, BuildSettlementProof
    <3>3. proofs[i].tx_id = IdOf("python", claim)
      BY <3>1, <3>2 DEF IdOf
    <3>4. proofs[i].tx_id = entries[i].id
      BY <2>3, <2>5, <3>3 DEF SDK
    <3> QED  BY <3>1, <3>4 DEF TypeOK
  <2> QED  BY <2>3, <2>4, <2>5
<1> QED  BY <1>1, TypeCorrect, PTL
=============================================================================
