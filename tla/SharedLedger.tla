---------------------------- MODULE SharedLedger ----------------------------
(***************************************************************************)
(* Hosts that run different SDKs over one ledger.  A transfer is handed to *)
(* any of them, any number of times; the host asks is_replay, settles what *)
(* is none, and adds the id to the history that all of them search.  A     *)
(* Python host proves what has settled, whoever settled it.  The other     *)
(* identifiers (of assets, certificates and overrides) are published by    *)
(* whoever computes them and recomputed by whoever reads them.             *)
(***************************************************************************)
EXTENDS TransactionIds

CONSTANTS
  Claim,       \* what identifiers are made for: records with their kind among the fields
  NonceDigits, \* the hex digits of a nonce, 16
  HashDigits,  \* the hex digits of a hash, 64
  MaxEntries   \* bound on the entries of the ledger

Kind == {"transfer", "issuance", "certificate", "override"}

HexFields(claim) ==
  CASE claim.kind = "transfer" -> {claim.nonce}
    [] claim.kind = "issuance" -> {claim.pubkey, claim.nonce}
    [] claim.kind = "certificate" ->
         {claim.asset_id, claim.state_hash, claim.compliance_hash, claim.governance_hash}
    [] claim.kind = "override" -> {}

Texts(claim) ==
  CASE claim.kind = "transfer" -> <<claim.sender, claim.receiver>>
    [] claim.kind = "override" -> <<claim.override_id, claim.authority, claim.action>>
    [] OTHER -> <<>>

ASSUME LedgerParameters ==
  /\ MaxEntries \in Nat
  /\ \A claim \in Claim :
       /\ claim.kind \in Kind
       /\ \A hex \in HexFields(claim) : hex \in Seq(Nat)
       /\ \A i \in DOMAIN Texts(claim) :
            /\ Texts(claim)[i] \in Seq(Nat)
            /\ \A k \in DOMAIN Texts(claim)[i] : IsScalar(Texts(claim)[i][k])
       /\ claim.timestamp \in Int
       /\ claim.kind = "transfer" => claim.amount \in Nat

VARIABLES
  ledgerHistory,   \* the transaction ids is_replay searches
  entries,         \* History: [sdk, claim, id] in the order they were recorded
  proofs           \* the settlement proofs built, by the entry they are for

vars == <<ledgerHistory, entries, proofs>>

IdOf(sdk, claim) ==
  CASE claim.kind = "transfer"    -> ConstructTxId(sdk, claim)
    [] claim.kind = "issuance"    -> ConstructAssetId(sdk, claim)
    [] claim.kind = "certificate" -> ConstructCid(sdk, claim)
    [] claim.kind = "override"    -> ConstructOverrideHash(sdk, claim)

\* The identifiers of all claims in all SDKs.
Ids == [sdk \in SDK |-> [claim \in Claim |-> IdOf(sdk, claim)]]

Init ==
  /\ ledgerHistory = {}
  /\ entries = <<>>
  /\ proofs = <<>>

-----------------------------------------------------------------------------
\* Where the id cannot be built the call reports an error, and the host settles nothing.
IsReplay(sdk, event) == Ids[sdk][event] \in ledgerHistory

Entry(sdk, claim) == [sdk |-> sdk, claim |-> claim, id |-> Ids[sdk][claim]]

\* The id handed back but not added to the history (a mutant).
SettleUnrecorded(sdk, event) ==
  /\ Len(entries) < MaxEntries
  /\ event.kind = "transfer"
  /\ Ids[sdk][event] # Refused /\ ~IsReplay(sdk, event)
  /\ entries' = Append(entries, Entry(sdk, event))
  /\ UNCHANGED <<ledgerHistory, proofs>>

Settle(sdk, event) ==
  /\ Len(entries) < MaxEntries
  /\ event.kind = "transfer"
  /\ Ids[sdk][event] # Refused /\ ~IsReplay(sdk, event)
  /\ ledgerHistory' = ledgerHistory \cup {Ids[sdk][event]}
  /\ entries' = Append(entries, Entry(sdk, event))
  /\ UNCHANGED proofs

Publish(sdk, claim) ==
  /\ Len(entries) < MaxEntries
  /\ claim.kind # "transfer"
  /\ Ids[sdk][claim] # Refused
  /\ entries' = Append(entries, Entry(sdk, claim))
  /\ UNCHANGED <<ledgerHistory, proofs>>

\* The height of a block is the number of its entry here, and a state hash is
\* represented by the height it is taken at.
Prove(i) ==
  /\ entries[i].claim.kind = "transfer" /\ i \notin DOMAIN proofs
  /\ LET proof == BuildSettlementProof(entries[i].claim, i, i)
     IN  /\ proof.tx_id # Refused
         /\ proofs' = [k \in DOMAIN proofs \cup {i} |-> IF k = i THEN proof ELSE proofs[k]]
  /\ UNCHANGED <<ledgerHistory, entries>>

Next ==
  \/ \E sdk \in SDK, claim \in Claim : Settle(sdk, claim) \/ Publish(sdk, claim)
  \/ \E i \in DOMAIN entries : Prove(i)

Spec == Init /\ [][Next]_vars

-----------------------------------------------------------------------------
(* What claims are *)

SameHex(a, b) == Len(a) = Len(b) /\ \A i \in DOMAIN a : HexValue(a[i]) = HexValue(b[i])

Congruent(m, n, bytes) == (m - n) % Unsigned(bytes) = 0

\* Hex texts as hashes, keys and nonces come: digits, in pairs, and of the length a hash or
\* a nonce has.  Keys are of any length.
Standard(claim) ==
  /\ \A hex \in HexFields(claim) : WellFormedHex(hex)
  /\ claim.kind \in {"transfer", "issuance"} => Len(claim.nonce) = NonceDigits
  /\ claim.kind = "certificate" => \A hex \in HexFields(claim) : Len(hex) = HashDigits

\* Numbers that every SDK holds.
InRange(claim) ==
  /\ claim.timestamp >= 0 /\ Signed(claim.timestamp)
  /\ claim.kind = "transfer" => claim.amount < Unsigned(WordBytes)

\* Texts of characters of the basic plane, one UTF-16 unit each.
BasicTexts(claim) ==
  \A i \in DOMAIN Texts(claim) :
    \A k \in DOMAIN Texts(claim)[i] : ~Astral(Texts(claim)[i][k])

\* Where two SDKs have one identifier for a claim: TypeScript's encoder is its own.
Agree(s, t, claim) ==
  /\ Standard(claim) /\ InRange(claim)
  /\ BasicTexts(claim) \/ (s = "typescript") = (t = "typescript")

\* Two claims of a kind that say the same, as far as what is hashed can tell: texts laid
\* end to end, hex without its case, numbers up to the bytes they take.
SameClaim(c, d) ==
  /\ c.kind = d.kind
  /\ FlattenSeq(Texts(c)) = FlattenSeq(Texts(d))
  /\ Congruent(c.timestamp, d.timestamp, WordBytes)
  /\ c.kind \in {"transfer", "issuance"} => SameHex(c.nonce, d.nonce)
  /\ c.kind = "transfer" => Congruent(c.amount, d.amount, AmountBytes)
  /\ c.kind = "issuance" => SameHex(c.pubkey, d.pubkey)
  /\ c.kind = "certificate" =>
       /\ SameHex(c.asset_id, d.asset_id)
       /\ SameHex(c.state_hash, d.state_hash)
       /\ SameHex(c.compliance_hash, d.compliance_hash)
       /\ SameHex(c.governance_hash, d.governance_hash)

-----------------------------------------------------------------------------
(* Properties *)

Settled == {i \in DOMAIN entries : entries[i].claim.kind = "transfer"}

\* Types, and what ties the three parts of the ledger: the history holds the ids of what
\* settled, and a proof is that of its entry's event.
TypeOK ==
  /\ entries \in Seq({Entry(sdk, claim) : sdk \in SDK, claim \in Claim})
  /\ \A i \in DOMAIN entries : entries[i].id # Refused
  /\ ledgerHistory = {entries[i].id : i \in Settled}
  /\ DOMAIN proofs \subseteq Settled
  /\ \A i \in DOMAIN proofs : proofs[i] = BuildSettlementProof(entries[i].claim, i, i)

\* Of standard fields, a transfer settles once, whichever SDKs it is handed to and however
\* often, with the replay check of construct_tx_id as five ports compute it; except that a
\* name beyond the basic plane makes TypeScript a ledger of its own.
SettlesOnceAnywhere ==
  \A i, j \in Settled :
    /\ entries[i].claim = entries[j].claim
    /\ Agree(entries[i].sdk, entries[j].sdk, entries[i].claim)
    => i = j

\* What one SDK has recorded of standard fields, another recomputes exactly if they agree on
\* its texts; and the proof of a transfer quotes the id that settled if Python does.
RecordedVerifies ==
  \A i \in DOMAIN entries :
    LET e == entries[i]
    IN  Standard(e.claim) /\ InRange(e.claim) =>
          /\ \A sdk \in SDK : Ids[sdk][e.claim] = e.id <=> Agree(sdk, e.sdk, e.claim)
          /\ i \in DOMAIN proofs /\ Agree("python", e.sdk, e.claim) =>
               proofs[i].tx_id \in ledgerHistory

\* An identifier on the ledger stands for what was recorded under it: whoever computes it,
\* in whatever SDK, has a claim that says the same.  A transfer is thus answered as a
\* replay only of one whose two names run together alike and that agrees in the rest; the
\* asset it is of is not part of it.
IdsIdentify ==
  \A i \in DOMAIN entries : Standard(entries[i].claim) =>
    \A sdk \in SDK, claim \in Claim :
      /\ Ids[sdk][claim] = entries[i].id
      /\ claim.kind = entries[i].claim.kind /\ Standard(claim)
      => SameClaim(claim, entries[i].claim)

-----------------------------------------------------------------------------
(* What the documents say, and the code does not do *)

\* "Input_1 = Input_2 implies Output_1 = Output_2", whatever the names are written in.
IdsArePortable ==
  \A i \in DOMAIN entries : Standard(entries[i].claim) /\ InRange(entries[i].claim) =>
    \A sdk \in SDK : Ids[sdk][entries[i].claim] = entries[i].id
=============================================================================
