--------------------------- MODULE MCSharedLedger ---------------------------
(* Words of one byte and amounts of two, so that there are amounts and times beyond what *)
(* u64, i64 and 32 bytes hold.  Names run together, take two bytes in UTF-8, or are        *)
(* astral; nonces differ in case only, are malformed, or of odd length.  Names are varied   *)
(* together, the other fields of a transfer one at a time.                                 *)
EXTENDS SharedLedger

x == <<120>>
xx == <<120, 120>>
accented == <<233>>
emoji == <<128512>>

Plain ==
  [kind |-> "transfer", asset_id |-> "A", sender |-> x, receiver |-> xx, amount |-> 1,
   nonce |-> <<48, 97>>, timestamp |-> 1]

Transfers ==
  { [Plain EXCEPT !.sender = s, !.receiver = r] : s \in {x, xx, emoji}, r \in {x, xx, accented} }
    \cup { [Plain EXCEPT !.asset_id = "B"] }
    \cup { [Plain EXCEPT !.amount = n] : n \in {256, 65537} }
    \cup { [Plain EXCEPT !.timestamp = t] : t \in {200, -56} }
    \cup { [Plain EXCEPT !.nonce = hex] :
              hex \in {<<48, 65>>, <<48, 98>>, <<48, 103>>, <<48, 97, 97>>} }

Issuance(pubkey, nonce, timestamp) ==
  [kind |-> "issuance", pubkey |-> pubkey, nonce |-> nonce, timestamp |-> timestamp]
Issuances ==
  { Issuance(<<48, 49>>, <<48, 97>>, 1), Issuance(<<48, 49, 48, 49>>, <<48, 97>>, 1),
    Issuance(<<48, 49>>, <<48, 65>>, 1), Issuance(<<48, 49>>, <<48, 98>>, 1) }

Certificate(asset_id, state, compliance, governance, timestamp) ==
  [kind |-> "certificate", asset_id |-> asset_id, state_hash |-> state,
   compliance_hash |-> compliance, governance_hash |-> governance, timestamp |-> timestamp]
Certificates ==
  { Certificate(<<48, 97>>, <<48, 98>>, c, g, t) :
      c \in {<<48, 97>>, <<48, 98>>}, g \in {<<48, 97>>, <<48, 98>>, <<48, 66>>}, t \in {1} }

Override(id, authority, timestamp) ==
  [kind |-> "override", override_id |-> id, authority |-> authority, action |-> x,
   timestamp |-> timestamp]
Overrides ==
  { Override(x, xx, 1), Override(xx, x, 1), Override(x, x, 1), Override(x, emoji, 1) }

Claims == Transfers \cup Issuances \cup Certificates \cup Overrides
=============================================================================
