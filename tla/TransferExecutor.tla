-------------------------- MODULE TransferExecutor --------------------------
(***************************************************************************)
(* execute_transfer of the Python SDK, inside a host.  The function keeps  *)
(* no state: the host stores the asset, the identity records and the       *)
(* ledger history, hands them over with an event, and adds the returned    *)
(* transaction id to its history.  Events are handed over in any order, at *)
(* any time after they were made, and any number of times, as queues and   *)
(* retries do.                                                             *)
(***************************************************************************)
EXTENDS ComplianceRules, FeeRules, IdentityRules, FiniteSets

CONSTANTS
  Party,       \* party names, as the strings (sequences of characters) that are hashed
  Value,       \* the amounts events carry
  Nonce,
  Asset,       \* assets, without the state, which changes: [jurisdiction, level,
               \*   required, rules, fee]
  Context,     \* evaluation contexts the properties compare with
  Records,     \* the identity files parties may start with: party -> records
  MaxTime,     \* bound on the clock
  MaxEvents    \* bound on the events made

ASSUME ExecutorParameters ==
  /\ MaxTime \in Nat /\ MaxEvents \in Nat
  /\ Value \subseteq Nat
  /\ Records \subseteq [Party -> Seq(IdentityRecord)]

VARIABLES
  asset,           \* the asset's fixed fields
  state,           \* asset.state
  records,         \* per party, the list handed over as sender_ or receiver_records
  clock,
  events,          \* the transfer events made so far; none is ever lost or used up
  ledgerHistory,   \* the transaction ids the host has recorded
  log              \* History: the events that settled, in order

vars == <<asset, state, records, clock, events, ledgerHistory, log>>

Lifecycle == INSTANCE AssetLifecycle

Time == 0 .. MaxTime
TransferEvent ==
  [sender : Party, receiver : Party, amount : Value, nonce : Nonce, timestamp : Time]

Init ==
  /\ asset \in Asset
  /\ Lifecycle!Init
  /\ records \in Records
  /\ clock = 0
  /\ events = {}
  /\ ledgerHistory = {}
  /\ log = <<>>

-----------------------------------------------------------------------------
(* Identity *)

\* The jurisdictions of every record counted, lapsed ones too (a mutant).
JurisdictionsOnFile(party, now) ==
  {records[party][i].jurisdiction : i \in DOMAIN records[party]}

\* The jurisdictions a party holds a record for that is valid now.
ValidJurisdictions(party, now) ==
  { records[party][i].jurisdiction :
      i \in {j \in DOMAIN records[party] : IdentityStatus(records[party][j], now) = "VALID"} }

\* Level 0 asks nothing, level 1 a valid first record of both parties, level 3 also
\* that each holds every required jurisdiction.
EnforceIdentityLevel(event) ==
  asset.level = 0 \/ \A p \in {event.sender, event.receiver} :
    /\ records[p] # <<>>
    /\ ValidIdentity(records[p][1], event.timestamp)
    /\ asset.level = 3 => asset.required \subseteq ValidJurisdictions(p, event.timestamp)

-----------------------------------------------------------------------------
(* Transaction ids and replay *)

\* The two names are hashed one after the other, with nothing between them.
TxId(event) == <<event.sender \o event.receiver, event.amount, event.nonce, event.timestamp>>

\* The history never searched (a mutant).
NeverReplay(event) == FALSE

IsReplay(event) == TxId(event) \in ledgerHistory

-----------------------------------------------------------------------------
(* The executor *)

\* The context the executor builds: of the parties and the attestations it knows nothing.
DefaultContext(event, assetState) ==
  [state |-> assetState, jurisdiction |-> asset.jurisdiction,
   amount |-> event.amount, timestamp |-> event.timestamp,
   sender   |-> [status |-> "UNKNOWN", jurisdiction |-> Missing, acquired |-> 0],
   receiver |-> [status |-> "UNKNOWN", jurisdiction |-> Missing, class |-> Missing],
   attestations |-> [t \in {} |-> {}]]

\* The order of the first two tests swapped (a mutant).
OutcomeStateFirst(event) ==
  IF state # "ACTIVE" THEN "STATE_CHECK"
  ELSE IF IsReplay(event) THEN "REPLAY_CHECK"
  ELSE IF ~EnforceIdentityLevel(event) THEN "IDENTITY"
  ELSE IF ~Allowed(asset.rules, DefaultContext(event, state)) THEN "COMPLIANCE"
  ELSE IF ~ValidFeeModule(asset.fee) THEN "FEE_ROUTING"
  ELSE IF ~Encodable(TotalFee(asset.fee, event.amount)) THEN "OVERFLOW"
  ELSE "SETTLED"

\* execute_transfer: the step that fails, or "SETTLED".  A total fee that does not fit
\* the record raises an OverflowError, which is not the ValueError the code catches.
Outcome(event) ==
  IF IsReplay(event) THEN "REPLAY_CHECK"
  ELSE IF state # "ACTIVE" THEN "STATE_CHECK"
  ELSE IF ~EnforceIdentityLevel(event) THEN "IDENTITY"
  ELSE IF ~Allowed(asset.rules, DefaultContext(event, state)) THEN "COMPLIANCE"
  ELSE IF ~ValidFeeModule(asset.fee) THEN "FEE_ROUTING"
  ELSE IF ~Encodable(TotalFee(asset.fee, event.amount)) THEN "OVERFLOW"
  ELSE "SETTLED"

\* The id handed back but not recorded (a mutant).
ExecuteUnrecorded(event) ==
  /\ Outcome(event) = "SETTLED"
  /\ log' = Append(log, event)
  /\ UNCHANGED <<asset, state, records, clock, events, ledgerHistory>>

\* A call that settles, and the host's entry in its history.  A call that does not
\* settle changes nothing and may be made again.
ExecuteTransfer(event) ==
  /\ Outcome(event) = "SETTLED"
  /\ ledgerHistory' = ledgerHistory \cup {TxId(event)}
  /\ log' = Append(log, event)
  /\ UNCHANGED <<asset, state, records, clock, events>>

-----------------------------------------------------------------------------
(* The host *)

Tick ==
  /\ clock < MaxTime
  /\ clock' = clock + 1
  /\ UNCHANGED <<asset, state, records, events, ledgerHistory, log>>

MakeEvent(sender, receiver, amount, nonce) ==
  /\ Cardinality(events) < MaxEvents
  /\ events' = events \cup
       {[sender |-> sender, receiver |-> receiver, amount |-> amount, nonce |-> nonce,
         timestamp |-> clock]}
  /\ UNCHANGED <<asset, state, records, clock, ledgerHistory, log>>

Revoke(party, i) ==
  /\ ~records[party][i].revoked
  /\ records' = [records EXCEPT ![party][i].revoked = TRUE]
  /\ UNCHANGED <<asset, state, clock, events, ledgerHistory, log>>

\* A fresh record in place of one that no longer counts.
Reissue(party, i, expiry) ==
  /\ IdentityStatus(records[party][i], clock) # "VALID" /\ clock < expiry
  /\ records' = [records EXCEPT ![party][i].revoked = FALSE, ![party][i].expiry = expiry]
  /\ UNCHANGED <<asset, state, clock, events, ledgerHistory, log>>

ChangeState ==
  /\ Lifecycle!Next
  /\ UNCHANGED <<asset, records, clock, events, ledgerHistory, log>>

Next ==
  \/ Tick
  \/ \E sender, receiver \in Party, amount \in Value, nonce \in Nonce :
       MakeEvent(sender, receiver, amount, nonce)
  \/ \E event \in events : ExecuteTransfer(event)
  \/ \E party \in Party : \E i \in DOMAIN records[party] :
       \/ Revoke(party, i)
       \/ \E expiry \in 1 .. MaxTime + 1 : Reissue(party, i, expiry)
  \/ ChangeState

Spec == Init /\ [][Next]_vars

-----------------------------------------------------------------------------
(* Properties *)

\* Types, and the host's side of the contract: its history holds the ids handed back.
TypeOK ==
  /\ asset \in Asset
  /\ state \in Lifecycle!AssetState
  /\ records \in [Party -> Seq(IdentityRecord)]
  /\ clock \in Time
  /\ events \subseteq TransferEvent
  /\ log \in Seq(events)
  /\ ledgerHistory = {TxId(log[i]) : i \in DOMAIN log}

\* However often and in whatever order events are handed over, none settles twice.
SettlesOnce == IsInjective(log)

\* A settled event handed over again is answered as a replay, whatever has become of the
\* asset, the identities and the clock since.
ReplayAnswersReplay == \A i \in DOMAIN log : Outcome(log[i]) = "REPLAY_CHECK"

\* The executor evaluates the rules knowing nothing of the parties.  That can only
\* refuse too much: what it settles, an evaluation that knows more allows too.
SettledIsCompliant ==
  \A i \in DOMAIN log : \A more \in Context :
    Withholds(DefaultContext(log[i], "ACTIVE"), more) => Allowed(asset.rules, more)

LastSettled == log'[Len(log')]

\* A record that may vouch for a party of an event which settles now: by the clock it is
\* valid, or it has lapsed, but only since the event was made.
StandsOrLapsedSince(record, event) ==
  /\ ~record.revoked
  /\ \/ clock < record.expiry
     \/ event.timestamp < record.expiry /\ record.expiry <= clock

\* A settlement finds the asset ACTIVE and, where the level asks for identity, each party's
\* first record valid at that moment, and a valid record for every jurisdiction required,
\* save for records that lapsed while the event was on its way (ValidAtSettlement, below).
\* A revocation is never missed, however late the event.
StandingUnlessLapsedSince ==
  [][log' # log =>
       /\ state = "ACTIVE"
       /\ \A p \in {LastSettled.sender, LastSettled.receiver} :
            /\ asset.level >= 1 => StandsOrLapsedSince(records[p][1], LastSettled)
            /\ asset.level = 3 =>
                 \A j \in asset.required : \E i \in DOMAIN records[p] :
                   /\ records[p][i].jurisdiction = j
                   /\ StandsOrLapsedSince(records[p][i], LastSettled)]_vars

\* Redemption is final: once an asset is REDEEMED it never trades again, whatever the
\* host does next.
NothingAfterRedemption ==
  [][(state \in {"REDEEMED", "BURNED"}) =>
       log' = log /\ state' \in {"REDEEMED", "BURNED"}]_vars

\* The book of settlements: identities, rules, fees, the queue of events and the clock are
\* out of sight.
Book == INSTANCE SettlementBook WITH
  Id <- {TxId(event) : event \in TransferEvent},
  phase <- IF state = "ACTIVE" THEN "open"
           ELSE IF state \in {"REDEEMED", "BURNED"} THEN "over" ELSE "halted",
  book <- [i \in DOMAIN log |-> TxId(log[i])]

\* Calls repeated, delayed and reordered by the host implement a book in which no id is
\* entered twice, and none while trading is halted or after it is over.
ImplementsBook == Book!Spec

-----------------------------------------------------------------------------
(* What the documents say, and the code does not do *)

\* A transfer between parties with valid identities is not refused on compliance where
\* the rules ask for nothing but valid identities.
EligibleNotRefused ==
  \A event \in events :
    /\ asset.level >= 1
    /\ \A i \in DOMAIN asset.rules : asset.rules[i].type = "TRANSFER_ELIGIBILITY"
    => Outcome(event) # "COMPLIANCE"

\* "VALID if current time < EXP", and "If ID >= 1, settlement MUST NOT proceed unless
\* Status(IR) = VALID": what would settle now is between parties with a valid record now.
ValidAtSettlement ==
  \A event \in events :
    Outcome(event) = "SETTLED" /\ asset.level >= 1 =>
      \A p \in {event.sender, event.receiver} : \E i \in DOMAIN records[p] :
        IdentityStatus(records[p][i], clock) = "VALID"
=============================================================================
