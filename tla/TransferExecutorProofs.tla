----------------------- MODULE TransferExecutorProofs -----------------------
(***************************************************************************)
(* What settles through the executor, for every asset, every rule list and *)
(* every set of parties, however the host orders and repeats its calls.    *)
(***************************************************************************)
EXTENDS TransferExecutor, OperatorLemmas

\* What a settling call finds: no record of the event, an active asset, identities and
\* rules satisfied.
LEMMA SettlingMeans ==
  ASSUME NEW e, Outcome(e) = "SETTLED"
  PROVE  /\ TxId(e) \notin ledgerHistory
         /\ state = "ACTIVE"
         /\ EnforceIdentityLevel(e)
         /\ Allowed(asset.rules, DefaultContext(e, "ACTIVE"))
<1>1. /\ ~IsReplay(e) /\ state = "ACTIVE" /\ EnforceIdentityLevel(e)
      /\ Allowed(asset.rules, DefaultContext(e, state))
  BY DEF Outcome
<1>2. QED
  BY <1>1 DEF IsReplay

\* Every step either settles one event or leaves log and history alone; the asset's
\* fixed fields never change.
LEMMA StepKinds ==
  ASSUME [Next]_vars
  PROVE  /\ asset' = asset
         /\ \/ \E e \in events : ExecuteTransfer(e)
            \/ UNCHANGED <<log, ledgerHistory>>
BY DEF Next, Tick, MakeEvent, ExecuteTransfer, Revoke, Reissue, ChangeState, vars

\* Appending one element to a sequence.
LEMMA AppendFacts ==
  ASSUME NEW S, NEW s \in Seq(S), NEW e \in S
  PROVE  /\ Append(s, e) \in Seq(S)
         /\ DOMAIN s = 1 .. Len(s) /\ Len(s) \in Nat
         /\ Len(Append(s, e)) = Len(s) + 1
         /\ DOMAIN Append(s, e) = 1 .. Len(s) + 1
         /\ Append(s, e)[Len(s) + 1] = e
         /\ \A i \in 1 .. Len(s) : Append(s, e)[i] = s[i]
OBVIOUS

\* Type correctness; the host's history is exactly the ids of what settled.
THEOREM TypeCorrect == Spec => []TypeOK
<1>1. Init => TypeOK
  BY ExecutorParameters DEF Init, TypeOK, Time, Lifecycle!Init, Lifecycle!AssetState
<1>2. TypeOK /\ [Next]_vars => TypeOK'
  <2> SUFFICES ASSUME TypeOK, [Next]_vars PROVE TypeOK'
    OBVIOUS
  <2>1. ASSUME Tick PROVE TypeOK'
    <3>1. clock' \in Time
      BY <2>1, ExecutorParameters DEF Tick, TypeOK, Time
    <3>2. QED
      BY <2>1, <3>1 DEF Tick, TypeOK
  <2>2. ASSUME NEW s \in Party, NEW r \in Party, NEW amount \in Value, NEW nonce \in Nonce,
               MakeEvent(s, r, amount, nonce)
        PROVE  TypeOK'
    <3>1. events' \subseteq TransferEvent /\ events \subseteq events'
      BY <2>2 DEF MakeEvent, TypeOK, TransferEvent
    <3>2. log \in Seq(events')
      BY <3>1 DEF TypeOK
    <3>3. QED
      BY <2>2, <3>1, <3>2 DEF MakeEvent, TypeOK, TxId
  <2>3. ASSUME NEW e \in events, ExecuteTransfer(e) PROVE TypeOK'
    <3>1. log \in Seq(events) /\ log' = Append(log, e) /\ events' = events
      BY <2>3 DEF ExecuteTransfer, TypeOK
    <3>2. /\ log' \in Seq(events) /\ DOMAIN log' = 1 .. Len(log) + 1
          /\ DOMAIN log = 1 .. Len(log) /\ Len(log) \in Nat
          /\ log'[Len(log) + 1] = e /\ \A i \in 1 .. Len(log) : log'[i] = log[i]
      BY <3>1, AppendFacts
    <3>3. {TxId(log'[i]) : i \in DOMAIN log'}
            = {TxId(log[i]) : i \in DOMAIN log} \cup {TxId(e)}
      BY <3>2
    <3>4. ledgerHistory' = {TxId(log'[i]) : i \in DOMAIN log'}
      BY <2>3, <3>3 DEF ExecuteTransfer, TypeOK
    <3>5. QED
      BY <2>3, <3>1, <3>2, <3>4 DEF ExecuteTransfer, TypeOK, TxId
  <2>4. ASSUME NEW p \in Party, NEW i \in DOMAIN records[p], Revoke(p, i) PROVE TypeOK'
    <3>1. records[p] \in Seq(IdentityRecord) /\ records[p][i] \in IdentityRecord
      BY DEF TypeOK
    <3>2. [records[p][i] EXCEPT !.revoked = TRUE] \in IdentityRecord
      BY <3>1 DEF IdentityRecord
    <3>3. records' = [records EXCEPT ![p] = [records[p] EXCEPT ![i] =
                        [records[p][i] EXCEPT !.revoked = TRUE]]]
      BY <2>4 DEF Revoke
    <3>4. [records[p] EXCEPT ![i] = [records[p][i] EXCEPT !.revoked = TRUE]]
            \in Seq(IdentityRecord)
      BY <3>1, <3>2
    <3>5. records' \in [Party -> Seq(IdentityRecord)]
      BY <3>3, <3>4 DEF TypeOK
    <3>6. QED
      BY <2>4, <3>5 DEF Revoke, TypeOK, TxId
  <2>5. ASSUME NEW p \in Party, NEW i \in DOMAIN records[p], NEW expiry \in 1 .. MaxTime + 1,
               Reissue(p, i, expiry)
        PROVE  TypeOK'
    <3> DEFINE fresh == [[records[p][i] EXCEPT !.revoked = FALSE] EXCEPT !.expiry = expiry]
    <3>1. records[p] \in Seq(IdentityRecord) /\ records[p][i] \in IdentityRecord
      BY DEF TypeOK
    <3>2. fresh \in IdentityRecord
      <4>1. expiry \in Nat
        BY ExecutorParameters
      <4>2. [records[p][i] EXCEPT !.revoked = FALSE] \in IdentityRecord
        BY <3>1 DEF IdentityRecord
      <4>3. QED
        BY <4>1, <4>2 DEF IdentityRecord
    <3>3. records' = [records EXCEPT ![p] = [records[p] EXCEPT ![i] = fresh]]
      BY <2>5, <3>1 DEF Reissue, TypeOK, IdentityRecord
    <3>4. [records[p] EXCEPT ![i] = fresh] \in Seq(IdentityRecord)
      BY <3>1, <3>2
    <3>5. records' \in [Party -> Seq(IdentityRecord)]
      BY <3>3, <3>4 DEF TypeOK
    <3>6. QED
      BY <2>5, <3>5 DEF Reissue, TypeOK, TxId
  <2>6. ASSUME ChangeState PROVE TypeOK'
    BY <2>6 DEF ChangeState, TypeOK, TxId, Lifecycle!Next, Lifecycle!ApplyStateTransition,
                Lifecycle!Successors
  <2>7. CASE UNCHANGED vars
    BY <2>7 DEF vars, TypeOK, TxId
  <2>8. QED
    BY <2>1, <2>2, <2>3, <2>4, <2>5, <2>6, <2>7 DEF Next
<1>3. QED
  BY <1>1, <1>2, PTL DEF Spec

\* No event settles twice: what settled is in the history, under its own id.
THEOREM SettledOnce == Spec => []SettlesOnce
<1>1. Init => SettlesOnce
  BY DEF Init, SettlesOnce, IsInjective
<1>2. TypeOK /\ SettlesOnce /\ [Next]_vars => SettlesOnce'
  <2> SUFFICES ASSUME TypeOK, SettlesOnce, [Next]_vars PROVE SettlesOnce'
    OBVIOUS
  <2>1. ASSUME NEW e \in events, ExecuteTransfer(e) PROVE SettlesOnce'
    <3>1. log \in Seq(events) /\ log' = Append(log, e) /\ TxId(e) \notin ledgerHistory
      BY <2>1, SettlingMeans DEF ExecuteTransfer, TypeOK
    <3>2. /\ DOMAIN log' = 1 .. Len(log) + 1 /\ DOMAIN log = 1 .. Len(log) /\ Len(log) \in Nat
          /\ log'[Len(log) + 1] = e /\ \A i \in 1 .. Len(log) : log'[i] = log[i]
      BY <3>1, AppendFacts
    <3>3. \A i \in 1 .. Len(log) : log[i] # e
      BY <3>1, <3>2 DEF TypeOK
    <3>4. \A i, j \in 1 .. Len(log) : log[i] = log[j] => i = j
      BY <3>2 DEF SettlesOnce, IsInjective
    <3>5. ASSUME NEW i \in DOMAIN log', NEW j \in DOMAIN log', log'[i] = log'[j] PROVE i = j
      <4>1. CASE i \in 1 .. Len(log) /\ j \in 1 .. Len(log)
        BY <3>2, <3>4, <3>5, <4>1
      <4>2. CASE i = Len(log) + 1 \/ j = Len(log) + 1
        BY <3>2, <3>3, <3>5, <4>2
      <4>3. QED
        BY <3>2, <4>1, <4>2
    <3>6. QED
      BY <3>5 DEF SettlesOnce, IsInjective
  <2>2. CASE UNCHANGED <<log, ledgerHistory>>
    BY <2>2 DEF SettlesOnce, IsInjective
  <2>3. QED
    BY <2>1, <2>2, StepKinds
<1>3. QED
  BY <1>1, <1>2, TypeCorrect, PTL DEF Spec

\* Replays are recognised before anything else is looked at.
THEOREM ReplayAnswered == Spec => []ReplayAnswersReplay
<1>1. TypeOK => ReplayAnswersReplay
  BY DEF TypeOK, ReplayAnswersReplay, Outcome, IsReplay
<1>2. QED
  BY <1>1, TypeCorrect, PTL

\* What settled was allowed on no evidence about the parties.
Blindly == \A i \in DOMAIN log : Allowed(asset.rules, DefaultContext(log[i], "ACTIVE"))

\* The executor lets nothing settle that the rules refuse in the context it builds.
LEMMA SettledBlindly == Spec => []Blindly
<1> USE DEF Blindly
<1>1. Init => Blindly
  BY DEF Init
<1>2. TypeOK /\ Blindly /\ [Next]_vars => Blindly'
  <2> SUFFICES ASSUME TypeOK, Blindly, [Next]_vars PROVE Blindly'
    OBVIOUS
  <2>1. asset' = asset
    BY StepKinds
  <2>2. ASSUME NEW e \in events, ExecuteTransfer(e) PROVE Blindly'
    <3>1. log \in Seq(events) /\ log' = Append(log, e)
      BY <2>2 DEF ExecuteTransfer, TypeOK
    <3>2. /\ DOMAIN log' = 1 .. Len(log) + 1 /\ DOMAIN log = 1 .. Len(log) /\ Len(log) \in Nat
          /\ log'[Len(log) + 1] = e /\ \A i \in 1 .. Len(log) : log'[i] = log[i]
      BY <3>1, AppendFacts
    <3>3. Allowed(asset.rules, DefaultContext(e, "ACTIVE"))
      BY <2>2, SettlingMeans DEF ExecuteTransfer
    <3>4. ASSUME NEW i \in 1 .. Len(log) + 1
          PROVE  Allowed(asset.rules, DefaultContext(log'[i], "ACTIVE"))
      <4>1. CASE i = Len(log) + 1
        BY <3>2, <3>3, <4>1
      <4>2. CASE i \in 1 .. Len(log)
        BY <3>2, <4>2
      <4>3. QED
        BY <3>2, <4>1, <4>2
    <3>5. QED
      BY <2>1, <3>2, <3>4 DEF DefaultContext
  <2>3. CASE UNCHANGED <<log, ledgerHistory>>
    BY <2>1, <2>3 DEF DefaultContext
  <2>4. QED
    BY <2>2, <2>3, StepKinds
<1>3. QED
  BY <1>1, <1>2, TypeCorrect, PTL DEF Spec

\* What settled was allowed on no evidence, hence on any.
THEOREM SettledCompliant == Spec => []SettledIsCompliant
<1>1. Blindly => SettledIsCompliant
  BY AllowedMonotone DEF Blindly, SettledIsCompliant
<1>2. QED
  BY <1>1, SettledBlindly, PTL

\* What is left of the nine predicates where nothing is known of the parties or of the
\* attestations: the threshold, and a trading window with both its ends.
AsksNumbersOnly(rule) ==
  \/ rule.type = "TRANSACTION_THRESHOLD"
  \/ /\ rule.type = "MARKET_RESTRICTION"
     /\ Missing \notin {NumParam(rule, "windowOpen"), NumParam(rule, "windowClose")}

\* No other rule holds in the context the executor builds.
LEMMA RulesKnowingNothing ==
  ASSUME NEW rule, NEW event, NEW st, EvalRule(rule, DefaultContext(event, st))
  PROVE  AsksNumbersOnly(rule)
<1> DEFINE c == DefaultContext(event, st)
<1>1. /\ c.sender.status = "UNKNOWN" /\ c.sender.jurisdiction = Missing
      /\ c.sender.acquired = 0 /\ c.receiver.class = Missing
      /\ DOMAIN c.attestations = {}
  BY DEF DefaultContext
<1> HIDE DEF c
<1>2. /\ ~PartiesValid(rule, c) /\ ~ClassAllowed(rule, c) /\ ~HeldLongEnough(rule, c)
      /\ ~JurisdictionsClear(rule, c) /\ ~AttestationClears(rule, c)
  BY <1>1 DEF PartiesValid, ClassAllowed, HeldLongEnough, JurisdictionsClear,
              AttestationClears
<1>3. EvalRule(rule, c)
  BY DEF c
<1> QED  BY <1>2, <1>3 DEF EvalRule, MarketOpen, AsksNumbersOnly

\* Where anything has settled, the rules that block ask about the amount or a trading
\* window.
SettledOnNumbers ==
  \A i \in DOMAIN log, j \in DOMAIN asset.rules :
    /\ asset.rules[j].action \in Blocking
    /\ asset.rules[j].scope \in {"*", asset.jurisdiction}
    => AsksNumbersOnly(asset.rules[j])

\* The seven other types of rule, and a market oracle, refuse every transfer of the asset
\* that carries them, whoever the parties are and whatever the host knows of them.
THEOREM OnlyNumbersSettle == Spec => []SettledOnNumbers
<1>1. ASSUME Blindly, NEW i \in DOMAIN log, NEW j \in DOMAIN asset.rules,
             asset.rules[j].action \in Blocking,
             asset.rules[j].scope \in {"*", asset.jurisdiction}
      PROVE  AsksNumbersOnly(asset.rules[j])
  <2> DEFINE c == DefaultContext(log[i], "ACTIVE")
             rule == asset.rules[j]
  <2>1. ~Blocks(rule, c)
    BY <1>1 DEF Blindly, Allowed
  <2>2. c.jurisdiction = asset.jurisdiction
    BY DEF DefaultContext
  <2> HIDE DEF c
  <2>3. EvalRule(rule, c)
    BY <1>1, <2>1, <2>2 DEF Blocks, ScopeApplies
  <2> QED  BY <2>3, RulesKnowingNothing DEF c
<1>2. Blindly => SettledOnNumbers
  BY <1>1 DEF SettledOnNumbers
<1> QED  BY <1>2, SettledBlindly, PTL

\* Redemption is final.
THEOREM RedemptionFinal == Spec => NothingAfterRedemption
<1>1. TypeOK /\ [Next]_vars =>
        (state \in {"REDEEMED", "BURNED"} =>
           log' = log /\ state' \in {"REDEEMED", "BURNED"})
  <2> SUFFICES ASSUME TypeOK, [Next]_vars, state \in {"REDEEMED", "BURNED"}
               PROVE  log' = log /\ state' \in {"REDEEMED", "BURNED"}
    OBVIOUS
  <2>1. \A e \in events : ~ExecuteTransfer(e)
    BY SettlingMeans DEF ExecuteTransfer
  <2>2. log' = log
    BY <2>1, StepKinds
  <2>3. CASE ChangeState
    <3>1. PICK trigger : \E to \in Lifecycle!AssetState :
            /\ <<state, trigger, to>> \in Lifecycle!Transitions /\ state' = to
      BY <2>3 DEF ChangeState, Lifecycle!Next, Lifecycle!ApplyStateTransition,
                  Lifecycle!Successors
    <3>2. QED
      BY <2>2, <3>1 DEF Lifecycle!Transitions
  <2>4. CASE ~ChangeState
    <3>1. state' = state
      BY <2>1, <2>4 DEF Next, Tick, MakeEvent, Revoke, Reissue, vars
    <3>2. QED
      BY <2>2, <3>1
  <2>5. QED
    BY <2>3, <2>4
<1>2. QED
  BY <1>1, TypeCorrect, PTL DEF Spec, NothingAfterRedemption

\* Before an expiry, and so valid, or lapsed since.
LEMMA VouchesOrLapsed ==
  ASSUME TypeOK, NEW p \in Party, NEW i \in DOMAIN records[p], NEW e \in events,
         IdentityStatus(records[p][i], e.timestamp) = "VALID"
  PROVE  StandsOrLapsedSince(records[p][i], e)
<1>1. records[p] \in Seq(IdentityRecord)
  BY DEF TypeOK
<1>2. records[p][i] \in IdentityRecord
  BY <1>1
<1>3. records[p][i].expiry \in Nat
  BY <1>2 DEF IdentityRecord
<1>4. e.timestamp \in Nat /\ clock \in Nat
  BY ExecutorParameters DEF TypeOK, TransferEvent, Time
<1>5. ~records[p][i].revoked /\ e.timestamp < records[p][i].expiry
  BY <1>3, <1>4 DEF IdentityStatus
<1> QED
  BY <1>3, <1>4, <1>5 DEF StandsOrLapsedSince

\* Settlements find everyone in good standing, records and jurisdictions alike, but for
\* what lapsed since the event was made: the extent of the finding lapsed_identity.
THEOREM GoodStanding == Spec => StandingUnlessLapsedSince
<1> DEFINE Good ==
      log' # log =>
        /\ state = "ACTIVE"
        /\ \A p \in {LastSettled.sender, LastSettled.receiver} :
             /\ asset.level >= 1 => StandsOrLapsedSince(records[p][1], LastSettled)
             /\ asset.level = 3 =>
                  \A j \in asset.required : \E i \in DOMAIN records[p] :
                    /\ records[p][i].jurisdiction = j
                    /\ StandsOrLapsedSince(records[p][i], LastSettled)
<1>1. TypeOK /\ [Next]_vars => Good
  <2> SUFFICES ASSUME TypeOK, [Next]_vars, log' # log PROVE Good
    OBVIOUS
  <2>1. PICK e \in events : ExecuteTransfer(e)
    BY StepKinds
  <2>2. LastSettled = e
    <3>1. log \in Seq(events) /\ log' = Append(log, e)
      BY <2>1 DEF ExecuteTransfer, TypeOK
    <3>2. QED
      BY <3>1, AppendFacts DEF LastSettled
  <2>3. state = "ACTIVE" /\ EnforceIdentityLevel(e)
    BY <2>1, SettlingMeans DEF ExecuteTransfer
  <2>4. e.sender \in Party /\ e.receiver \in Party
    BY DEF TypeOK, TransferEvent
  <2>5. ASSUME NEW p \in {e.sender, e.receiver}, asset.level >= 1
        PROVE  StandsOrLapsedSince(records[p][1], e)
    <3>1. asset.level # 0
      BY <2>5
    <3>2. records[p] # <<>> /\ IdentityStatus(records[p][1], e.timestamp) = "VALID"
      BY <2>3, <3>1 DEF EnforceIdentityLevel, ValidIdentity
    <3>3. p \in Party /\ records[p] \in Seq(IdentityRecord)
      BY <2>4 DEF TypeOK
    <3>4. 1 \in DOMAIN records[p]
      BY <3>2, <3>3
    <3>5. QED
      BY <3>2, <3>3, <3>4, VouchesOrLapsed
  <2>6. ASSUME NEW p \in {e.sender, e.receiver}, asset.level = 3, NEW j \in asset.required
        PROVE  \E i \in DOMAIN records[p] :
                 records[p][i].jurisdiction = j /\ StandsOrLapsedSince(records[p][i], e)
    <3>1. j \in ValidJurisdictions(p, e.timestamp)
      BY <2>3, <2>6 DEF EnforceIdentityLevel
    <3>2. PICK i \in DOMAIN records[p] :
            /\ records[p][i].jurisdiction = j
            /\ IdentityStatus(records[p][i], e.timestamp) = "VALID"
      BY <3>1 DEF ValidJurisdictions
    <3>3. StandsOrLapsedSince(records[p][i], e)
      BY <2>4, <3>2, VouchesOrLapsed
    <3>4. QED
      BY <3>2, <3>3
  <2>7. QED
    BY <2>2, <2>3, <2>5, <2>6
<1>2. QED
  BY <1>1, TypeCorrect, PTL DEF Spec, StandingUnlessLapsedSince

-----------------------------------------------------------------------------
(* The refinement *)

\* The ids of a log one event longer.
LEMMA BookGrows ==
  ASSUME NEW S, NEW s \in Seq(S), NEW e \in S
  PROVE  [i \in DOMAIN Append(s, e) |-> TxId(Append(s, e)[i])]
           = Append([i \in DOMAIN s |-> TxId(s[i])], TxId(e))
<1> DEFINE ids == [i \in DOMAIN s |-> TxId(s[i])]
           R == {TxId(x) : x \in S}
<1>1. /\ DOMAIN s = 1 .. Len(s) /\ Len(s) \in Nat
      /\ Append(s, e) \in Seq(S) /\ DOMAIN Append(s, e) = 1 .. Len(s) + 1
      /\ Append(s, e)[Len(s) + 1] = e
      /\ \A i \in 1 .. Len(s) : Append(s, e)[i] = s[i]
  BY AppendFacts
<1>2. ids \in [1 .. Len(s) -> R]
  BY <1>1
<1>3. ids \in Seq(R) /\ Len(ids) = Len(s) /\ TxId(e) \in R
  BY <1>1, <1>2
<1> HIDE DEF R
<1>4. /\ DOMAIN Append(ids, TxId(e)) = 1 .. Len(s) + 1
      /\ Append(ids, TxId(e))[Len(s) + 1] = TxId(e)
      /\ \A i \in 1 .. Len(s) : Append(ids, TxId(e))[i] = ids[i]
      /\ Append(ids, TxId(e)) \in Seq(R)
  <2> HIDE DEF ids
  <2> QED
    BY <1>3, AppendFacts
<1>5. \A i \in 1 .. Len(s) + 1 : Append(ids, TxId(e))[i] = TxId(Append(s, e)[i])
  BY <1>1, <1>4
<1> HIDE DEF ids
<1>6. Append(ids, TxId(e)) = [i \in 1 .. Len(s) + 1 |-> TxId(Append(s, e)[i])]
  <2> DEFINE grown == Append(ids, TxId(e))
  <2>1. grown \in Seq(R) /\ DOMAIN grown = 1 .. Len(s) + 1
    BY <1>4
  <2>2. \A i \in 1 .. Len(s) + 1 : grown[i] = TxId(Append(s, e)[i])
    BY <1>5
  <2> HIDE DEF grown
  <2>3. grown = [i \in 1 .. Len(s) + 1 |-> grown[i]]
    BY <2>1, SMT
  <2>4. grown = [i \in 1 .. Len(s) + 1 |-> TxId(Append(s, e)[i])]
    BY <2>2, <2>3, Zenon
  <2> QED
    BY <2>4 DEF grown
<1> QED
  BY <1>1, <1>6 DEF ids

\* Calls repeated, delayed and reordered implement the book: every settlement is one entry
\* under an id not yet there, and every move of the asset one the book allows.
THEOREM BookImplemented == Spec => ImplementsBook
<1> DEFINE phase == IF state = "ACTIVE" THEN "open"
                    ELSE IF state \in {"REDEEMED", "BURNED"} THEN "over" ELSE "halted"
           ids == [i \in DOMAIN log |-> TxId(log[i])]
<1>1. Init => Book!Init
  BY DEF Init, Lifecycle!Init, Book!Init
<1>2. TypeOK /\ [Next]_vars => [Book!Next]_(Book!vars)
  <2> SUFFICES ASSUME TypeOK, [Next]_vars PROVE [Book!Next]_(Book!vars)
    OBVIOUS
  <2>1. ASSUME NEW e \in events, ExecuteTransfer(e) PROVE Book!Next
    <3>1. /\ log \in Seq(events) /\ log' = Append(log, e) /\ state' = state
          /\ state = "ACTIVE" /\ TxId(e) \notin ledgerHistory
      BY <2>1, SettlingMeans DEF ExecuteTransfer, TypeOK
    <3>2. ids' = Append(ids, TxId(e))
      <4>1. [i \in DOMAIN Append(log, e) |-> TxId(Append(log, e)[i])] = Append(ids, TxId(e))
        BY <3>1, BookGrows
      <4> QED
        BY <3>1, <4>1 DEF TxId
    <3>3. \A i \in DOMAIN ids : ids[i] # TxId(e)
      BY <3>1 DEF TypeOK
    <3>4. TxId(e) \in {TxId(event) : event \in TransferEvent}
      BY DEF TypeOK
    <3>5. phase = "open" /\ phase' = phase
      BY <3>1
    <3> QED
      BY <3>2, <3>3, <3>4, <3>5 DEF Book!Next, Book!Enter
  <2>2. ASSUME ChangeState PROVE [Book!Next]_(Book!vars)
    <3>1. PICK trigger : \E to \in Lifecycle!AssetState :
            /\ <<state, trigger, to>> \in Lifecycle!Transitions /\ state' = to
      BY <2>2 DEF ChangeState, Lifecycle!Next, Lifecycle!ApplyStateTransition,
                  Lifecycle!Successors
    <3>2. \/ phase' = phase
          \/ phase = "halted" /\ phase' = "open"
          \/ phase = "open" /\ phase' \in {"halted", "over"}
      BY <3>1 DEF Lifecycle!Transitions
    <3>3. ids' = ids
      BY <2>2 DEF ChangeState, TxId
    <3> HIDE DEF phase, ids
    <3>4. \/ phase' = phase /\ ids' = ids
          \/ phase = "halted" /\ phase' = "open" /\ ids' = ids
          \/ phase = "open" /\ phase' = "halted" /\ ids' = ids
          \/ phase = "open" /\ phase' = "over" /\ ids' = ids
      BY <3>2, <3>3
    <3> QED
      BY <3>4 DEF phase, ids, Book!Next, Book!Resume, Book!Halt, Book!Close, Book!vars
  <2>3. CASE UNCHANGED <<state, log>>
    BY <2>3 DEF Book!vars, TxId
  <2>4. \/ \E e \in events : ExecuteTransfer(e)
        \/ ChangeState
        \/ UNCHANGED <<state, log>>
    BY DEF Next, Tick, MakeEvent, Revoke, Reissue, vars
  <2> QED
    BY <2>1, <2>2, <2>3, <2>4
<1> QED
  BY <1>1, <1>2, TypeCorrect, PTL DEF Spec, ImplementsBook, Book!Spec
=============================================================================
