-------------------------- MODULE CrossChainProofs --------------------------
(***************************************************************************)
(* What certificates and quorums guarantee together, for any chains, any   *)
(* rule lists and any lists of authorities, repetitions included.          *)
(***************************************************************************)
EXTENDS CrossChain, FiniteSetTheorems, TLAPS

\* Two sets of co-signers that each reach two thirds of a list's length share a third of
\* it: the list has at least as many places as names.
LEMMA QuorumsOverlap ==
  ASSUME NEW s, Len(s) \in Nat, DOMAIN s = 1 .. Len(s),
         NEW A \in SUBSET Range(s), NEW B \in SUBSET Range(s),
         Cardinality(A) >= (2 * Len(s) + 2) \div 3,
         Cardinality(B) >= (2 * Len(s) + 2) \div 3
  PROVE  3 * Cardinality(A \cap B) >= Len(s)
<1> DEFINE f == [i \in 1 .. Len(s) |-> s[i]]
<1>1. IsFiniteSet(1 .. Len(s)) /\ Cardinality(1 .. Len(s)) = Len(s)
  <2>1. 1 \in Int /\ Len(s) \in Int
    OBVIOUS
  <2>2. /\ IsFiniteSet(1 .. Len(s))
        /\ Cardinality(1 .. Len(s)) = IF 1 > Len(s) THEN 0 ELSE Len(s) - 1 + 1
    BY <2>1, FS_Interval, Zenon
  <2>3. QED
    BY <2>2
<1>2. f \in Surjection(1 .. Len(s), Range(s))
  BY DEF Surjection, Range
<1>3. IsFiniteSet(Range(s)) /\ Cardinality(Range(s)) <= Len(s)
  BY <1>1, <1>2, FS_Surjection
<1>4. /\ IsFiniteSet(A) /\ IsFiniteSet(B) /\ IsFiniteSet(A \cap B)
      /\ Cardinality(A \cup B) <= Cardinality(Range(s))
      /\ IsFiniteSet(A \cup B)
  <2>1. A \cap B \in SUBSET Range(s) /\ A \cup B \in SUBSET Range(s)
    OBVIOUS
  <2>2. QED
    BY <1>3, <2>1, FS_Subset
<1>5. Cardinality(A \cup B) = Cardinality(A) + Cardinality(B) - Cardinality(A \cap B)
  BY <1>4, FS_Union
<1>6. /\ Cardinality(A) \in Nat /\ Cardinality(B) \in Nat
      /\ Cardinality(A \cap B) \in Nat /\ Cardinality(A \cup B) \in Nat
      /\ Cardinality(Range(s)) \in Nat
  BY <1>3, <1>4, FS_CardinalityType
<1>7. 3 * Cardinality(A) >= 2 * Len(s) /\ 3 * Cardinality(B) >= 2 * Len(s)
  BY <1>6
<1>8. QED
  BY <1>3, <1>4, <1>5, <1>6, <1>7

\* Types, and that only registered names count towards a quorum on record.
THEOREM TypeCorrect == Spec => []TypeOK
<1>1. Init => TypeOK
  BY ChainParameters DEF Init, TypeOK
<1>2. TypeOK /\ [Next]_vars => TypeOK'
  <2> SUFFICES ASSUME TypeOK, [Next]_vars PROVE TypeOK'
    OBVIOUS
  <2>1. ASSUME NEW c \in Chain, NEW t \in Time, Certify(c, t) PROVE TypeOK'
    BY <2>1 DEF Certify, TypeOK
  <2>2. ASSUME NEW c \in Chain, NEW t \in Time, NEW sent \in certificates,
               Misquote(sent, c, t)
        PROVE  TypeOK'
    BY <2>2 DEF Misquote, TypeOK
  <2>3. ASSUME NEW c \in Chain, NEW sent \in certificates, Accept(c, sent) PROVE TypeOK'
    BY <2>3 DEF Accept, TypeOK
  <2>4. ASSUME NEW c \in Chain, NEW o \in Override, NEW cosigners \in SUBSET Signer,
               CarryOut(c, o, cosigners)
        PROVE  TypeOK'
    <3>1. assets[c] \in Asset /\ assets[c].governance \in GovernanceModule
      BY DEF TypeOK, Asset
    <3>2. Signed(assets[c].governance, cosigners)
            \subseteq Range(assets[c].governance.authorities)
      BY DEF Signed
    <3>3. \A r \in records' : /\ r.override \in Override
                              /\ r.governance \in GovernanceModule
                              /\ r.signed \subseteq Range(r.governance.authorities)
      BY <2>4, <3>1, <3>2 DEF CarryOut, TypeOK
    <3>4. QED
      BY <2>4, <3>3 DEF CarryOut, TypeOK
  <2>5. ASSUME NEW c \in Chain, NEW rules \in RuleList, NEW g \in GovernanceModule,
               Amend(c, rules, g)
        PROVE  TypeOK'
    <3>1. assets[c] \in Asset
      BY DEF TypeOK
    <3>2. [assets[c] EXCEPT !.rules = rules, !.governance = g] \in Asset
      BY <3>1 DEF Asset
    <3>3. assets' \in [Chain -> Asset]
      BY <2>5, <3>2 DEF Amend, TypeOK
    <3>4. QED
      BY <2>5, <3>3 DEF Amend, TypeOK
  <2>6. ASSUME NEW c \in Chain, ChangeState(c) PROVE TypeOK'
    <3>1. PICK to \in Lifecycle!AssetState : assets' = [assets EXCEPT ![c].state = to]
      BY <2>6 DEF ChangeState, Lifecycle!Successors
    <3>2. assets[c] \in Asset
      BY DEF TypeOK
    <3>3. [assets[c] EXCEPT !.state = to] \in Asset
      BY <3>2 DEF Asset
    <3>4. assets' \in [Chain -> Asset]
      BY <3>1, <3>3 DEF TypeOK
    <3>5. QED
      BY <2>6, <3>4 DEF ChangeState, TypeOK
  <2>7. CASE UNCHANGED vars
    BY <2>7 DEF TypeOK, vars
  <2>8. QED
    BY <2>1, <2>2, <2>3, <2>4, <2>5, <2>6, <2>7 DEF Next
<1>3. QED
  BY <1>1, <1>2, PTL DEF Spec

\* Certificates in flight keep the id of a certificate built from their origin: a relay
\* mixes up fields, never ids.
THEOREM CidsGenuine == Spec => []CidOfOrigin
<1>1. Init => CidOfOrigin
  BY DEF Init, CidOfOrigin
<1>2. CidOfOrigin /\ [Next]_vars => CidOfOrigin'
  <2> SUFFICES ASSUME CidOfOrigin, [Next]_vars PROVE CidOfOrigin'
    OBVIOUS
  <2>1. ASSUME NEW c \in Chain, NEW t \in Time, Certify(c, t) PROVE CidOfOrigin'
    <3> DEFINE built == [cert |-> BuildCrossChainCertificate(assets[c], t), origin |-> assets[c]]
    <3>1. built.cert.cid = BuildCrossChainCertificate(built.origin, t).cid
      OBVIOUS
    <3>2. certificates' = certificates \cup {built}
      BY <2>1 DEF Certify
    <3> HIDE DEF built
    <3>3. QED
      BY <3>1, <3>2 DEF CidOfOrigin
  <2>2. ASSUME NEW c \in Chain, NEW t \in Time, NEW sent \in certificates,
               Misquote(sent, c, t)
        PROVE  CidOfOrigin'
    <3>1. PICK mixed : certificates' = certificates \cup
            {[cert |-> [fields |-> mixed, cid |-> sent.cert.cid], origin |-> sent.origin]}
      BY <2>2 DEF Misquote
    <3>2. QED
      BY <3>1 DEF CidOfOrigin
  <2>3. CASE UNCHANGED certificates
    BY <2>3 DEF CidOfOrigin
  <2>4. QED
    BY <2>1, <2>2, <2>3 DEF Next, Accept, CarryOut, Amend, ChangeState, vars
<1>3. QED
  BY <1>1, <1>2, PTL DEF Spec

\* Acceptance compares like with like: the id pins every field of the certificate to the
\* origin, and the fields are compared with the destination.
LEMMA AcceptedMatch ==
  ASSUME CidOfOrigin, NEW sent \in certificates, NEW asset,
         VerifyCrossChain(sent.cert, asset)
  PROVE  /\ sent.origin.id = asset.id
         /\ ComplianceHash(sent.origin) = ComplianceHash(asset)
         /\ sent.origin.governance.authorities = asset.governance.authorities
<1>1. PICK t \in Time : sent.cert.cid = BuildCrossChainCertificate(sent.origin, t).cid
  BY DEF CidOfOrigin
<1>2. BuildCrossChainCertificate(sent.origin, t).cid
        = <<sent.origin.id, sent.origin.state, ComplianceHash(sent.origin),
            GovernanceHash(sent.origin), t>>
  BY DEF BuildCrossChainCertificate, ConstructCid
<1>3. /\ sent.cert.fields.assetId = sent.origin.id
      /\ sent.cert.fields.complianceHash = ComplianceHash(sent.origin)
      /\ sent.cert.fields.governanceHash = GovernanceHash(sent.origin)
  BY <1>1, <1>2 DEF VerifyCrossChain, ConstructCid
<1>4. QED
  BY <1>3 DEF VerifyCrossChain, GovernanceHash

\* Where a certificate is accepted the asset has the id, the rules and the authorities it
\* has where the certificate was built.
THEOREM LinksAgree == Spec => []LinksMatch
<1>1. Init => LinksMatch
  BY DEF Init, LinksMatch
<1>2. CidOfOrigin /\ LinksMatch /\ [Next]_vars => LinksMatch'
  <2> SUFFICES ASSUME CidOfOrigin, LinksMatch, [Next]_vars PROVE LinksMatch'
    OBVIOUS
  <2>1. ASSUME NEW c \in Chain, NEW sent \in certificates, Accept(c, sent) PROVE LinksMatch'
    <3> DEFINE link == [origin |-> sent.origin, destination |-> assets[c]]
    <3>1. /\ sent.origin.id = assets[c].id
          /\ ComplianceHash(sent.origin) = ComplianceHash(assets[c])
          /\ sent.origin.governance.authorities = assets[c].governance.authorities
      BY <2>1, AcceptedMatch DEF Accept
    <3>2. DOMAIN sent.origin.rules = DOMAIN assets[c].rules
      BY <3>1 DEF ComplianceHash
    <3>3. ASSUME NEW i \in DOMAIN sent.origin.rules
          PROVE  /\ sent.origin.rules[i].id = assets[c].rules[i].id
                 /\ sent.origin.rules[i].type = assets[c].rules[i].type
                 /\ sent.origin.rules[i].priority = assets[c].rules[i].priority
      <4>1. ComplianceHash(sent.origin)[i] = ComplianceHash(assets[c])[i]
        BY <3>1
      <4>2. QED
        BY <3>2, <4>1 DEF ComplianceHash
    <3>4. links' = links \cup {link}
      BY <2>1 DEF Accept
    <3>5. QED
      BY <3>1, <3>2, <3>3, <3>4 DEF LinksMatch
  <2>2. CASE UNCHANGED links
    BY <2>2 DEF LinksMatch
  <2>3. QED
    BY <2>1, <2>2 DEF Next, Certify, Misquote, CarryOut, Amend, ChangeState, vars
<1>3. QED
  BY <1>1, <1>2, CidsGenuine, PTL DEF Spec

\* Every rollback on record had two thirds of the authorities registered when it was
\* carried out.
THEOREM QuorumsHeld == Spec => []QuorumsOnRecord
<1>1. Init => QuorumsOnRecord
  BY DEF Init, QuorumsOnRecord
<1>2. QuorumsOnRecord /\ [Next]_vars => QuorumsOnRecord'
  <2> SUFFICES ASSUME QuorumsOnRecord, [Next]_vars PROVE QuorumsOnRecord'
    OBVIOUS
  <2>1. ASSUME NEW c \in Chain, NEW o \in Override, NEW cosigners \in SUBSET Signer,
               CarryOut(c, o, cosigners)
        PROVE  QuorumsOnRecord'
    <3> DEFINE record == [override |-> o, governance |-> assets[c].governance,
                          signed |-> Signed(assets[c].governance, cosigners)]
    <3>1. IsRollback(record) => Cardinality(record.signed) >= Required(record.governance)
      BY <2>1 DEF CarryOut, ValidateOverride, ValidateQuorum, IsRollback
    <3>2. records' = records \cup {record}
      BY <2>1 DEF CarryOut
    <3> HIDE DEF record
    <3>3. QED
      BY <3>1, <3>2 DEF QuorumsOnRecord
  <2>2. CASE UNCHANGED records
    BY <2>2 DEF QuorumsOnRecord
  <2>3. QED
    BY <2>1, <2>2 DEF Next, Certify, Misquote, Accept, Amend, ChangeState, vars
<1>3. QED
  BY <1>1, <1>2, PTL DEF Spec

\* Two rollbacks of linked assets share a third of the authorities that co-sign them.
THEOREM RollbacksOverlap == Spec => []LinkedRollbacksOverlap
<1>1. TypeOK /\ LinksMatch /\ QuorumsOnRecord => LinkedRollbacksOverlap
  <2> SUFFICES ASSUME TypeOK, LinksMatch, QuorumsOnRecord,
                      NEW link \in links, NEW r \in records, NEW s \in records,
                      IsRollback(r), IsRollback(s),
                      r.governance.authorities = link.origin.governance.authorities,
                      s.governance.authorities = link.destination.governance.authorities
               PROVE  3 * Cardinality(r.signed \cap s.signed) >= Len(r.governance.authorities)
    BY DEF LinkedRollbacksOverlap
  <2> DEFINE authorities == r.governance.authorities
  <2>1. s.governance.authorities = authorities
    BY DEF LinksMatch
  <2>2. Len(authorities) \in Nat /\ DOMAIN authorities = 1 .. Len(authorities)
    <3>1. r.governance \in GovernanceModule
      BY DEF TypeOK
    <3>2. authorities \in Seq(Signer) /\ DOMAIN authorities = 1 .. Len(authorities)
      BY <3>1, ChainParameters
    <3>3. QED
      BY <3>2
  <2>3. /\ r.signed \in SUBSET Range(authorities)
        /\ s.signed \in SUBSET Range(authorities)
    BY <2>1 DEF TypeOK
  <2>4. /\ Cardinality(r.signed) >= (2 * Len(authorities) + 2) \div 3
        /\ Cardinality(s.signed) >= (2 * Len(authorities) + 2) \div 3
    BY <2>1 DEF QuorumsOnRecord, Required
  <2> HIDE DEF authorities
  <2>5. 3 * Cardinality(r.signed \cap s.signed) >= Len(authorities)
    BY <2>2, <2>3, <2>4, QuorumsOverlap
  <2>6. QED
    BY <2>5 DEF authorities
<1>2. QED
  BY <1>1, TypeCorrect, LinksAgree, QuorumsHeld, PTL
=============================================================================
