----------------------------- MODULE CrossChain -----------------------------
(***************************************************************************)
(* One asset on several chains: certificates that one chain builds and     *)
(* another verifies, and the governance overrides that each carries out,   *)
(* while issuers amend the rules and authorities on every chain.  The SDK  *)
(* functions keep no state; the hosts that call them do.  A certificate in *)
(* flight is never used up: it may arrive late, twice or never, and with a *)
(* field copied from another one.                                          *)
(*                                                                         *)
(* A hash is the value hashed, which is what collision resistance means.   *)
(***************************************************************************)
EXTENDS GovernanceRules

CONSTANTS
  Chain,
  RuleList,           \* the rule lists issuers use, rules as [id, type, priority, params]
  GovernanceModule,   \* the governance modules issuers use
  Deployment,         \* how the chains may start: chain -> [id, state, rules, governance]
  Override,           \* the override objects hosts are handed
  Signer,             \* the names that co-signature lists contain
  Time,
  MaxAmendments,      \* bound on amendments and state changes
  MaxCertificates,    \* bound on certificates, misquoted ones included
  MaxRecords          \* bound on overrides on record

VARIABLES
  assets,         \* per chain, the asset its host holds
  certificates,   \* in flight: [cert, origin], origin being the asset it was built from
  amendments,     \* how many changes issuers have made
  links,          \* History: the certificates accepted, as the assets [origin, destination]
  records         \* History: the overrides carried out, [override, governance, signed]

vars == <<assets, certificates, amendments, links, records>>

\* Used for its table: which state of the asset it is applied to depends on the chain.
Lifecycle == INSTANCE AssetLifecycle WITH state <- assets

\* What the certificates and the overrides read of an asset.
Asset == [id : STRING, state : Lifecycle!AssetState,
          rules : RuleList, governance : GovernanceModule]

ASSUME ChainParameters ==
  /\ \A g \in GovernanceModule : /\ g.authorities \in Seq(Signer)
                                 /\ DOMAIN g.authorities = 1 .. Len(g.authorities)
                                 /\ g.overrideTypes \subseteq GovernanceAction
  /\ Deployment \subseteq [Chain -> Asset]

Init ==
  /\ assets \in Deployment
  /\ certificates = {}
  /\ amendments = 0
  /\ links = {}
  /\ records = {}

-----------------------------------------------------------------------------
(* Certificates *)

\* What the compliance hash covers of the rules: neither action nor scope nor parameters.
ComplianceHash(asset) ==
  [i \in DOMAIN asset.rules |->
     <<asset.rules[i].id, asset.rules[i].type, asset.rules[i].priority>>]

GovernanceHash(asset) == <<asset.governance.authorities, asset.governance.quorumThreshold>>

\* Every field hashed has a fixed length.
ConstructCid(cert) ==
  <<cert.assetId, cert.stateHash, cert.complianceHash, cert.governanceHash, cert.timestamp>>

BuildCrossChainCertificate(asset, t) ==
  LET fields == [assetId |-> asset.id, stateHash |-> asset.state,
                 complianceHash |-> ComplianceHash(asset),
                 governanceHash |-> GovernanceHash(asset), timestamp |-> t]
  IN  [fields |-> fields, cid |-> ConstructCid(fields)]

\* The id taken as it comes (a mutant).
VerifyWithoutCid(cert, asset) ==
  /\ asset.id = cert.fields.assetId
  /\ ComplianceHash(asset) = cert.fields.complianceHash
  /\ GovernanceHash(asset) = cert.fields.governanceHash

\* verify_cross_chain, handed the hashes of the destination's asset as it is now.
VerifyCrossChain(cert, asset) ==
  /\ asset.id = cert.fields.assetId
  /\ ConstructCid(cert.fields) = cert.cid
  /\ ComplianceHash(asset) = cert.fields.complianceHash
  /\ GovernanceHash(asset) = cert.fields.governanceHash

Certify(chain, t) ==
  /\ Cardinality(certificates) < MaxCertificates
  /\ certificates' = certificates \cup
       {[cert |-> BuildCrossChainCertificate(assets[chain], t), origin |-> assets[chain]]}
  /\ UNCHANGED <<assets, amendments, links, records>>

\* A relay mixes up two certificates: one field comes from another, the id does not.
Misquote(sent, chain, t) ==
  /\ Cardinality(certificates) < MaxCertificates
  /\ \E field \in {"stateHash", "complianceHash", "governanceHash"} :
       LET other == BuildCrossChainCertificate(assets[chain], t)
           mixed == [sent.cert.fields EXCEPT ![field] = other.fields[field]]
       IN  certificates' = certificates \cup
             {[cert |-> [fields |-> mixed, cid |-> sent.cert.cid], origin |-> sent.origin]}
  /\ UNCHANGED <<assets, amendments, links, records>>

Accept(chain, sent) ==
  /\ VerifyCrossChain(sent.cert, assets[chain])
  /\ links' = links \cup {[origin |-> sent.origin, destination |-> assets[chain]]}
  /\ UNCHANGED <<assets, certificates, amendments, records>>

-----------------------------------------------------------------------------
(* Overrides and amendments *)

\* validate_override, then create_override_record.  Nothing is remembered: an override
\* may be handed over again.
CarryOut(chain, o, cosigners) ==
  /\ Cardinality(records) < MaxRecords
  /\ ValidateOverride(o, assets[chain].governance, cosigners)
  /\ records' = records \cup
       {[override |-> o, governance |-> assets[chain].governance,
         signed |-> Signed(assets[chain].governance, cosigners)]}
  /\ UNCHANGED <<assets, certificates, amendments, links>>

\* The dataclasses are frozen: an issuer replaces the module, never part of it.
Amend(chain, rules, governance) ==
  /\ amendments < MaxAmendments
  /\ amendments' = amendments + 1
  /\ assets' = [assets EXCEPT ![chain].rules = rules, ![chain].governance = governance]
  /\ UNCHANGED <<certificates, links, records>>

ChangeState(chain) ==
  /\ amendments < MaxAmendments
  /\ amendments' = amendments + 1
  /\ \E trigger \in Lifecycle!Trigger :
       \E to \in Lifecycle!Successors(assets[chain].state, trigger) :
         assets' = [assets EXCEPT ![chain].state = to]
  /\ UNCHANGED <<certificates, links, records>>

Next ==
  \E chain \in Chain :
    \/ \E t \in Time :
         Certify(chain, t) \/ \E sent \in certificates : Misquote(sent, chain, t)
    \/ \E sent \in certificates : Accept(chain, sent)
    \/ \E o \in Override, cosigners \in SUBSET Signer : CarryOut(chain, o, cosigners)
    \/ \E rules \in RuleList, governance \in GovernanceModule :
         Amend(chain, rules, governance)
    \/ ChangeState(chain)

Spec == Init /\ [][Next]_vars

-----------------------------------------------------------------------------
(* Properties *)

TypeOK ==
  /\ assets \in [Chain -> Asset]
  /\ \A sent \in certificates : sent.origin \in Asset
  /\ links \subseteq [origin : Asset, destination : Asset]
  /\ \A r \in records : /\ r.override \in Override
                        /\ r.governance \in GovernanceModule
                        /\ r.signed \subseteq Range(r.governance.authorities)
  /\ amendments \in Nat

\* Certificates link like with like: however late one arrives, whatever was amended in
\* between and whatever a relay mixed up, where it is accepted the asset is the same, with
\* the same rules in the same order and the same authorities, as where it was built.
LinksMatch ==
  \A link \in links :
    /\ link.origin.id = link.destination.id
    /\ DOMAIN link.origin.rules = DOMAIN link.destination.rules
    /\ \A i \in DOMAIN link.origin.rules :
         LET here == link.origin.rules[i]
             there == link.destination.rules[i]
         IN  here.id = there.id /\ here.type = there.type /\ here.priority = there.priority
    /\ link.origin.governance.authorities = link.destination.governance.authorities

IsRollback(r) == r.override.action = "EMERGENCY_ROLLBACK"

\* No two rollbacks of linked assets are co-signed behind each other's back: one carried
\* out under the authorities a certificate was built with, the other under those it was
\* accepted with, on any chains at any times, share a third of the authorities.
LinkedRollbacksOverlap ==
  \A link \in links : \A r, s \in {x \in records : IsRollback(x)} :
    /\ r.governance.authorities = link.origin.governance.authorities
    /\ s.governance.authorities = link.destination.governance.authorities
    => 3 * Cardinality(r.signed \cap s.signed) >= Len(r.governance.authorities)

\* What makes both inductive: a certificate in flight carries the id of one built from
\* its origin, and every rollback on record had its quorum.
CidOfOrigin ==
  \A sent \in certificates :
    \E t \in Time : sent.cert.cid = BuildCrossChainCertificate(sent.origin, t).cid
QuorumsOnRecord ==
  \A r \in records : IsRollback(r) => Cardinality(r.signed) >= Required(r.governance)

-----------------------------------------------------------------------------
(* What the documents say, and the code does not do *)

\* "Compliance and governance configuration cannot be downgraded during cross-chain
\* transfer", and "StateHash mismatch SHALL reject transfer".  Each forbids this much: to
\* accept a certificate where the asset has both left the state it was certified in and
\* been given other rules or other governance.
ChangedAssetRefused ==
  \A link \in links :
    \/ link.origin.state = link.destination.state
    \/ /\ link.origin.rules = link.destination.rules
       /\ link.origin.governance = link.destination.governance
=============================================================================
