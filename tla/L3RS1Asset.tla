----------------------------- MODULE L3RS1Asset -----------------------------
(***************************************************************************)
(* The on-chain asset contract, L3RS1Asset.sol: the one program of the     *)
(* repository that keeps state.  One action per external function that     *)
(* changes storage; a call that reverts changes nothing, so an action is   *)
(* enabled exactly when the call succeeds.  Transactions of all senders    *)
(* interleave in any order, which is all a block producer promises.        *)
(*                                                                         *)
(* block.timestamp enters only hashes here and is left out: a transaction  *)
(* id is told apart by its other fields, which is the harder case.         *)
(***************************************************************************)
EXTENDS Naturals, FiniteSets, Functions

CONSTANTS
  Account,      \* addresses that may hold a balance: address(0) may be one of them
  Oracle,       \* addresses where a contract implements IComplianceOracle
  NoAddress,    \* address(0), nobody's msg.sender
  Issuer,       \* the account that deployed the contract
  Nonce,        \* the bytes32 values callers pass as transfer nonces
  MaxUint,      \* the largest uint256
  FeeRateBps,   \* the constructor's rate: any uint16, not only 0..BpsScale
  BpsScale      \* the divisor of the fee, 10_000 in the code

ASSUME ParametersOK ==
  /\ IsFiniteSet(Account)                 \* an address is 20 bytes
  /\ Issuer \in Account /\ Issuer # NoAddress
  /\ NoAddress \notin Oracle
  /\ MaxUint \in Nat
  /\ FeeRateBps \in Nat
  /\ BpsScale \in Nat \ {0}

VARIABLES
  state,             \* _state
  identityOracle,
  complianceOracle,
  usedNonces,        \* the nonces whose flag in _usedNonces is set
  balances,          \* _balances
  identityStatusOf,
  oracleAllows,      \* per oracle contract, the answer its evaluate() gives
  \* History: what happened, which no code reads.
  settlements,       \* per nonce, how many Transfer events it has been used for
  minted,            \* everything mint() ever credited
  feesTaken,         \* everything transfer() withheld as fees
  entitled           \* accounts once VALID or once minted to

storage == <<state, identityOracle, complianceOracle, usedNonces, balances, identityStatusOf>>
history == <<settlements, minted, feesTaken, entitled>>
vars == <<storage, oracleAllows, history>>

Address == Account \cup Oracle \cup {NoAddress}
Sender == Account \ {NoAddress}
IdentityStatus == {"UNKNOWN", "VALID", "EXPIRED", "REVOKED"}
AssetState ==
  {"ISSUED", "ACTIVE", "RESTRICTED", "FROZEN", "SUSPENDED", "REDEEMED", "BURNED"}
Uint == 0 .. MaxUint

TypeOK ==
  /\ state \in AssetState
  /\ identityOracle \in Address
  /\ complianceOracle \in Address
  /\ usedNonces \subseteq Nonce
  /\ balances \in [Account -> Uint]
  /\ identityStatusOf \in [Account -> IdentityStatus]
  /\ oracleAllows \in [Oracle -> BOOLEAN]
  /\ settlements \in [Nonce -> Nat]
  /\ minted \in Nat
  /\ feesTaken \in Nat
  /\ entitled \subseteq Account

DeployedState == "ISSUED"

\* The constructor, and oracle contracts that start out allowing.
Init ==
  /\ state = DeployedState
  /\ identityOracle = NoAddress
  /\ complianceOracle = NoAddress
  /\ usedNonces = {}
  /\ balances = [a \in Account |-> 0]
  /\ identityStatusOf = [a \in Account |-> "UNKNOWN"]
  /\ oracleAllows = [o \in Oracle |-> TRUE]
  /\ settlements = [n \in Nonce |-> 0]
  /\ minted = 0
  /\ feesTaken = 0
  /\ entitled = {}

-----------------------------------------------------------------------------
(* Administration *)

OnlyIssuer(sender) == sender = Issuer

SetIdentityOracle(sender, oracle) ==
  /\ OnlyIssuer(sender)
  /\ identityOracle' = oracle
  /\ UNCHANGED <<state, complianceOracle, usedNonces, balances, identityStatusOf,
                 oracleAllows, history>>

SetComplianceOracle(sender, oracle) ==
  /\ OnlyIssuer(sender)
  /\ complianceOracle' = oracle
  /\ UNCHANGED <<state, identityOracle, usedNonces, balances, identityStatusOf,
                 oracleAllows, history>>

SetIdentityStatus(sender, holder, status) ==
  /\ sender = identityOracle
  /\ identityStatusOf' = [identityStatusOf EXCEPT ![holder] = status]
  /\ entitled' = IF status = "VALID" THEN entitled \cup {holder} ELSE entitled
  /\ UNCHANGED <<state, identityOracle, complianceOracle, usedNonces, balances,
                 oracleAllows, settlements, minted, feesTaken>>

Activate(sender) ==
  /\ OnlyIssuer(sender)
  /\ state = "ISSUED"
  /\ state' = "ACTIVE"
  /\ UNCHANGED <<identityOracle, complianceOracle, usedNonces, balances, identityStatusOf,
                 oracleAllows, history>>

\* The oracle contract's operator changes its verdict between any two transactions.
SetResult(oracle, answer) ==
  /\ oracleAllows' = [oracleAllows EXCEPT ![oracle] = answer]
  /\ UNCHANGED <<storage, history>>

-----------------------------------------------------------------------------
(* Compliance *)

\* Calling an address where no oracle contract lives reverts: nothing is allowed.
OracleAllows == complianceOracle \in Oracle /\ oracleAllows[complianceOracle]

\* _evaluate with the receiver's identity test forgotten (a mutant).
EvaluateSenderOnly(sender, receiver) ==
  IF state # "ACTIVE" THEN "STATE"
  ELSE IF identityStatusOf[sender] # "VALID" THEN "ID_SENDER"
  ELSE IF ~OracleAllows THEN "ORACLE"
  ELSE "ALLOWED"

\* _evaluate that lets an asset without an oracle trade freely (a mutant).
EvaluateOpenWithoutOracle(sender, receiver) ==
  IF state # "ACTIVE" THEN "STATE"
  ELSE IF identityStatusOf[sender] # "VALID" THEN "ID_SENDER"
  ELSE IF identityStatusOf[receiver] # "VALID" THEN "ID_RECEIVER"
  ELSE IF complianceOracle # NoAddress /\ ~OracleAllows THEN "ORACLE"
  ELSE "ALLOWED"

\* _evaluate: the first gate that blocks, in the order the code tests them, or
\* "ALLOWED".  checkCompliance returns this verdict and changes nothing.
Evaluate(sender, receiver) ==
  IF state # "ACTIVE" THEN "STATE"
  ELSE IF identityStatusOf[sender] # "VALID" THEN "ID_SENDER"
  ELSE IF identityStatusOf[receiver] # "VALID" THEN "ID_RECEIVER"
  ELSE IF complianceOracle = NoAddress THEN "NO_ORACLE"
  ELSE IF ~OracleAllows THEN "ORACLE"
  ELSE "ALLOWED"

-----------------------------------------------------------------------------
(* Transfer and supply *)

Fee(amount) == (amount * FeeRateBps) \div BpsScale

Debited(sender, amount) == [balances EXCEPT ![sender] = @ - amount]

\* A plausible bug: the receiver's balance is read before the sender is debited, so
\* a transfer to oneself writes back the stale sum (a mutant).
BalancesFromStaleRead(sender, receiver, amount) ==
  [Debited(sender, amount) EXCEPT ![receiver] = balances[receiver] + (amount - Fee(amount))]

\* The debit is stored before the receiver's balance is read: the two are one
\* account when a holder pays itself.
BalancesAfter(sender, receiver, amount) ==
  [Debited(sender, amount) EXCEPT ![receiver] = @ + (amount - Fee(amount))]

\* Unchecked arithmetic (a mutant).
UncheckedArithmetic(sender, receiver, amount) == balances[sender] >= amount

\* The balance test, then the reverts of checked arithmetic: the product, the net
\* amount (a rate above BpsScale makes the fee exceed it), the receiver's sum.
ArithmeticOK(sender, receiver, amount) ==
  /\ balances[sender] >= amount
  /\ amount * FeeRateBps <= MaxUint
  /\ Fee(amount) <= amount
  /\ Debited(sender, amount)[receiver] + (amount - Fee(amount)) <= MaxUint

\* The nonce is never marked (a mutant).
NoncesUnmarked(nonce) == usedNonces

NoncesAfter(nonce) == usedNonces \cup {nonce}

Transfer(sender, receiver, amount, nonce) ==
  /\ state = "ACTIVE"
  /\ nonce \notin usedNonces
  /\ Evaluate(sender, receiver) = "ALLOWED"
  /\ ArithmeticOK(sender, receiver, amount)
  /\ usedNonces' = NoncesAfter(nonce)
  /\ balances' = BalancesAfter(sender, receiver, amount)
  /\ settlements' = [settlements EXCEPT ![nonce] = @ + 1]
  /\ feesTaken' = feesTaken + Fee(amount)
  /\ UNCHANGED <<state, identityOracle, complianceOracle, identityStatusOf,
                 oracleAllows, minted, entitled>>

Mint(sender, to, amount) ==
  /\ OnlyIssuer(sender)
  /\ state \in {"ISSUED", "ACTIVE"}
  /\ balances[to] + amount <= MaxUint
  /\ balances' = [balances EXCEPT ![to] = @ + amount]
  /\ minted' = minted + amount
  /\ entitled' = entitled \cup {to}
  /\ UNCHANGED <<state, identityOracle, complianceOracle, usedNonces, identityStatusOf,
                 oracleAllows, settlements, feesTaken>>

-----------------------------------------------------------------------------
Administer(sender) ==
  \/ \E oracle \in Address :
       SetIdentityOracle(sender, oracle) \/ SetComplianceOracle(sender, oracle)
  \/ \E holder \in Account, status \in IdentityStatus :
       SetIdentityStatus(sender, holder, status)
  \/ Activate(sender)

Next ==
  \/ \E sender \in Sender : Administer(sender)
  \/ \E oracle \in Oracle, answer \in BOOLEAN : SetResult(oracle, answer)
  \/ \E sender \in Sender, receiver \in Account, amount \in Uint, nonce \in Nonce :
       Transfer(sender, receiver, amount, nonce)
  \/ \E sender \in Sender, to \in Account, amount \in Uint : Mint(sender, to, amount)

Spec == Init /\ [][Next]_vars

-----------------------------------------------------------------------------
(* Properties *)

\* Supply: what the issuer minted is what the accounts hold plus what transfers
\* withheld as fees (which transfer() credits to nobody).  A transfer to oneself, a
\* zero amount and a rate of 100% included.
SupplyConserved == SumFunction(balances) + feesTaken = minted

\* Replay: a nonce is marked exactly when one Transfer event was emitted for it, and no
\* nonce settles twice.  A call that reverts therefore leaves its nonce free for a retry.
NonceSettlesOnce ==
  \A n \in Nonce : settlements[n] = IF n \in usedNonces THEN 1 ELSE 0

\* Identity gates settlement: value is only ever held by accounts that the identity
\* oracle once declared VALID or that the issuer minted to.
HoldersWereEntitled ==
  \A a \in Account : balances[a] > 0 \/ identityStatusOf[a] = "VALID" => a \in entitled

\* Checks precede mutation: a step that lowers a balance finds, in the very state it
\* starts from, the asset ACTIVE, the debited account VALID and the oracle then wired
\* allowing.  An answer checkCompliance gave earlier counts for nothing.
DebitsAreCleared ==
  [][\A a \in Account :
       balances'[a] < balances[a] =>
         /\ state = "ACTIVE"
         /\ identityStatusOf[a] = "VALID"
         /\ complianceOracle \in Oracle /\ oracleAllows[complianceOracle]]_vars

\* A holder whose identity is not VALID is frozen out: its balance can only grow, only
\* by a mint, and total supply grows with it by as much.
UnclearedBalancesOnlyGrowByMint ==
  [][\A a \in Account :
       identityStatusOf[a] # "VALID" /\ balances'[a] # balances[a] =>
         balances'[a] > balances[a] /\ balances'[a] - balances[a] = minted' - minted]_vars

\* A step that settles anything settles one nonce and touches two accounts at most, and
\* what leaves the sender is what reaches the receiver plus the fee.
SettlementIsLocal ==
  [][usedNonces' # usedNonces =>
       \E s, r \in Account :
         /\ \A a \in Account \ {s, r} : balances'[a] = balances[a]
         /\ s # r => /\ balances'[s] + balances'[r] + (feesTaken' - feesTaken)
                          = balances[s] + balances[r]
                     /\ balances'[r] >= balances[r]
         /\ s = r => balances'[s] + (feesTaken' - feesTaken) = balances[s]]_vars

\* The contract implements the abstract ledger: identity statuses are clearances, the
\* wired oracle's answer is the gate.
Ledger == INSTANCE RegulatedLedger WITH
  Id <- Nonce,
  Amount <- Uint,
  trading <- state = "ACTIVE",
  cleared <- {a \in Account : identityStatusOf[a] = "VALID"},
  gateOpen <- OracleAllows,
  holdings <- balances,
  spent <- usedNonces
ImplementsLedger == Ledger!Spec
=============================================================================
