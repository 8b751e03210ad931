-------------------------- MODULE L3RS1AssetProofs --------------------------
(***************************************************************************)
(* Theorems about L3RS1Asset for every set of accounts, oracles and        *)
(* nonces, every word size and every fee rate the constructor accepts.     *)
(***************************************************************************)
EXTENDS L3RS1Asset, OperatorLemmas

\* A fee is a natural number: the divisor is never zero.
LEMMA FeeIsNat == ASSUME NEW amount \in Nat PROVE Fee(amount) \in Nat
<1>1. FeeRateBps \in Nat /\ BpsScale \in Nat \ {0}
  BY ParametersOK
<1>2. amount * FeeRateBps \in Nat
  BY <1>1
<1>3. \A p \in Nat, q \in Nat \ {0} : p \div q \in Nat
  OBVIOUS
<1>4. QED
  BY <1>1, <1>2, <1>3 DEF Fee

\* What the arithmetic guards of transfer() give: balances stay in range, and who
\* gains or loses how much.
LEMMA TransferArithmetic ==
  ASSUME TypeOK, NEW s \in Account, NEW r \in Account, NEW amount \in Uint,
         ArithmeticOK(s, r, amount)
  PROVE  /\ Fee(amount) \in Nat /\ Fee(amount) <= amount /\ amount <= balances[s]
         /\ BalancesAfter(s, r, amount) \in [Account -> Uint]
         /\ \A a \in Account \ {s, r} : BalancesAfter(s, r, amount)[a] = balances[a]
         /\ s # r => /\ BalancesAfter(s, r, amount)[s] = balances[s] - amount
                     /\ BalancesAfter(s, r, amount)[r] = balances[r] + (amount - Fee(amount))
         /\ s = r => BalancesAfter(s, r, amount)[s] = balances[s] - Fee(amount)
<1>1. /\ balances \in [Account -> Uint] /\ MaxUint \in Nat /\ amount \in Nat
      /\ Fee(amount) \in Nat
  BY FeeIsNat, ParametersOK DEF TypeOK, Uint
<1>2. /\ balances[s] \in Nat /\ balances[s] <= MaxUint
      /\ balances[r] \in Nat /\ balances[r] <= MaxUint
  BY <1>1 DEF Uint
<1>3. amount <= balances[s] /\ Fee(amount) <= amount
  BY DEF ArithmeticOK
<1>4. CASE s # r
  <2>1. Debited(s, amount)[r] = balances[r]
    BY <1>1, <1>4 DEF Debited
  <2>2. balances[r] + (amount - Fee(amount)) <= MaxUint
    BY <2>1 DEF ArithmeticOK
  <2>3. BalancesAfter(s, r, amount)
          = [a \in Account |-> IF a = r THEN balances[r] + (amount - Fee(amount))
                               ELSE IF a = s THEN balances[s] - amount ELSE balances[a]]
    BY <1>1, <1>4 DEF BalancesAfter, Debited
  <2>4. QED
    BY <1>1, <1>2, <1>3, <1>4, <2>2, <2>3 DEF Uint
<1>5. CASE s = r
  <2>1. Debited(s, amount)[r] = balances[s] - amount
    BY <1>1, <1>5 DEF Debited
  <2>2. (balances[s] - amount) + (amount - Fee(amount)) = balances[s] - Fee(amount)
    BY <1>1, <1>2
  <2>3. BalancesAfter(s, r, amount)
          = [a \in Account |-> IF a = s THEN (balances[s] - amount) + (amount - Fee(amount))
                               ELSE balances[a]]
    BY <1>1, <1>5 DEF BalancesAfter, Debited
  <2>4. QED
    BY <1>1, <1>2, <1>3, <1>5, <2>2, <2>3 DEF Uint
<1>6. QED
  BY <1>4, <1>5

-----------------------------------------------------------------------------
\* Type correctness: in particular every balance stays a uint256, whatever is minted,
\* transferred or withheld, and the two history counters stay natural numbers.
THEOREM TypeCorrect == Spec => []TypeOK
<1>1. Init => TypeOK
  BY ParametersOK DEF Init, TypeOK, DeployedState, AssetState, Address, Uint, IdentityStatus
<1>2. TypeOK /\ [Next]_vars => TypeOK'
  <2> SUFFICES ASSUME TypeOK, [Next]_vars PROVE TypeOK'
    OBVIOUS
  <2>1. ASSUME NEW sender \in Account, NEW oracle \in Address,
               SetIdentityOracle(sender, oracle)
        PROVE  TypeOK'
    BY <2>1 DEF SetIdentityOracle, TypeOK, history
  <2>2. ASSUME NEW sender \in Account, NEW oracle \in Address,
               SetComplianceOracle(sender, oracle)
        PROVE  TypeOK'
    BY <2>2 DEF SetComplianceOracle, TypeOK, history
  <2>3. ASSUME NEW sender \in Account, NEW holder \in Account, NEW status \in IdentityStatus,
               SetIdentityStatus(sender, holder, status)
        PROVE  TypeOK'
    BY <2>3 DEF SetIdentityStatus, TypeOK
  <2>4. ASSUME NEW sender \in Account, Activate(sender)
        PROVE  TypeOK'
    BY <2>4 DEF Activate, TypeOK, AssetState, history
  <2>5. ASSUME NEW oracle \in Oracle, NEW answer \in BOOLEAN, SetResult(oracle, answer)
        PROVE  TypeOK'
    BY <2>5 DEF SetResult, TypeOK, storage, history
  <2>6. ASSUME NEW s \in Account, NEW r \in Account, NEW amount \in Uint, NEW nonce \in Nonce,
               Transfer(s, r, amount, nonce)
        PROVE  TypeOK'
    <3>1. ArithmeticOK(s, r, amount)
      BY <2>6 DEF Transfer
    <3>2. BalancesAfter(s, r, amount) \in [Account -> Uint] /\ Fee(amount) \in Nat
      BY <3>1, TransferArithmetic
    <3>3. QED
      BY <2>6, <3>2 DEF Transfer, NoncesAfter, TypeOK
  <2>7. ASSUME NEW sender \in Account, NEW to \in Account, NEW amount \in Uint,
               Mint(sender, to, amount)
        PROVE  TypeOK'
    <3>1. balances[to] + amount \in Uint /\ minted + amount \in Nat
      BY <2>7, ParametersOK DEF Mint, TypeOK, Uint
    <3>2. QED
      BY <2>7, <3>1 DEF Mint, TypeOK
  <2>8. CASE UNCHANGED vars
    BY <2>8 DEF vars, storage, history, TypeOK
  <2>9. QED
    BY <2>1, <2>2, <2>3, <2>4, <2>5, <2>6, <2>7, <2>8 DEF Next, Sender, Administer
<1>3. QED
  BY <1>1, <1>2, PTL DEF Spec

-----------------------------------------------------------------------------
\* Value, nonces and counters move in two actions only: everything else, including a
\* change of oracle, of status or of the oracle's verdict, leaves them alone.
Still == UNCHANGED <<balances, usedNonces, settlements, minted, feesTaken>>

\* So a step transfers, mints or leaves them.
LEMMA StepKinds ==
  ASSUME [Next]_vars
  PROVE  \/ Still
         \/ \E s, r \in Account, amount \in Uint, nonce \in Nonce : Transfer(s, r, amount, nonce)
         \/ \E sender, to \in Account, amount \in Uint : Mint(sender, to, amount)
<1>1. ASSUME NEW sender \in Account, Administer(sender) PROVE Still
  BY <1>1 DEF Administer, SetIdentityOracle, SetComplianceOracle, SetIdentityStatus,
              Activate, Still, history
<1>2. ASSUME NEW oracle \in Oracle, NEW answer \in BOOLEAN, SetResult(oracle, answer)
      PROVE  Still
  BY <1>2 DEF SetResult, Still, storage, history
<1>3. CASE UNCHANGED vars
  BY <1>3 DEF vars, storage, history, Still
<1>4. QED
  BY <1>1, <1>2, <1>3 DEF Next, Sender

\* Replay protection: at every moment a nonce is marked exactly when one Transfer event
\* carries it, and no nonce ever carries two.
THEOREM NonceOnce == Spec => []NonceSettlesOnce
<1>1. Init => NonceSettlesOnce
  BY DEF Init, NonceSettlesOnce
<1>2. TypeOK /\ NonceSettlesOnce /\ [Next]_vars => NonceSettlesOnce'
  <2> SUFFICES ASSUME TypeOK, NonceSettlesOnce, [Next]_vars PROVE NonceSettlesOnce'
    OBVIOUS
  <2>1. CASE Still
    BY <2>1 DEF Still, NonceSettlesOnce
  <2>2. ASSUME NEW s \in Account, NEW r \in Account, NEW amount \in Uint, NEW nonce \in Nonce,
               Transfer(s, r, amount, nonce)
        PROVE  NonceSettlesOnce'
    <3>1. settlements[nonce] = 0
      BY <2>2 DEF Transfer, NonceSettlesOnce
    <3>2. QED
      BY <2>2, <3>1 DEF Transfer, NoncesAfter, NonceSettlesOnce, TypeOK
  <2>3. ASSUME NEW sender \in Account, NEW to \in Account, NEW amount \in Uint,
               Mint(sender, to, amount)
        PROVE  NonceSettlesOnce'
    BY <2>3 DEF Mint, NonceSettlesOnce
  <2>4. QED
    BY <2>1, <2>2, <2>3, StepKinds
<1>3. QED
  BY <1>1, <1>2, TypeCorrect, PTL DEF Spec

\* A credit moves the sum of the balances by the amount credited.
LEMMA CreditSum ==
  ASSUME NEW b \in [Account -> Int], NEW a \in Account, NEW x \in Int
  PROVE  /\ SumFunction([b EXCEPT ![a] = @ + x]) = SumFunction(b) + x
         /\ SumFunction(b) \in Int
<1>1. IsFiniteSet(Account) /\ DOMAIN b = Account /\ \A c \in Account : b[c] \in Int
  BY ParametersOK
<1>2. SumFunction(b) \in Int
  BY <1>1, SumType DEF SumFunction
<1>3. b[a] \in Int /\ b[a] + x \in Int
  OBVIOUS
<1>4. SumFunction([b EXCEPT ![a] = b[a] + x]) = (SumFunction(b) - b[a]) + (b[a] + x)
  BY <1>1, <1>3, SumExcept
<1>5. QED
  BY <1>2, <1>3, <1>4

\* Supply: every unit minted is held by an account or was withheld as a fee.  A transfer
\* takes from the sum of the balances exactly its fee, its two parties one account or two.
THEOREM SupplyIsConserved == Spec => []SupplyConserved
<1>1. Init => SupplyConserved
  <2> SUFFICES ASSUME Init PROVE SupplyConserved
    OBVIOUS
  <2>1. \A a \in Account : balances[a] \in {0}
    BY DEF Init
  <2>2. DOMAIN balances = Account /\ IsFiniteSet(Account) /\ \A t, u \in {0} : t + u \in {0}
    BY ParametersOK DEF Init
  <2>3. SumFunction(balances) \in {0}
    BY <2>1, <2>2, SumType DEF SumFunction
  <2>4. QED
    BY <2>3 DEF Init, SupplyConserved
<1>2. TypeOK /\ SupplyConserved /\ [Next]_vars => SupplyConserved'
  <2> SUFFICES ASSUME TypeOK, SupplyConserved, [Next]_vars PROVE SupplyConserved'
    OBVIOUS
  <2>1. balances \in [Account -> Int] /\ minted \in Nat /\ feesTaken \in Nat
    BY ParametersOK DEF TypeOK, Uint
  <2>2. ASSUME NEW s \in Account, NEW r \in Account, NEW amount \in Uint, NEW nonce \in Nonce,
               Transfer(s, r, amount, nonce)
        PROVE  SupplyConserved'
    <3> DEFINE net == amount - Fee(amount)
               debit == 0 - amount
    <3>1. /\ feesTaken' = feesTaken + Fee(amount) /\ minted' = minted
          /\ balances' = [Debited(s, amount) EXCEPT ![r] = @ + net]
      BY <2>2 DEF Transfer, BalancesAfter
    <3>2. amount \in Int /\ Fee(amount) \in Int /\ net \in Int /\ debit \in Int
      BY FeeIsNat DEF Uint
    <3>3. balances[s] - amount = balances[s] + debit
      BY <2>1, <3>2
    <3>4. Debited(s, amount) = [balances EXCEPT ![s] = @ + debit]
      BY <3>3, Zenon DEF Debited
    <3>5. /\ SumFunction(Debited(s, amount)) = SumFunction(balances) + debit
          /\ SumFunction(balances) \in Int /\ Debited(s, amount) \in [Account -> Int]
      <4> HIDE DEF debit
      <4>1. /\ SumFunction([balances EXCEPT ![s] = @ + debit]) = SumFunction(balances) + debit
            /\ SumFunction(balances) \in Int
        BY <2>1, <3>2, CreditSum
      <4>2. [balances EXCEPT ![s] = @ + debit] \in [Account -> Int]
        BY <2>1, <3>2
      <4>3. QED
        BY <3>4, <4>1, <4>2, Zenon
    <3>6. SumFunction(balances') = SumFunction(Debited(s, amount)) + net
      <4> HIDE DEF net
      <4>1. QED
        BY <3>1, <3>2, <3>5, CreditSum
    <3>7. QED
      BY <2>1, <3>1, <3>2, <3>5, <3>6 DEF SupplyConserved
  <2>3. ASSUME NEW sender \in Account, NEW to \in Account, NEW amount \in Uint,
               Mint(sender, to, amount)
        PROVE  SupplyConserved'
    <3>1. amount \in Int /\ minted' = minted + amount /\ feesTaken' = feesTaken
      BY <2>3 DEF Mint, Uint
    <3>2. SumFunction(balances') = SumFunction(balances) + amount /\ SumFunction(balances) \in Int
      BY <2>1, <2>3, <3>1, CreditSum DEF Mint
    <3>3. QED
      BY <2>1, <3>1, <3>2 DEF SupplyConserved
  <2>4. CASE Still
    BY <2>4 DEF Still, SupplyConserved
  <2>5. QED
    BY <2>2, <2>3, <2>4, StepKinds
<1>3. QED
  BY <1>1, <1>2, TypeCorrect, PTL DEF Spec

\* Value never reaches an account that was neither declared VALID nor minted to: the
\* receiver's status is tested in the state the transfer settles in.
THEOREM HoldersEntitled == Spec => []HoldersWereEntitled
<1>1. Init => HoldersWereEntitled
  BY DEF Init, HoldersWereEntitled
<1>2. TypeOK /\ HoldersWereEntitled /\ [Next]_vars => HoldersWereEntitled'
  <2> SUFFICES ASSUME TypeOK, HoldersWereEntitled, [Next]_vars,
                      NEW a \in Account, balances'[a] > 0 \/ identityStatusOf'[a] = "VALID"
               PROVE  a \in entitled'
    BY DEF HoldersWereEntitled
  <2>1. ASSUME NEW sender \in Account, NEW holder \in Account, NEW status \in IdentityStatus,
               SetIdentityStatus(sender, holder, status)
        PROVE  a \in entitled'
    BY <2>1 DEF SetIdentityStatus, HoldersWereEntitled, TypeOK
  <2>2. ASSUME NEW s \in Account, NEW r \in Account, NEW amount \in Uint, NEW nonce \in Nonce,
               Transfer(s, r, amount, nonce)
        PROVE  a \in entitled'
    <3>1. identityStatusOf[s] = "VALID" /\ identityStatusOf[r] = "VALID"
      BY <2>2 DEF Transfer, Evaluate
    <3>2. \A b \in Account \ {s, r} : balances'[b] = balances[b]
      BY <2>2, TransferArithmetic DEF Transfer
    <3>3. UNCHANGED <<identityStatusOf, entitled>>
      BY <2>2 DEF Transfer
    <3>4. QED
      BY <3>1, <3>2, <3>3 DEF HoldersWereEntitled
  <2>3. ASSUME NEW sender \in Account, NEW to \in Account, NEW amount \in Uint,
               Mint(sender, to, amount)
        PROVE  a \in entitled'
    BY <2>3 DEF Mint, HoldersWereEntitled, TypeOK
  <2>4. CASE UNCHANGED <<balances, identityStatusOf, entitled>>
    BY <2>4 DEF HoldersWereEntitled
  <2>5. QED
    BY <2>1, <2>2, <2>3, <2>4 DEF Next, Sender, Administer, SetIdentityOracle, SetComplianceOracle,
         Activate, SetResult, vars, storage, history
<1>3. QED
  BY <1>1, <1>2, TypeCorrect, PTL DEF Spec

-----------------------------------------------------------------------------
\* Checks precede mutation: no step debits an account unless the asset is ACTIVE, the
\* account VALID and the wired oracle allowing, all in the state the step starts from.
THEOREM DebitsCleared == Spec => DebitsAreCleared
<1>1. ASSUME TypeOK, [Next]_vars, NEW a \in Account, balances'[a] < balances[a]
      PROVE  /\ state = "ACTIVE"
             /\ identityStatusOf[a] = "VALID"
             /\ complianceOracle \in Oracle /\ oracleAllows[complianceOracle]
  <2>1. balances[a] \in Nat
    BY <1>1, ParametersOK DEF TypeOK, Uint
  <2>2. ~Still
    BY <1>1, <2>1 DEF Still
  <2>3. ASSUME NEW s \in Account, NEW r \in Account, NEW amount \in Uint, NEW nonce \in Nonce,
               Transfer(s, r, amount, nonce)
        PROVE  /\ state = "ACTIVE"
               /\ identityStatusOf[a] = "VALID"
               /\ complianceOracle \in Oracle /\ oracleAllows[complianceOracle]
    <3>1. a \in {s, r}
      BY <1>1, <2>1, <2>3, TransferArithmetic DEF Transfer
    <3>2. QED
      BY <3>1, <2>3 DEF Transfer, Evaluate, OracleAllows
  <2>4. ASSUME NEW sender \in Account, NEW to \in Account, NEW amount \in Uint,
               Mint(sender, to, amount)
        PROVE  FALSE
    BY <1>1, <2>1, <2>4, ParametersOK DEF Mint, TypeOK, Uint
  <2>5. QED
    BY <1>1, <2>2, <2>3, <2>4, StepKinds
<1>2. TypeOK /\ [Next]_vars =>
        [\A a \in Account :
           balances'[a] < balances[a] =>
             /\ state = "ACTIVE"
             /\ identityStatusOf[a] = "VALID"
             /\ complianceOracle \in Oracle /\ oracleAllows[complianceOracle]]_vars
  BY <1>1
<1>3. QED
  BY <1>2, TypeCorrect, PTL DEF Spec, DebitsAreCleared

\* A holder that is not VALID is frozen out: its balance changes only in a mint to it,
\* and supply grows by exactly that much.
THEOREM UnclearedFrozen == Spec => UnclearedBalancesOnlyGrowByMint
<1>1. ASSUME TypeOK, [Next]_vars, NEW a \in Account,
             identityStatusOf[a] # "VALID", balances'[a] # balances[a]
      PROVE  balances'[a] > balances[a] /\ balances'[a] - balances[a] = minted' - minted
  <2>1. ASSUME NEW s \in Account, NEW r \in Account, NEW amount \in Uint, NEW nonce \in Nonce,
               Transfer(s, r, amount, nonce)
        PROVE  FALSE
    <3>1. a \notin {s, r}
      BY <1>1, <2>1 DEF Transfer, Evaluate
    <3>2. QED
      BY <1>1, <2>1, <3>1, TransferArithmetic DEF Transfer
  <2>2. ASSUME NEW sender \in Account, NEW to \in Account, NEW amount \in Uint,
               Mint(sender, to, amount)
        PROVE  balances'[a] > balances[a] /\ balances'[a] - balances[a] = minted' - minted
    <3>1. a = to /\ balances'[a] = balances[a] + amount /\ minted' = minted + amount
      BY <1>1, <2>2 DEF Mint, TypeOK
    <3>2. balances[a] \in Nat /\ minted \in Nat /\ amount \in Nat
      BY ParametersOK, <1>1 DEF TypeOK, Uint
    <3>3. QED
      BY <1>1, <3>1, <3>2
  <2>3. QED
    BY <1>1, <2>1, <2>2, StepKinds DEF Still
<1>2. TypeOK /\ [Next]_vars =>
        [\A a \in Account :
           identityStatusOf[a] # "VALID" /\ balances'[a] # balances[a] =>
             balances'[a] > balances[a] /\ balances'[a] - balances[a] = minted' - minted]_vars
  BY <1>1
<1>3. QED
  BY <1>2, TypeCorrect, PTL DEF Spec, UnclearedBalancesOnlyGrowByMint

\* A settlement is local and loses nothing but the fee: third accounts keep their
\* balances, the receiver never loses, and a transfer to oneself costs the fee alone.
THEOREM SettlementLocal == Spec => SettlementIsLocal
<1> DEFINE Local ==
      usedNonces' # usedNonces =>
       \E s, r \in Account :
         /\ \A a \in Account \ {s, r} : balances'[a] = balances[a]
         /\ s # r => /\ balances'[s] + balances'[r] + (feesTaken' - feesTaken)
                          = balances[s] + balances[r]
                     /\ balances'[r] >= balances[r]
         /\ s = r => balances'[s] + (feesTaken' - feesTaken) = balances[s]
<1>1. ASSUME TypeOK, [Next]_vars PROVE Local
  <2>1. CASE Still
    BY <2>1 DEF Still
  <2>2. ASSUME NEW sender \in Account, NEW to \in Account, NEW amount \in Uint,
               Mint(sender, to, amount)
        PROVE  Local
    BY <2>2 DEF Mint
  <2>3. ASSUME NEW s \in Account, NEW r \in Account, NEW amount \in Uint, NEW nonce \in Nonce,
               Transfer(s, r, amount, nonce)
        PROVE  Local
    <3>1. ArithmeticOK(s, r, amount) /\ balances' = BalancesAfter(s, r, amount)
      BY <2>3 DEF Transfer
    <3>2. feesTaken' = feesTaken + Fee(amount) /\ feesTaken \in Nat
      BY <1>1, <2>3 DEF Transfer, TypeOK
    <3>3. balances[s] \in Nat /\ balances[r] \in Nat /\ amount \in Nat
      BY <1>1, ParametersOK DEF TypeOK, Uint
    <3>4. Fee(amount) \in Nat /\ Fee(amount) <= amount /\ amount <= balances[s]
      BY <1>1, <3>1, TransferArithmetic
    <3>5. \A a \in Account \ {s, r} : balances'[a] = balances[a]
      BY <1>1, <3>1, TransferArithmetic
    <3>6. s # r => /\ balances'[s] = balances[s] - amount
                   /\ balances'[r] = balances[r] + (amount - Fee(amount))
      BY <1>1, <3>1, TransferArithmetic
    <3>7. s = r => balances'[s] = balances[s] - Fee(amount)
      BY <1>1, <3>1, TransferArithmetic
    <3>8. s # r => /\ balances'[s] + balances'[r] + (feesTaken' - feesTaken)
                        = balances[s] + balances[r]
                   /\ balances'[r] >= balances[r]
      BY <3>2, <3>3, <3>4, <3>6
    <3>9. s = r => balances'[s] + (feesTaken' - feesTaken) = balances[s]
      BY <3>2, <3>3, <3>4, <3>7
    <3>10. QED
      BY <3>5, <3>8, <3>9
  <2>4. QED
    BY <1>1, <2>1, <2>2, <2>3, StepKinds
<1>2. TypeOK /\ [Next]_vars => [Local]_vars
  BY <1>1
<1>3. QED
  BY <1>2, TypeCorrect, PTL DEF Spec, SettlementIsLocal

-----------------------------------------------------------------------------
\* The contract implements the abstract ledger: every call that succeeds opens it,
\* issues, settles or reclassifies, and settles only what the ledger would.
THEOREM LedgerImplemented == Spec => ImplementsLedger
<1>1. Init => Ledger!Init
  BY ParametersOK DEF Init, DeployedState, Ledger!Init, OracleAllows
<1>2. TypeOK /\ TypeOK' /\ [Next]_vars => [Ledger!Next]_(Ledger!vars)
  <2> SUFFICES ASSUME TypeOK, TypeOK', [Next]_vars PROVE [Ledger!Next]_(Ledger!vars)
    OBVIOUS
  <2>1. ASSUME UNCHANGED <<state, balances, usedNonces>> PROVE Ledger!Next
    <3>1. {a \in Account : identityStatusOf'[a] = "VALID"} \in SUBSET Account
      OBVIOUS
    <3>2. OracleAllows' \in BOOLEAN
      BY DEF OracleAllows, TypeOK
    <3>3. QED
      BY <2>1, <3>1, <3>2 DEF Ledger!Next, Ledger!Reclassify
  <2>2. ASSUME NEW sender \in Account, Activate(sender) PROVE Ledger!Next
    BY <2>2 DEF Activate, history, Ledger!Next, Ledger!Open, OracleAllows
  <2>3. ASSUME NEW sender \in Account, NEW to \in Account, NEW amount \in Uint,
               Mint(sender, to, amount)
        PROVE  Ledger!Next
    <3>1. balances[to] + amount \in Uint
      BY <2>3, ParametersOK DEF Mint, TypeOK, Uint
    <3>2. Ledger!Issue(to, amount)
      BY <2>3, <3>1 DEF Mint, Ledger!Issue, OracleAllows
    <3>3. QED
      BY <3>2 DEF Ledger!Next
  <2>4. ASSUME NEW s \in Account, NEW r \in Account, NEW amount \in Uint, NEW nonce \in Nonce,
               Transfer(s, r, amount, nonce)
        PROVE  Ledger!Next
    <3> DEFINE net == amount - Fee(amount)
    <3>1. ArithmeticOK(s, r, amount) /\ balances' = BalancesAfter(s, r, amount)
      BY <2>4 DEF Transfer
    <3>2. /\ amount \in Nat /\ Fee(amount) \in Nat /\ Fee(amount) <= amount
          /\ amount <= balances[s]
      BY <3>1, TransferArithmetic DEF Uint
    <3>3. net \in Uint /\ net <= amount
      BY <3>2, ParametersOK DEF Uint
    <3>4. state = "ACTIVE" /\ OracleAllows /\ nonce \notin usedNonces
      BY <2>4 DEF Transfer, Evaluate
    <3>5. {s, r} \subseteq {a \in Account : identityStatusOf[a] = "VALID"}
      BY <2>4 DEF Transfer, Evaluate
    <3>6. Debited(s, amount)[r] + net \in Uint
      <4>1. balances' \in [Account -> Uint]
        BY DEF TypeOK
      <4>2. BalancesAfter(s, r, amount)[r] = Debited(s, amount)[r] + net
        BY DEF BalancesAfter, Debited, TypeOK
      <4>3. QED
        BY <3>1, <4>1, <4>2
    <3>7. UNCHANGED <<state, identityStatusOf, complianceOracle, oracleAllows>>
      BY <2>4 DEF Transfer
    <3>8. Ledger!Settle(s, r, amount, net, nonce)
      BY <2>4, <3>1, <3>2, <3>3, <3>4, <3>5, <3>6, <3>7
         DEF Ledger!Settle, Transfer, NoncesAfter, BalancesAfter, Debited, OracleAllows
    <3>9. QED
      BY <3>3, <3>8 DEF Ledger!Next
  <2>5. CASE UNCHANGED vars
    BY <2>1, <2>5 DEF vars, storage
  <2>6. QED
    BY <2>1, <2>2, <2>3, <2>4, <2>5 DEF Next, Sender, Administer, SetIdentityOracle,
         SetComplianceOracle, SetIdentityStatus, SetResult, storage
<1>3. QED
  BY <1>1, <1>2, TypeCorrect, PTL DEF Spec, ImplementsLedger, Ledger!Spec
=============================================================================
