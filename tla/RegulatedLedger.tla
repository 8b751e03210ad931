--------------------------- MODULE RegulatedLedger ---------------------------
(***************************************************************************)
(* What L3RS1Asset promises its holders, without saying how: a ledger that *)
(* opens once, moves value only between cleared parties while its gate is  *)
(* open, settles an id at most once, and never hands the receiver more     *)
(* than the sender gives up.  Who clears parties and who works the gate is *)
(* left open: both may change at any moment.                               *)
(***************************************************************************)
EXTENDS Naturals

CONSTANTS
  Account,
  Id,          \* what identifies a settlement
  Amount       \* the amounts holdings can take

VARIABLES
  trading,     \* has the ledger opened
  cleared,     \* the parties that may deal now
  gateOpen,    \* is the outside evaluator letting transfers through now
  holdings,
  spent        \* ids of settlements made

vars == <<trading, cleared, gateOpen, holdings, spent>>

Init ==
  /\ ~trading
  /\ cleared = {}
  /\ gateOpen = FALSE
  /\ holdings = [a \in Account |-> 0]
  /\ spent = {}

Open ==
  /\ ~trading
  /\ trading' = TRUE
  /\ UNCHANGED <<cleared, gateOpen, holdings, spent>>

\* Clearances and the gate change; value does not.
Reclassify ==
  /\ cleared' \in SUBSET Account
  /\ gateOpen' \in BOOLEAN
  /\ UNCHANGED <<trading, holdings, spent>>

Issue(to, amount) ==
  /\ holdings[to] + amount \in Amount
  /\ holdings' = [holdings EXCEPT ![to] = @ + amount]
  /\ UNCHANGED <<trading, cleared, gateOpen, spent>>

Settle(sender, receiver, gross, net, id) ==
  /\ trading /\ gateOpen
  /\ {sender, receiver} \subseteq cleared
  /\ id \notin spent
  /\ net <= gross /\ gross <= holdings[sender]
  /\ LET debited == [holdings EXCEPT ![sender] = @ - gross]
     IN  /\ debited[receiver] + net \in Amount
         /\ holdings' = [debited EXCEPT ![receiver] = @ + net]
  /\ spent' = spent \cup {id}
  /\ UNCHANGED <<trading, cleared, gateOpen>>

Next ==
  \/ Open
  \/ Reclassify
  \/ \E to \in Account, amount \in Amount : Issue(to, amount)
  \/ \E sender, receiver \in Account, gross, net \in Amount, id \in Id :
       Settle(sender, receiver, gross, net, id)

Spec == Init /\ [][Next]_vars
=============================================================================
