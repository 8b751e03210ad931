--------------------------- MODULE SettlementBook ---------------------------
(***************************************************************************)
(* What the executor promises the holders of one asset: a book of          *)
(* transaction ids, entered one by one while the asset trades, none twice. *)
(* Trading may be halted and resumed, and ends for good from an open book. *)
(* Who may deal, and under which rules, is left open.                      *)
(***************************************************************************)
EXTENDS Sequences

CONSTANT Id

VARIABLES
  phase,    \* "halted", "open" or "over"
  book      \* the ids of what settled, in order

vars == <<phase, book>>

Init == phase = "halted" /\ book = <<>>

Enter(id) ==
  /\ phase = "open"
  /\ \A i \in DOMAIN book : book[i] # id
  /\ book' = Append(book, id)
  /\ UNCHANGED phase

Resume == phase = "halted" /\ phase' = "open" /\ UNCHANGED book
Halt == phase = "open" /\ phase' = "halted" /\ UNCHANGED book
Close == phase = "open" /\ phase' = "over" /\ UNCHANGED book

Next == (\E id \in Id : Enter(id)) \/ Resume \/ Halt \/ Close

Spec == Init /\ [][Next]_vars
=============================================================================
