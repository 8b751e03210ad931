---------------------------- MODULE CallService ----------------------------
(***************************************************************************)
(* What the caller of a function is promised: one answer, out of those its *)
(* arguments leave open, and no answer changed afterwards.  Which loops    *)
(* the answer takes is not said.                                           *)
(***************************************************************************)
CONSTANTS
  Arguments,    \* what the function may be called with
  Pending,
  Answers(_)    \* the answers some arguments leave open

VARIABLES
  arguments,
  answer        \* Pending until there is one

vars == <<arguments, answer>>

Init == arguments \in Arguments /\ answer = Pending

Answer ==
  /\ answer = Pending
  /\ answer' \in Answers(arguments)
  /\ UNCHANGED arguments

\* Nothing bad: what remains when the promise of an answer is left out.
Safety == Init /\ [][Answer]_vars

Spec == Safety /\ WF_vars(Answer)
=============================================================================
