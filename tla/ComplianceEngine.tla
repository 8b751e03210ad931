-------------------------- MODULE ComplianceEngine --------------------------
(***************************************************************************)
(* evaluate_compliance: the state gate, the sort by priority, and the loop *)
(* over the sorted rules, one action per path through its body.            *)
(***************************************************************************)
EXTENDS ComplianceRules, Sequences

CONSTANTS
  RuleList,     \* the rule lists a module may hold, in the order they were written
  Context       \* the contexts a transfer may be evaluated in

ASSUME EngineParameters ==
  /\ \A rs \in RuleList : /\ Len(rs) \in Nat /\ DOMAIN rs = 1 .. Len(rs)
                          /\ \A i \in DOMAIN rs : rs[i].priority \in Int

VARIABLES
  rules,        \* module.rules
  ctx,
  stable,       \* which SDK: does its sort keep ties in order (Go's sort.Slice promises not)
  pc,           \* "gate" before the state test, "loop", "done" once the call returned
  order,        \* order[k]: which rule of the list the loop visits k-th
  next,         \* the loop's position in order
  decision

input == <<rules, ctx, stable>>
vars == <<input, pc, order, next, decision>>

Init ==
  /\ rules \in RuleList
  /\ ctx \in Context
  /\ stable \in BOOLEAN
  /\ pc = "gate"
  /\ order = <<>>
  /\ next = 1
  /\ decision = Decision(FALSE, 0)

-----------------------------------------------------------------------------
Precedes(rs, i, j) ==
  \/ rs[i].priority < rs[j].priority
  \/ rs[i].priority = rs[j].priority /\ (stable => i < j)

\* The list left as it was written (a mutant).
Unsorted(rs) == {[k \in DOMAIN rs |-> k]}

\* The orders the sort may leave the rules in: one if it is stable, and any that
\* agrees with the priorities otherwise.
SortedOrders(rs) ==
  { p \in Bijection(DOMAIN rs, DOMAIN rs) :
      \A k, l \in DOMAIN rs : k < l => Precedes(rs, p[k], p[l]) }

Return(d) == pc' = "done" /\ decision' = d

StateGate ==
  /\ pc = "gate" /\ ctx.state # "ACTIVE"
  /\ Return(Decision(FALSE, 0))
  /\ UNCHANGED <<input, order, next>>

Sort ==
  /\ pc = "gate" /\ ctx.state = "ACTIVE"
  /\ pc' = "loop"
  /\ order' \in SortedOrders(rules)
  /\ UNCHANGED <<input, next, decision>>

Current == rules[order[next]]
InLoop == pc = "loop" /\ next \in DOMAIN rules

\* The first rule in scope decides, whatever follows it (a mutant).
StopAfterFirst == pc' = "done" /\ decision' = Decision(TRUE, 0) /\ UNCHANGED next

\* The loop variable stepped twice (a mutant).
ContinueSkippingOne == next' = next + 2 /\ UNCHANGED <<pc, decision>>

\* A continue that bypasses the step of the loop variable (a mutant).
ContinueInPlace == UNCHANGED <<next, pc, decision>>

Continue == next' = next + 1 /\ UNCHANGED <<pc, decision>>

SkipOutOfScope ==
  /\ InLoop /\ ~ScopeApplies(Current, ctx)
  /\ Continue
  /\ UNCHANGED <<input, order>>

PassRule ==
  /\ InLoop /\ ScopeApplies(Current, ctx)
  /\ EvalRule(Current, ctx) \/ Current.action \notin Blocking
  /\ Continue
  /\ UNCHANGED <<input, order>>

BlockOnRule ==
  /\ InLoop /\ Blocks(Current, ctx)
  /\ Return(Decision(FALSE, order[next]))
  /\ UNCHANGED <<input, order, next>>

AllowTransfer ==
  /\ pc = "loop" /\ next \notin DOMAIN rules
  /\ Return(Decision(TRUE, 0))
  /\ UNCHANGED <<input, order, next>>

Next == StateGate \/ Sort \/ SkipOutOfScope \/ PassRule \/ BlockOnRule \/ AllowTransfer

\* The call runs to its return: nothing in it waits.
Spec == Init /\ [][Next]_vars /\ WF_vars(Next)

-----------------------------------------------------------------------------
(* Properties *)

TypeOK ==
  /\ rules \in RuleList /\ ctx \in Context /\ stable \in BOOLEAN
  /\ pc \in {"gate", "loop", "done"}
  /\ pc = "loop" => order \in SortedOrders(rules)
  /\ next \in 1 .. Len(rules) + 1
  /\ decision \in [allowed : BOOLEAN, blockedBy : {0} \cup DOMAIN rules]

\* The loop, with its sort, its skips and its early exit, computes the conjunction of
\* the rule predicates: the verdict does not depend on the order of evaluation.
VerdictIsConjunction ==
  pc = "done" => decision.allowed = Allowed(rules, ctx)

\* The rule reported is one that blocks, and none that blocks comes before it: by
\* priority, and where the sort is stable by the order of the list among equals.  An
\* inactive asset reports no rule.
BlameIsFirst ==
  pc = "done" /\ ~decision.allowed =>
    IF ctx.state # "ACTIVE" THEN decision.blockedBy = 0
    ELSE /\ decision.blockedBy \in DOMAIN rules
         /\ Blocks(rules[decision.blockedBy], ctx)
         /\ \A i \in DOMAIN rules \ {decision.blockedBy} :
              Blocks(rules[i], ctx) => Precedes(rules, decision.blockedBy, i)

\* Fails closed: a transfer allowed with some of the parties' attributes or of the
\* attestations missing is allowed when they are supplied.  Not knowing never helps.
IgnoranceNeverHelps ==
  pc = "done" /\ decision.allowed =>
    \A more \in Context : Withholds(ctx, more) => Allowed(rules, more)

\* What the loop has established: no rule it has gone past blocks.  With the order
\* being sorted, this makes both properties above inductive.
ScanInv ==
  /\ pc = "gate" => next = 1
  /\ pc = "loop" => /\ ctx.state = "ACTIVE"
                    /\ \A k \in 1 .. next - 1 : ~Blocks(rules[order[k]], ctx)
  /\ VerdictIsConjunction
  /\ BlameIsFirst

\* The call, seen from outside: sorting and looping are steps nobody sees, and the answer
\* comes at once, comes once, and is one the rules call for.
EngineAnswers(arguments) == Verdicts([rules |-> arguments[1], ctx |-> arguments[2]], arguments[3])
Service ==
  INSTANCE CallService WITH
    Arguments <- RuleList \X Context \X BOOLEAN,
    Answers <- EngineAnswers,
    arguments <- input,
    answer <- IF pc = "done" THEN decision ELSE Pending

\* Every evaluation returns, with an answer the service may give.
ImplementsService == Service!Spec
=============================================================================
