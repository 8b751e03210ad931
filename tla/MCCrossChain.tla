---------------------------- MODULE MCCrossChain ----------------------------
(* Two chains.  The rule lists differ in a priority or only in a parameter, the          *)
(* governance modules in the list of authorities (one has an authority twice) or only in *)
(* what overrides they permit; one deployment has a different asset on either chain.     *)
(* Each module leaves some of the co-signers' names unregistered.                        *)
EXTENDS CrossChain, TLC

Symmetry == Permutations(Chain)

Threshold(priority, limit) ==
  <<[id |-> "limit", type |-> "TRANSACTION_THRESHOLD", priority |-> priority,
     params |-> [thresholdAmount |-> limit]]>>
Strict == Threshold(1, 5)
Lax == Threshold(1, 9)
RuleLists == {Strict, Lax, Threshold(2, 5)}

Module(authorities, types) ==
  [authorities |-> authorities, quorumThreshold |-> 2, overrideTypes |-> types]
Full == Module(<<"a", "b", "c">>, {"FREEZE_BALANCE", "EMERGENCY_ROLLBACK"})
GovernanceModules ==
  { Full, [Full EXCEPT !.overrideTypes = {"FREEZE_BALANCE"}],
    Module(<<"c", "d">>, {"EMERGENCY_ROLLBACK"}),
    Module(<<"a", "b", "a", "d">>, {"EMERGENCY_ROLLBACK"}) }
Signers == {"a", "b", "c", "d"}

Deployed(id) == [id |-> id, state |-> "ACTIVE", rules |-> Strict, governance |-> Full]
Deployments ==
  {[c \in Chain |-> Deployed("x")]}
    \cup {[c \in Chain |-> Deployed(IF c = d THEN "x" ELSE "y")] : d \in Chain}

Signature(by, over) == [by |-> by, over |-> over]
Order(authority, action, basis, signature) ==
  [authority |-> authority, action |-> action, legalBasis |-> basis, signature |-> signature]
Orders ==
  { Order("a", "EMERGENCY_ROLLBACK", "case", Signature("a", "case")),
    Order("c", "EMERGENCY_ROLLBACK", "case", Signature("c", "case")),
    Order("b", "FREEZE_BALANCE", "case", Signature("b", "case")),
    Order("b", "FREEZE_BALANCE", "case", Signature("a", "case")),
    Order("b", "FREEZE_BALANCE", Missing, Signature("b", Missing)) }
=============================================================================
