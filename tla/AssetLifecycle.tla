--------------------------- MODULE AssetLifecycle ---------------------------
(***************************************************************************)
(* The asset state machine of section 2.5 as every SDK ships it: one table *)
(* of (state, trigger, state) rows that apply_state_transition searches.   *)
(* The table below is the Rust one; the Python, Go, Java and TypeScript    *)
(* tables list the same nine rows.                                         *)
(***************************************************************************)

VARIABLE state

AssetState ==
  {"ISSUED", "ACTIVE", "RESTRICTED", "FROZEN", "SUSPENDED", "REDEEMED", "BURNED"}

\* A redeemed asset that can be reinstated (a mutant).
TransitionsReopening ==
  { <<"ISSUED",     "ACTIVATION",    "ACTIVE">>,
    <<"ACTIVE",     "REDEMPTION",    "REDEEMED">>,
    <<"REDEEMED",   "REINSTATEMENT", "ACTIVE">> }

Transitions ==
  { <<"ISSUED",     "ACTIVATION",    "ACTIVE">>,
    <<"ACTIVE",     "BREACH",        "RESTRICTED">>,
    <<"ACTIVE",     "FREEZE",        "FROZEN">>,
    <<"RESTRICTED", "CLEARED",       "ACTIVE">>,
    <<"FROZEN",     "RELEASE",       "ACTIVE">>,
    <<"ACTIVE",     "REDEMPTION",    "REDEEMED">>,
    <<"REDEEMED",   "FINALIZATION",  "BURNED">>,
    <<"ACTIVE",     "SUSPENSION",    "SUSPENDED">>,
    <<"SUSPENDED",  "REINSTATEMENT", "ACTIVE">> }

Trigger == { row[2] : row \in Transitions }

IsTerminal(s) == s = "BURNED"

\* The states apply_state_transition(current, trigger) can succeed with: one at
\* most, none where the call reports an error.
Successors(current, trigger) ==
  { to \in AssetState : ~IsTerminal(current) /\ <<current, trigger, to>> \in Transitions }

Init == state = "ISSUED"

ApplyStateTransition(trigger) ==
  \E to \in Successors(state, trigger) : state' = to

Next == \E trigger \in Trigger : ApplyStateTransition(trigger)

Spec == Init /\ [][Next]_state

TypeOK == state \in AssetState
=============================================================================
