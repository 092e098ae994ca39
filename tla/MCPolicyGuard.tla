---------------------------- MODULE MCPolicyGuard ----------------------------
(***************************************************************************)
(* One budget of the CX section (fallback 2) and its overrides, two module *)
(* patterns of which the broad one covers both modules, one prefix to      *)
(* acknowledge and one converter path.  The baseline starts without a      *)
(* lockfile's worth of policy, or with an established and tight one.       *)
(***************************************************************************)
EXTENDS PolicyGuard

MCSectionOf     == [b \in Budget |-> "CX"]
MCFallback      == [b \in Budget |-> 2]
MCMatches       == {<<"narrow", "a">>, <<"broad", "a">>, <<"broad", "b">>}
MCDefaultExempt == [x \in ExemptSection |-> {"narrow"}]

Established ==
    [EmptyPolicy EXCEPT
        !.explicit = {"CX", "OT"},
        !.budget = [b \in Budget |-> 1],
        !.overrides = [b \in Budget |->
            <<[module |-> "narrow", max |-> 1, debt |-> "justified"],
              [module |-> "broad", max |-> 2, debt |-> "bare"]>>],
        !.exempt = [x \in ExemptSection |-> [p \in Pattern |-> "absent"]],
        !.acknowledged = [p \in Prefix |-> "absent"]]

MCInitialPolicies == {EmptyPolicy, Established}
=============================================================================
