---------------------------- MODULE MCPolicyFlux ----------------------------
(* One policy, the report of one Flux Kustomization, one workload.         *)
EXTENDS PolicyEnforcement

CONSTANTS strict, psr, deploy, crit, med

MCFinding == {crit, med}
MCSeverity == [f \in MCFinding |-> IF f = crit THEN "critical" ELSE "medium"]
MCPolicy == {strict}
MCThreshold ==
    [p \in MCPolicy |-> [maxCritical |-> 0, maxHigh |-> 0,
                         requirePinned |-> FALSE]]
MCEnforcement ==
    [p \in MCPolicy |->
        <<[action |-> "annotate", trigger |-> "Warning", grace |-> None],
          [action |-> "suspendSync", trigger |-> "Critical", grace |-> 2],
          [action |-> "labelWorkloads", trigger |-> "NonCompliant",
           grace |-> None]>>]
MCReport == {psr}
MCNeighbours == [p \in MCPolicy |-> MCReport]
MCSelector ==
    [p \in MCPolicy |-> [kinds |-> {"Kustomization"}, labels |-> {<<"source-name", "apps">>}]]
Ks == [name |-> "shop/apps", kind |-> "Kustomization",
       namespace |-> "flux-system", sourceName |-> "apps", repo |-> "shop"]
MCSource == {Ks}
MCLabelOf == [r \in MCReport |-> Ks]
MCResource ==
    {[name |-> "apps", kind |-> "Kustomization", namespace |-> "flux-system"]}
MCWorkload == {deploy}

=============================================================================
