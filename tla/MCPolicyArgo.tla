---------------------------- MODULE MCPolicyArgo ----------------------------
(* One policy, the report of one Argo CD application, one workload.        *)
EXTENDS PolicyEnforcement

CONSTANTS strict, psr, deploy, crit, med

MCFinding == {crit, med}
MCSeverity == [f \in MCFinding |-> IF f = crit THEN "critical" ELSE "medium"]
MCPolicy == {strict}
MCThreshold ==
    [p \in MCPolicy |-> [maxCritical |-> 0, maxHigh |-> 0,
                         requirePinned |-> FALSE]]
MCEnforcement ==
    [p \in MCPolicy |->
        <<[action |-> "annotate", trigger |-> "Warning", grace |-> None],
          [action |-> "suspendSync", trigger |-> "Critical", grace |-> 1],
          [action |-> "alert", trigger |-> "Critical", grace |-> None],
          [action |-> "labelWorkloads", trigger |-> "NonCompliant",
           grace |-> None]>>]
MCReport == {psr}
MCNeighbours == [p \in MCPolicy |-> MCReport]
MCSelector ==
    [p \in MCPolicy |-> [kinds |-> {"application"}, labels |-> {}]]
App == [name |-> "payments", kind |-> "Application", namespace |-> "argocd",
        sourceName |-> "payments", repo |-> "payments"]
MCSource == {App}
MCLabelOf == [r \in MCReport |-> App]
MCResource ==
    {[name |-> "payments", kind |-> "Application", namespace |-> "argocd"]}
MCWorkload == {deploy}

=============================================================================
