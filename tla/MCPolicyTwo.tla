---------------------------- MODULE MCPolicyTwo ----------------------------
(* A strict and a lenient policy select the report of one application,     *)
(* which correlates with no workload.                                      *)
EXTENDS PolicyEnforcement

CONSTANTS strict, lenient, psr, crit, med

MCFinding == {crit, med}
MCSeverity == [f \in MCFinding |-> IF f = crit THEN "critical" ELSE "medium"]
MCPolicy == {strict, lenient}
MCThreshold ==
    [p \in MCPolicy |-> [maxCritical |-> IF p = strict THEN 0 ELSE 1,
                         maxHigh |-> 0, requirePinned |-> FALSE]]
MCEnforcement ==
    [p \in MCPolicy |->
        <<[action |-> "annotate", trigger |-> "Warning", grace |-> None],
          [action |-> "suspendSync", trigger |-> "Critical", grace |-> 1]>>]
MCReport == {psr}
MCNeighbours == [p \in MCPolicy |-> MCReport]
MCSelector ==
    [p \in MCPolicy |-> [kinds |-> {}, labels |-> {}]]
App == [name |-> "payments", kind |-> "Application", namespace |-> "argocd",
        sourceName |-> "payments", repo |-> "payments"]
MCSource == {App}
MCLabelOf == [r \in MCReport |-> App]
MCResource ==
    {[name |-> "payments", kind |-> "Application", namespace |-> "argocd"]}
MCWorkload == {}

=============================================================================
