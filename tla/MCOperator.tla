----------------------------- MODULE MCOperator -----------------------------
(* One policy with a grace period, and the report of one application.      *)
EXTENDS Operator

CONSTANTS strict, psr, crit

MCFinding == {crit}
MCSeverity == [f \in MCFinding |-> "critical"]
MCPolicy == {strict}
MCThreshold ==
    [p \in MCPolicy |-> [maxCritical |-> 0, maxHigh |-> 0,
                         requirePinned |-> FALSE]]
MCEnforcement ==
    [p \in MCPolicy |->
        <<[action |-> "suspendSync", trigger |-> "Critical", grace |-> 1]>>]
MCReport == {psr}
MCNeighbours == [p \in MCPolicy |-> MCReport]
MCSelector == [p \in MCPolicy |-> [kinds |-> {}, labels |-> {}]]
App == [name |-> "payments", kind |-> "Application", namespace |-> "argocd",
        sourceName |-> "payments", repo |-> "payments"]
MCSource == {App}
MCLabelOf == [r \in MCReport |-> App]
MCResource ==
    {[name |-> "payments", kind |-> "Application", namespace |-> "argocd"]}

=============================================================================
