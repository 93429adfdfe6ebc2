---------------------------- MODULE MCRulesCheck ----------------------------
EXTENDS RulesCheck

CONSTANTS crit, high1, high2, unpinned, unpinnedHigh, note, odd

MCFinding == {crit, high1, high2, unpinned, unpinnedHigh, note, odd}
MCSeverity ==
    [f \in MCFinding |->
        CASE f = crit -> "critical"
          [] f \in {high1, high2, unpinnedHigh} -> "high"
          [] f = unpinned -> "medium"
          [] f = note -> "info"
          [] f = odd -> "unknown"]
MCPinFinding == {unpinned, unpinnedHigh}
MCLimits == -1..2

=============================================================================
