------------------------------ MODULE MCMetrics ------------------------------
(* One source, one report: the two workers, users and restarts race for it. *)
EXTENDS Metrics

CONSTANTS app, main, psr, crit, warn

MCFinding == {crit, warn}
MCSeverity == [f \in MCFinding |-> IF f = crit THEN "critical" ELSE "low"]
MCSource == {app}
MCSourceKind == [s \in MCSource |-> "Application"]
MCRef == {main}
MCRefOf == [s \in MCSource |-> main]
MCReport == {psr}
MCReportOf == [s \in MCSource |-> psr]

=============================================================================
