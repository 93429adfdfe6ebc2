---------------------------- MODULE MCReportOne ----------------------------
(* One source, one report: the two workers, users and restarts race for it. *)
EXTENDS ReportLifecycle

CONSTANTS app, main, psr, crit

MCFinding == {crit}
MCSeverity == [f \in MCFinding |-> "critical"]
MCSource == {app}
MCRef == {main}
MCRefOf == [s \in MCSource |-> main]
MCReport == {psr}
MCReportOf == [s \in MCSource |-> psr]

=============================================================================
