-------------------------- MODULE MCReportShared ---------------------------
(* Two sources follow two branches of one repository, so the scans of both *)
(* are written to one report.                                              *)
EXTENDS ReportLifecycle

CONSTANTS app, kust, main, dev, psr, crit

MCFinding == {crit}
MCSeverity == [f \in MCFinding |-> "critical"]
MCSource == {app, kust}
MCRef == {main, dev}
MCRefOf == [s \in MCSource |-> IF s = app THEN main ELSE dev]
MCReport == {psr}
MCReportOf == [s \in MCSource |-> psr]

=============================================================================
