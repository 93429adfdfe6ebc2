------------------------------- MODULE Metrics -------------------------------
(***************************************************************************)
(* ReportLifecycle with the gauges that AnalysisController sets when a     *)
(* report has been written: fluxgate_pipeline_compliance_state and         *)
(* fluxgate_findings_total.  They live in the process; nothing removes a   *)
(* series but a restart.  Histograms and counters are left out.            *)
(***************************************************************************)
EXTENDS ReportLifecycle

CONSTANT
    SourceKind   \* the kind of each source

VARIABLES
    stateGauge,   \* per report and connector, the state shown, or None
    findingGauge  \* the series of findings that are 1, as <<report, finding>>

metricsVars == <<vars, stateGauge, findingGauge>>

ConnectorNames == {"argocd", "flux", "unknown"}

(* recordFindingsMetrics: the label "connector". *)
ConnectorLabel(s) ==
    CASE SourceKind[s] = "Application" -> "argocd"
      [] SourceKind[s] \in {"Kustomization", "GitRepository"} -> "flux"
      [] OTHER -> "unknown"

MetricsInit ==
    /\ Init
    /\ stateGauge = [r \in Report |-> [c \in ConnectorNames |-> None]]
    /\ findingGauge = {}

(* The series of the findings are set, those of others are not reset. *)
Record(s, findings) ==
    /\ stateGauge' = [stateGauge EXCEPT ![ReportOf[s]][ConnectorLabel(s)] =
                          StateOf(Summarize(findings))]
    /\ findingGauge' = findingGauge \cup ({ReportOf[s]} \X findings)

(* Mutant: only a report that is new is recorded. *)
WriteRecordedIfNew(s) ==
    \/ CreateReport(s) /\ Record(s, analysis.findings)
    \/ UpdateReport(s) /\ UNCHANGED <<stateGauge, findingGauge>>

WriteRecorded(s) ==
    /\ CreateReport(s) \/ UpdateReport(s)
    /\ Record(s, analysis.findings)

WriteLost(s) == WriteReportFails(s) /\ UNCHANGED <<stateGauge, findingGauge>>

RestartEmpty ==
    /\ Restart
    /\ stateGauge' = [r \in Report |-> [c \in ConnectorNames |-> None]]
    /\ findingGauge' = {}

Unrecorded ==
    /\ \/ \E f \in Ref : Push(f) \/ Expire(f)
       \/ \E r \in Report : User(r) \/ Manager(r) \/ AnalysisStart(r) \/ Reporter(r)
       \/ \E s \in Source : Discover(s) \/ Analyze(s)
       \/ ReadReport
       \/ AnalysisDone
    /\ UNCHANGED <<stateGauge, findingGauge>>

MetricsNext ==
    \/ \E s \in Source : WriteRecorded(s) \/ WriteLost(s)
    \/ RestartEmpty
    \/ Unrecorded

FairMetricsSpec == MetricsInit /\ [][MetricsNext]_metricsVars /\ Fairness

-----------------------------------------------------------------------------
(* A source that has its report to itself: its gauges show in the end the  *)
(* state its ref deserves and every finding of it, although restarts empty *)
(* them and nothing but a write that gets through sets them again.  A      *)
(* series that is 1 says no more than that: a finding that was fixed is    *)
(* shown until the next restart.                                           *)
Alone(s) == \A t \in Source : ReportOf[t] = ReportOf[s] => t = s

Shown(s) ==
    LET deserved == upstream[RefOf[s]] IN
    /\ stateGauge[ReportOf[s]][ConnectorLabel(s)] = StateOf(Summarize(deserved))
    /\ {ReportOf[s]} \X deserved \subseteq findingGauge

EventuallyShown ==
    <>[](Existing # {}) => \A s \in Source : Alone(s) => <>[]Shown(s)

=============================================================================
