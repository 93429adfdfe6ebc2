----------------------------- MODULE Metrics_proofs -----------------------------
(***************************************************************************)
(* The gauges watch the reports and change nothing: what is proved of      *)
(* ReportLifecycle, and its properties under fairness, hold of the         *)
(* controllers that record metrics.                                        *)
(***************************************************************************)
EXTENDS Metrics, ReportQueues_proofs

(* A step that records, or forgets, is a step of the lifecycle. *)
LEMMA RecordingStep ==
    ASSUME [MetricsNext]_metricsVars
    PROVE  [Next]_vars
<1>1. ASSUME NEW s \in Source, WriteRecorded(s) \/ WriteLost(s) PROVE Next
  BY <1>1 DEF WriteRecorded, WriteLost, Next, WriteReport
<1>2. CASE RestartEmpty
  BY <1>2 DEF RestartEmpty, Next
<1>3. CASE Unrecorded
  BY <1>3 DEF Unrecorded, Next
<1> QED
  BY <1>1, <1>2, <1>3 DEF MetricsNext, metricsVars

(* The behaviours that ReportLiveness checks are behaviours of the         *)
(* lifecycle under the fairness of its workers: to record metrics neither  *)
(* adds a step to AnalysisController nor takes part in when it is served.  *)
THEOREM MetricsOnlyWatch == FairMetricsSpec => FairSpec
<1>1. MetricsInit => Init
  BY DEF MetricsInit
<1>2. [MetricsNext]_metricsVars => [Next]_vars
  BY RecordingStep
<1> QED
  BY <1>1, <1>2, PTL DEF FairMetricsSpec, FairSpec, Spec

(* With metrics recorded, no report shows findings of another ref, no      *)
(* wake-up is lost and the rounds of analysis go on.                       *)
THEOREM WatchedReportsAreSound ==
    FairMetricsSpec => [](NoForeignFindings /\ NoWakeUpLost /\ AnalysisGoesOn)
BY MetricsOnlyWatch, FindingsAreGenuine, IncoherenceIsNeverForgotten,
   AnalysisNeverStops, PTL DEF FairSpec

=============================================================================
