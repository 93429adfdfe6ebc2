---------------------------- MODULE ReportStatus ----------------------------
(***************************************************************************)
(* The statuses of PipelineSecurityReports: what the scan of a source      *)
(* writes, and what the normalisation of a report makes of a status.       *)
(***************************************************************************)
EXTENDS ComplianceRules

CONSTANTS
    Source,    \* the pipeline sources of the cluster
    Ref,       \* owner/repo@branch, what a scan is made of
    RefOf,     \* the ref each source follows
    Report,    \* namespace/psr-owner-repo, the reports' names
    ReportOf,  \* the report each source is written to
    None       \* no object, no source

ASSUME RefAssumption ==
    /\ RefOf \in [Source -> Ref]
    /\ ReportOf \in [Source -> Report]

States == ComplianceStates \cup {""}

(* PipelineSecurityReportStatus.  "of" stands for the two fields that say  *)
(* which source was scanned: Source and CorrelatedWorkloads.               *)
Status == [of : Source \cup {None}, findings : SUBSET Finding,
           state : States, summary : Summaries]

(* A report without its version; "label" stands for the labels source-kind *)
(* and source-name.                                                        *)
Content == [label : Source \cup {None}, status : Status]

ASSUME NoneAssumption ==
    /\ None \notin Source
    /\ None \notin Report
    /\ None \notin Content
    /\ \A F \in SUBSET Finding : F # None

(* The status of an object whose status was never written. *)
EmptyStatus ==
    [of |-> None, findings |-> {}, state |-> "", summary |-> Summarize({})]

(* Mutant: the state is left to ReportController. *)
AssessmentStateless(s, F) ==
    [of |-> s, findings |-> F, state |-> "", summary |-> Summarize(F)]

(* What AnalysisController writes after scanning s with findings F. *)
Assessment(s, F) ==
    [of |-> s, findings |-> F, state |-> StateOf(Summarize(F)),
     summary |-> Summarize(F)]

(* What ReportController makes of a status. *)
Normalised(st) ==
    [st EXCEPT !.state = StateOf(Summarize(st.findings)),
               !.summary = Summarize(st.findings)]

Coherent(st) == st = Normalised(st)

=============================================================================
