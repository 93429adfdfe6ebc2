----------------------- MODULE ReportLifecycle_proofs -----------------------
(***************************************************************************)
(* Proofs about ReportLifecycle, for any sets of sources, refs, reports    *)
(* and findings and any number of disturbances.                            *)
(***************************************************************************)
EXTENDS ReportLifecycle, FiniteSetTheorems, TLAPS

(* Counting findings gives natural numbers. *)
LEMMA SummarizeType ==
    ASSUME NEW F \in SUBSET Finding
    PROVE  Summarize(F) \in Summaries
<1>1. \A G \in SUBSET Finding : Cardinality(G) \in Nat
  BY FindingAssumption, FS_Subset, FS_CardinalityType
<1>2. \A sev \in Severities : CountOf(F, sev) \in Nat
  BY <1>1 DEF CountOf
<1> QED
  BY <1>1, <1>2 DEF Summarize, Summaries, Severities

(* The four shapes of status the program writes are statuses. *)
LEMMA StateOfType ==
    ASSUME NEW sum
    PROVE  StateOf(sum) \in States
BY DEF StateOf, States, ComplianceStates

LEMMA EmptyStatusType == EmptyStatus \in Status
BY SummarizeType DEF EmptyStatus, Status, States

LEMMA AssessmentType ==
    ASSUME NEW s \in Source, NEW F \in SUBSET Finding
    PROVE  Assessment(s, F) \in Status
BY SummarizeType, StateOfType DEF Assessment, Status

LEMMA NormalisedType ==
    ASSUME NEW st \in Status
    PROVE  Normalised(st) \in Status
<1>1. st.findings \in SUBSET Finding
  BY DEF Status
<1> QED
  BY <1>1, SummarizeType, StateOfType DEF Normalised, Status

(* There is always a version that nobody holds, and NewVersion is one. *)
LEMMA NewVersionFresh ==
    ASSUME TypeOK, NEW r \in Report
    PROVE  NewVersion(r) \in Version /\ NewVersion(r) \notin Held(r)
<1> DEFINE rvOf(o) == IF o = None THEN CHOOSE v \in Version : TRUE ELSE o.rv
<1>1. \A o \in Object \cup {None} : rvOf(o) \in Version
  BY VersionAssumption DEF Object
<1>2. {store[r], cache[r], analysis.seen, reporter.seen}
        \subseteq Object \cup {None}
  BY DEF TypeOK, AnalysisState, ReporterState
<1>3. PICK v \in Version :
        v \notin {rvOf(store[r]), rvOf(cache[r]), rvOf(analysis.seen),
                  rvOf(reporter.seen)}
  <2> HIDE DEF rvOf
  <2> QED BY <1>1, <1>2, VersionAssumption
<1>4. v \notin Held(r)
  BY <1>2, <1>3 DEF Held
<1> QED
  BY <1>4 DEF NewVersion

(* A write puts an object into the store under a version nobody holds. *)
LEMMA PutType ==
    ASSUME TypeOK, NEW r \in Report, NEW l \in Source \cup {None},
           NEW st \in Status, Put(r, l, st)
    PROVE  /\ store' \in [Report -> Object \cup {None}]
           /\ store'[r] \in Object
           /\ store'[r].rv \notin Held(r)
           /\ store'[r].label = l
           /\ store'[r].status = st
           /\ \A q \in Report \ {r} : store'[q] = store[q]
<1> DEFINE o == [rv |-> NewVersion(r), label |-> l, status |-> st]
<1>1. o \in Object
  BY NewVersionFresh DEF Object
<1>2. store' = [store EXCEPT ![r] = o]
  BY DEF Put
<1>3. store \in [Report -> Object \cup {None}]
  BY DEF TypeOK
<1>4. o.rv \notin Held(r) /\ o.label = l /\ o.status = st
  BY NewVersionFresh
<1> HIDE DEF o
<1> QED
  BY <1>1, <1>2, <1>3, <1>4

-----------------------------------------------------------------------------
(* Type correctness.                                                       *)

(* What the workers' registers hold in which phase: without it the types   *)
(* are not inductive.                                                      *)
WorkersOK ==
    /\ analysis.pc # "idle" => analysis.key \in Report
    /\ analysis.pc \in {"read", "write"} => analysis.src \in Source
    /\ analysis.pc # "write" => analysis.seen = None
    /\ reporter.pc = "write" => reporter.key \in Report
    /\ reporter.pc # "write" => reporter.seen = None

LEMMA InitTypeOK == Init => TypeOK
<1> SUFFICES ASSUME Init PROVE TypeOK
  OBVIOUS
<1>1. upstream \in [Ref -> SUBSET Finding]
  BY DEF Init
<1>2. published = upstream
  BY DEF Init
<1>3. scanned \in [Ref -> (SUBSET Finding) \cup {None}]
  BY DEF Init
<1>4. store \in [Report -> Object \cup {None}]
  <2>1. PICK R \in SUBSET Report :
          store = [r \in Report |->
                      IF r \in R THEN [rv |-> CHOOSE v \in Version : TRUE,
                                      label |-> None, status |-> EmptyStatus]
                      ELSE None]
    BY DEF Init
  <2>2. [rv |-> CHOOSE v \in Version : TRUE, label |-> None,
         status |-> EmptyStatus] \in Object
    BY VersionAssumption, EmptyStatusType DEF Object
  <2> QED
    BY <2>1, <2>2
<1>5. cache = store /\ registry \subseteq Source
  BY DEF Init
<1>6. aQueue \subseteq Report /\ aTimer \subseteq Report /\ rQueue \subseteq Report
  BY DEF Init, Existing
<1>7. analysis \in AnalysisState /\ reporter \in ReporterState
  BY DEF Init, Idle, Waiting, AnalysisState, ReporterState
<1>8. disturbances \in 0..MaxDisturbances
  BY BoundAssumption DEF Init
<1> QED
  BY <1>1, <1>2, <1>3, <1>4, <1>5, <1>6, <1>7, <1>8 DEF TypeOK

LEMMA DisturbType ==
    ASSUME TypeOK, Disturb
    PROVE  disturbances' \in 0..MaxDisturbances
BY BoundAssumption DEF TypeOK, Disturb

LEMMA NextSourceType ==
    ASSUME TypeOK, NEW s
    PROVE  NextSource(s) \in AnalysisState
<1>1. analysis \in AnalysisState
  BY DEF TypeOK
<1> QED
  BY <1>1 DEF NextSource, AnalysisState

LEMMA ScanType ==
    ASSUME TypeOK, NEW s \in Source, NEW F \in SUBSET Finding, Scan(s, F)
    PROVE  analysis' \in AnalysisState
<1>1. analysis \in AnalysisState
  BY DEF TypeOK
<1> QED
  BY <1>1 DEF Scan, AnalysisState

(* The steps of users. *)
LEMMA UserTypeOK ==
    ASSUME TypeOK, NEW r \in Report, User(r)
    PROVE  TypeOK'
<1>1. store[r] \in Object \cup {None}
  BY DEF TypeOK
<1>2. disturbances' \in 0..MaxDisturbances
  BY DisturbType DEF User, ApplyReport, DeleteReport, Touch, EditState
<1>3. store' \in [Report -> Object \cup {None}]
  <2>1. CASE ApplyReport(r)
    BY <2>1, PutType, EmptyStatusType DEF ApplyReport
  <2>2. CASE DeleteReport(r)
    BY <2>2 DEF DeleteReport, TypeOK
  <2>3. CASE Touch(r)
    BY <2>3, <1>1, PutType DEF Touch, Object
  <2>4. CASE EditState(r)
    <3>1. store[r].label \in Source \cup {None} /\ store[r].status \in Status
      BY <2>4, <1>1 DEF EditState, Object
    <3>2. \A c \in ComplianceStates :
            [store[r].status EXCEPT !.state = c] \in Status
      BY <3>1 DEF Status, States
    <3> QED
      BY <2>4, <3>1, <3>2, PutType DEF EditState
  <2> QED
    BY <2>1, <2>2, <2>3, <2>4 DEF User
<1> QED
  BY <1>2, <1>3 DEF TypeOK, User, ApplyReport, DeleteReport, Touch, EditState,
                    controllers

(* The steps of the manager and the restarts. *)
LEMMA ManagerTypeOK ==
    ASSUME TypeOK
    PROVE  /\ \A r \in Report : Manager(r) => TypeOK'
           /\ \A f \in Ref : Push(f) \/ Expire(f) => TypeOK'
           /\ \A s \in Source : Discover(s) => TypeOK'
           /\ Restart => TypeOK'
<1>1. ASSUME NEW r \in Report, Manager(r) PROVE TypeOK'
  BY <1>1 DEF Manager, Deliver, AnalysisTimer, TypeOK
<1>2. ASSUME NEW f \in Ref, Push(f) PROVE TypeOK'
  BY <1>2, DisturbType DEF Push, TypeOK, controllers
<1>3. ASSUME NEW f \in Ref, Expire(f) PROVE TypeOK'
  BY <1>3 DEF Expire, TypeOK, controllers
<1>4. ASSUME NEW s \in Source, Discover(s) PROVE TypeOK'
  BY <1>4 DEF Discover, TypeOK, controllers
<1>5. ASSUME Restart PROVE TypeOK'
  <2>1. Idle \in AnalysisState /\ Waiting \in ReporterState
    BY DEF Idle, Waiting, AnalysisState, ReporterState
  <2> QED
    BY <1>5, <2>1, DisturbType DEF Restart, TypeOK, Existing
<1> QED
  BY <1>1, <1>2, <1>3, <1>4, <1>5

(* The steps of AnalysisController. *)
LEMMA AnalysisTypeOK ==
    ASSUME TypeOK, WorkersOK
    PROVE  /\ \A r \in Report : AnalysisStart(r) => TypeOK'
           /\ \A s \in Source : Analyze(s) \/ WriteReport(s) => TypeOK'
           /\ ReadReport \/ AnalysisDone => TypeOK'
<1>0. analysis \in AnalysisState
  BY DEF TypeOK
<1>1. ASSUME NEW r \in Report, AnalysisStart(r) PROVE TypeOK'
  <2>1. analysis' \in AnalysisState
    BY <1>0, <1>1 DEF AnalysisStart, TypeOK, Idle, AnalysisState
  <2> QED
    BY <1>1, <2>1 DEF AnalysisStart, TypeOK
<1>2. ASSUME NEW s \in Source, Analyze(s) PROVE TypeOK'
  <2>1. RefOf[s] \in Ref /\ upstream[RefOf[s]] \in SUBSET Finding
    BY RefAssumption DEF TypeOK
  <2>2. CASE AnalyzeCached(s)
    <3>1. scanned[RefOf[s]] \in SUBSET Finding
      BY <2>1, <2>2 DEF AnalyzeCached, TypeOK
    <3>2. analysis' \in AnalysisState
      BY <3>1, <2>2, ScanType DEF AnalyzeCached
    <3> QED
      BY <2>2, <3>2 DEF AnalyzeCached, Scan, TypeOK
  <2>3. CASE AnalyzeFetched(s)
    <3>1. analysis' \in AnalysisState
      BY <2>1, <2>3, ScanType DEF AnalyzeFetched
    <3> QED
      BY <2>1, <2>3, <3>1 DEF AnalyzeFetched, Scan, TypeOK
  <2>4. CASE AnalyzePartly(s)
    <3>1. PICK F \in SUBSET upstream[RefOf[s]] :
            /\ Scan(s, F)
            /\ scanned' = [scanned EXCEPT ![RefOf[s]] = F]
      BY <2>4 DEF AnalyzePartly
    <3>2. F \in SUBSET Finding
      BY <2>1
    <3>3. analysis' \in AnalysisState
      BY <3>1, <3>2, ScanType
    <3>4. scanned' \in [Ref -> (SUBSET Finding) \cup {None}]
      BY <3>1, <3>2 DEF TypeOK
    <3>5. disturbances' \in 0..MaxDisturbances
      BY <2>4, DisturbType DEF AnalyzePartly
    <3> QED
      BY <3>1, <3>3, <3>4, <3>5 DEF Scan, TypeOK
  <2>5. CASE AnalyzeFails(s)
    BY <2>5, NextSourceType, DisturbType DEF AnalyzeFails, TypeOK
  <2> QED
    BY <1>2, <2>2, <2>3, <2>4, <2>5 DEF Analyze
<1>3. ASSUME NEW s \in Source, WriteReport(s) PROVE TypeOK'
  <2>1. ReportOf[s] \in Report
    BY RefAssumption
  <2>2. analysis' \in AnalysisState
    BY <1>3, NextSourceType DEF WriteReport, CreateReport, UpdateReport,
                                WriteReportFails
  <2>3. CASE CreateReport(s)
    <3>1. store' \in [Report -> Object \cup {None}]
      BY <2>1, <2>3, PutType, EmptyStatusType DEF CreateReport
    <3> QED
      BY <2>2, <2>3, <3>1 DEF CreateReport, TypeOK
  <2>4. CASE UpdateReport(s)
    <3>1. Assessment(s, analysis.findings) \in Status
      BY <1>0, AssessmentType DEF AnalysisState
    <3>2. analysis.seen.label \in Source \cup {None}
      BY <1>0, <2>4 DEF UpdateReport, Matches, AnalysisState, Object
    <3>3. store' \in [Report -> Object \cup {None}]
      <4>1. CASE Put(ReportOf[s], analysis.seen.label,
                     Assessment(s, analysis.findings))
        BY <4>1, <2>1, <3>1, <3>2, PutType
      <4>2. CASE store' = store
        BY <4>2 DEF TypeOK
      <4> QED
        BY <2>4, <4>1, <4>2 DEF UpdateReport
    <3> QED
      BY <2>2, <2>4, <3>3 DEF UpdateReport, TypeOK
  <2>5. CASE WriteReportFails(s)
    <3>1. disturbances' \in 0..MaxDisturbances
      BY <2>5, DisturbType DEF WriteReportFails, TypeOK
    <3> QED
      BY <2>2, <2>5, <3>1 DEF WriteReportFails, TypeOK
  <2> QED
    BY <1>3, <2>3, <2>4, <2>5 DEF WriteReport
<1>4. ASSUME ReadReport PROVE TypeOK'
  <2>1. cache[ReportOf[analysis.src]] \in Object \cup {None}
    BY <1>4, RefAssumption DEF ReadReport, TypeOK, WorkersOK
  <2> QED
    BY <1>0, <1>4, <2>1 DEF ReadReport, TypeOK, AnalysisState
<1>5. ASSUME AnalysisDone PROVE TypeOK'
  <2>1. analysis.key \in Report
    BY <1>5 DEF AnalysisDone, WorkersOK
  <2>2. Idle \in AnalysisState
    BY DEF Idle, AnalysisState
  <2> QED
    BY <1>5, <2>1, <2>2 DEF AnalysisDone, TypeOK
<1> QED
  BY <1>1, <1>2, <1>3, <1>4, <1>5

(* The steps of ReportController. *)
LEMMA ReporterTypeOK ==
    ASSUME TypeOK, NEW r \in Report, Reporter(r)
    PROVE  TypeOK'
<1>0. reporter \in ReporterState
  BY DEF TypeOK
<1>1. Waiting \in ReporterState
  BY DEF Waiting, ReporterState
<1>2. CASE ReporterRead(r)
  <2>1. reporter' \in ReporterState
    <3>1. cache[r] \in Object \cup {None}
      BY DEF TypeOK
    <3> QED
      BY <1>0, <1>2, <3>1 DEF ReporterRead, ReporterState
  <2> QED
    BY <1>2, <2>1 DEF ReporterRead, TypeOK
<1>3. CASE ReporterWrite(r)
  <2>1. reporter.seen \in Object
    BY <1>0, <1>3 DEF ReporterWrite, Matches, ReporterState
  <2>2. /\ reporter.seen.label \in Source \cup {None}
        /\ Normalised(reporter.seen.status) \in Status
    BY <2>1, NormalisedType DEF Object
  <2>3. store' \in [Report -> Object \cup {None}]
    BY <1>3, <2>2, PutType DEF ReporterWrite
  <2> QED
    BY <1>1, <1>3, <2>3 DEF ReporterWrite, TypeOK
<1>4. CASE ReporterWriteFails(r)
  <2>1. disturbances' \in 0..MaxDisturbances
    BY <1>4, DisturbType DEF ReporterWriteFails, TypeOK
  <2> QED
    BY <1>1, <1>4, <2>1 DEF ReporterWriteFails, TypeOK
<1> QED
  BY <1>2, <1>3, <1>4 DEF Reporter

LEMMA NextTypeOK ==
    ASSUME TypeOK, WorkersOK, [Next]_vars
    PROVE  TypeOK'
<1>1. CASE Next
  BY <1>1, UserTypeOK, ManagerTypeOK, AnalysisTypeOK, ReporterTypeOK DEF Next
<1>2. CASE UNCHANGED vars
  BY <1>2 DEF vars, controllers, TypeOK
<1> QED
  BY <1>1, <1>2

LEMMA InitWorkersOK == Init => WorkersOK
BY DEF Init, Idle, Waiting, WorkersOK

(* Only these steps change a worker. *)
LEMMA NextWorkersOK ==
    ASSUME TypeOK, WorkersOK, [Next]_vars
    PROVE  WorkersOK'
<1>0. analysis \in AnalysisState /\ reporter \in ReporterState
  BY DEF TypeOK
<1>1. ASSUME UNCHANGED <<analysis, reporter>> PROVE WorkersOK'
  BY <1>1 DEF WorkersOK
<1>2. ASSUME NEW s, analysis' = NextSource(s), reporter' = reporter,
             analysis.pc # "idle"
      PROVE  WorkersOK'
  BY <1>0, <1>2 DEF WorkersOK, NextSource, AnalysisState
<1>3. ASSUME NEW f \in Ref, Push(f) \/ Expire(f) PROVE WorkersOK'
  BY <1>1, <1>3 DEF Push, Expire, controllers
<1>4. ASSUME NEW r \in Report, User(r) \/ Manager(r) PROVE WorkersOK'
  BY <1>1, <1>4 DEF User, ApplyReport, DeleteReport, Touch, EditState, Manager,
                    Deliver, AnalysisTimer, controllers
<1>5. ASSUME NEW r \in Report, AnalysisStart(r) PROVE WorkersOK'
  BY <1>0, <1>5 DEF AnalysisStart, Idle, WorkersOK, AnalysisState
<1>6. ASSUME NEW r \in Report, Reporter(r) PROVE WorkersOK'
  BY <1>0, <1>6 DEF Reporter, ReporterRead, ReporterWrite, ReporterWriteFails,
                    Waiting, WorkersOK, ReporterState
<1>7. ASSUME NEW s \in Source, Discover(s) PROVE WorkersOK'
  BY <1>1, <1>7 DEF Discover, controllers
<1>8. ASSUME NEW s \in Source, NEW F, Scan(s, F), Analysing(s) PROVE WorkersOK'
  BY <1>0, <1>8 DEF Scan, Analysing, WorkersOK, AnalysisState
<1>9. ASSUME NEW s \in Source, Analyze(s) PROVE WorkersOK'
  BY <1>2, <1>8, <1>9 DEF Analyze, AnalyzeCached, AnalyzeFetched, AnalyzePartly,
                          AnalyzeFails, Analysing
<1>10. ASSUME NEW s \in Source, WriteReport(s) PROVE WorkersOK'
  BY <1>2, <1>10 DEF WriteReport, CreateReport, UpdateReport, WriteReportFails,
                     Writing
<1>11. ASSUME ReadReport PROVE WorkersOK'
  BY <1>0, <1>11 DEF ReadReport, WorkersOK, AnalysisState
<1>12. ASSUME AnalysisDone \/ Restart PROVE WorkersOK'
  BY <1>12 DEF AnalysisDone, Restart, Idle, Waiting, WorkersOK
<1>13. CASE UNCHANGED vars
  BY <1>1, <1>13 DEF vars, controllers
<1>14. CASE Next
  BY <1>14, <1>3, <1>4, <1>5, <1>6, <1>7, <1>9, <1>10, <1>11, <1>12 DEF Next
<1> QED
  BY <1>13, <1>14

(* In every reachable state each variable holds a value of its kind: the   *)
(* objects the API server, the informer and the workers hold are reports   *)
(* with a version, and queues hold names of reports.                       *)
THEOREM TypeCorrect == Spec => []TypeOK
<1>1. Init => TypeOK /\ WorkersOK
  BY InitTypeOK, InitWorkersOK
<1>2. TypeOK /\ WorkersOK /\ [Next]_vars => TypeOK' /\ WorkersOK'
  BY NextTypeOK, NextWorkersOK
<1> QED
  BY <1>1, <1>2, PTL DEF Spec

-----------------------------------------------------------------------------
(* Versions identify objects.                                              *)

(* The workers forget the copies they do not keep. *)
KeepsCopies ==
    /\ analysis'.seen # None =>
          analysis'.seen = analysis.seen /\ analysis'.src = analysis.src
    /\ reporter'.seen # None =>
          reporter'.seen = reporter.seen /\ reporter'.key = reporter.key

(* Writes: no copy carries the new version. *)
LEMMA PutIdentifies ==
    ASSUME TypeOK, WorkersOK, VersionsIdentify, NEW r \in Report,
           NEW l \in Source \cup {None}, NEW st \in Status, Put(r, l, st),
           cache' = cache, KeepsCopies
    PROVE  VersionsIdentify'
<1>1. /\ store'[r].rv \notin Held(r)
      /\ \A q \in Report \ {r} : store'[q] = store[q]
  BY PutType
<1>2. \A o \in {cache[r], analysis.seen, reporter.seen} \ {None} :
        o.rv # store'[r].rv
  BY <1>1 DEF Held
<1>3. analysis.seen # None => ReportOf[analysis.src] \in Report
  BY RefAssumption DEF WorkersOK, TypeOK, AnalysisState
<1>4. reporter.seen # None => reporter.key \in Report
  BY DEF WorkersOK, TypeOK, ReporterState
<1>5. ASSUME NEW q \in Report PROVE Faithful(q, cache[q])'
  BY <1>1, <1>2, <1>5 DEF VersionsIdentify, Faithful
<1>6. analysis'.seen # None => Faithful(ReportOf[analysis.src], analysis.seen)'
  BY <1>1, <1>2, <1>3 DEF VersionsIdentify, Faithful, KeepsCopies
<1>7. reporter'.seen # None => Faithful(reporter.key, reporter.seen)'
  BY <1>1, <1>2, <1>4 DEF VersionsIdentify, Faithful, KeepsCopies
<1> QED
  BY <1>5, <1>6, <1>7 DEF VersionsIdentify

(* Steps that write nothing. *)
LEMMA SameStoreIdentifies ==
    ASSUME VersionsIdentify, store' = store, cache' = cache, KeepsCopies
    PROVE  VersionsIdentify'
BY DEF VersionsIdentify, Faithful, KeepsCopies

(* The two workers let go of what they have read whenever they move on. *)
LEMMA NextSourceKeepsCopies ==
    ASSUME TypeOK, NEW s, analysis' = NextSource(s), reporter' = reporter
    PROVE  KeepsCopies
BY DEF TypeOK, AnalysisState, NextSource, KeepsCopies

LEMMA NextIdentifies ==
    ASSUME TypeOK, WorkersOK, VersionsIdentify, [Next]_vars
    PROVE  VersionsIdentify'
<1>0. /\ analysis \in AnalysisState
      /\ reporter \in ReporterState
      /\ store \in [Report -> Object \cup {None}]
      /\ cache \in [Report -> Object \cup {None}]
  BY DEF TypeOK
<1>1. ASSUME UNCHANGED <<analysis, reporter>> PROVE KeepsCopies
  BY <1>1 DEF KeepsCopies
<1>2. ASSUME NEW f \in Ref, Push(f) \/ Expire(f) PROVE VersionsIdentify'
  BY <1>1, <1>2, SameStoreIdentifies DEF Push, Expire, controllers
<1>3. ASSUME NEW r \in Report, User(r) PROVE VersionsIdentify'
  <2>0. cache' = cache /\ KeepsCopies
    BY <1>1, <1>3 DEF User, ApplyReport, DeleteReport, Touch, EditState,
                      controllers
  <2>1. CASE ApplyReport(r)
    BY <2>0, <2>1, PutIdentifies, EmptyStatusType DEF ApplyReport
  <2>2. CASE DeleteReport(r)
    BY <1>0, <2>2 DEF DeleteReport, VersionsIdentify, Faithful, controllers
  <2>3. CASE Touch(r)
    BY <1>0, <2>0, <2>3, PutIdentifies DEF Touch, Object
  <2>4. CASE EditState(r)
    <3>1. store[r].label \in Source \cup {None} /\ store[r].status \in Status
      BY <1>0, <2>4 DEF EditState, Object
    <3>2. \A c \in ComplianceStates :
            [store[r].status EXCEPT !.state = c] \in Status
      BY <3>1 DEF Status, States
    <3> QED
      BY <2>0, <2>4, <3>1, <3>2, PutIdentifies DEF EditState
  <2> QED
    BY <1>3, <2>1, <2>2, <2>3, <2>4 DEF User
<1>4. ASSUME NEW r \in Report, Manager(r) PROVE VersionsIdentify'
  <2>1. CASE Deliver(r)
    BY <1>0, <2>1 DEF Deliver, VersionsIdentify, Faithful
  <2>2. CASE AnalysisTimer(r)
    BY <1>1, <2>2, SameStoreIdentifies DEF AnalysisTimer
  <2> QED
    BY <1>4, <2>1, <2>2 DEF Manager
<1>5. ASSUME NEW r \in Report, AnalysisStart(r) PROVE VersionsIdentify'
  <2>1. KeepsCopies
    BY <1>5 DEF AnalysisStart, KeepsCopies, Idle
  <2> QED
    BY <1>5, <2>1, SameStoreIdentifies DEF AnalysisStart
<1>6. ASSUME NEW r \in Report, Reporter(r) PROVE VersionsIdentify'
  <2>1. CASE ReporterRead(r)
    BY <1>0, <2>1 DEF ReporterRead, VersionsIdentify, Faithful
  <2>2. CASE ReporterWrite(r)
    <3>1. /\ reporter.seen.label \in Source \cup {None}
          /\ Normalised(reporter.seen.status) \in Status
      BY <1>0, <2>2, NormalisedType DEF ReporterWrite, Matches, ReporterState,
                                        Object
    <3>2. KeepsCopies
      BY <2>2 DEF ReporterWrite, KeepsCopies, Waiting
    <3> QED
      BY <2>2, <3>1, <3>2, PutIdentifies DEF ReporterWrite
  <2>3. CASE ReporterWriteFails(r)
    <3>1. KeepsCopies
      BY <2>3 DEF ReporterWriteFails, KeepsCopies, Waiting
    <3> QED
      BY <2>3, <3>1, SameStoreIdentifies DEF ReporterWriteFails
  <2> QED
    BY <1>6, <2>1, <2>2, <2>3 DEF Reporter
<1>7. ASSUME NEW s \in Source, Discover(s) PROVE VersionsIdentify'
  BY <1>1, <1>7, SameStoreIdentifies DEF Discover, controllers
<1>8. ASSUME NEW s \in Source, Analyze(s) PROVE VersionsIdentify'
  <2>1. ASSUME NEW F, Scan(s, F), Analysing(s) PROVE VersionsIdentify'
    <3>1. KeepsCopies
      BY <1>0, <2>1 DEF Scan, Analysing, WorkersOK, KeepsCopies, AnalysisState
    <3> QED
      BY <2>1, <3>1, SameStoreIdentifies DEF Scan
  <2>2. CASE AnalyzeFails(s)
    BY <2>2, NextSourceKeepsCopies, SameStoreIdentifies DEF AnalyzeFails
  <2> QED
    BY <1>8, <2>1, <2>2 DEF Analyze, AnalyzeCached, AnalyzeFetched, AnalyzePartly
<1>9. ASSUME NEW s \in Source, WriteReport(s) PROVE VersionsIdentify'
  <2>0. cache' = cache /\ KeepsCopies
    BY <1>9, NextSourceKeepsCopies
       DEF WriteReport, CreateReport, UpdateReport, WriteReportFails
  <2>1. ReportOf[s] \in Report
    BY RefAssumption
  <2>2. CASE CreateReport(s)
    BY <2>0, <2>1, <2>2, PutIdentifies, EmptyStatusType DEF CreateReport
  <2>3. CASE UpdateReport(s)
    <3>1. /\ analysis.seen.label \in Source \cup {None}
          /\ Assessment(s, analysis.findings) \in Status
      BY <1>0, <2>3, AssessmentType DEF UpdateReport, Matches, AnalysisState,
                                        Object
    <3> QED
      BY <2>0, <2>1, <2>3, <3>1, PutIdentifies, SameStoreIdentifies
         DEF UpdateReport
  <2>4. CASE WriteReportFails(s)
    BY <2>0, <2>4, SameStoreIdentifies DEF WriteReportFails
  <2> QED
    BY <1>9, <2>2, <2>3, <2>4 DEF WriteReport
<1>10. ASSUME ReadReport PROVE VersionsIdentify'
  <2>1. ReportOf[analysis.src] \in Report
    BY <1>10, RefAssumption DEF ReadReport, WorkersOK
  <2> QED
    BY <1>0, <1>10, <2>1 DEF ReadReport, VersionsIdentify, Faithful,
                             AnalysisState
<1>11. ASSUME AnalysisDone PROVE VersionsIdentify'
  <2>1. KeepsCopies
    BY <1>11 DEF AnalysisDone, KeepsCopies, Idle
  <2> QED
    BY <1>11, <2>1, SameStoreIdentifies DEF AnalysisDone
<1>12. ASSUME Restart PROVE VersionsIdentify'
  BY <1>12 DEF Restart, VersionsIdentify, Faithful, Idle, Waiting
<1>13. CASE UNCHANGED vars
  BY <1>1, <1>13, SameStoreIdentifies DEF vars, controllers
<1>14. CASE Next
  BY <1>14, <1>2, <1>3, <1>4, <1>5, <1>6, <1>7, <1>8, <1>9, <1>10, <1>11, <1>12
     DEF Next
<1> QED
  BY <1>13, <1>14

(* The inductive invariant of the versions. *)
VersionInv == TypeOK /\ WorkersOK /\ VersionsIdentify

LEMMA VersionInvInductive ==
    /\ Init => VersionInv
    /\ VersionInv /\ [Next]_vars => VersionInv'
<1>1. Init => VersionsIdentify
  BY DEF Init, VersionsIdentify, Faithful, Idle, Waiting
<1>2. Init => VersionInv
  BY <1>1, InitTypeOK, InitWorkersOK DEF VersionInv
<1>3. VersionInv /\ [Next]_vars => VersionInv'
  BY NextTypeOK, NextWorkersOK, NextIdentifies DEF VersionInv
<1> QED
  BY <1>2, <1>3

(* A copy that still carries the version of the stored report is equal to  *)
(* it, whoever holds the copy.                                             *)
THEOREM CopiesIdentified == Spec => []VersionsIdentify
<1>1. VersionInv => VersionsIdentify
  BY DEF VersionInv
<1> QED
  BY <1>1, VersionInvInductive, PTL DEF Spec

-----------------------------------------------------------------------------
(* ReportController.                                                       *)

(* A step that changes ReportController's worker and the store is a write  *)
(* of the worker's that went through.                                      *)
LEMMA ReporterStep ==
    ASSUME Next, reporter' # reporter, store' # store
    PROVE  \E r \in Report : ReporterWrite(r)
BY DEF Next, Push, Expire, User, ApplyReport, DeleteReport, Touch, EditState,
       Manager, Deliver, AnalysisTimer, AnalysisStart, Reporter, ReporterRead,
       ReporterWriteFails, Discover, Analyze, AnalyzeCached, AnalyzeFetched,
       AnalyzePartly, AnalyzeFails, Scan, WriteReport, CreateReport,
       UpdateReport, WriteReportFails, ReadReport, AnalysisDone, Restart,
       controllers

(* ReportController replaces the compliance state and the summary of the   *)
(* stored report and nothing else, however long ago it read its copy.      *)
THEOREM ReporterIsAtomic == Spec => ReporterOnlyNormalises
<1> DEFINE P(r) ==
      reporter' # reporter /\ store'[r] # store[r] =>
          /\ store[r] # None
          /\ store'[r] # None
          /\ store'[r].label = store[r].label
          /\ store'[r].status = Normalised(store[r].status)
<1>1. ASSUME VersionInv, [Next]_vars, NEW r \in Report PROVE P(r)
  <2>1. SUFFICES ASSUME reporter' # reporter, store'[r] # store[r]
                 PROVE  /\ store[r] # None
                        /\ store'[r] # None
                        /\ store'[r].label = store[r].label
                        /\ store'[r].status = Normalised(store[r].status)
    OBVIOUS
  <2>2. PICK q \in Report : ReporterWrite(q)
    BY <1>1, <2>1, ReporterStep DEF vars, controllers
  <2>3. /\ TypeOK
        /\ reporter.seen \in Object
        /\ store[q] # None
        /\ reporter.seen # None
        /\ reporter.seen.rv = store[q].rv
        /\ reporter.key = q
    BY <1>1, <2>2 DEF ReporterWrite, Matches, VersionInv, TypeOK, ReporterState
  <2>4. reporter.seen = store[q]
    BY <1>1, <2>3 DEF VersionInv, VersionsIdentify, Faithful
  <2>5. /\ store[q].label \in Source \cup {None}
        /\ Normalised(store[q].status) \in Status
    BY <2>3, <2>4, NormalisedType DEF Object
  <2>6. /\ store'[q] \in Object
        /\ store'[q].label = store[q].label
        /\ store'[q].status = Normalised(store[q].status)
        /\ \A p \in Report \ {q} : store'[p] = store[p]
    BY <2>2, <2>3, <2>4, <2>5, PutType DEF ReporterWrite
  <2> QED
    BY <2>1, <2>3, <2>6, ObjectAssumption
<1>2. VersionInv /\ [Next]_vars => [\A r \in Report : P(r)]_vars
  BY <1>1
<1> QED
  BY <1>2, VersionInvInductive, PTL DEF Spec, ReporterOnlyNormalises

-----------------------------------------------------------------------------
(* Where findings come from.                                               *)

(* Everything on the way from a repository to a report is genuine: the     *)
(* analyzer's cache, and the scan in the hands of AnalysisController.      *)
PipelineGenuine ==
    /\ \A f \in Ref : upstream[f] \subseteq published[f]
    /\ \A f \in Ref : scanned[f] # None => scanned[f] \subseteq published[f]
    /\ analysis.pc \in {"read", "write"} =>
          analysis.findings \subseteq published[RefOf[analysis.src]]

GenuineInv == VersionInv /\ PipelineGenuine /\ NoForeignFindings

LEMMA InitGenuine == Init => PipelineGenuine /\ NoForeignFindings
<1> SUFFICES ASSUME Init PROVE PipelineGenuine /\ NoForeignFindings
  OBVIOUS
<1>1. PipelineGenuine
  BY DEF Init, PipelineGenuine, Idle
<1>2. \A r \in Existing : store[r].status = EmptyStatus
  BY DEF Init, Existing
<1>3. Genuine(EmptyStatus)
  BY DEF Genuine, EmptyStatus
<1> QED
  BY <1>1, <1>2, <1>3 DEF NoForeignFindings

(* What was published stays published. *)
LEMMA PublishedGrows ==
    ASSUME TypeOK, [Next]_vars
    PROVE  \A f \in Ref : published[f] \subseteq published'[f]
<1>1. published' = published \/ \E f \in Ref : Push(f)
  BY DEF Next, Expire, User, ApplyReport, DeleteReport, Touch, EditState,
         Manager, Deliver, AnalysisTimer, AnalysisStart, Reporter,
         ReporterRead, ReporterWrite, ReporterWriteFails, Discover, Analyze,
         AnalyzeCached, AnalyzeFetched, AnalyzePartly, AnalyzeFails, Scan,
         WriteReport, CreateReport, UpdateReport, WriteReportFails, ReadReport,
         AnalysisDone, Restart, vars
<1> QED
  BY <1>1 DEF Push, TypeOK

(* Steps that leave the pipeline alone. *)
LEMMA SamePipelineGenuine ==
    ASSUME PipelineGenuine, UNCHANGED <<upstream, published>>,
           \A f \in Ref : scanned'[f] \in {scanned[f], None},
           \/ analysis' = analysis
           \/ analysis'.pc \notin {"read", "write"}
           \/ /\ analysis'.findings = analysis.findings
              /\ analysis'.src = analysis.src
              /\ analysis.pc = "read"
    PROVE  PipelineGenuine'
BY DEF PipelineGenuine

LEMMA NextPipelineGenuine ==
    ASSUME VersionInv, PipelineGenuine, [Next]_vars
    PROVE  PipelineGenuine'
<1>0. TypeOK /\ WorkersOK /\ analysis \in AnalysisState
  BY DEF VersionInv, TypeOK
<1>1. ASSUME NEW f \in Ref, Push(f) PROVE PipelineGenuine'
  BY <1>0, <1>1, RefAssumption
     DEF Push, PipelineGenuine, TypeOK, WorkersOK, controllers
<1>2. ASSUME NEW f \in Ref, Expire(f) PROVE PipelineGenuine'
  BY <1>0, <1>2, SamePipelineGenuine DEF Expire, TypeOK, controllers
<1>3. ASSUME NEW r \in Report,
             User(r) \/ Manager(r) \/ AnalysisStart(r) \/ Reporter(r)
      PROVE  PipelineGenuine'
  <2>1. UNCHANGED <<upstream, published, scanned>>
    BY <1>3 DEF User, ApplyReport, DeleteReport, Touch, EditState, Manager,
                Deliver, AnalysisTimer, AnalysisStart, Reporter, ReporterRead,
                ReporterWrite, ReporterWriteFails
  <2>2. analysis' = analysis \/ analysis'.pc \notin {"read", "write"}
    BY <1>3 DEF User, ApplyReport, DeleteReport, Touch, EditState, Manager,
                Deliver, AnalysisTimer, AnalysisStart, Reporter, ReporterRead,
                ReporterWrite, ReporterWriteFails, controllers, Idle
  <2> QED
    BY <2>1, <2>2, SamePipelineGenuine
<1>4. ASSUME NEW s \in Source, Analyze(s) PROVE PipelineGenuine'
  <2>1. ASSUME NEW F, Scan(s, F), F \subseteq published[RefOf[s]],
               \/ scanned' = scanned
               \/ scanned' = [scanned EXCEPT ![RefOf[s]] = F]
        PROVE  PipelineGenuine'
    <3>1. analysis'.findings = F /\ analysis'.src = s
      BY <1>0, <2>1 DEF Scan, AnalysisState
    <3>2. \A f \in Ref : scanned'[f] # None => scanned'[f] \subseteq published[f]
      BY <1>0, <2>1 DEF PipelineGenuine, TypeOK
    <3> QED
      BY <2>1, <3>1, <3>2 DEF Scan, PipelineGenuine
  <2>2. RefOf[s] \in Ref
    BY RefAssumption
  <2>3. CASE AnalyzeCached(s)
    BY <2>1, <2>2, <2>3 DEF AnalyzeCached, PipelineGenuine
  <2>4. CASE AnalyzeFetched(s)
    BY <2>1, <2>2, <2>4 DEF AnalyzeFetched, PipelineGenuine
  <2>5. CASE AnalyzePartly(s)
    <3>1. PICK F \in SUBSET upstream[RefOf[s]] :
            /\ Scan(s, F)
            /\ scanned' = [scanned EXCEPT ![RefOf[s]] = F]
      BY <2>5 DEF AnalyzePartly
    <3>2. F \subseteq published[RefOf[s]]
      BY <2>2 DEF PipelineGenuine
    <3> QED
      BY <2>1, <3>1, <3>2
  <2>6. CASE AnalyzeFails(s)
    BY <1>0, <2>6, SamePipelineGenuine DEF AnalyzeFails, NextSource,
                                           AnalysisState
  <2> QED
    BY <1>4, <2>3, <2>4, <2>5, <2>6 DEF Analyze
<1>5. ASSUME NEW s \in Source, WriteReport(s) PROVE PipelineGenuine'
  BY <1>0, <1>5, SamePipelineGenuine
     DEF WriteReport, CreateReport, UpdateReport, WriteReportFails, NextSource,
         AnalysisState
<1>6. ASSUME NEW s \in Source, Discover(s) PROVE PipelineGenuine'
  BY <1>6, SamePipelineGenuine DEF Discover, controllers
<1>7. ASSUME ReadReport PROVE PipelineGenuine'
  BY <1>0, <1>7, SamePipelineGenuine DEF ReadReport, AnalysisState
<1>8. ASSUME AnalysisDone PROVE PipelineGenuine'
  BY <1>8, SamePipelineGenuine DEF AnalysisDone, Idle
<1>9. ASSUME Restart PROVE PipelineGenuine'
  BY <1>9, SamePipelineGenuine DEF Restart, Idle
<1>10. CASE UNCHANGED vars
  BY <1>10, SamePipelineGenuine DEF vars, controllers
<1>11. CASE Next
  BY <1>11, <1>1, <1>2, <1>3, <1>4, <1>5, <1>6, <1>7, <1>8, <1>9 DEF Next
<1> QED
  BY <1>10, <1>11

(* A status written over a report: its findings are those of the report,   *)
(* or none, or those of the scan.                                          *)
LEMMA PutGenuine ==
    ASSUME TypeOK, [Next]_vars, NoForeignFindings, NEW r \in Report,
           NEW l \in Source \cup {None}, NEW st \in Status, Put(r, l, st),
           Genuine(st)
    PROVE  NoForeignFindings'
<1>1. \A f \in Ref : published[f] \subseteq published'[f]
  BY PublishedGrows
<1>2. /\ store'[r].status = st
      /\ \A q \in Report \ {r} : store'[q] = store[q]
  BY PutType
<1>3. \A q \in Existing : store[q].status.of \in Source \cup {None}
  BY DEF TypeOK, Existing, Object, Status
<1>4. st.of \in Source \cup {None}
  BY DEF Status
<1> QED
  BY <1>1, <1>2, <1>3, <1>4, RefAssumption DEF NoForeignFindings, Genuine, Existing

LEMMA SameStoreGenuine ==
    ASSUME TypeOK, [Next]_vars, NoForeignFindings,
           \A r \in Report : store'[r] \in {store[r], None}
    PROVE  NoForeignFindings'
<1>1. \A f \in Ref : published[f] \subseteq published'[f]
  BY PublishedGrows
<1>2. \A q \in Existing : store[q].status.of \in Source \cup {None}
  BY DEF TypeOK, Existing, Object, Status
<1> QED
  BY <1>1, <1>2, RefAssumption DEF NoForeignFindings, Genuine, Existing

LEMMA NextNoForeignFindings ==
    ASSUME GenuineInv, [Next]_vars
    PROVE  NoForeignFindings'
<1>0. /\ TypeOK
      /\ NoForeignFindings
      /\ analysis \in AnalysisState
      /\ reporter \in ReporterState
      /\ store \in [Report -> Object \cup {None}]
  BY DEF GenuineInv, VersionInv, TypeOK
<1>1. ASSUME NEW r \in Report, User(r) PROVE NoForeignFindings'
  <2>1. CASE ApplyReport(r)
    <3>1. Genuine(EmptyStatus)
      BY DEF Genuine, EmptyStatus
    <3> QED
      BY <1>0, <2>1, <3>1, PutGenuine, EmptyStatusType DEF ApplyReport
  <2>2. CASE DeleteReport(r)
    BY <1>0, <2>2, SameStoreGenuine DEF DeleteReport
  <2>3. CASE Touch(r)
    <3>1. /\ store[r].label \in Source \cup {None}
          /\ store[r].status \in Status
          /\ Genuine(store[r].status)
      BY <1>0, <2>3 DEF Touch, Object, NoForeignFindings, Existing
    <3> QED
      BY <1>0, <2>3, <3>1, PutGenuine DEF Touch
  <2>4. CASE EditState(r)
    <3>1. /\ store[r].label \in Source \cup {None}
          /\ store[r].status \in Status
          /\ Genuine(store[r].status)
      BY <1>0, <2>4 DEF EditState, Object, NoForeignFindings, Existing
    <3>2. \A c \in ComplianceStates :
            /\ [store[r].status EXCEPT !.state = c] \in Status
            /\ Genuine([store[r].status EXCEPT !.state = c])
      BY <3>1 DEF Status, States, Genuine
    <3> QED
      BY <1>0, <2>4, <3>1, <3>2, PutGenuine DEF EditState
  <2> QED
    BY <1>1, <2>1, <2>2, <2>3, <2>4 DEF User
<1>2. ASSUME NEW r \in Report, Reporter(r) PROVE NoForeignFindings'
  <2>1. CASE ReporterWrite(r)
    <3>1. /\ reporter.seen \in Object
          /\ reporter.seen = store[r]
          /\ r \in Existing
      BY <1>0, <2>1
         DEF ReporterWrite, Matches, GenuineInv, VersionInv, VersionsIdentify,
             Faithful, ReporterState, Existing
    <3>2. /\ reporter.seen.label \in Source \cup {None}
          /\ reporter.seen.status \in Status
          /\ Genuine(reporter.seen.status)
      BY <1>0, <3>1 DEF Object, NoForeignFindings
    <3>3. Normalised(reporter.seen.status) \in Status
      BY <3>2, NormalisedType
    <3>4. Genuine(Normalised(reporter.seen.status))
      BY <3>2 DEF Genuine, Normalised, Status
    <3> QED
      BY <1>0, <2>1, <3>2, <3>3, <3>4, PutGenuine DEF ReporterWrite
  <2>2. CASE ~ReporterWrite(r)
    BY <1>0, <1>2, <2>2, SameStoreGenuine
       DEF Reporter, ReporterRead, ReporterWriteFails
  <2> QED
    BY <2>1, <2>2
<1>3. ASSUME NEW s \in Source, WriteReport(s) PROVE NoForeignFindings'
  <2>1. ReportOf[s] \in Report
    BY RefAssumption
  <2>2. CASE CreateReport(s)
    <3>1. Genuine(EmptyStatus)
      BY DEF Genuine, EmptyStatus
    <3> QED
      BY <1>0, <2>1, <2>2, <3>1, PutGenuine, EmptyStatusType DEF CreateReport
  <2>3. CASE UpdateReport(s)
    <3>1. /\ analysis.seen.label \in Source \cup {None}
          /\ Assessment(s, analysis.findings) \in Status
      BY <1>0, <2>3, AssessmentType DEF UpdateReport, Matches, AnalysisState,
                                        Object
    <3>2. Genuine(Assessment(s, analysis.findings))
      BY <2>3, NoneAssumption
         DEF GenuineInv, PipelineGenuine, UpdateReport, Writing, Genuine,
             Assessment
    <3> QED
      BY <1>0, <2>1, <2>3, <3>1, <3>2, PutGenuine, SameStoreGenuine
         DEF UpdateReport
  <2>4. CASE WriteReportFails(s)
    BY <1>0, <2>4, SameStoreGenuine DEF WriteReportFails
  <2> QED
    BY <1>3, <2>2, <2>3, <2>4 DEF WriteReport
<1>4. ASSUME store' = store PROVE NoForeignFindings'
  BY <1>0, <1>4, SameStoreGenuine
<1>5. CASE UNCHANGED vars
  BY <1>4, <1>5 DEF vars
<1>6. CASE Next
  BY <1>1, <1>2, <1>3, <1>4, <1>6
     DEF Next, Push, Expire, Manager, Deliver, AnalysisTimer, AnalysisStart,
         Discover, Analyze, AnalyzeCached, AnalyzeFetched, AnalyzePartly,
         AnalyzeFails, Scan, ReadReport, AnalysisDone, Restart
<1> QED
  BY <1>5, <1>6

LEMMA GenuineInvInductive ==
    /\ Init => GenuineInv
    /\ GenuineInv /\ [Next]_vars => GenuineInv'
<1>1. Init => GenuineInv
  BY VersionInvInductive, InitGenuine DEF GenuineInv
<1>2. GenuineInv /\ [Next]_vars => GenuineInv'
  BY VersionInvInductive, NextPipelineGenuine, NextNoForeignFindings
     DEF GenuineInv
<1> QED
  BY <1>1, <1>2

(* A report never shows a finding that the ref it names never deserved,    *)
(* whichever sources share the report and however the writers race.        *)
THEOREM FindingsAreGenuine == Spec => []NoForeignFindings
<1>1. GenuineInv => NoForeignFindings
  BY DEF GenuineInv
<1> QED
  BY <1>1, GenuineInvInductive, PTL DEF Spec

-----------------------------------------------------------------------------
(* The refinement.                                                         *)

(* What a write does to the register. *)
LEMMA PutWrites ==
    ASSUME TypeOK, NEW r \in Report, NEW l \in Source \cup {None},
           NEW st \in Status, Put(r, l, st), UNCHANGED <<upstream, published>>
    PROVE  Register!Write(r, l, st)
<1>1. /\ store'[r].label = l
      /\ store'[r].status = st
      /\ store'[r] # None
      /\ \A q \in Report \ {r} : store'[q] = store[q]
  BY PutType, ObjectAssumption
<1>2. Reports' = [Reports EXCEPT ![r] = [label |-> l, status |-> st]]
  BY <1>1 DEF Reports
<1> QED
  BY <1>2 DEF Register!Write

(* A report that exists has a content. *)
LEMMA ReportsContent ==
    ASSUME TypeOK, NEW r \in Report
    PROVE  /\ (Reports[r] # None) <=> (store[r] # None)
           /\ store[r] # None =>
                 /\ store[r] \in Object
                 /\ Reports[r].label = store[r].label
                 /\ Reports[r].status = store[r].status
<1>1. ASSUME store[r] # None
      PROVE  store[r] \in Object
             /\ [label |-> store[r].label, status |-> store[r].status] \in Content
  BY <1>1 DEF TypeOK, Object, Content
<1> QED
  BY <1>1, NoneAssumption DEF Reports

(* The instance's operators on statuses are those of this module. *)
LEMMA SameStatuses ==
    /\ Register!EmptyStatus = EmptyStatus
    /\ Register!ComplianceStates = ComplianceStates
    /\ \A st : Register!Normalised(st) = Normalised(st)
    /\ \A s, F : Register!Assessment(s, F) = Assessment(s, F)
<1>1. \A F : Register!Summarize(F) = Summarize(F)
  BY DEF Register!Summarize, Summarize, Register!CountOf, CountOf,
         Register!Cardinality, Cardinality
<1>2. \A sum : Register!StateOf(sum) = StateOf(sum)
  BY DEF Register!StateOf, StateOf
<1>3. Register!ComplianceStates = ComplianceStates
  BY DEF Register!ComplianceStates, ComplianceStates
<1> QED
  BY <1>1, <1>2, <1>3
     DEF Register!EmptyStatus, EmptyStatus, Register!Normalised, Normalised,
         Register!Assessment, Assessment

LEMMA InitRefines == Init => Register!Init
<1> SUFFICES ASSUME Init PROVE Register!Init
  OBVIOUS
<1>1. TypeOK
  BY InitTypeOK
<1>2. \A r \in Report : store[r] # None => store[r].label = None
                                          /\ store[r].status = EmptyStatus
  BY DEF Init
<1>4. Reports \in [Report -> {None, [label |-> None, status |-> EmptyStatus]}]
  BY <1>2 DEF Reports
<1> QED
  BY <1>4, SameStatuses DEF Register!Init, Init

(* A user's step is one of the register's. *)
LEMMA UserRefines ==
    ASSUME TypeOK, NEW r \in Report, User(r)
    PROVE  Register!Next \/ UNCHANGED Register!vars
<1>1. store[r] # None => /\ store[r].label \in Source \cup {None}
                         /\ store[r].status \in Status
                         /\ Reports[r] # None
                         /\ Reports[r].label = store[r].label
                         /\ Reports[r].status = store[r].status
  BY ReportsContent DEF Object
<1>2. CASE ApplyReport(r)
  <2>1. Register!Write(r, None, EmptyStatus)
    BY <1>2, PutWrites, EmptyStatusType DEF ApplyReport
  <2>2. Register!Create(r, None)
    BY <1>2, <2>1, ReportsContent, SameStatuses DEF ApplyReport, Register!Create
  <2> QED
    BY <2>2 DEF Register!Next
<1>3. CASE DeleteReport(r)
  <2>1. Reports' = [Reports EXCEPT ![r] = None]
    BY <1>3 DEF DeleteReport, Reports, TypeOK
  <2>2. Register!Delete(r)
    BY <1>1, <1>3, <2>1 DEF DeleteReport, Register!Delete
  <2> QED
    BY <2>2 DEF Register!Next
<1>4. CASE Touch(r)
  <2>1. Register!Write(r, store[r].label, store[r].status)
    BY <1>1, <1>4, PutWrites DEF Touch
  <2>2. Reports' = Reports
    BY <1>1, <1>4, <2>1 DEF Touch, Register!Write, Reports
  <2> QED
    BY <2>2, <1>4 DEF Touch, Register!vars
<1>5. CASE EditState(r)
  <2>1. PICK c \in ComplianceStates :
          Put(r, store[r].label, [store[r].status EXCEPT !.state = c])
    BY <1>5 DEF EditState
  <2>2. [store[r].status EXCEPT !.state = c] \in Status
    BY <1>1, <1>5 DEF EditState, Status, States
  <2>3. Register!Write(r, store[r].label, [store[r].status EXCEPT !.state = c])
    BY <1>1, <1>5, <2>1, <2>2, PutWrites DEF EditState
  <2>4. Register!Edit(r, c)
    BY <1>1, <1>5, <2>3 DEF EditState, Register!Edit
  <2> QED
    BY <2>4, SameStatuses DEF Register!Next
<1> QED
  BY <1>2, <1>3, <1>4, <1>5 DEF User

(* An assessment takes effect in one step, whatever happened since its     *)
(* scan and its read.                                                      *)
LEMMA AnalysisRefines ==
    ASSUME GenuineInv, NEW s \in Source, WriteReport(s)
    PROVE  Register!Next \/ UNCHANGED Register!vars
<1>0. TypeOK /\ analysis \in AnalysisState /\ ReportOf[s] \in Report
  BY RefAssumption DEF GenuineInv, VersionInv, TypeOK
<1>1. CASE CreateReport(s)
  <2>1. Register!Write(ReportOf[s], s, EmptyStatus)
    BY <1>0, <1>1, PutWrites, EmptyStatusType DEF CreateReport
  <2>2. Register!Create(ReportOf[s], s)
    BY <1>0, <1>1, <2>1, ReportsContent, SameStatuses
       DEF CreateReport, Register!Create
  <2> QED
    BY <2>2 DEF Register!Next
<1>2. CASE UpdateReport(s)
  <2> DEFINE r == ReportOf[s]
             F == analysis.findings
  <2>1. /\ store[r] # None
        /\ analysis.seen = store[r]
    BY <1>0, <1>2
       DEF UpdateReport, Writing, Matches, GenuineInv, VersionInv,
           VersionsIdentify, Faithful
  <2>2. /\ store[r].label \in Source \cup {None}
        /\ Reports[r] # None
        /\ Reports[r].label = store[r].label
    BY <1>0, <2>1, ReportsContent DEF Object
  <2>3. F \in SUBSET Finding /\ Assessment(s, F) \in Status
    BY <1>0, AssessmentType DEF AnalysisState
  <2>4. F \in SUBSET published[RefOf[s]]
    BY <1>2 DEF UpdateReport, Writing, GenuineInv, PipelineGenuine
  <2>5. CASE Put(r, analysis.seen.label, Assessment(s, F))
    <3>1. Register!Write(r, store[r].label, Assessment(s, F))
      BY <1>0, <1>2, <2>1, <2>2, <2>3, <2>5, PutWrites DEF UpdateReport
    <3>2. Register!Assess(s)
      BY <2>2, <2>4, <3>1, SameStatuses DEF Register!Assess
    <3> QED
      BY <3>2 DEF Register!Next
  <2>6. CASE store' = store
    BY <1>2, <2>6 DEF UpdateReport, Reports, Register!vars
  <2> QED
    BY <1>2, <2>5, <2>6 DEF UpdateReport
<1>3. CASE WriteReportFails(s)
  BY <1>3 DEF WriteReportFails, Reports, Register!vars
<1> QED
  BY <1>1, <1>2, <1>3 DEF WriteReport

(* So does a normalisation. *)
LEMMA ReporterRefines ==
    ASSUME GenuineInv, NEW r \in Report, Reporter(r)
    PROVE  Register!Next \/ UNCHANGED Register!vars
<1>0. TypeOK /\ reporter \in ReporterState
  BY DEF GenuineInv, VersionInv, TypeOK
<1>1. CASE ReporterWrite(r)
  <2>1. store[r] # None /\ reporter.seen = store[r]
    BY <1>0, <1>1
       DEF ReporterWrite, Matches, GenuineInv, VersionInv, VersionsIdentify,
           Faithful
  <2>2. /\ store[r].label \in Source \cup {None}
        /\ store[r].status \in Status
        /\ Reports[r] # None
        /\ Reports[r].label = store[r].label
        /\ Reports[r].status = store[r].status
    BY <1>0, <2>1, ReportsContent DEF Object
  <2>3. Register!Write(r, store[r].label, Normalised(store[r].status))
    BY <1>0, <1>1, <2>1, <2>2, NormalisedType, PutWrites DEF ReporterWrite
  <2>4. Register!Normalise(r)
    BY <2>2, <2>3, SameStatuses DEF Register!Normalise
  <2> QED
    BY <2>4 DEF Register!Next
<1>2. CASE ~ReporterWrite(r)
  BY <1>2 DEF Reporter, ReporterRead, ReporterWriteFails, Reports, Register!vars
<1> QED
  BY <1>1, <1>2

LEMMA NextRefines ==
    ASSUME GenuineInv, [Next]_vars
    PROVE  [Register!Next]_(Register!vars)
<1>0. TypeOK
  BY DEF GenuineInv, VersionInv
<1>1. ASSUME NEW f \in Ref, Push(f) PROVE Register!Next
  BY <1>1 DEF Push, Reports, Register!Next, Register!Push
<1>2. ASSUME UNCHANGED <<upstream, published, store>>
      PROVE  UNCHANGED Register!vars
  BY <1>2 DEF Reports, Register!vars
<1>3. CASE UNCHANGED vars
  BY <1>2, <1>3 DEF vars
<1>4. CASE Next
  BY <1>0, <1>1, <1>2, <1>4, UserRefines, AnalysisRefines, ReporterRefines
     DEF Next, Expire, Manager, Deliver, AnalysisTimer, AnalysisStart, Discover,
         Analyze, AnalyzeCached, AnalyzeFetched, AnalyzePartly, AnalyzeFails,
         Scan, ReadReport, AnalysisDone, Restart
<1> QED
  BY <1>3, <1>4

(* AnalysisController and ReportController implement the register: seen    *)
(* from the outside their writes are atomic, for any number of sources,    *)
(* shared reports, restarts, conflicts and faults.                         *)
THEOREM LifecycleRefinesRegister == Spec => RefinesRegister
<1>1. Init => Register!Init
  BY InitRefines
<1>2. GenuineInv /\ [Next]_vars => [Register!Next]_(Register!vars)
  BY NextRefines
<1> QED
  BY <1>1, <1>2, GenuineInvInductive, PTL DEF Spec, Register!Spec, RefinesRegister

=============================================================================
