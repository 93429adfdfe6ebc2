------------------------ MODULE ReportQueues_proofs ------------------------
(***************************************************************************)
(* Proofs that the work queues of ReportLifecycle lose nothing: the safety *)
(* on which EventuallyCoherent and EventuallyCurrent rest, for any number  *)
(* of sources, reports, versions, restarts, conflicts and faults.          *)
(***************************************************************************)
EXTENDS ReportLifecycle_proofs

(* A worker that is idle has no request. *)
IdleHasNoKey ==
    /\ analysis.pc = "idle" => analysis.key = None
    /\ reporter.pc = "idle" => reporter.key = None

QueueInv == VersionInv /\ IdleHasNoKey /\ NoWakeUpLost /\ AnalysisGoesOn

-----------------------------------------------------------------------------
(* A write takes a version that the cache does not hold, so the watch has  *)
(* something to deliver.                                                   *)
LEMMA PutLeavesCacheBehind ==
    ASSUME TypeOK, NEW r \in Report, NEW l \in Source \cup {None},
           NEW st \in Status, Put(r, l, st)
    PROVE  /\ cache[r] # store'[r]
           /\ store[r] # store'[r]
           /\ \A q \in Report \ {r} : store'[q] = store[q]
<1>1. /\ store'[r] \in Object
      /\ store'[r].rv \notin Held(r)
      /\ \A q \in Report \ {r} : store'[q] = store[q]
  BY PutType
<1>2. \A o \in {store[r], cache[r]} \ {None} : o.rv # store'[r].rv
  BY <1>1 DEF Held
<1> QED
  BY <1>1, <1>2, ObjectAssumption

(* So every step that changes a report without deleting it leaves the      *)
(* cache behind.                                                           *)
LEMMA WritesLeaveCacheBehind ==
    ASSUME VersionInv, Next, NEW r \in Report, store'[r] # store[r],
           store'[r] # None
    PROVE  cache' = cache /\ cache[r] # store'[r]
<1>0. /\ TypeOK
      /\ WorkersOK
      /\ analysis \in AnalysisState
      /\ reporter \in ReporterState
      /\ store \in [Report -> Object \cup {None}]
  BY DEF VersionInv, TypeOK
<1>1. ASSUME NEW q \in Report, NEW l \in Source \cup {None}, NEW st \in Status,
             Put(q, l, st)
      PROVE  cache[r] # store'[r]
  BY <1>0, <1>1, PutLeavesCacheBehind
<1>2. ASSUME NEW q \in Report, User(q)
      PROVE  cache' = cache /\ cache[r] # store'[r]
  <2>1. cache' = cache
    BY <1>2 DEF User, ApplyReport, DeleteReport, Touch, EditState
  <2>2. CASE ApplyReport(q)
    BY <1>1, <2>1, <2>2, EmptyStatusType DEF ApplyReport
  <2>3. CASE DeleteReport(q)
    BY <1>0, <2>3 DEF DeleteReport
  <2>4. CASE Touch(q)
    BY <1>0, <1>1, <2>1, <2>4 DEF Touch, Object
  <2>5. CASE EditState(q)
    <3>1. store[q].label \in Source \cup {None} /\ store[q].status \in Status
      BY <1>0, <2>5 DEF EditState, Object
    <3>2. \A c \in ComplianceStates :
            [store[q].status EXCEPT !.state = c] \in Status
      BY <3>1 DEF Status, States
    <3> QED
      BY <1>1, <2>1, <2>5, <3>1, <3>2 DEF EditState
  <2> QED
    BY <1>2, <2>2, <2>3, <2>4, <2>5 DEF User
<1>3. ASSUME NEW q \in Report, Reporter(q)
      PROVE  cache' = cache /\ cache[r] # store'[r]
  <2>1. ReporterWrite(q)
    BY <1>3 DEF Reporter, ReporterRead, ReporterWriteFails
  <2>2. reporter.seen \in Object
    BY <1>0, <2>1 DEF ReporterWrite, Matches, ReporterState
  <2>3. /\ reporter.seen.label \in Source \cup {None}
        /\ Normalised(reporter.seen.status) \in Status
    BY <2>2, NormalisedType DEF Object
  <2> QED
    BY <1>1, <2>1, <2>3 DEF ReporterWrite
<1>4. ASSUME NEW s \in Source, WriteReport(s)
      PROVE  cache' = cache /\ cache[r] # store'[r]
  <2>1. cache' = cache /\ ReportOf[s] \in Report
    BY <1>4, RefAssumption
       DEF WriteReport, CreateReport, UpdateReport, WriteReportFails
  <2>2. CASE CreateReport(s)
    BY <1>1, <2>1, <2>2, EmptyStatusType DEF CreateReport
  <2>3. CASE UpdateReport(s)
    <3>1. /\ analysis.seen.label \in Source \cup {None}
          /\ Assessment(s, analysis.findings) \in Status
      BY <1>0, <2>3, AssessmentType DEF UpdateReport, Matches, AnalysisState,
                                        Object
    <3> QED
      BY <1>1, <2>1, <2>3, <3>1 DEF UpdateReport
  <2> QED
    BY <1>4, <2>2, <2>3 DEF WriteReport, WriteReportFails
<1> QED
  BY <1>2, <1>3, <1>4
     DEF Next, Push, Expire, Manager, Deliver, AnalysisTimer, AnalysisStart,
         Discover, Analyze, AnalyzeCached, AnalyzeFetched, AnalyzePartly,
         AnalyzeFails, Scan, ReadReport, AnalysisDone, Restart

LEMMA NextIdleHasNoKey ==
    ASSUME TypeOK, IdleHasNoKey, [Next]_vars
    PROVE  IdleHasNoKey'
<1>0. analysis \in AnalysisState /\ reporter \in ReporterState
  BY DEF TypeOK
<1>1. analysis' = analysis \/ analysis' = Idle \/ analysis'.pc # "idle"
  BY <1>0
     DEF Next, Push, Expire, User, ApplyReport, DeleteReport, Touch, EditState,
         Manager, Deliver, AnalysisTimer, AnalysisStart, Reporter,
         ReporterRead, ReporterWrite, ReporterWriteFails, Discover, Analyze,
         AnalyzeCached, AnalyzeFetched, AnalyzePartly, AnalyzeFails, Scan,
         WriteReport, CreateReport, UpdateReport, WriteReportFails, ReadReport,
         AnalysisDone, Restart, vars, controllers, NextSource, Idle,
         AnalysisState
<1>2. ASSUME NEW r \in Report, ReporterRead(r)
      PROVE  reporter' = reporter \/ reporter'.pc # "idle"
  BY <1>2 DEF ReporterRead
<1>3. \/ reporter' = reporter
      \/ reporter' = Waiting
      \/ \E r \in Report : ReporterRead(r)
  BY DEF Next, Push, Expire, User, ApplyReport, DeleteReport, Touch, EditState,
         Manager, Deliver, AnalysisTimer, AnalysisStart, Reporter,
         ReporterWrite, ReporterWriteFails, Discover, Analyze,
         AnalyzeCached, AnalyzeFetched, AnalyzePartly, AnalyzeFails, Scan,
         WriteReport, CreateReport, UpdateReport, WriteReportFails, ReadReport,
         AnalysisDone, Restart, vars, controllers
<1> QED
  BY <1>1, <1>2, <1>3 DEF IdleHasNoKey, Idle, Waiting

-----------------------------------------------------------------------------
(* ReportController's queue.                                               *)

(* The steps that may take a name off ReportController's hands, or the     *)
(* cache to where nothing is left to deliver.                              *)
LEMMA ReporterQueueSteps ==
    ASSUME Next
    PROVE  \/ \E q \in Report : Deliver(q) \/ Reporter(q)
           \/ Restart
           \/ UNCHANGED <<cache, rQueue, reporter>>
BY DEF Next, Push, Expire, User, ApplyReport, DeleteReport, Touch, EditState,
       Manager, AnalysisTimer, AnalysisStart, Discover, Analyze,
       AnalyzeCached, AnalyzeFetched, AnalyzePartly, AnalyzeFails, Scan,
       WriteReport, CreateReport, UpdateReport, WriteReportFails, ReadReport,
       AnalysisDone, controllers

LEMMA NextNoWakeUpLost ==
    ASSUME QueueInv, [Next]_vars
    PROVE  NoWakeUpLost'
<1>0. /\ TypeOK
      /\ WorkersOK
      /\ VersionInv
      /\ reporter \in ReporterState
      /\ cache \in [Report -> Object \cup {None}]
  BY DEF QueueInv, VersionInv, TypeOK
<1> SUFFICES ASSUME NEW r \in Report, store'[r] # None,
                    ~Coherent(store'[r].status), cache'[r] = store'[r]
             PROVE  r \in rQueue' \/ reporter'.key = r
  BY DEF NoWakeUpLost, Existing
<1>1. CASE UNCHANGED vars
  BY <1>1 DEF vars, controllers, QueueInv, NoWakeUpLost, Existing
<1>2. CASE Next
  <2>1. store'[r] = store[r]
    BY <1>0, <1>2, WritesLeaveCacheBehind
  <2>2. cache[r] = store[r] => r \in rQueue \/ reporter.key = r
    BY <2>1 DEF QueueInv, NoWakeUpLost, Existing
  <2>3. CASE \E q \in Report : Deliver(q)
    BY <1>0, <2>1, <2>2, <2>3 DEF Deliver
  <2>4. ASSUME NEW q \in Report, ReporterRead(q)
        PROVE  r \in rQueue' \/ reporter'.key = r
    <3>1. r \in rQueue
      BY <1>0, <2>1, <2>2, <2>4, NoneAssumption
         DEF ReporterRead, QueueInv, IdleHasNoKey
    <3> QED
      BY <2>1, <2>4, <3>1 DEF ReporterRead
  <2>5. ASSUME NEW q \in Report, ReporterWrite(q)
        PROVE  r \in rQueue' \/ reporter'.key = r
    <3>1. reporter.seen \in Object
      BY <1>0, <2>5 DEF ReporterWrite, Matches, ReporterState
    <3>2. /\ reporter.seen.label \in Source \cup {None}
          /\ Normalised(reporter.seen.status) \in Status
      BY <3>1, NormalisedType DEF Object
    <3>3. store[q] # store'[q]
      BY <1>0, <2>5, <3>2, PutLeavesCacheBehind DEF ReporterWrite
    <3> QED
      BY <2>1, <2>2, <2>5, <3>3 DEF ReporterWrite
  <2>6. ASSUME NEW q \in Report, ReporterWriteFails(q)
        PROVE  r \in rQueue' \/ reporter'.key = r
    BY <2>1, <2>2, <2>6 DEF ReporterWriteFails
  <2>7. CASE Restart
    BY <2>1, <2>7 DEF Restart, Existing
  <2>8. CASE UNCHANGED <<cache, rQueue, reporter>>
    BY <2>1, <2>2, <2>8
  <2> QED
    BY <1>2, <2>3, <2>4, <2>5, <2>6, <2>7, <2>8, ReporterQueueSteps DEF Reporter
<1> QED
  BY <1>1, <1>2

-----------------------------------------------------------------------------
(* AnalysisController's queue and timer.                                   *)

LEMMA AnalysisQueueSteps ==
    ASSUME TypeOK, Next
    PROVE  \/ \E q \in Report : Deliver(q) \/ AnalysisTimer(q) \/ AnalysisStart(q)
           \/ AnalysisDone
           \/ Restart
           \/ UNCHANGED <<cache, aQueue, aTimer>> /\ analysis'.key = analysis.key
<1>0. analysis \in AnalysisState
  BY DEF TypeOK
<1>1. ASSUME NEW s \in Source, Analyze(s) \/ WriteReport(s)
      PROVE  UNCHANGED <<cache, aQueue, aTimer>> /\ analysis'.key = analysis.key
  BY <1>0, <1>1 DEF Analyze, AnalyzeCached, AnalyzeFetched, AnalyzePartly,
                    AnalyzeFails, Scan, WriteReport, CreateReport,
                    UpdateReport, WriteReportFails, NextSource, AnalysisState
<1>2. ASSUME ReadReport
      PROVE  UNCHANGED <<cache, aQueue, aTimer>> /\ analysis'.key = analysis.key
  BY <1>0, <1>2 DEF ReadReport, AnalysisState
<1> QED
  BY <1>1, <1>2
     DEF Next, Push, Expire, User, ApplyReport, DeleteReport, Touch, EditState,
         Manager, Reporter, ReporterRead, ReporterWrite, ReporterWriteFails,
         Discover, controllers

LEMMA NextAnalysisGoesOn ==
    ASSUME QueueInv, [Next]_vars
    PROVE  AnalysisGoesOn'
<1>0. /\ TypeOK
      /\ VersionInv
      /\ cache \in [Report -> Object \cup {None}]
  BY DEF QueueInv, VersionInv, TypeOK
<1> SUFFICES ASSUME NEW r \in Report, store'[r] # None, cache'[r] = store'[r]
             PROVE  r \in aQueue' \cup aTimer' \/ analysis'.key = r
  BY DEF AnalysisGoesOn, Existing
<1>1. CASE UNCHANGED vars
  BY <1>1 DEF vars, controllers, QueueInv, AnalysisGoesOn, Existing
<1>2. CASE Next
  <2>1. store'[r] = store[r]
    BY <1>0, <1>2, WritesLeaveCacheBehind
  <2>2. cache[r] = store[r] => r \in aQueue \cup aTimer \/ analysis.key = r
    BY <2>1 DEF QueueInv, AnalysisGoesOn, Existing
  <2>3. ASSUME NEW q \in Report, Deliver(q)
        PROVE  r \in aQueue' \cup aTimer' \/ analysis'.key = r
    BY <1>0, <2>1, <2>2, <2>3 DEF Deliver
  <2>4. ASSUME NEW q \in Report, AnalysisTimer(q)
        PROVE  r \in aQueue' \cup aTimer' \/ analysis'.key = r
    BY <2>1, <2>2, <2>4 DEF AnalysisTimer
  <2>5. ASSUME NEW q \in Report, AnalysisStart(q)
        PROVE  r \in aQueue' \cup aTimer' \/ analysis'.key = r
    <3>1. r \in aQueue \cup aTimer
      BY <2>1, <2>2, <2>5, NoneAssumption
         DEF AnalysisStart, QueueInv, IdleHasNoKey
    <3> QED
      BY <2>5, <3>1 DEF AnalysisStart, Idle
  <2>6. CASE AnalysisDone
    BY <2>1, <2>2, <2>6 DEF AnalysisDone
  <2>7. CASE Restart
    BY <2>1, <2>7 DEF Restart, Existing
  <2>8. CASE UNCHANGED <<cache, aQueue, aTimer>> /\ analysis'.key = analysis.key
    BY <2>1, <2>2, <2>8
  <2> QED
    BY <1>0, <1>2, <2>3, <2>4, <2>5, <2>6, <2>7, <2>8, AnalysisQueueSteps
<1> QED
  BY <1>1, <1>2

-----------------------------------------------------------------------------
LEMMA QueueInvInductive ==
    /\ Init => QueueInv
    /\ QueueInv /\ [Next]_vars => QueueInv'
<1>1. Init => IdleHasNoKey /\ NoWakeUpLost /\ AnalysisGoesOn
  BY DEF Init, IdleHasNoKey, Idle, Waiting, NoWakeUpLost, AnalysisGoesOn, Existing
<1>2. Init => QueueInv
  BY <1>1, VersionInvInductive DEF QueueInv
<1>3. QueueInv /\ [Next]_vars => QueueInv'
  BY VersionInvInductive, NextIdleHasNoKey, NextNoWakeUpLost,
     NextAnalysisGoesOn DEF QueueInv, VersionInv
<1> QED
  BY <1>2, <1>3

(* However the watch lags, writes are refused and the operator restarts, a *)
(* report that is not in line with its findings is never forgotten: it     *)
(* waits for a step that fairness grants.                                  *)
THEOREM IncoherenceIsNeverForgotten == Spec => []NoWakeUpLost
<1>1. QueueInv => NoWakeUpLost
  BY DEF QueueInv
<1> QED
  BY <1>1, QueueInvInductive, PTL DEF Spec

(* While a report exists a request for a round of analysis is queued,      *)
(* being timed, in work or about to be queued.                             *)
THEOREM AnalysisNeverStops == Spec => []AnalysisGoesOn
<1>1. QueueInv => AnalysisGoesOn
  BY DEF QueueInv
<1> QED
  BY <1>1, QueueInvInductive, PTL DEF Spec

=============================================================================
