-------------------------- MODULE ReportLifecycle --------------------------
(***************************************************************************)
(* The life of the PipelineSecurityReports: AnalysisController scans the   *)
(* registered sources and writes the reports, ReportController brings a    *)
(* report's compliance state in line with its findings.  The two run in    *)
(* goroutines of their own, each fed by its own work queue; both read the  *)
(* manager's informer cache, which lags behind the API server, and both    *)
(* write whole status subresources guarded by the resource version of the  *)
(* object they read.                                                       *)
(*                                                                         *)
(* A resourceVersion is compared for equality only, so a write may take    *)
(* any version that no copy still in somebody's hands carries: NewVersion. *)
(*                                                                         *)
(* Disturbances, at most MaxDisturbances of them in a behaviour: pushes to *)
(* a repository, reports applied, touched, edited or deleted by users,     *)
(* restarts, incomplete or failed scans, and requests the API server fails *)
(* for a reason other than a conflict.  Conflicts are not bounded, and     *)
(* neither is the expiry of cached scans.                                  *)
(***************************************************************************)
EXTENDS ReportStatus

CONSTANTS
    Version,         \* resource versions
    MaxDisturbances  \* bound on user actions, restarts and faults

VARIABLES
    upstream,     \* per ref, the findings of a complete scan now; files
                  \* that the scanner cannot parse add none to it
    published,    \* per ref, all findings it ever deserved (history variable)
    scanned,      \* Analyzer.cache: per ref, the findings of a fresh scan
    registry,     \* SourceRegistry: the sources discovered so far
    store,        \* per report name, the object the API server holds
    cache,        \* per report name, the object the informer cache holds
    aQueue,       \* work queue of AnalysisController
    aTimer,       \* keys it will requeue after its interval
    rQueue,       \* work queue of ReportController
    analysis,     \* the worker of AnalysisController
    reporter,     \* the worker of ReportController
    disturbances  \* user actions, restarts and faults so far

controllers == <<aQueue, aTimer, rQueue, analysis, reporter>>
vars == <<upstream, published, scanned, registry, store, cache, controllers,
          disturbances>>

(* Four objects at most are in somebody's hands: the API server's, the     *)
(* informer's and one per worker.                                          *)
ASSUME VersionAssumption ==
    /\ Version # {}
    /\ \A a, b, c, d \in Version : \E v \in Version : v \notin {a, b, c, d}

ASSUME BoundAssumption == MaxDisturbances \in Nat

-----------------------------------------------------------------------------
(* Report objects.                                                         *)

Object == [rv : Version, label : Source \cup {None}, status : Status]

ASSUME ObjectAssumption == None \notin Object

(* The versions still in somebody's hands. *)
Held(r) ==
    {o.rv : o \in {store[r], cache[r], analysis.seen, reporter.seen} \ {None}}

NewVersion(r) == CHOOSE v \in Version : v \notin Held(r)

(* The optimistic concurrency check of an Update. *)
Matches(r, seen) ==
    /\ store[r] # None
    /\ seen # None
    /\ store[r].rv = seen.rv

Put(r, label, status) ==
    store' = [store EXCEPT ![r] = [rv |-> NewVersion(r), label |-> label,
                                   status |-> status]]

-----------------------------------------------------------------------------
(* The workers.                                                            *)

(* AnalysisController handles the request "key": it walks the sources in   *)
(* "todo"; "src" is the one being analysed, "findings" its scan and "seen" *)
(* the report read for it.                                                 *)
Idle == [pc |-> "idle", key |-> None, todo |-> {}, src |-> None,
         findings |-> {}, seen |-> None]

AnalysisState ==
    [pc : {"idle", "next", "read", "write"}, key : Report \cup {None},
     todo : SUBSET Source, src : Source \cup {None},
     findings : SUBSET Finding, seen : Object \cup {None}]

(* ReportController handles "key" and is about to write what it made of    *)
(* "seen".                                                                 *)
Waiting == [pc |-> "idle", key |-> None, seen |-> None]

ReporterState ==
    [pc : {"idle", "write"}, key : Report \cup {None},
     seen : Object \cup {None}]

(* Back to the loop over the sources, "src" dealt with. *)
NextSource(s) ==
    [analysis EXCEPT !.pc = "next", !.todo = @ \ {s}, !.src = None,
                     !.findings = {}, !.seen = None]

TypeOK ==
    /\ upstream \in [Ref -> SUBSET Finding]
    /\ published \in [Ref -> SUBSET Finding]
    /\ scanned \in [Ref -> (SUBSET Finding) \cup {None}]
    /\ registry \subseteq Source
    /\ store \in [Report -> Object \cup {None}]
    /\ cache \in [Report -> Object \cup {None}]
    /\ aQueue \subseteq Report
    /\ aTimer \subseteq Report
    /\ rQueue \subseteq Report
    /\ analysis \in AnalysisState
    /\ reporter \in ReporterState
    /\ disturbances \in 0..MaxDisturbances

Existing == {r \in Report : store[r] # None}

(* The operator starts in a cluster where users may have applied reports.  *)
Init ==
    /\ upstream \in [Ref -> SUBSET Finding]
    /\ published = upstream
    /\ scanned = [f \in Ref |-> None]
    /\ registry = {}
    /\ \E R \in SUBSET Report :
          store = [r \in Report |->
                      IF r \in R THEN [rv |-> CHOOSE v \in Version : TRUE,
                                      label |-> None, status |-> EmptyStatus]
                      ELSE None]
    /\ cache = store
    /\ aQueue = Existing
    /\ aTimer = {}
    /\ rQueue = Existing
    /\ analysis = Idle
    /\ reporter = Waiting
    /\ disturbances = 0

-----------------------------------------------------------------------------
(* Users and restarts.                                                     *)

Disturb ==
    /\ disturbances < MaxDisturbances
    /\ disturbances' = disturbances + 1

(* A push changes what a complete scan of f finds. *)
Push(f) ==
    /\ Disturb
    /\ \E F \in SUBSET Finding :
          /\ upstream' = [upstream EXCEPT ![f] = F]
          /\ published' = [published EXCEPT ![f] = @ \cup F]
    /\ UNCHANGED <<scanned, registry, store, cache, controllers>>

(* A user applies a report; the API server drops any status it carries. *)
ApplyReport(r) ==
    /\ Disturb
    /\ store[r] = None
    /\ Put(r, None, EmptyStatus)
    /\ UNCHANGED <<upstream, published, scanned, registry, cache, controllers>>

DeleteReport(r) ==
    /\ Disturb
    /\ store[r] # None
    /\ store' = [store EXCEPT ![r] = None]
    /\ UNCHANGED <<upstream, published, scanned, registry, cache, controllers>>

(* A write to the metadata, by a user or by PolicyController: it leaves    *)
(* the status alone and takes a new version.                               *)
Touch(r) ==
    /\ Disturb
    /\ store[r] # None
    /\ Put(r, store[r].label, store[r].status)
    /\ UNCHANGED <<upstream, published, scanned, registry, cache, controllers>>

(* A user edits the compliance state. *)
EditState(r) ==
    /\ Disturb
    /\ store[r] # None
    /\ \E st \in ComplianceStates :
          Put(r, store[r].label, [store[r].status EXCEPT !.state = st])
    /\ UNCHANGED <<upstream, published, scanned, registry, cache, controllers>>

(* The process is killed and started again: everything in memory is lost,  *)
(* the caches are filled and every report is queued as if it were new.     *)
Restart ==
    /\ Disturb
    /\ scanned' = [f \in Ref |-> None]
    /\ registry' = {}
    /\ cache' = store
    /\ aQueue' = Existing
    /\ aTimer' = {}
    /\ rQueue' = Existing
    /\ analysis' = Idle
    /\ reporter' = Waiting
    /\ UNCHANGED <<upstream, published, store>>

-----------------------------------------------------------------------------
(* The manager: discovery, the informer and the requeue timer.             *)

(* DiscoveryController puts a source into the registry; none ever leaves.  *)
Discover(s) ==
    /\ s \notin registry
    /\ registry' = registry \cup {s}
    /\ UNCHANGED <<upstream, published, scanned, store, cache, controllers,
                   disturbances>>

(* Mutant: the age of a cached scan is not looked at. *)
ExpireNever(f) == FALSE

(* Analyzer.cacheTTL has passed. *)
Expire(f) ==
    /\ scanned[f] # None
    /\ scanned' = [scanned EXCEPT ![f] = None]
    /\ UNCHANGED <<upstream, published, registry, store, cache, controllers,
                   disturbances>>

(* The watch catches up on r: both controllers watch the reports, so both  *)
(* queue its name.                                                         *)
Deliver(r) ==
    /\ cache[r] # store[r]
    /\ cache' = [cache EXCEPT ![r] = store[r]]
    /\ aQueue' = aQueue \cup {r}
    /\ rQueue' = rQueue \cup {r}
    /\ UNCHANGED <<upstream, published, scanned, registry, store, aTimer,
                   analysis, reporter, disturbances>>

AnalysisTimer(r) ==
    /\ r \in aTimer
    /\ aTimer' = aTimer \ {r}
    /\ aQueue' = aQueue \cup {r}
    /\ UNCHANGED <<upstream, published, scanned, registry, store, cache,
                   rQueue, analysis, reporter, disturbances>>

-----------------------------------------------------------------------------
(* AnalysisController.                                                     *)

(* Mutant: with nothing in the registry the request is done with. *)
AnalysisStartOnce(r) ==
    /\ analysis.pc = "idle"
    /\ r \in aQueue
    /\ aQueue' = aQueue \ {r}
    /\ analysis' = IF registry = {} THEN analysis
                   ELSE [Idle EXCEPT !.pc = "next", !.key = r, !.todo = registry]
    /\ UNCHANGED <<upstream, published, scanned, registry, store, cache, aTimer,
                   rQueue, reporter, disturbances>>

(* Reconcile: with nothing in the registry the request only waits for its  *)
(* next turn, otherwise the worker starts on all sources.                  *)
AnalysisStart(r) ==
    /\ analysis.pc = "idle"
    /\ r \in aQueue
    /\ aQueue' = aQueue \ {r}
    /\ IF registry = {}
       THEN aTimer' = aTimer \cup {r} /\ analysis' = analysis
       ELSE /\ analysis' = [Idle EXCEPT !.pc = "next", !.key = r,
                                        !.todo = registry]
            /\ aTimer' = aTimer
    /\ UNCHANGED <<upstream, published, scanned, registry, store, cache,
                   rQueue, reporter, disturbances>>

Analysing(s) == analysis.pc = "next" /\ s \in analysis.todo

Scan(s, F) ==
    /\ analysis' = [analysis EXCEPT !.pc = "read", !.src = s, !.findings = F]
    /\ UNCHANGED <<upstream, published, registry, store, cache, aQueue, aTimer,
                   rQueue, reporter>>

(* Analyze: a scan younger than the TTL is taken from the cache. *)
AnalyzeCached(s) ==
    /\ Analysing(s)
    /\ scanned[RefOf[s]] # None
    /\ Scan(s, scanned[RefOf[s]])
    /\ UNCHANGED <<scanned, disturbances>>

(* Mutant: the branch is missing from the key of the analyzer's cache. *)
AnalyzeAnyBranch(s) ==
    /\ Analysing(s)
    /\ scanned[RefOf[s]] = None
    /\ Scan(s, upstream[RefOf[s]])
    /\ scanned' = [f \in Ref |-> upstream[RefOf[s]]]
    /\ UNCHANGED disturbances

(* Analyze, with every workflow file fetched; those that do not parse are  *)
(* skipped in each scan alike.                                             *)
AnalyzeFetched(s) ==
    /\ Analysing(s)
    /\ scanned[RefOf[s]] = None
    /\ Scan(s, upstream[RefOf[s]])
    /\ scanned' = [scanned EXCEPT ![RefOf[s]] = upstream[RefOf[s]]]
    /\ UNCHANGED disturbances

(* Analyze, with a fault: a file that cannot be fetched is skipped, or the *)
(* whole directory is not found, and what the other files deserve is       *)
(* cached as the scan of the ref.                                          *)
AnalyzePartly(s) ==
    /\ Disturb
    /\ Analysing(s)
    /\ scanned[RefOf[s]] = None
    /\ \E F \in SUBSET upstream[RefOf[s]] :
          /\ Scan(s, F)
          /\ scanned' = [scanned EXCEPT ![RefOf[s]] = F]

(* The listing of the workflow directory failed: logged, next source. *)
AnalyzeFails(s) ==
    /\ Disturb
    /\ Analysing(s)
    /\ scanned[RefOf[s]] = None
    /\ analysis' = NextSource(s)
    /\ UNCHANGED <<upstream, published, scanned, registry, store, cache, aQueue,
                   aTimer, rQueue, reporter>>

(* analyzeSource reads the report of the source from the informer cache. *)
ReadReport ==
    /\ analysis.pc = "read"
    /\ analysis' = [analysis EXCEPT !.pc = "write",
                                    !.seen = cache[ReportOf[analysis.src]]]
    /\ UNCHANGED <<upstream, published, scanned, registry, store, cache, aQueue,
                   aTimer, rQueue, reporter, disturbances>>

Writing(s) == analysis.pc = "write" /\ analysis.src = s

(* Not found: create it.  The CRD has a status subresource, so the API     *)
(* server drops the status of a created object.                            *)
CreateReport(s) ==
    /\ Writing(s)
    /\ analysis.seen = None
    /\ store[ReportOf[s]] = None
    /\ Put(ReportOf[s], s, EmptyStatus)
    /\ analysis' = NextSource(s)
    /\ UNCHANGED <<upstream, published, scanned, registry, cache, aQueue,
                   aTimer, rQueue, reporter, disturbances>>

(* Found: replace its status.  LastEvaluated has a resolution of a second, *)
(* so a second write of the same scan within it changes nothing and takes  *)
(* no new version.                                                         *)
UpdateReport(s) ==
    LET r == ReportOf[s] IN
    /\ Writing(s)
    /\ Matches(r, analysis.seen)
    /\ \/ Put(r, analysis.seen.label, Assessment(s, analysis.findings))
       \/ /\ store[r].status = Assessment(s, analysis.findings)
          /\ store' = store
    /\ analysis' = NextSource(s)
    /\ UNCHANGED <<upstream, published, scanned, registry, cache, aQueue,
                   aTimer, rQueue, reporter, disturbances>>

(* AlreadyExists, NotFound, Conflict, or a fault: logged, and the loop     *)
(* goes on with the next source.                                           *)
WriteReportFails(s) ==
    /\ Writing(s)
    /\ \/ /\ IF analysis.seen = None THEN store[ReportOf[s]] # None
                                     ELSE ~Matches(ReportOf[s], analysis.seen)
          /\ UNCHANGED disturbances
       \/ Disturb
    /\ analysis' = NextSource(s)
    /\ UNCHANGED <<upstream, published, scanned, registry, store, cache, aQueue,
                   aTimer, rQueue, reporter>>

(* Mutant: the source, not the request, is requeued. *)
AnalysisDoneSource ==
    /\ analysis.pc = "next"
    /\ analysis.todo = {}
    /\ analysis' = Idle
    /\ aTimer' = aTimer \cup {analysis.src}
    /\ UNCHANGED <<upstream, published, scanned, registry, store, cache, aQueue,
                   rQueue, reporter, disturbances>>

(* All sources dealt with: the request comes back after the interval. *)
AnalysisDone ==
    /\ analysis.pc = "next"
    /\ analysis.todo = {}
    /\ analysis' = Idle
    /\ aTimer' = aTimer \cup {analysis.key}
    /\ UNCHANGED <<upstream, published, scanned, registry, store, cache, aQueue,
                   rQueue, reporter, disturbances>>

-----------------------------------------------------------------------------
(* ReportController.                                                       *)

(* Mutant: the object in the informer cache is changed in place. *)
ReporterReadShared(r) ==
    /\ reporter.pc = "idle"
    /\ r \in rQueue
    /\ rQueue' = rQueue \ {r}
    /\ IF cache[r] = None \/ Coherent(cache[r].status)
       THEN UNCHANGED <<reporter, cache>>
       ELSE /\ reporter' = [pc |-> "write", key |-> r, seen |-> cache[r]]
            /\ cache' = [cache EXCEPT ![r].status = Normalised(@)]
    /\ UNCHANGED <<upstream, published, scanned, registry, store, aQueue,
                   aTimer, analysis, disturbances>>

(* Reconcile reads the report from the informer cache; one that is gone or *)
(* already coherent needs nothing.                                         *)
ReporterRead(r) ==
    /\ reporter.pc = "idle"
    /\ r \in rQueue
    /\ rQueue' = rQueue \ {r}
    /\ reporter' = IF cache[r] = None \/ Coherent(cache[r].status)
                   THEN reporter
                   ELSE [pc |-> "write", key |-> r, seen |-> cache[r]]
    /\ UNCHANGED <<upstream, published, scanned, registry, store, cache, aQueue,
                   aTimer, analysis, disturbances>>

(* Mutant: a patch instead of an update: no version is compared. *)
ReporterPatch(r) ==
    /\ reporter.pc = "write"
    /\ reporter.key = r
    /\ store[r] # None
    /\ Put(r, reporter.seen.label, Normalised(reporter.seen.status))
    /\ reporter' = Waiting
    /\ UNCHANGED <<upstream, published, scanned, registry, cache, aQueue,
                   aTimer, rQueue, analysis, disturbances>>

ReporterWrite(r) ==
    /\ reporter.pc = "write"
    /\ reporter.key = r
    /\ Matches(r, reporter.seen)
    /\ Put(r, reporter.seen.label, Normalised(reporter.seen.status))
    /\ reporter' = Waiting
    /\ UNCHANGED <<upstream, published, scanned, registry, cache, aQueue,
                   aTimer, rQueue, analysis, disturbances>>

(* Mutant: a conflict is taken for success of the other writer. *)
ReporterGivesWay(r) ==
    /\ reporter.pc = "write"
    /\ reporter.key = r
    /\ (~Matches(r, reporter.seen) /\ UNCHANGED disturbances) \/ Disturb
    /\ reporter' = Waiting
    /\ UNCHANGED <<upstream, published, scanned, registry, store, cache, aQueue,
                   aTimer, rQueue, analysis>>

(* A conflict or a fault is returned as an error, so the request is        *)
(* retried.                                                                *)
ReporterWriteFails(r) ==
    /\ reporter.pc = "write"
    /\ reporter.key = r
    /\ (~Matches(r, reporter.seen) /\ UNCHANGED disturbances) \/ Disturb
    /\ reporter' = Waiting
    /\ rQueue' = rQueue \cup {r}
    /\ UNCHANGED <<upstream, published, scanned, registry, store, cache, aQueue,
                   aTimer, analysis>>

-----------------------------------------------------------------------------
User(r) == ApplyReport(r) \/ DeleteReport(r) \/ Touch(r) \/ EditState(r)

Manager(r) == Deliver(r) \/ AnalysisTimer(r)

Analyze(s) ==
    \/ AnalyzeCached(s)
    \/ AnalyzeFetched(s)
    \/ AnalyzePartly(s)
    \/ AnalyzeFails(s)

WriteReport(s) == CreateReport(s) \/ UpdateReport(s) \/ WriteReportFails(s)

Reporter(r) == ReporterRead(r) \/ ReporterWrite(r) \/ ReporterWriteFails(r)

Next ==
    \/ \E f \in Ref : Push(f) \/ Expire(f)
    \/ \E r \in Report : User(r) \/ Manager(r) \/ AnalysisStart(r) \/ Reporter(r)
    \/ \E s \in Source : Discover(s) \/ Analyze(s) \/ WriteReport(s)
    \/ ReadReport
    \/ AnalysisDone
    \/ Restart

Spec == Init /\ [][Next]_vars

(* The manager keeps its workers and timers running, the watch catches up, *)
(* and a work queue is first in first out, so that a request that keeps    *)
(* coming back is served.                                                  *)
Fairness ==
    /\ \A f \in Ref : WF_vars(Expire(f))
    /\ \A r \in Report :
          /\ WF_vars(Deliver(r))
          /\ WF_vars(AnalysisTimer(r))
          /\ SF_vars(AnalysisStart(r))
          /\ SF_vars(ReporterRead(r))
          /\ WF_vars(ReporterWrite(r) \/ ReporterWriteFails(r))
    /\ \A s \in Source :
          /\ WF_vars(Discover(s))
          /\ WF_vars(Analyze(s))
          /\ WF_vars(WriteReport(s))
    /\ WF_vars(ReadReport)
    /\ WF_vars(AnalysisDone)

FairSpec == Spec /\ Fairness

-----------------------------------------------------------------------------
(* Safety.                                                                 *)

(* Two copies of a report that carry the same version are the same object, *)
(* so a writer whose version still matches has read what it replaces.      *)
Faithful(r, copy) ==
    store[r] # None /\ copy # None /\ copy.rv = store[r].rv => copy = store[r]

VersionsIdentify ==
    /\ \A r \in Report : Faithful(r, cache[r])
    /\ analysis.seen # None => Faithful(ReportOf[analysis.src], analysis.seen)
    /\ reporter.seen # None => Faithful(reporter.key, reporter.seen)

(* However stale the copy ReportController works from, a write of its that *)
(* goes through changes exactly the compliance state and the summary of    *)
(* the report the API server holds at that moment: it neither brings       *)
(* findings back that a later scan replaced, nor a report that was deleted. *)
ReporterOnlyNormalises ==
    [][\A r \in Report :
          reporter' # reporter /\ store'[r] # store[r] =>
              /\ store[r] # None
              /\ store'[r] # None
              /\ store'[r].label = store[r].label
              /\ store'[r].status = Normalised(store[r].status)]_vars

(* No wake-up is lost.  A report whose state is not in line with its        *)
(* findings is on its way to ReportController: the watch still has to      *)
(* deliver it, its name is queued, or the worker is on it.  A name is taken *)
(* off the queue before the cache is read, the cache may lag behind what    *)
(* the name was queued for, and the write may be refused.                  *)
NoWakeUpLost ==
    \A r \in Existing :
        \/ Coherent(store[r].status)
        \/ cache[r] # store[r]
        \/ r \in rQueue
        \/ reporter.key = r

(* The rounds of analysis go on for every report that exists: through      *)
(* rounds that find the registry empty, failed writes, deletions and       *)
(* restarts.                                                               *)
AnalysisGoesOn ==
    \A r \in Existing :
        \/ cache[r] # store[r]
        \/ r \in aQueue \cup aTimer
        \/ analysis.key = r

(* A report shows no finding that the ref it names never had: neither the  *)
(* analyzer's cache nor a stale copy carries findings from one repository  *)
(* or branch into the report of another.                                   *)
Genuine(st) ==
    st.findings \subseteq IF st.of = None THEN {} ELSE published[RefOf[st.of]]

NoForeignFindings ==
    \A r \in Existing : Genuine(store[r].status)

(* The two controllers, with their lagging caches, queues, restarts and    *)
(* conflicts, implement a register whose writes are atomic: no update is   *)
(* lost to another, nothing that was deleted comes back, and an assessment *)
(* keeps the label it found.                                               *)
Reports ==
    [r \in Report |->
        IF store[r] = None THEN None
        ELSE [label |-> store[r].label, status |-> store[r].status]]

Register == INSTANCE ReportRegister WITH reports <- Reports

RefinesRegister == Register!Spec

(* A report that AnalysisController creates carries the scan it is made    *)
(* from.                                                                   *)
CreatedReportCarriesItsScan ==
    [][\A r \in Report :
          analysis' # analysis /\ store[r] = None /\ store'[r] # None =>
              store'[r].status = Assessment(analysis.src, analysis.findings)]_vars

-----------------------------------------------------------------------------
(* Liveness.                                                               *)

(* Every source in the registry is analysed and reported. *)
EverySourceReported ==
    \A s \in Source : s \in registry ~> store[ReportOf[s]] # None

(* Two controllers write the status, and they do not correct each other    *)
(* forever.  However a report's state is edited, touched or overwritten, it *)
(* ends up in line with the report's findings and stays so.                *)
EventuallyCoherent ==
    \A r \in Report : <>[](store[r] # None => Coherent(store[r].status))

(* A report of s that shows what its ref deserves. *)
Current(s) ==
    /\ store[ReportOf[s]] # None
    /\ store[ReportOf[s]].status = Assessment(s, upstream[RefOf[s]])

(* If a report, any report, stays in the cluster, then the report of every *)
(* source ends up existing and showing what the source's ref deserves:     *)
(* through expired and incomplete scans, conflicts, deletions, restarts.   *)
EventuallyCurrent ==
    <>[](Existing # {}) => \A s \in Source : <>[]Current(s)

=============================================================================
