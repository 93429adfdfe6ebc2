---------------------- MODULE PolicyEnforcement_proofs ----------------------
(***************************************************************************)
(* Proofs about PolicyEnforcement, for any sets of policies, reports and   *)
(* resources, any enforcement lists and any number of disturbances.        *)
(***************************************************************************)
EXTENDS PolicyEnforcement, TLAPS

(* There is always a version that nobody holds, and NewVersion is one. *)
LEMMA NewVersionFresh ==
    ASSUME TypeOK, NEW r \in Report
    PROVE  /\ NewVersion(r) \in Version
           /\ NewVersion(r) # store[r].rv
           /\ NewVersion(r) # cache[r].rv
           /\ worker.copies[r] # None => NewVersion(r) # worker.copies[r].rv
<1> DEFINE rvOf(o) == IF o = None THEN CHOOSE v \in Version : TRUE ELSE o.rv
           held == {o.rv : o \in {store[r], cache[r], worker.copies[r]} \ {None}}
<1>1. \A o \in Object \cup {None} : rvOf(o) \in Version
  BY VersionAssumption DEF Object
<1>2. /\ store[r] \in Object
      /\ cache[r] \in Object
      /\ worker.copies[r] \in Object \cup {None}
  BY DEF TypeOK, WorkerState
<1>3. PICK v \in Version :
        v \notin {rvOf(store[r]), rvOf(cache[r]), rvOf(worker.copies[r])}
  <2> HIDE DEF rvOf
  <2> QED BY <1>1, <1>2, VersionAssumption
<1>4. v \notin held
  BY <1>2, <1>3
<1>5. NewVersion(r) \in Version /\ NewVersion(r) \notin held
  BY <1>4 DEF NewVersion
<1>6. store[r] # None /\ cache[r] # None
  BY <1>2, NoneAssumption
<1> QED
  BY <1>5, <1>6

(* A new status: another version, the annotations stay. *)
LEMMA NewStatusStep ==
    ASSUME TypeOK, NEW r \in Report, NEW F \in SUBSET Finding,
           NEW W \in SUBSET Workload, NewStatus(r, F, W)
    PROVE  /\ store' \in [Report -> Object]
           /\ store'[r].rv = NewVersion(r)
           /\ store'[r].since = store[r].since
           /\ \A q \in Report \ {r} : store'[q] = store[q]
<1>1. store[r] \in Object /\ NewVersion(r) \in Version
  BY NewVersionFresh DEF TypeOK
<1> DEFINE o == [store[r] EXCEPT !.rv = NewVersion(r), !.findings = F,
                                 !.workloads = W]
<1>2. o \in Object /\ o.rv = NewVersion(r) /\ o.since = store[r].since
  BY <1>1 DEF Object
<1>3. store' = [store EXCEPT ![r] = o]
  BY DEF NewStatus
<1> HIDE DEF o
<1> QED
  BY <1>2, <1>3 DEF TypeOK

LEMMA LevelType ==
    ASSUME NEW p, NEW o
    PROVE  Level(p, o) \in ComplianceStates
BY DEF Level, EvaluateThresholds, ComplianceStates

(* The level of an object depends on its findings only. *)
LEMMA LevelOfFindings ==
    ASSUME NEW p, NEW o1, NEW o2, o1.findings = o2.findings
    PROVE  Level(p, o1) = Level(p, o2)
BY DEF Level

(* What the API server answers to an update. *)
LEMMA ResponseType ==
    ASSUME TypeOK, NEW r \in Report, NEW o \in Object
    PROVE  /\ Response(r, o) \in Object
           /\ Response(r, o).findings = store[r].findings
           /\ Response(r, o).workloads = store[r].workloads
           /\ Response(r, o).since = o.since
           /\ Response(r, o).rv # store[r].rv =>
                 /\ Response(r, o).rv # cache[r].rv
                 /\ worker.copies[r] # None =>
                       Response(r, o).rv # worker.copies[r].rv
           /\ Response(r, o).rv = store[r].rv => Response(r, o) = store[r]
<1>1. store[r] \in Object
  BY DEF TypeOK
<1> QED
  BY <1>1, NewVersionFresh DEF Response, Object

LEMMA OlderType ==
    ASSUME NEW o \in Object \cup {None}
    PROVE  /\ Older(o) \in Object \cup {None}
           /\ (Older(o) = None) <=> (o = None)
           /\ o # None => /\ Older(o) \in Object
                          /\ Older(o).rv = o.rv
                          /\ Older(o).findings = o.findings
                          /\ Older(o).workloads = o.workloads
                          /\ (Older(o).since = None) <=> (o.since = None)
                          /\ o.since # None => Older(o).since = Next1(o.since)
<1>1. \A age \in Ages : Next1(age) \in Ages
  BY BoundAssumption DEF Next1, Ages
<1>2. CASE o = None
  BY <1>2 DEF Older
<1>3. CASE o # None /\ o.since = None
  BY <1>3 DEF Older
<1>4. CASE o # None /\ o.since # None
  <2>1. o \in Object /\ o.since \in Ages
    BY <1>4 DEF Object
  <2>2. Older(o) = [o EXCEPT !.since = Next1(o.since)]
    BY <1>4 DEF Older
  <2>3. Older(o) \in Object /\ Older(o).since = Next1(o.since)
    BY <1>1, <2>1, <2>2 DEF Object
  <2>4. /\ Older(o).rv = o.rv
        /\ Older(o).findings = o.findings
        /\ Older(o).workloads = o.workloads
    BY <2>1, <2>2 DEF Object
  <2> QED
    BY <1>1, <1>4, <2>1, <2>3, <2>4, NoneAssumption
<1> QED
  BY <1>2, <1>3, <1>4

(* A tick keeps the order of ages, saturated or not.                       *)
LEMMA OlderKeepsOrder ==
    ASSUME NEW a \in Ages, NEW b \in Ages, a <= b
    PROVE  Next1(a) <= Next1(b) /\ a <= Next1(a)
BY BoundAssumption DEF Ages, Next1

-----------------------------------------------------------------------------
(* What the worker's registers hold in which phase.                        *)

Copied(r) == worker.copies[r] # None

WorkerOK ==
    /\ worker.pc # "idle" => worker.policy \in Policy
    /\ worker.pc \in {"idle", "next"} => worker.report = None
    /\ worker.pc \in {"act", "clear", "resume", "unlabel"} =>
          /\ worker.report \in Report
          /\ Copied(worker.report)
          /\ worker.level = Level(worker.policy, Copy)
          /\ (worker.level = "Compliant") <=> (worker.pc # "act")
    /\ \A r \in Report :
          Copied(r) => worker.pc # "idle" /\ r \in Selects(worker.policy)

(* A copy with the version of the stored report shows its status and its   *)
(* first detection; one that no action has dealt with yet is that report.  *)
Same(r) == Copied(r) /\ worker.copies[r].rv = store[r].rv

Untouched(r) == Copied(r) /\ (worker.report # r \/ worker.pc = "clear")

CopyOK(r) ==
    /\ cache[r].rv = store[r].rv => cache[r] = store[r]
    /\ Same(r) => /\ worker.copies[r].findings = store[r].findings
                  /\ worker.copies[r].workloads = store[r].workloads
                  /\ store[r].since # None =>
                        worker.copies[r].since = store[r].since
    /\ Same(r) /\ Untouched(r) => worker.copies[r] = store[r]

CopiesOK == \A r \in Report : CopyOK(r)

EnforcementInv == TypeOK /\ WorkerOK /\ CopiesOK

-----------------------------------------------------------------------------
(* The steps that act on a report.                                         *)

(* What an action makes of the copy it works on. *)
Acted(o) ==
    /\ o.rv = Copy.rv
    /\ o.findings = Copy.findings
    /\ o.workloads = Copy.workloads
    /\ o.since = Copy.since \/ (Copy.since = None /\ o.since = 0)

(* Every enforcement action either replaces the report and the copy or     *)
(* changes the copy alone.                                                 *)
LEMMA EnforceStep ==
    ASSUME TypeOK, WorkerOK, Enforce
    PROVE  /\ worker.pc = "act"
           /\ worker.report \in Report
           /\ Copy \in Object
           /\ UNCHANGED <<policies, cache, calm>>
           /\ \E o \in Object :
                 /\ Acted(o)
                 /\ \/ /\ Same(worker.report)
                       /\ store' = [store EXCEPT ![worker.report] =
                                       Response(worker.report, o)]
                       /\ ActionDone(Response(worker.report, o))
                    \/ store' = store /\ ActionDone(o)
<1>1. worker.pc = "act"
  BY DEF Enforce, PassOver, Annotate, StartGrace, WaitGrace, Suspend,
         LabelWorkloads, Acting
<1>2. worker.report \in Report /\ Copied(worker.report) /\ Copy \in Object
  BY <1>1 DEF WorkerOK, Copied, Copy, TypeOK, WorkerState
<1>3. UNCHANGED <<policies, cache, calm>>
  BY DEF Enforce, PassOver, Annotate, StartGrace, WaitGrace, Suspend,
         LabelWorkloads, cluster
<1> DEFINE Result(o) ==
      /\ Acted(o)
      /\ \/ /\ Same(worker.report)
            /\ store' = [store EXCEPT ![worker.report] =
                            Response(worker.report, o)]
            /\ ActionDone(Response(worker.report, o))
         \/ store' = store /\ ActionDone(o)
<1>4. ASSUME NEW o \in Object, Acted(o), UpdateCopy(o) PROVE Result(o)
  BY <1>2, <1>4
     DEF UpdateCopy, Updated, Refused, Matches, Same, Copy, Copied, Acted
<1>5. ASSUME store' = store, ActionDone(Copy) PROVE Result(Copy)
  BY <1>5 DEF Acted
<1>6. CASE Annotate
  <2> DEFINE o == [Copy EXCEPT !.shown = Annotations(Copy.findings)]
  <2>1. o \in Object
    BY <1>2 DEF Object
  <2>2. Acted(o)
    BY <1>2 DEF Acted, Object
  <2> QED
    BY <1>1, <1>2, <1>3, <1>4, <1>6, <2>1, <2>2 DEF Annotate
<1>7. CASE StartGrace
  <2> DEFINE o == [Copy EXCEPT !.since = 0]
  <2>1. o \in Object
    BY <1>2, BoundAssumption DEF Object, Ages
  <2>2. Acted(o)
    BY <1>2, <1>7 DEF Acted, Object, StartGrace
  <2> QED
    BY <1>1, <1>2, <1>3, <1>4, <1>7, <2>1, <2>2 DEF StartGrace
<1>8. CASE PassOver \/ WaitGrace \/ Suspend \/ LabelWorkloads
  <2>1. store' = store /\ ActionDone(Copy)
    BY <1>8 DEF PassOver, WaitGrace, Suspend, LabelWorkloads
  <2> QED
    BY <1>1, <1>2, <1>3, <1>5, <2>1
<1> QED
  BY <1>6, <1>7, <1>8 DEF Enforce

(* ClearAnnotations: cleared or refused. *)
LEMMA ClearStep ==
    ASSUME TypeOK, WorkerOK, ClearAnnotations
    PROVE  /\ worker.pc = "clear"
           /\ worker.report \in Report
           /\ Copy \in Object
           /\ Cleared \in Object
           /\ UNCHANGED <<policies, cache, cluster>>
           /\ \/ /\ worker' = [worker EXCEPT !.pc = "resume"]
                 /\ Copy.since = None
                 /\ store' = store
                 /\ calm' = [calm EXCEPT ![worker.report] = 0]
              \/ /\ Same(worker.report)
                 /\ store' = [store EXCEPT ![worker.report] =
                                 Response(worker.report, Cleared)]
                 /\ worker' = [worker EXCEPT !.pc = "resume",
                                  !.copies = [@ EXCEPT ![worker.report] =
                                      Response(worker.report, Cleared)]]
                 /\ calm' = [calm EXCEPT ![worker.report] = 0]
              \/ /\ worker' = NextReport
                 /\ UNCHANGED <<store, calm>>
<1>1. worker.pc = "clear" /\ UNCHANGED <<policies, cache, cluster>>
  BY DEF ClearAnnotations
<1>2. worker.report \in Report /\ Copied(worker.report) /\ Copy \in Object
  BY <1>1 DEF WorkerOK, Copied, Copy, TypeOK, WorkerState
<1>3. Cleared \in Object /\ Cleared.since = None
  BY <1>2 DEF Cleared, Object
<1>4. worker \in WorkerState
  BY DEF TypeOK
<1>5. CASE /\ Copy = Cleared
           /\ store' = store
           /\ worker' = [worker EXCEPT !.pc = "resume",
                            !.copies = [@ EXCEPT ![worker.report] = Copy]]
           /\ calm' = [calm EXCEPT ![worker.report] = 0]
  <2>1. [worker.copies EXCEPT ![worker.report] = Copy] = worker.copies
    BY <1>2, <1>4 DEF WorkerState, Copy
  <2>2. worker' = [worker EXCEPT !.pc = "resume"]
    BY <1>4, <1>5, <2>1 DEF WorkerState
  <2> QED
    BY <1>1, <1>2, <1>3, <1>5, <2>2
<1>6. CASE /\ Updated(worker.report, Cleared)
           /\ worker' = [worker EXCEPT !.pc = "resume",
                            !.copies = [@ EXCEPT ![worker.report] =
                                Response(worker.report, Cleared)]]
           /\ calm' = [calm EXCEPT ![worker.report] = 0]
  BY <1>1, <1>2, <1>3, <1>6
     DEF Updated, Matches, Same, Cleared, Copied, Copy, Object
<1>7. CASE /\ Refused(worker.report, Cleared)
           /\ worker' = NextReport
           /\ calm' = calm
  BY <1>1, <1>2, <1>3, <1>7 DEF Refused
<1> QED
  BY <1>5, <1>6, <1>7 DEF ClearAnnotations

-----------------------------------------------------------------------------
(* Type correctness.                                                       *)

LEMMA InitTypeOK == Init => TypeOK
<1> SUFFICES ASSUME Init PROVE TypeOK
  OBVIOUS
<1>1. store \in [Report -> Object]
  <2>1. PICK F \in SUBSET Finding, W \in SUBSET Workload :
          store = [r \in Report |->
                      [rv |-> CHOOSE v \in Version : TRUE, findings |-> F,
                       workloads |-> W, shown |-> None, since |-> None]]
    BY DEF Init
  <2>2. (CHOOSE v \in Version : TRUE) \in Version
    BY VersionAssumption
  <2> QED
    BY <2>1, <2>2 DEF Object
<1>2. cache = store /\ worker \in WorkerState
  BY DEF Init, Idle, WorkerState
<1>3. /\ registry \in [Names -> Source \cup {None}]
      /\ sync \in [Resource -> SyncModes]
      /\ risk \in [Workload -> ComplianceStates \cup {None}]
  BY DEF Init
<1>4. calm \in [Report -> Ages] /\ disturbances \in 0..MaxDisturbances
  BY BoundAssumption DEF Init, Ages
<1> QED
  BY <1>1, <1>2, <1>3, <1>4 DEF TypeOK, Init

LEMMA DisturbType ==
    ASSUME TypeOK, Disturb \/ Fine
    PROVE  disturbances' \in 0..MaxDisturbances
BY BoundAssumption DEF TypeOK, Disturb, Fine

LEMMA PatchesType ==
    ASSUME TypeOK, NEW W, NEW label \in ComplianceStates \cup {None},
           Patches(W, label)
    PROVE  /\ risk' \in [Workload -> ComplianceStates \cup {None}]
           /\ disturbances' \in 0..MaxDisturbances
BY DisturbType DEF TypeOK, Patches

LEMMA NextReportType == TypeOK => NextReport \in WorkerState
<1> SUFFICES ASSUME TypeOK PROVE NextReport \in WorkerState
  OBVIOUS
<1>1. worker \in WorkerState
  BY DEF TypeOK
<1> DEFINE copies == [worker.copies EXCEPT ![worker.report] = None]
<1>2. copies \in [Report -> Object \cup {None}]
  BY <1>1 DEF WorkerState
<1>3. NextReport = [worker EXCEPT !.pc = "next", !.report = None,
                                  !.level = None, !.step = 1,
                                  !.copies = copies]
  BY <1>1 DEF NextReport, WorkerState
<1> HIDE DEF copies
<1>4. NextReport = [pc |-> "next", policy |-> worker.policy, copies |-> copies,
                    report |-> None, level |-> None, step |-> 1]
  BY <1>1, <1>3 DEF WorkerState
<1>5. worker.policy \in Policy \cup {None}
  BY <1>1 DEF WorkerState
<1> QED
  BY <1>2, <1>4, <1>5 DEF WorkerState

(* Users, discovery, the informer and restarts. *)
LEMMA EnvironmentTypeOK ==
    ASSUME TypeOK
    PROVE  /\ \A r \in Report : Assess(r) \/ Deliver(r) => TypeOK'
           /\ \A x \in Resource : UserSets(x) => TypeOK'
           /\ \A p \in Policy : DeletePolicy(p) => TypeOK'
           /\ \A s \in Source : Discover(s) => TypeOK'
           /\ Restart => TypeOK'
<1>1. ASSUME NEW r \in Report, Assess(r) PROVE TypeOK'
  BY <1>1, NewStatusStep, DisturbType DEF Assess, TypeOK, cluster
<1>2. ASSUME NEW r \in Report, Deliver(r) PROVE TypeOK'
  BY <1>2 DEF Deliver, TypeOK, cluster
<1>3. ASSUME NEW x \in Resource, UserSets(x) PROVE TypeOK'
  BY <1>3, DisturbType DEF UserSets, TypeOK
<1>4. ASSUME NEW p \in Policy, DeletePolicy(p) PROVE TypeOK'
  BY <1>4, DisturbType DEF DeletePolicy, TypeOK, cluster
<1>5. ASSUME NEW s \in Source, Discover(s) PROVE TypeOK'
  <2>1. registry' \in [Names -> Source \cup {None}]
    BY <1>5 DEF Discover, TypeOK, Names
  <2> QED
    BY <1>5, <2>1 DEF Discover, TypeOK
<1>6. ASSUME Restart PROVE TypeOK'
  <2>1. Idle \in WorkerState
    BY DEF Idle, WorkerState
  <2> QED
    BY <1>6, <2>1, DisturbType DEF Restart, TypeOK
<1> QED
  BY <1>1, <1>2, <1>3, <1>4, <1>5, <1>6

LEMMA TickTypeOK ==
    ASSUME TypeOK, Tick
    PROVE  TypeOK'
<1>1. store' \in [Report -> Object] /\ cache' \in [Report -> Object]
  <2>1. \A o \in Object : Older(o) \in Object
    BY OlderType, NoneAssumption
  <2> QED
    BY <2>1 DEF Tick, TypeOK
<1>2. worker' \in WorkerState
  <2>1. worker \in WorkerState
    BY DEF TypeOK
  <2>2. [r \in Report |-> Older(worker.copies[r])]
          \in [Report -> Object \cup {None}]
    BY <2>1, OlderType DEF WorkerState
  <2> QED
    BY <2>1, <2>2 DEF Tick, WorkerState
<1>3. calm' \in [Report -> Ages]
  <2>1. \A age \in Ages : Next1(age) \in Ages
    BY BoundAssumption DEF Next1, Ages
  <2> QED
    BY <2>1 DEF Tick, TypeOK
<1> QED
  BY <1>1, <1>2, <1>3 DEF Tick, TypeOK, cluster

LEMMA EnforceTypeOK ==
    ASSUME TypeOK, WorkerOK, Enforce
    PROVE  TypeOK'
<1>1. /\ worker.pc = "act"
      /\ worker.report \in Report
      /\ UNCHANGED <<policies, cache, calm>>
  BY EnforceStep
<1>2. PICK o \in Object :
        \/ /\ store' = [store EXCEPT ![worker.report] =
                          Response(worker.report, o)]
           /\ ActionDone(Response(worker.report, o))
        \/ store' = store /\ ActionDone(o)
  BY EnforceStep
<1>3. Response(worker.report, o) \in Object
  BY <1>1, ResponseType
<1>4. store' \in [Report -> Object]
  BY <1>1, <1>2, <1>3 DEF TypeOK
<1>5. worker' \in WorkerState
  <2>1. worker \in WorkerState
    BY DEF TypeOK
  <2>2. ASSUME NEW c \in Object, ActionDone(c) PROVE worker' \in WorkerState
    <3>1. [worker.copies EXCEPT ![worker.report] = c]
            \in [Report -> Object \cup {None}]
      BY <2>1 DEF WorkerState
    <3>2. worker.step + 1 \in Nat \ {0}
      BY <2>1 DEF WorkerState
    <3> QED
      BY <2>1, <2>2, <3>1, <3>2 DEF ActionDone, WorkerState
  <2> QED
    BY <1>2, <1>3, <2>2
<1>6. /\ registry' \in [Names -> Source \cup {None}]
      /\ sync' \in [Resource -> SyncModes]
      /\ risk' \in [Workload -> ComplianceStates \cup {None}]
      /\ suspended' \subseteq Resource
      /\ disturbances' \in 0..MaxDisturbances
  <2>1. CASE PassOver \/ WaitGrace
    BY <2>1 DEF PassOver, WaitGrace, TypeOK, cluster
  <2>2. CASE Annotate \/ StartGrace
    <3>1. Fine \/ Disturb
      BY <2>2 DEF Annotate, StartGrace, UpdateCopy, Updated, Refused
    <3> QED
      BY <2>2, <3>1, DisturbType DEF Annotate, StartGrace, TypeOK, cluster
  <2>3. CASE Suspend
    <3>1. sync' \in [Resource -> SyncModes] /\ suspended' \subseteq Resource
      BY <2>3 DEF Suspend, TypeOK, SyncModes
    <3>2. disturbances' \in 0..MaxDisturbances
      BY <2>3, DisturbType DEF Suspend
    <3> QED
      BY <2>3, <3>1, <3>2 DEF Suspend, TypeOK
  <2>4. CASE LabelWorkloads
    <3>1. worker.level \in ComplianceStates \cup {None}
      BY DEF TypeOK, WorkerState
    <3> QED
      BY <2>4, <3>1, PatchesType DEF LabelWorkloads, TypeOK
  <2> QED
    BY <2>1, <2>2, <2>3, <2>4 DEF Enforce
<1> QED
  BY <1>1, <1>4, <1>5, <1>6 DEF TypeOK

LEMMA RestoreTypeOK ==
    ASSUME TypeOK, WorkerOK, Restore
    PROVE  TypeOK'
<1>0. worker \in WorkerState /\ NextReport \in WorkerState
  BY NextReportType DEF TypeOK
<1>1. CASE ClearAnnotations
  <2>1. worker.report \in Report /\ Cleared \in Object
    BY <1>1, ClearStep
  <2>2. Response(worker.report, Cleared) \in Object
    BY <2>1, ResponseType
  <2>3. store' \in [Report -> Object] /\ calm' \in [Report -> Ages]
    BY <1>1, <2>1, <2>2, ClearStep, BoundAssumption DEF TypeOK, Ages
  <2>4. worker' \in WorkerState
    <3>1. [worker.copies EXCEPT ![worker.report] =
              Response(worker.report, Cleared)]
            \in [Report -> Object \cup {None}]
      BY <1>0, <2>2 DEF WorkerState
    <3> QED
      BY <1>0, <1>1, <3>1, ClearStep DEF WorkerState
  <2>5. disturbances' \in 0..MaxDisturbances
    BY <1>1, DisturbType DEF ClearAnnotations, Updated, Refused
  <2> QED
    BY <1>1, <2>3, <2>4, <2>5 DEF ClearAnnotations, TypeOK, cluster
<1>2. CASE Resume
  <2>1. sync' \in [Resource -> SyncModes] /\ suspended' \subseteq Resource
    BY <1>2 DEF Resume, TypeOK, SyncModes
  <2>2. worker' \in WorkerState
    BY <1>0, <1>2 DEF Resume, WorkerState
  <2>3. disturbances' \in 0..MaxDisturbances
    BY <1>2, DisturbType DEF Resume
  <2> QED
    BY <1>2, <2>1, <2>2, <2>3 DEF Resume, TypeOK
<1>3. CASE UnlabelWorkloads
  BY <1>0, <1>3, PatchesType DEF UnlabelWorkloads, TypeOK
<1> QED
  BY <1>1, <1>2, <1>3 DEF Restore

LEMMA WorkTypeOK ==
    ASSUME TypeOK, WorkerOK
    PROVE  /\ \A p \in Policy : EvaluatePolicy(p) => TypeOK'
           /\ Work => TypeOK'
<1>0. worker \in WorkerState /\ NextReport \in WorkerState
  BY NextReportType DEF TypeOK
<1>1. ASSUME NEW p \in Policy, EvaluatePolicy(p) PROVE TypeOK'
  <2> DEFINE copies == [r \in Report |-> IF r \in Selects(p) THEN cache[r]
                                        ELSE None]
  <2>1. copies \in [Report -> Object \cup {None}]
    BY DEF TypeOK
  <2>2. worker' = [pc |-> "next", policy |-> p, copies |-> copies,
                   report |-> None, level |-> None, step |-> 1]
    BY <1>1 DEF EvaluatePolicy, Idle
  <2> HIDE DEF copies
  <2>3. worker' \in WorkerState
    BY <2>1, <2>2 DEF WorkerState
  <2> QED
    BY <1>1, <2>3 DEF EvaluatePolicy, TypeOK, cluster
<1>2. ASSUME NEW r \in Report, EvaluateReport(r) PROVE TypeOK'
  <2>1. Level(worker.policy, worker.copies[r]) \in ComplianceStates
    BY LevelType
  <2>2. worker' =
          [pc |-> IF Level(worker.policy, worker.copies[r]) = "Compliant"
                  THEN "clear" ELSE "act",
           policy |-> worker.policy, copies |-> worker.copies, report |-> r,
           level |-> Level(worker.policy, worker.copies[r]), step |-> 1]
    BY <1>0, <1>2 DEF EvaluateReport, WorkerState
  <2>3. worker' \in WorkerState
    BY <1>0, <2>1, <2>2 DEF WorkerState
  <2> QED
    BY <1>2, <2>3 DEF EvaluateReport, TypeOK, cluster
<1>3. CASE ActionsDone
  BY <1>0, <1>3 DEF ActionsDone, TypeOK, cluster
<1>4. CASE PolicyDone
  <2>1. Idle \in WorkerState
    BY DEF Idle, WorkerState
  <2> QED
    BY <1>4, <2>1 DEF PolicyDone, TypeOK, cluster
<1> QED
  BY <1>1, <1>2, <1>3, <1>4, EnforceTypeOK, RestoreTypeOK DEF Work

LEMMA NextTypeOK ==
    ASSUME TypeOK, WorkerOK, [Next]_vars
    PROVE  TypeOK'
<1>1. CASE Next
  BY <1>1, EnvironmentTypeOK, TickTypeOK, WorkTypeOK DEF Next, Operate
<1>2. CASE UNCHANGED vars
  BY <1>2 DEF vars, cluster, TypeOK
<1> QED
  BY <1>1, <1>2

-----------------------------------------------------------------------------
(* The registers of the worker.                                            *)

(* Done with a report, the worker keeps the copies of the others. *)
LEMMA NextReportCopies ==
    ASSUME TypeOK, worker.report \in Report
    PROVE  /\ NextReport.pc = "next"
           /\ NextReport.report = None
           /\ NextReport.policy = worker.policy
           /\ NextReport.copies[worker.report] = None
           /\ \A r \in Report \ {worker.report} :
                 NextReport.copies[r] = worker.copies[r]
<1>1. worker \in WorkerState /\ worker.copies \in [Report -> Object \cup {None}]
  BY DEF TypeOK, WorkerState
<1> DEFINE copies == [worker.copies EXCEPT ![worker.report] = None]
<1>2. /\ copies[worker.report] = None
      /\ \A r \in Report \ {worker.report} : copies[r] = worker.copies[r]
  BY <1>1
<1>3. NextReport = [worker EXCEPT !.pc = "next", !.report = None,
                                  !.level = None, !.step = 1,
                                  !.copies = copies]
  BY <1>1 DEF NextReport, WorkerState
<1> HIDE DEF copies
<1> QED
  BY <1>1, <1>2, <1>3 DEF WorkerState

(* What an action does to the worker. *)
LEMMA ActionDoneCopies ==
    ASSUME TypeOK, worker.report \in Report, NEW o \in Object, ActionDone(o)
    PROVE  /\ worker'.pc = worker.pc
           /\ worker'.report = worker.report
           /\ worker'.policy = worker.policy
           /\ worker'.level = worker.level
           /\ worker'.copies[worker.report] = o
           /\ \A r \in Report \ {worker.report} :
                 worker'.copies[r] = worker.copies[r]
<1>1. worker \in WorkerState /\ worker.copies \in [Report -> Object \cup {None}]
  BY DEF TypeOK, WorkerState
<1> DEFINE copies == [worker.copies EXCEPT ![worker.report] = o]
<1>2. /\ copies[worker.report] = o
      /\ \A r \in Report \ {worker.report} : copies[r] = worker.copies[r]
  BY <1>1
<1>3. worker' = [worker EXCEPT !.step = worker.step + 1, !.copies = copies]
  BY <1>1 DEF ActionDone, WorkerState
<1> HIDE DEF copies
<1> QED
  BY <1>1, <1>2, <1>3 DEF WorkerState

LEMMA InitWorkerOK == Init => WorkerOK
BY DEF Init, Idle, WorkerOK, Copied

LEMMA ResetWorkerOK ==
    ASSUME worker' = Idle
    PROVE  WorkerOK'
BY DEF Idle, WorkerOK, Copied

LEMMA NextReportWorkerOK ==
    ASSUME TypeOK, WorkerOK, worker' = NextReport,
           worker.pc \in {"act", "clear", "resume", "unlabel"}
    PROVE  WorkerOK'
<1>1. worker.report \in Report
  BY DEF WorkerOK
<1> QED
  BY <1>1, NextReportCopies DEF WorkerOK, Copied

LEMMA EnforceWorkerOK ==
    ASSUME EnforcementInv, Enforce
    PROVE  WorkerOK'
<1>0. /\ TypeOK /\ WorkerOK /\ CopiesOK
      /\ worker.pc = "act"
      /\ worker.report \in Report
      /\ Copy \in Object
  BY EnforceStep DEF EnforcementInv
<1>1. PICK o \in Object :
        /\ Acted(o)
        /\ \/ Same(worker.report) /\ ActionDone(Response(worker.report, o))
           \/ ActionDone(o)
  BY <1>0, EnforceStep
<1>2. PICK c \in Object : ActionDone(c) /\ c.findings = Copy.findings
  <2>1. CASE Same(worker.report) /\ ActionDone(Response(worker.report, o))
    <3>1. Response(worker.report, o).findings = Copy.findings
      BY <1>0, <2>1, ResponseType DEF CopiesOK, CopyOK, Copy
    <3> QED
      BY <1>0, <2>1, <3>1, ResponseType
  <2>2. CASE ActionDone(o)
    BY <1>1, <2>2 DEF Acted
  <2> QED
    BY <1>1, <2>1, <2>2
<1>3. Level(worker.policy, c) = Level(worker.policy, Copy)
  BY <1>2, LevelOfFindings
<1>4. c # None
  BY NoneAssumption
<1> QED
  BY <1>0, <1>2, <1>3, <1>4, ActionDoneCopies DEF WorkerOK, Copied, Copy

LEMMA RestoreWorkerOK ==
    ASSUME EnforcementInv, Restore
    PROVE  WorkerOK'
<1>0. TypeOK /\ WorkerOK /\ CopiesOK /\ worker \in WorkerState
  BY DEF EnforcementInv, TypeOK
<1>1. CASE ClearAnnotations
  <2>1. worker.pc = "clear" /\ worker.report \in Report /\ Cleared \in Object
    BY <1>0, <1>1, ClearStep
  <2>2. CASE worker' = [worker EXCEPT !.pc = "resume"]
    BY <1>0, <2>1, <2>2 DEF WorkerOK, Copied, Copy, WorkerState
  <2>3. CASE /\ Same(worker.report)
             /\ worker' = [worker EXCEPT !.pc = "resume",
                              !.copies = [@ EXCEPT ![worker.report] =
                                  Response(worker.report, Cleared)]]
    <3> DEFINE c == Response(worker.report, Cleared)
               copies == [worker.copies EXCEPT ![worker.report] = c]
    <3>1. c \in Object /\ c # None /\ c.findings = Copy.findings
      BY <1>0, <2>1, <2>3, ResponseType, NoneAssumption DEF CopiesOK, CopyOK, Copy
    <3>2. Level(worker.policy, c) = Level(worker.policy, Copy)
      BY <3>1, LevelOfFindings
    <3>3. /\ copies[worker.report] = c
          /\ \A r \in Report \ {worker.report} : copies[r] = worker.copies[r]
      BY <1>0, <2>1 DEF WorkerState
    <3>4. worker' = [worker EXCEPT !.pc = "resume", !.copies = copies]
      BY <1>0, <2>3 DEF WorkerState
    <3> HIDE DEF c, copies
    <3>5. /\ worker'.pc = "resume"
          /\ worker'.copies = copies
          /\ worker'.policy = worker.policy
          /\ worker'.report = worker.report
          /\ worker'.level = worker.level
      BY <1>0, <3>4 DEF WorkerState
    <3> QED
      BY <1>0, <2>1, <3>1, <3>2, <3>3, <3>5 DEF WorkerOK, Copied, Copy
  <2>4. CASE worker' = NextReport
    BY <1>0, <2>1, <2>4, NextReportWorkerOK
  <2> QED
    BY <1>0, <1>1, <2>2, <2>3, <2>4, ClearStep
<1>2. CASE Resume
  BY <1>0, <1>2 DEF Resume, WorkerOK, Copied, Copy, WorkerState
<1>3. CASE UnlabelWorkloads
  BY <1>0, <1>3, NextReportWorkerOK DEF UnlabelWorkloads
<1> QED
  BY <1>1, <1>2, <1>3 DEF Restore

LEMMA TickWorkerOK ==
    ASSUME TypeOK, WorkerOK, Tick
    PROVE  WorkerOK'
<1>1. worker \in WorkerState
  BY DEF TypeOK
<1>2. /\ worker'.pc = worker.pc
      /\ worker'.policy = worker.policy
      /\ worker'.report = worker.report
      /\ worker'.level = worker.level
      /\ \A r \in Report : worker'.copies[r] = Older(worker.copies[r])
  BY <1>1 DEF Tick, WorkerState
<1>3. ASSUME NEW r \in Report
      PROVE  /\ Copied(r)' <=> Copied(r)
             /\ Copied(r) =>
                   worker'.copies[r].findings = worker.copies[r].findings
  <2>1. worker.copies[r] \in Object \cup {None}
    BY <1>1 DEF WorkerState
  <2> QED
    BY <1>2, <2>1, OlderType DEF Copied
<1>4. ASSUME NEW r \in Report, Copied(r)
      PROVE  Level(worker.policy, worker'.copies[r])
               = Level(worker.policy, worker.copies[r])
  BY <1>3, <1>4, LevelOfFindings
<1> QED
  BY <1>2, <1>3, <1>4 DEF WorkerOK, Copy

LEMMA NextWorkerOK ==
    ASSUME EnforcementInv, [Next]_vars
    PROVE  WorkerOK'
<1>0. TypeOK /\ WorkerOK /\ worker \in WorkerState
  BY DEF EnforcementInv, TypeOK
<1>1. ASSUME worker' = worker PROVE WorkerOK'
  BY <1>0, <1>1 DEF WorkerOK, Copied, Copy
<1>2. ASSUME NEW p \in Policy, EvaluatePolicy(p) PROVE WorkerOK'
  BY <1>0, <1>2 DEF EvaluatePolicy, Idle, WorkerOK, Copied
<1>3. ASSUME NEW r \in Report, EvaluateReport(r) PROVE WorkerOK'
  BY <1>0, <1>3 DEF EvaluateReport, WorkerOK, Copied, Copy, WorkerState
<1>4. CASE ActionsDone
  BY <1>0, <1>4, NextReportWorkerOK DEF ActionsDone
<1>5. CASE PolicyDone \/ Restart
  BY <1>5, ResetWorkerOK DEF PolicyDone, Restart
<1>6. CASE UNCHANGED vars
  BY <1>1, <1>6 DEF vars
<1>7. CASE Next
  BY <1>0, <1>1, <1>2, <1>3, <1>4, <1>5, <1>7, EnforceWorkerOK,
     RestoreWorkerOK, TickWorkerOK
     DEF Next, Operate, Work, Assess, Deliver, UserSets, DeletePolicy, Discover
<1> QED
  BY <1>6, <1>7

-----------------------------------------------------------------------------
(* The copies.                                                             *)

(* The worker drops copies and begins to work on one: nothing else.        *)
Fewer ==
    \A r \in Report :
        Copied(r)' => /\ Copied(r)
                      /\ worker'.copies[r] = worker.copies[r]
                      /\ Untouched(r)' => Untouched(r)

LEMMA SameWorkerFewer ==
    ASSUME worker' = worker
    PROVE  Fewer
BY DEF Fewer, Copied, Untouched

LEMMA NextReportFewer ==
    ASSUME TypeOK, worker.report \in Report, worker' = NextReport
    PROVE  Fewer
BY NextReportCopies DEF Fewer, Copied, Untouched

(* These steps of the worker touch neither the reports nor their copies. *)
LEMMA WorkFewer ==
    ASSUME TypeOK, WorkerOK,
           \/ \E r \in Report : EvaluateReport(r)
           \/ ActionsDone \/ PolicyDone \/ Resume \/ UnlabelWorkloads
    PROVE  Fewer /\ UNCHANGED <<store, cache, calm>>
<1>0. worker \in WorkerState
  BY DEF TypeOK
<1>1. ASSUME NEW r \in Report, EvaluateReport(r)
      PROVE  Fewer
  <2>1. worker.report = None /\ \A q \in Report : q # None
    BY <1>1, NoneAssumption DEF EvaluateReport, WorkerOK
  <2>2. worker'.copies = worker.copies
    BY <1>0, <1>1 DEF EvaluateReport, WorkerState
  <2> QED
    BY <2>1, <2>2 DEF Fewer, Copied, Untouched
<1>2. CASE ActionsDone \/ UnlabelWorkloads
  BY <1>2, NextReportFewer DEF ActionsDone, UnlabelWorkloads, WorkerOK
<1>3. CASE PolicyDone
  BY <1>3 DEF PolicyDone, Idle, Fewer, Copied
<1>4. CASE Resume
  BY <1>0, <1>4 DEF Resume, Fewer, Copied, Untouched, WorkerState
<1>5. UNCHANGED <<store, cache, calm>>
  BY DEF EvaluateReport, ActionsDone, PolicyDone, Resume, UnlabelWorkloads
<1> QED
  BY <1>1, <1>2, <1>3, <1>4, <1>5

LEMMA InitCopiesOK == Init => CopiesOK
BY DEF Init, Idle, CopiesOK, CopyOK, Same, Copied

LEMMA FewerCopiesOK ==
    ASSUME CopiesOK, Fewer, UNCHANGED <<store, cache>>
    PROVE  CopiesOK'
BY DEF CopiesOK, CopyOK, Fewer, Same

(* A report that changes takes a version that no copy carries. *)
LEMMA AssessCopiesOK ==
    ASSUME EnforcementInv, NEW r \in Report, NEW F \in SUBSET Finding,
           NEW W \in SUBSET Workload, NewStatus(r, F, W),
           UNCHANGED <<cache, worker>>
    PROVE  CopiesOK'
<1>0. TypeOK /\ CopiesOK
  BY DEF EnforcementInv
<1>1. /\ store'[r].rv = NewVersion(r)
      /\ \A q \in Report \ {r} : store'[q] = store[q]
      /\ cache' = cache
      /\ worker' = worker
  BY <1>0, NewStatusStep
<1>2. ~Same(r)' /\ cache'[r].rv # store'[r].rv
  BY <1>0, <1>1, NewVersionFresh DEF Same, Copied
<1> QED
  BY <1>0, <1>1, <1>2 DEF CopiesOK, CopyOK, Same, Copied, Untouched

LEMMA TickCopiesOK ==
    ASSUME EnforcementInv, Tick
    PROVE  CopiesOK'
<1>0. TypeOK /\ CopiesOK /\ worker \in WorkerState
  BY DEF EnforcementInv, TypeOK
<1>1. /\ worker'.pc = worker.pc
      /\ worker'.report = worker.report
      /\ \A r \in Report : /\ worker'.copies[r] = Older(worker.copies[r])
                           /\ store'[r] = Older(store[r])
                           /\ cache'[r] = Older(cache[r])
  BY <1>0 DEF Tick, WorkerState
<1>2. SUFFICES ASSUME NEW r \in Report
               PROVE  /\ cache'[r].rv = store'[r].rv => cache'[r] = store'[r]
                      /\ Same(r)' =>
                           /\ worker'.copies[r].findings = store'[r].findings
                           /\ worker'.copies[r].workloads = store'[r].workloads
                           /\ store'[r].since # None =>
                                 worker'.copies[r].since = store'[r].since
                      /\ Same(r)' /\ Untouched(r)' =>
                            worker'.copies[r] = store'[r]
  BY DEF CopiesOK, CopyOK
<1>3. /\ store[r] \in Object /\ store[r] # None
      /\ cache[r] \in Object /\ cache[r] # None
      /\ worker.copies[r] \in Object \cup {None}
  BY <1>0, NoneAssumption DEF TypeOK, WorkerState
<1>4. /\ Same(r)' <=> Same(r)
      /\ Untouched(r)' <=> Untouched(r)
  BY <1>1, <1>3, OlderType DEF Same, Copied, Untouched
<1>5. cache'[r].rv = store'[r].rv => cache'[r] = store'[r]
  BY <1>0, <1>1, <1>3, OlderType DEF CopiesOK, CopyOK
<1>6. ASSUME Same(r)
      PROVE  /\ worker'.copies[r].findings = store'[r].findings
             /\ worker'.copies[r].workloads = store'[r].workloads
             /\ store'[r].since # None =>
                   worker'.copies[r].since = store'[r].since
             /\ Untouched(r) => worker'.copies[r] = store'[r]
  BY <1>0, <1>1, <1>3, <1>6, OlderType DEF CopiesOK, CopyOK, Same, Copied
<1> QED
  BY <1>4, <1>5, <1>6

LEMMA EvaluatePolicyCopiesOK ==
    ASSUME EnforcementInv, NEW p \in Policy, EvaluatePolicy(p)
    PROVE  CopiesOK'
<1>0. TypeOK /\ CopiesOK
  BY DEF EnforcementInv
<1>1. /\ \A r \in Report : Copied(r)' => worker'.copies[r] = cache[r]
      /\ UNCHANGED <<store, cache>>
  BY DEF EvaluatePolicy, Idle, Copied
<1> QED
  BY <1>0, <1>1 DEF CopiesOK, CopyOK, Same

(* An update that goes through leaves the copy equal to the report. *)
LEMMA UpdateCopiesOK ==
    ASSUME EnforcementInv, NEW r \in Report, NEW o \in Object, Same(r),
           o.rv = worker.copies[r].rv,
           store' = [store EXCEPT ![r] = Response(r, o)], cache' = cache,
           worker'.copies[r] = Response(r, o), worker.report = r,
           worker'.report = r,
           \A q \in Report \ {r} : worker'.copies[q] = worker.copies[q]
    PROVE  CopiesOK'
<1>0. TypeOK /\ CopiesOK
  BY DEF EnforcementInv
<1>1. store'[r] = Response(r, o) /\ \A q \in Report \ {r} : store'[q] = store[q]
  BY <1>0 DEF TypeOK
<1>2. ASSUME cache[r].rv = store'[r].rv PROVE cache[r] = store'[r]
  BY <1>0, <1>1, <1>2, ResponseType DEF CopiesOK, CopyOK
<1>3. CopyOK(r)'
  BY <1>1, <1>2 DEF CopyOK, Same, Copied
<1>4. ASSUME NEW q \in Report \ {r} PROVE CopyOK(q)'
  <2>1. /\ worker'.copies[q] = worker.copies[q]
        /\ store'[q] = store[q]
        /\ Untouched(q)' => Untouched(q)
    BY <1>1 DEF Untouched, Copied
  <2>2. Same(q)' => Same(q)
    BY <2>1 DEF Same, Copied
  <2>3. CopyOK(q)
    BY <1>0 DEF CopiesOK
  <2> QED
    BY <2>1, <2>2, <2>3 DEF CopyOK
<1> QED
  BY <1>3, <1>4 DEF CopiesOK

(* One that is refused leaves a change in the copy. *)
LEMMA EnforceCopiesOK ==
    ASSUME EnforcementInv, Enforce
    PROVE  CopiesOK'
<1>a. worker.report \in Report
  BY EnforceStep DEF EnforcementInv
<1>b. PICK r \in Report : r = worker.report
  BY <1>a
<1>0. /\ TypeOK /\ CopiesOK
      /\ worker.pc = "act"
      /\ Copy = worker.copies[r]
      /\ Copy \in Object
      /\ cache' = cache
  BY <1>b, EnforceStep DEF EnforcementInv, Copy
<1>1. PICK o \in Object :
        /\ Acted(o)
        /\ \/ /\ Same(r)
              /\ store' = [store EXCEPT ![r] = Response(r, o)]
              /\ ActionDone(Response(r, o))
           \/ store' = store /\ ActionDone(o)
  BY <1>0, <1>b, EnforceStep DEF EnforcementInv
<1>2. Response(r, o) \in Object
  BY <1>0, ResponseType
<1>3. CASE /\ Same(r)
           /\ store' = [store EXCEPT ![r] = Response(r, o)]
           /\ ActionDone(Response(r, o))
  <2>1. /\ worker'.copies[r] = Response(r, o)
        /\ worker'.report = r
        /\ \A q \in Report \ {r} : worker'.copies[q] = worker.copies[q]
    BY <1>0, <1>2, <1>3, <1>b, ActionDoneCopies
  <2> QED
    BY <1>0, <1>1, <1>3, <1>b, <2>1, UpdateCopiesOK DEF Acted
<1>4. CASE store' = store /\ ActionDone(o)
  <2>1. /\ worker'.copies[r] = o
        /\ worker'.pc = "act"
        /\ worker'.report = r
        /\ \A q \in Report \ {r} : worker'.copies[q] = worker.copies[q]
    BY <1>0, <1>4, <1>b, ActionDoneCopies
  <2>2. ~Untouched(r)'
    BY <2>1 DEF Untouched
  <2>3. Same(r)' => Same(r)
    BY <1>0, <1>1, <1>4, <2>1, NoneAssumption DEF Same, Copied, Acted
  <2>4. /\ o.findings = worker.copies[r].findings
        /\ o.workloads = worker.copies[r].workloads
    BY <1>0, <1>1 DEF Acted
  <2>5. worker.copies[r].since # None => o.since = worker.copies[r].since
    BY <1>0, <1>1 DEF Acted
  <2>6. CopyOK(r)'
    BY <1>0, <1>4, <2>1, <2>2, <2>3, <2>4, <2>5 DEF CopiesOK, CopyOK
  <2>7. ASSUME NEW q \in Report, q # r PROVE CopyOK(q)'
    <3>1. worker'.copies[q] = worker.copies[q]
      BY <2>1, <2>7
    <3>2. /\ Same(q)' => Same(q)
          /\ Untouched(q)' => Untouched(q)
      BY <1>4, <1>b, <2>1, <2>7, <3>1 DEF Same, Copied, Untouched
    <3>3. CopyOK(q)
      BY <1>0 DEF CopiesOK
    <3> QED
      BY <1>0, <1>4, <3>1, <3>2, <3>3 DEF CopyOK
  <2> QED
    BY <2>6, <2>7 DEF CopiesOK
<1> QED
  BY <1>1, <1>3, <1>4

LEMMA ClearCopiesOK ==
    ASSUME EnforcementInv, ClearAnnotations
    PROVE  CopiesOK'
<1> DEFINE r == worker.report
<1>0. /\ TypeOK /\ WorkerOK /\ CopiesOK /\ worker \in WorkerState
      /\ worker.pc = "clear"
      /\ r \in Report
      /\ Copy \in Object
      /\ Cleared \in Object
      /\ cache' = cache
  BY ClearStep DEF EnforcementInv, TypeOK
<1>1. CASE worker' = [worker EXCEPT !.pc = "resume"] /\ store' = store
  <2>1. Fewer
    BY <1>0, <1>1 DEF Fewer, Copied, Untouched, WorkerState
  <2> QED
    BY <1>0, <1>1, <2>1, FewerCopiesOK
<1>2. CASE /\ Same(r)
           /\ store' = [store EXCEPT ![r] = Response(r, Cleared)]
           /\ worker' = [worker EXCEPT !.pc = "resume",
                            !.copies = [@ EXCEPT ![r] = Response(r, Cleared)]]
  <2>1. worker'.pc = "resume" /\ worker'.report = worker.report
    BY <1>0, <1>2 DEF WorkerState
  <2>2. /\ worker'.copies[r] = Response(r, Cleared)
        /\ \A q \in Report \ {r} : worker'.copies[q] = worker.copies[q]
    BY <1>0, <1>2 DEF WorkerState
  <2>3. Cleared.rv = worker.copies[r].rv
    BY <1>0 DEF Cleared, Copy, Object
  <2> QED
    BY <1>0, <1>2, <2>1, <2>2, <2>3, UpdateCopiesOK
<1>3. CASE worker' = NextReport /\ store' = store
  BY <1>0, <1>3, NextReportFewer, FewerCopiesOK
<1> QED
  BY <1>0, <1>1, <1>2, <1>3, ClearStep

LEMMA NextCopiesOK ==
    ASSUME EnforcementInv, [Next]_vars
    PROVE  CopiesOK'
<1>0. TypeOK /\ WorkerOK /\ CopiesOK
  BY DEF EnforcementInv
<1>1. ASSUME UNCHANGED <<store, cache, worker>> PROVE CopiesOK'
  BY <1>0, <1>1, SameWorkerFewer, FewerCopiesOK
<1>2. ASSUME NEW r \in Report, Deliver(r) PROVE CopiesOK'
  BY <1>0, <1>2 DEF Deliver, CopiesOK, CopyOK, TypeOK, Same, Copied, Untouched
<1>3. CASE Restart
  BY <1>3 DEF Restart, Idle, CopiesOK, CopyOK, Same, Copied
<1>4. CASE Work
  BY <1>0, <1>4, WorkFewer, FewerCopiesOK, EnforceCopiesOK, ClearCopiesOK
     DEF Work, Restore
<1>5. CASE UNCHANGED vars
  BY <1>1, <1>5 DEF vars
<1>6. ASSUME NEW r \in Report, Assess(r) PROVE CopiesOK'
  BY <1>6, AssessCopiesOK DEF Assess
<1>7. CASE Next
  BY <1>1, <1>2, <1>3, <1>4, <1>6, <1>7, TickCopiesOK,
     EvaluatePolicyCopiesOK DEF Next, Operate, UserSets, DeletePolicy, Discover
<1> QED
  BY <1>5, <1>7

LEMMA EnforcementInvInductive ==
    /\ Init => EnforcementInv
    /\ EnforcementInv /\ [Next]_vars => EnforcementInv'
BY InitTypeOK, InitWorkerOK, InitCopiesOK, NextTypeOK, NextWorkerOK,
   NextCopiesOK DEF EnforcementInv

(* The API server, the informer cache, the worker's copies, resources and  *)
(* workloads hold values of their kinds in every reachable state.          *)
THEOREM EnforcementTypeCorrect == Spec => []TypeOK
<1>1. EnforcementInv => TypeOK
  BY DEF EnforcementInv
<1> QED
  BY <1>1, EnforcementInvInductive, PTL DEF Spec

-----------------------------------------------------------------------------
(* The time of the first detection.                                        *)

(* A step that leaves the annotation of a report or makes it older. *)
Keeps(r) == store'[r].since # None /\ store'[r].since >= store[r].since

LEMMA KeepsIfSame ==
    ASSUME TypeOK, NEW r \in Report, store[r].since # None,
           store'[r].since = store[r].since
    PROVE  Keeps(r)
<1>1. store[r].since \in Ages
  BY DEF TypeOK, Object
<1> QED
  BY <1>1, BoundAssumption DEF Keeps, Ages

LEMMA AssessKeeps ==
    ASSUME TypeOK, NEW r \in Report, store[r].since # None, NEW q \in Report,
           NEW F \in SUBSET Finding, NEW W \in SUBSET Workload, NewStatus(q, F, W)
    PROVE  Keeps(r)
<1>1. store'[r].since = store[r].since
  BY NewStatusStep
<1> QED
  BY <1>1, KeepsIfSame

LEMMA TickKeeps ==
    ASSUME TypeOK, NEW r \in Report, store[r].since # None, Tick
    PROVE  Keeps(r)
<1>1. store[r] \in Object /\ store[r] # None /\ store[r].since \in Ages
  BY NoneAssumption DEF TypeOK, Object
<1>2. store'[r] = Older(store[r])
  BY DEF Tick
<1>3. store'[r].since = Next1(store[r].since) /\ store'[r].since # None
  BY <1>1, <1>2, OlderType
<1>4. Next1(store[r].since) \in Ages /\ store[r].since <= Next1(store[r].since)
  BY <1>1, BoundAssumption DEF Ages, Next1
<1> QED
  BY <1>1, <1>3, <1>4, BoundAssumption DEF Keeps, Ages

(* An enforcement action that gets through found the annotation in its copy. *)
LEMMA EnforceKeeps ==
    ASSUME EnforcementInv, NEW r \in Report, store[r].since # None, Enforce
    PROVE  Keeps(r)
<1>0. TypeOK /\ CopiesOK /\ worker.report \in Report
  BY EnforceStep DEF EnforcementInv
<1>1. CASE store' = store
  BY <1>0, <1>1, KeepsIfSame
<1>2. ASSUME NEW o \in Object, Acted(o), Same(worker.report),
             store' = [store EXCEPT ![worker.report] = Response(worker.report, o)]
      PROVE  Keeps(r)
  <2>1. CASE r # worker.report
    BY <1>0, <1>2, <2>1, KeepsIfSame DEF TypeOK
  <2>2. CASE r = worker.report
    <3>1. Copy.since = store[r].since
      BY <1>0, <1>2, <2>2 DEF CopiesOK, CopyOK, Copy
    <3>2. o.since = store[r].since
      BY <1>2, <3>1 DEF Acted
    <3>3. store'[r] = Response(r, o)
      BY <1>0, <1>2, <2>2 DEF TypeOK
    <3> QED
      BY <1>0, <3>2, <3>3, ResponseType, KeepsIfSame
  <2> QED
    BY <2>1, <2>2
<1> QED
  BY <1>1, <1>2, EnforceStep DEF EnforcementInv

LEMMA ClearKeepsOrCompliant ==
    ASSUME EnforcementInv, NEW r \in Report, store[r].since # None,
           ClearAnnotations
    PROVE  \/ Keeps(r)
           \/ /\ store'[r].since = None
              /\ worker.report = r
              /\ Level(worker.policy, store[r]) = "Compliant"
<1>0. /\ TypeOK /\ WorkerOK /\ CopiesOK
      /\ worker.pc = "clear" /\ worker.report \in Report
      /\ Copy \in Object /\ Cleared \in Object
  BY ClearStep DEF EnforcementInv
<1>1. CASE store' = store
  BY <1>0, <1>1, KeepsIfSame
<1>2. CASE /\ Same(worker.report)
           /\ store' = [store EXCEPT ![worker.report] =
                           Response(worker.report, Cleared)]
  <2>1. CASE r # worker.report
    BY <1>0, <1>2, <2>1, KeepsIfSame DEF TypeOK
  <2>2. CASE r = worker.report
    <3>1. Cleared.since = None /\ store'[r].since = None
      <4>1. Cleared.since = None
        BY <1>0 DEF Cleared, Object
      <4>2. store'[r] = Response(r, Cleared)
        BY <1>0, <1>2, <2>2 DEF TypeOK
      <4> QED
        BY <1>0, <4>1, <4>2, ResponseType
    <3>2. Copy.findings = store[r].findings
      BY <1>0, <1>2, <2>2 DEF CopiesOK, CopyOK, Copy
    <3>3. Level(worker.policy, Copy) = "Compliant"
      BY <1>0 DEF WorkerOK
    <3> QED
      BY <2>2, <3>1, <3>2, <3>3, LevelOfFindings
  <2> QED
    BY <2>1, <2>2
<1> QED
  BY <1>1, <1>2, ClearStep DEF EnforcementInv

(* The first-detected annotation of a report stays, or goes because the     *)
(* stored report is compliant.                                             *)
Lost(r) ==
    /\ store'[r].since = None
    /\ worker.report = r
    /\ Level(worker.policy, store[r]) = "Compliant"

LEMMA NextKeepsOrLost ==
    ASSUME EnforcementInv, [Next]_vars, NEW r \in Report, store[r].since # None
    PROVE  Keeps(r) \/ Lost(r)
<1>0. TypeOK /\ WorkerOK
  BY DEF EnforcementInv
<1>1. CASE store' = store
  BY <1>0, <1>1, KeepsIfSame
<1>2. ASSUME NEW q \in Report, Assess(q) PROVE Keeps(r)
  BY <1>0, <1>2, AssessKeeps DEF Assess
<1>3. CASE Tick
  BY <1>0, <1>3, TickKeeps
<1>4. CASE Enforce
  BY <1>4, EnforceKeeps
<1>5. CASE ClearAnnotations
  BY <1>5, ClearKeepsOrCompliant DEF Lost
<1>6. CASE UNCHANGED vars
  BY <1>1, <1>6 DEF vars
<1>7. CASE Next
  BY <1>0, <1>1, <1>2, <1>3, <1>4, <1>5, <1>7, WorkFewer
     DEF Next, Operate, Work, Restore, Deliver, UserSets, DeletePolicy, Discover,
         EvaluatePolicy, Restart
<1> QED
  BY <1>6, <1>7

(* No race between the worker and the writers of a report restarts the     *)
(* grace period of a violation: the first-detected annotation goes only    *)
(* when a policy under which the stored report is compliant clears it.     *)
THEOREM FirstDetectionIsKept == Spec => FirstDetectionKept
<1>1. ASSUME EnforcementInv, [Next]_vars
      PROVE  [\A r \in Report :
                 store[r].since # None =>
                     \/ store'[r].since # None /\ store'[r].since >= store[r].since
                     \/ /\ store'[r].since = None
                        /\ worker.report = r
                        /\ Level(worker.policy, store[r]) = "Compliant"]_vars
  BY <1>1, NextKeepsOrLost DEF Keeps, Lost
<1> QED
  BY <1>1, EnforcementInvInductive, PTL DEF Spec, FirstDetectionKept

-----------------------------------------------------------------------------
(* The grace period.                                                       *)

Violated(r, o) == \E p \in Policy : r \in Selects(p) /\ Level(p, o) # "Compliant"

(* An annotation under which a suspension may come is younger than the     *)
(* calm of its report.  The cache may still show one that was cleared, but *)
(* only with findings that violate nothing; and a copy that violates       *)
(* nothing has lost its annotation only where everybody has.               *)
GraceOK(r) ==
    /\ Same(r) => cache[r].findings = store[r].findings
    /\ Same(r) /\ Untouched(r) => cache[r] = store[r]
    /\ store[r].since # None => store[r].since <= calm[r]
    /\ cache[r].since # None /\ Violated(r, cache[r]) =>
          cache[r].since <= calm[r]
    /\ Copied(r) /\ worker.copies[r].since # None
          /\ Violated(r, worker.copies[r]) => worker.copies[r].since <= calm[r]
    /\ Untouched(r) /\ worker.copies[r].since = None
          /\ ~Violated(r, worker.copies[r]) =>
             store[r].since = None /\ cache[r].since = None
    /\ store[r].since # None /\ cache[r].since = None => Violated(r, cache[r])

GraceInv == EnforcementInv /\ \A r \in Report : Sole(r) => GraceOK(r)

LEMMA ViolatedOfFindings ==
    ASSUME NEW r, NEW o1, NEW o2, o1.findings = o2.findings
    PROVE  Violated(r, o1) <=> Violated(r, o2)
BY LevelOfFindings DEF Violated

(* The worker's phase says whether its copy violates a policy.             *)
LEMMA PhaseViolated ==
    ASSUME WorkerOK, worker.report \in Report, Sole(worker.report)
    PROVE  /\ worker.pc = "act" => Violated(worker.report, Copy)
           /\ worker.pc = "clear" => ~Violated(worker.report, Copy)
BY DEF WorkerOK, Violated, Sole

LEMMA InitGraceOK ==
    ASSUME Init, NEW r \in Report
    PROVE  GraceOK(r)
BY DEF Init, Idle, GraceOK, Same, Untouched, Copied

(* Reports, caches and calm stay; copies are dropped. *)
LEMMA FewerGraceOK ==
    ASSUME Fewer, NEW r \in Report, GraceOK(r),
           store'[r] = store[r], cache'[r] = cache[r], calm'[r] = calm[r]
    PROVE  GraceOK(r)'
<1>1. /\ Copied(r)' => Copied(r) /\ worker'.copies[r] = worker.copies[r]
      /\ Untouched(r)' => Untouched(r)
      /\ Same(r)' => Same(r)
  BY DEF Fewer, Same, Copied, Untouched
<1>2. Untouched(r)' => Copied(r)'
  BY DEF Untouched
<1> QED
  BY <1>1, <1>2 DEF GraceOK, Violated

LEMMA AssessGraceOK ==
    ASSUME EnforcementInv, NEW q \in Report, NEW F \in SUBSET Finding,
           NEW W \in SUBSET Workload, NewStatus(q, F, W),
           UNCHANGED <<cache, worker, calm>>,
           NEW r \in Report, GraceOK(r)
    PROVE  GraceOK(r)'
<1>0. TypeOK
  BY DEF EnforcementInv
<1>1. /\ store'[q].rv = NewVersion(q)
      /\ store'[q].since = store[q].since
      /\ \A p \in Report \ {q} : store'[p] = store[p]
      /\ UNCHANGED <<cache, worker, calm>>
  BY <1>0, NewStatusStep
<1>2. CASE r # q
  BY <1>1, <1>2, SameWorkerFewer, FewerGraceOK
<1>3. CASE r = q
  <2>1. ~Same(r)'
    BY <1>0, <1>1, <1>3, NewVersionFresh DEF Same, Copied
  <2> QED
    BY <1>1, <1>3, <2>1 DEF GraceOK, Violated, Copied, Untouched
<1> QED
  BY <1>2, <1>3

LEMMA DeliverGraceOK ==
    ASSUME EnforcementInv, NEW q \in Report, Deliver(q),
           NEW r \in Report, GraceOK(r)
    PROVE  GraceOK(r)'
<1>0. TypeOK
  BY DEF EnforcementInv
<1>1. /\ cache'[q] = store[q]
      /\ \A p \in Report \ {q} : cache'[p] = cache[p]
      /\ UNCHANGED <<store, worker, calm>>
  BY <1>0 DEF Deliver, TypeOK
<1>2. CASE r # q
  BY <1>1, <1>2, SameWorkerFewer, FewerGraceOK
<1>3. CASE r = q
  BY <1>1, <1>3 DEF GraceOK, Violated, Copied, Untouched, Same
<1> QED
  BY <1>2, <1>3

LEMMA RestartGraceOK ==
    ASSUME EnforcementInv, Restart, NEW r \in Report, GraceOK(r)
    PROVE  GraceOK(r)'
<1>1. /\ ~Copied(r)'
      /\ UNCHANGED <<store, calm>>
      /\ cache' = store
  BY DEF Restart, Idle, Copied
<1> QED
  BY <1>1 DEF GraceOK, Same, Untouched

LEMMA EvaluatePolicyGraceOK ==
    ASSUME EnforcementInv, NEW p \in Policy, EvaluatePolicy(p),
           NEW r \in Report, GraceOK(r)
    PROVE  GraceOK(r)'
<1>1. /\ Copied(r)' => worker'.copies[r] = cache[r]
      /\ UNCHANGED <<store, cache, calm>>
  BY DEF EvaluatePolicy, Idle, Copied
<1>2. cache[r].rv = store[r].rv => cache[r] = store[r]
  BY DEF EnforcementInv, CopiesOK, CopyOK
<1>3. Violated(r, cache[r])' <=> Violated(r, cache[r])
  BY <1>1 DEF Violated
<1>4. Copied(r)' => (Violated(r, worker.copies[r])' <=> Violated(r, cache[r]))
  BY <1>1 DEF Violated
<1>5. Untouched(r)' => Copied(r)'
  BY DEF Untouched
<1> QED
  BY <1>1, <1>2, <1>3, <1>4, <1>5 DEF GraceOK, Same

(* Annotations and calm grow older together. *)
LEMMA TickGraceOK ==
    ASSUME EnforcementInv, Tick, NEW r \in Report, GraceOK(r)
    PROVE  GraceOK(r)'
<1>0. TypeOK /\ worker \in WorkerState
  BY DEF EnforcementInv, TypeOK
<1>1. /\ worker'.pc = worker.pc
      /\ worker'.report = worker.report
      /\ worker'.copies[r] = Older(worker.copies[r])
      /\ store'[r] = Older(store[r])
      /\ cache'[r] = Older(cache[r])
      /\ calm'[r] = Next1(calm[r])
  BY <1>0 DEF Tick, WorkerState, TypeOK
<1>2. /\ store[r] \in Object /\ store[r] # None
      /\ cache[r] \in Object /\ cache[r] # None
      /\ worker.copies[r] \in Object \cup {None}
      /\ calm[r] \in Ages
  BY <1>0, NoneAssumption DEF TypeOK, WorkerState
<1>3. /\ Copied(r)' <=> Copied(r)
      /\ Same(r)' <=> Same(r)
      /\ Untouched(r)' <=> Untouched(r)
  BY <1>1, <1>2, OlderType DEF Same, Copied, Untouched
<1>4. ASSUME NEW o \in Object, o # None
      PROVE  /\ Violated(r, Older(o)) <=> Violated(r, o)
             /\ o.since # None /\ o.since <= calm[r] =>
                   Older(o).since <= Next1(calm[r])
  <2>1. Older(o).findings = o.findings
    BY <1>4, OlderType
  <2>2. o.since # None => o.since \in Ages
    BY DEF Object
  <2> QED
    BY <1>2, <1>4, <2>1, <2>2, ViolatedOfFindings, OlderType, OlderKeepsOrder
<1>5. /\ Violated(r, cache[r])' <=> Violated(r, cache'[r])
      /\ Violated(r, worker.copies[r])' <=> Violated(r, worker'.copies[r])
  BY DEF Violated
<1>6. /\ store'[r].findings = store[r].findings
      /\ cache'[r].findings = cache[r].findings
      /\ (store'[r].since = None) <=> (store[r].since = None)
      /\ (cache'[r].since = None) <=> (cache[r].since = None)
      /\ Violated(r, cache[r])' <=> Violated(r, cache[r])
  BY <1>1, <1>2, <1>4, <1>5, OlderType
<1>7. Copied(r) =>
        /\ (worker'.copies[r].since = None) <=> (worker.copies[r].since = None)
        /\ Violated(r, worker.copies[r])' <=> Violated(r, worker.copies[r])
        /\ worker.copies[r] \in Object
  BY <1>1, <1>2, <1>4, <1>5, OlderType DEF Copied
<1>8. Untouched(r) => Copied(r)
  BY DEF Untouched
<1>9. /\ Same(r)' => cache'[r].findings = store'[r].findings
      /\ Same(r)' /\ Untouched(r)' => cache'[r] = store'[r]
  BY <1>1, <1>3, <1>6 DEF GraceOK
<1>10. /\ store'[r].since # None => store'[r].since <= calm'[r]
       /\ cache'[r].since # None /\ Violated(r, cache[r])' =>
             cache'[r].since <= calm'[r]
  BY <1>1, <1>2, <1>4, <1>6 DEF GraceOK
<1>11. Copied(r)' /\ worker'.copies[r].since # None
          /\ Violated(r, worker.copies[r])' => worker'.copies[r].since <= calm'[r]
  BY <1>1, <1>2, <1>3, <1>4, <1>7 DEF GraceOK, Copied
<1>12. /\ Untouched(r)' /\ worker'.copies[r].since = None
             /\ ~Violated(r, worker.copies[r])' =>
                store'[r].since = None /\ cache'[r].since = None
       /\ store'[r].since # None /\ cache'[r].since = None =>
             Violated(r, cache[r])'
  BY <1>3, <1>6, <1>7, <1>8 DEF GraceOK
<1> QED
  BY <1>9, <1>10, <1>11, <1>12 DEF GraceOK

(* An enforcement action finds a copy that violates a policy. *)
LEMMA EnforceGraceOK ==
    ASSUME EnforcementInv, Enforce, NEW r \in Report, Sole(r), GraceOK(r)
    PROVE  GraceOK(r)'
<1>a. worker.report \in Report
  BY EnforceStep DEF EnforcementInv
<1>b. PICK q \in Report : q = worker.report
  BY <1>a
<1>0. /\ TypeOK /\ WorkerOK /\ CopiesOK
      /\ worker.pc = "act"
      /\ Copy = worker.copies[q] /\ Copy \in Object
      /\ cache' = cache /\ calm' = calm
  BY <1>b, EnforceStep DEF EnforcementInv, Copy
<1>1. PICK o \in Object :
        /\ Acted(o)
        /\ \/ /\ Same(q)
              /\ store' = [store EXCEPT ![q] = Response(q, o)]
              /\ ActionDone(Response(q, o))
           \/ store' = store /\ ActionDone(o)
  BY <1>0, <1>b, EnforceStep DEF EnforcementInv
<1>2. PICK c \in Object :
        /\ ActionDone(c)
        /\ c.findings = Copy.findings
        /\ c.since = o.since
        /\ \/ Same(q) /\ store' = [store EXCEPT ![q] = c]
           \/ store' = store /\ c.rv = Copy.rv
  <2>1. CASE /\ Same(q)
             /\ store' = [store EXCEPT ![q] = Response(q, o)]
             /\ ActionDone(Response(q, o))
    <3>1. Response(q, o) \in Object /\ Response(q, o).since = o.since
      BY <1>0, ResponseType
    <3>2. Response(q, o).findings = Copy.findings
      BY <1>0, <2>1, ResponseType DEF CopiesOK, CopyOK
    <3> QED
      BY <2>1, <3>1, <3>2
  <2>2. CASE store' = store /\ ActionDone(o)
    BY <1>1, <2>2 DEF Acted
  <2> QED
    BY <1>1, <2>1, <2>2
<1>3. /\ worker'.pc = "act"
      /\ worker'.report = q
      /\ worker'.copies[q] = c
      /\ \A p \in Report \ {q} : worker'.copies[p] = worker.copies[p]
  BY <1>0, <1>2, <1>b, ActionDoneCopies
<1>4. CASE r # q
  <2>1. /\ worker'.copies[r] = worker.copies[r]
        /\ store'[r] = store[r]
    BY <1>0, <1>2, <1>3, <1>4 DEF TypeOK
  <2>2. /\ Copied(r)' <=> Copied(r)
        /\ Same(r)' <=> Same(r)
        /\ Untouched(r)' => Untouched(r)
    BY <1>3, <1>4, <1>b, <2>1 DEF Copied, Same, Untouched
  <2> QED
    BY <1>0, <2>1, <2>2 DEF GraceOK, Violated
<1>5. CASE r = q
  <2>1. Violated(r, Copy) /\ Violated(r, c)
    BY <1>0, <1>2, <1>5, <1>b, PhaseViolated, ViolatedOfFindings
  <2>2. Copied(r) /\ calm[r] \in Ages
    BY <1>0, <1>5, <1>b DEF WorkerOK, TypeOK
  <2>3. c.since # None => c.since <= calm[r]
    <3>1. Copy.since # None => Copy.since <= calm[r]
      BY <1>0, <1>5, <2>1, <2>2 DEF GraceOK
    <3>2. 0 <= calm[r]
      BY <2>2, BoundAssumption DEF Ages
    <3> QED
      BY <1>1, <1>2, <3>1, <3>2 DEF Acted
  <2>4. ~Untouched(r)'
    BY <1>3, <1>5 DEF Untouched
  <2>5. Same(r) => /\ cache[r].findings = Copy.findings
                   /\ store[r].findings = Copy.findings
                   /\ Violated(r, cache[r])
    BY <1>0, <1>5, <2>1, ViolatedOfFindings DEF GraceOK, CopiesOK, CopyOK
  <2>6. store'[r] = c \/ store'[r] = store[r]
    BY <1>0, <1>2, <1>5 DEF TypeOK
  <2>7. Same(r)' => Same(r)
    BY <1>0, <1>2, <1>3, <1>5, <2>2 DEF Same, Copied
  <2>8. /\ Violated(r, cache[r])' <=> Violated(r, cache[r])
        /\ Violated(r, worker.copies[r])'
    BY <1>0, <1>3, <1>5, <2>1 DEF Violated
  <2>9. Same(r)' => cache'[r].findings = store'[r].findings
    BY <1>0, <1>2, <2>5, <2>6, <2>7
  <2>10. /\ store'[r].since # None => store'[r].since <= calm'[r]
         /\ cache'[r].since # None /\ Violated(r, cache[r])' =>
               cache'[r].since <= calm'[r]
         /\ worker'.copies[r].since # None => worker'.copies[r].since <= calm'[r]
    BY <1>0, <1>3, <1>5, <2>3, <2>6, <2>8 DEF GraceOK
  <2>11. store'[r].since # None /\ cache'[r].since = None =>
            Violated(r, cache[r])'
    BY <1>0, <1>2, <1>5, <2>5, <2>8 DEF GraceOK
  <2> QED
    BY <2>4, <2>8, <2>9, <2>10, <2>11 DEF GraceOK
<1> QED
  BY <1>4, <1>5

(* What ClearAnnotations leaves is without annotation everywhere, or the   *)
(* cache shows findings that violate nothing.                              *)
LEMMA ClearGraceOK ==
    ASSUME EnforcementInv, ClearAnnotations, NEW r \in Report, Sole(r), GraceOK(r)
    PROVE  GraceOK(r)'
<1>a. worker.report \in Report
  BY ClearStep DEF EnforcementInv
<1>b. PICK q \in Report : q = worker.report
  BY <1>a
<1>0. /\ TypeOK /\ WorkerOK /\ CopiesOK
      /\ worker \in WorkerState /\ worker.pc = "clear"
      /\ Copy = worker.copies[q] /\ Copy \in Object
      /\ Cleared \in Object
      /\ cache' = cache
  BY <1>b, ClearStep DEF EnforcementInv, TypeOK, Copy
<1>1. CASE worker' = NextReport /\ UNCHANGED <<store, calm>>
  BY <1>0, <1>1, <1>a, NextReportFewer, FewerGraceOK
<1>2. ASSUME NEW c \in Object,
             c.since = None,
             worker'.pc = "resume", worker'.report = q,
             worker'.copies[q] = c,
             \A p \in Report \ {q} : worker'.copies[p] = worker.copies[p],
             calm' = [calm EXCEPT ![q] = 0],
             \/ store' = store /\ c = Copy
             \/ Same(q) /\ store' = [store EXCEPT ![q] = c]
                        /\ c.findings = store[q].findings
      PROVE  GraceOK(r)'
  <2>1. CASE r # q
    <3>1. /\ worker'.copies[r] = worker.copies[r]
          /\ store'[r] = store[r]
          /\ calm'[r] = calm[r]
      BY <1>0, <1>2, <2>1 DEF TypeOK
    <3>2. /\ Copied(r)' <=> Copied(r)
          /\ Same(r)' <=> Same(r)
          /\ Untouched(r)' => Untouched(r)
      BY <1>2, <1>b, <2>1, <3>1 DEF Copied, Same, Untouched
    <3> QED
      BY <1>0, <3>1, <3>2 DEF GraceOK, Violated
  <2>2. CASE r = q
    <3>1. ~Violated(r, Copy) /\ Untouched(r)
      BY <1>0, <1>b, <2>2, PhaseViolated DEF WorkerOK, Untouched
    <3>2. ~Untouched(r)'
      BY <1>2, <2>2 DEF Untouched
    <3>3. Violated(r, cache[r])' <=> Violated(r, cache[r])
      BY <1>0 DEF Violated
    <3>4. CASE store' = store /\ c = Copy
      <4>1. store[r].since = None /\ cache[r].since = None
        BY <1>0, <1>2, <2>2, <3>1, <3>4 DEF GraceOK
      <4>2. Same(r)' => Same(r)
        BY <1>0, <1>2, <2>2, <3>1, <3>4 DEF Same, Copied, Untouched
      <4> QED
        BY <1>0, <1>2, <2>2, <3>2, <3>4, <4>1, <4>2 DEF GraceOK
    <3>5. CASE /\ Same(q) /\ store' = [store EXCEPT ![q] = c]
               /\ c.findings = store[q].findings
      <4>1. cache[r] = store[r] /\ worker.copies[r] = store[r]
        BY <1>0, <2>2, <3>1, <3>5 DEF GraceOK, CopiesOK, CopyOK
      <4>2. ~Violated(r, cache[r])
        BY <1>0, <2>2, <3>1, <4>1
      <4>3. store'[r] = c
        BY <1>0, <2>2, <3>5 DEF TypeOK
      <4> QED
        BY <1>0, <1>2, <2>2, <3>2, <3>3, <3>5, <4>1, <4>2, <4>3 DEF GraceOK
    <3> QED
      BY <1>2, <3>4, <3>5
  <2> QED
    BY <2>1, <2>2
<1>3. CASE /\ worker' = [worker EXCEPT !.pc = "resume"]
           /\ Copy.since = None
           /\ store' = store
           /\ calm' = [calm EXCEPT ![q] = 0]
  BY <1>0, <1>2, <1>3, <1>b DEF WorkerState
<1>4. CASE /\ Same(q)
           /\ store' = [store EXCEPT ![q] = Response(q, Cleared)]
           /\ worker' = [worker EXCEPT !.pc = "resume",
                            !.copies = [@ EXCEPT ![q] = Response(q, Cleared)]]
           /\ calm' = [calm EXCEPT ![q] = 0]
  <2> DEFINE c == Response(q, Cleared)
  <2>0. Cleared.since = None
    BY <1>0 DEF Cleared, Object
  <2>1. /\ c \in Object
        /\ c.since = None
        /\ c.findings = store[q].findings
    BY <1>0, <2>0, ResponseType
  <2> HIDE DEF c
  <2>2. worker'.pc = "resume" /\ worker'.report = q
    BY <1>0, <1>4, <1>b DEF WorkerState
  <2>3. /\ worker'.copies[q] = c
        /\ \A p \in Report \ {q} : worker'.copies[p] = worker.copies[p]
    BY <1>0, <1>4, <1>b DEF WorkerState, c
  <2> QED
    BY <1>2, <1>4, <2>1, <2>2, <2>3 DEF c
<1> QED
  BY <1>1, <1>3, <1>4, <1>b, ClearStep DEF EnforcementInv

LEMMA NextGraceOK ==
    ASSUME EnforcementInv, [Next]_vars, NEW r \in Report, Sole(r), GraceOK(r)
    PROVE  GraceOK(r)'
<1>0. TypeOK /\ WorkerOK
  BY DEF EnforcementInv
<1>1. ASSUME UNCHANGED <<store, cache, worker, calm>> PROVE GraceOK(r)'
  BY <1>1, SameWorkerFewer, FewerGraceOK
<1>2. CASE Work
  BY <1>0, <1>2, WorkFewer, FewerGraceOK, EnforceGraceOK, ClearGraceOK
     DEF Work, Restore
<1>3. CASE UNCHANGED vars
  BY <1>1, <1>3 DEF vars
<1>4. ASSUME NEW q \in Report, Assess(q) PROVE GraceOK(r)'
  BY <1>4, AssessGraceOK DEF Assess
<1>5. CASE Next
  BY <1>1, <1>2, <1>4, <1>5, DeliverGraceOK, RestartGraceOK,
     EvaluatePolicyGraceOK, TickGraceOK
     DEF Next, Operate, UserSets, DeletePolicy, Discover
<1> QED
  BY <1>3, <1>5

LEMMA GraceInvInductive ==
    /\ Init => GraceInv
    /\ GraceInv /\ [Next]_vars => GraceInv'
<1>1. Init => GraceInv
  BY EnforcementInvInductive, InitGraceOK DEF GraceInv
<1>2. ASSUME GraceInv, [Next]_vars PROVE GraceInv'
  <2>1. EnforcementInv'
    BY <1>2, EnforcementInvInductive DEF GraceInv
  <2>2. ASSUME NEW r \in Report, Sole(r) PROVE GraceOK(r)'
    BY <1>2, <2>2, NextGraceOK DEF GraceInv
  <2> QED
    BY <2>1, <2>2 DEF GraceInv, Sole
<1> QED
  BY <1>1, <1>2

(* Only Suspend turns a resource off. *)
LEMMA SuspendStep ==
    ASSUME TypeOK, [Next]_vars, worker' # worker, NEW x \in Resource,
           sync[x] # "off", sync'[x] = "off"
    PROVE  Suspend
<1>1. Resume => sync'[x] = sync[x] \/ sync'[x] = "on"
  BY DEF Resume, TypeOK
<1>2. ~Resume
  BY <1>1
<1> QED
  BY <1>2 DEF Next, Operate, Work, Enforce, Restore, Assess, Deliver, UserSets,
     DeletePolicy, EvaluatePolicy, Discover, EvaluateReport, PassOver, Annotate,
     StartGrace, WaitGrace, LabelWorkloads, ActionsDone, ClearAnnotations,
     UnlabelWorkloads, PolicyDone, Restart, Tick, cluster, vars

Waited ==
    \/ Grace = None
    \/ calm[worker.report] >= Grace
    \/ ~Sole(worker.report)

(* A suspension finds its grace period over.                               *)
LEMMA SuspensionWaited ==
    ASSUME GraceInv, [Next]_vars, worker' # worker, NEW x \in Resource,
           sync[x] # "off", sync'[x] = "off"
    PROVE  Waited
<1>0. /\ TypeOK /\ WorkerOK
      /\ \A r \in Report : Sole(r) => GraceOK(r)
  BY DEF GraceInv, EnforcementInv
<1>1. Suspend
  BY <1>0, SuspendStep
<1>2. /\ worker.pc = "act"
      /\ worker.step <= Len(Actions)
      /\ GraceOver(Copy)
  BY <1>1 DEF Suspend, Acting
<1>3. worker.report \in Report /\ Copied(worker.report) /\ worker.policy \in Policy
  BY <1>0, <1>2 DEF WorkerOK
<1>4. SUFFICES ASSUME Grace # None, Sole(worker.report)
               PROVE  calm[worker.report] >= Grace
  BY DEF Waited
<1>5. Grace \in Nat
  <2>1. Actions \in Seq(EnforcementAction)
    BY <1>3, PolicyAssumption DEF Actions
  <2>2. worker.step \in Nat \ {0}
    BY <1>0 DEF TypeOK, WorkerState
  <2>3. Actions[worker.step] \in EnforcementAction
    BY <1>2, <2>1, <2>2
  <2> QED
    BY <1>4, <2>3 DEF Grace, EnforcementAction, Ages
<1>6. Copy.since # None /\ Copy.since >= Grace /\ Copy.since \in Nat
  <2>1. Copy \in Object
    BY <1>0, <1>3 DEF TypeOK, WorkerState, Copied, Copy
  <2> QED
    BY <1>2, <1>4, <2>1 DEF GraceOver, Object, Ages
<1>7. Violated(worker.report, Copy)
  BY <1>0, <1>2, <1>3, <1>4, PhaseViolated
<1>8. Copy.since <= calm[worker.report]
  BY <1>0, <1>3, <1>4, <1>6, <1>7 DEF GraceOK, Copy
<1>9. calm[worker.report] \in Nat
  BY <1>0, <1>3 DEF TypeOK, Ages
<1> QED
  BY <1>5, <1>6, <1>8, <1>9

(* A suspension waits for the grace period of its action, counted from the *)
(* last time enforcement was taken back: no copy of the report, in the     *)
(* informer cache or in the worker, carries an older first detection over  *)
(* into a new violation, if the report is selected by one policy.          *)
THEOREM GraceIsRespected == Spec => GraceRespected
<1>1. ASSUME GraceInv, [Next]_vars
      PROVE  [\A x \in Resource :
                 worker' # worker /\ sync[x] # "off" /\ sync'[x] = "off" =>
                     \/ Grace = None
                     \/ calm[worker.report] >= Grace
                     \/ ~Sole(worker.report)]_vars
  BY <1>1, SuspensionWaited DEF Waited
<1> QED
  BY <1>1, GraceInvInductive, PTL DEF Spec, GraceRespected

-----------------------------------------------------------------------------
(* The worker acts on the level of its copy.                               *)

(* With an up-to-date copy that is the level of the stored report. *)
LEMMA LevelOfReport ==
    ASSUME EnforcementInv, Current, NEW o, o = store[worker.report],
           worker.pc \in {"act", "clear", "resume", "unlabel"}
    PROVE  /\ worker.report \in Report
           /\ Level(worker.policy, o) = worker.level
           /\ (worker.level = "Compliant") <=> (worker.pc # "act")
           /\ o.workloads = Copy.workloads
<1>1. /\ worker.report \in Report
      /\ worker.level = Level(worker.policy, Copy)
      /\ (worker.level = "Compliant") <=> (worker.pc # "act")
      /\ Same(worker.report)
  BY DEF EnforcementInv, WorkerOK, Current, Matches, Same, Copy
<1>2. o.findings = Copy.findings /\ o.workloads = Copy.workloads
  BY <1>1 DEF EnforcementInv, CopiesOK, CopyOK, Copy
<1> QED
  BY <1>1, <1>2, LevelOfFindings

(* These steps turn a resource off or on, or label workloads. *)
LEMMA DecisionStep ==
    ASSUME TypeOK, WorkerOK, [Next]_vars, worker' # worker
    PROVE  Suspend \/ LabelWorkloads \/ Resume \/ UnlabelWorkloads
             \/ UNCHANGED <<sync, risk>>
BY DEF Next, Operate, Work, Enforce, Restore, Assess, Deliver, UserSets,
   DeletePolicy, EvaluatePolicy, Discover, EvaluateReport, PassOver, Annotate,
   StartGrace, WaitGrace, ActionsDone, ClearAnnotations, PolicyDone, Restart,
   Tick, cluster, vars

LEMMA PatchesRisk ==
    ASSUME NEW W, NEW label, Patches(W, label), NEW w \in Workload,
           risk'[w] # risk[w]
    PROVE  w \in W /\ risk'[w] = label
BY DEF Patches

(* What ClearAnnotations has taken off the copy stays off. *)
TakenBack == worker.pc \in {"resume", "unlabel"} => Copy.since = None

DecisionInv == EnforcementInv /\ TakenBack

LEMMA ClearTakesBack ==
    ASSUME TypeOK, WorkerOK, ClearAnnotations
    PROVE  TakenBack'
<1>0. /\ worker \in WorkerState
      /\ worker.report \in Report
      /\ Cleared \in Object /\ Copy \in Object
  BY ClearStep DEF TypeOK
<1>1. CASE worker' = [worker EXCEPT !.pc = "resume"] /\ Copy.since = None
  BY <1>0, <1>1 DEF TakenBack, Copy, WorkerState
<1>2. CASE worker' = [worker EXCEPT !.pc = "resume",
                          !.copies = [@ EXCEPT ![worker.report] =
                              Response(worker.report, Cleared)]]
  <2>1. Cleared.since = None
    BY <1>0 DEF Cleared, Object
  <2>2. Response(worker.report, Cleared).since = None
    BY <1>0, <2>1, ResponseType
  <2>3. Copy' = Response(worker.report, Cleared)
    BY <1>0, <1>2 DEF Copy, WorkerState
  <2> QED
    BY <2>2, <2>3 DEF TakenBack
<1>3. CASE worker' = NextReport
  BY <1>0, <1>3, NextReportCopies DEF TakenBack
<1> QED
  BY <1>1, <1>2, <1>3, ClearStep

LEMMA NextTakenBack ==
    ASSUME EnforcementInv, TakenBack, [Next]_vars
    PROVE  TakenBack'
<1>0. /\ TypeOK /\ WorkerOK /\ worker \in WorkerState
      /\ NextReport.pc = "next"
  BY DEF EnforcementInv, TypeOK, NextReport, WorkerState
<1>1. ASSUME worker' = worker PROVE TakenBack'
  BY <1>1 DEF TakenBack, Copy
<1>2. ASSUME worker'.pc \in {"idle", "next", "act", "clear"} PROVE TakenBack'
  BY <1>2 DEF TakenBack
<1>3. ASSUME NEW p \in Policy, EvaluatePolicy(p) PROVE TakenBack'
  BY <1>2, <1>3 DEF EvaluatePolicy, Idle
<1>4. ASSUME NEW r \in Report, EvaluateReport(r) PROVE TakenBack'
  BY <1>0, <1>2, <1>4 DEF EvaluateReport, WorkerState
<1>5. CASE ActionsDone \/ PolicyDone \/ Restart \/ UnlabelWorkloads
  BY <1>0, <1>2, <1>5
     DEF ActionsDone, PolicyDone, Restart, UnlabelWorkloads, Idle
<1>6. CASE Enforce
  BY <1>0, <1>2, <1>6, EnforceStep, ActionDoneCopies, ResponseType
<1>7. CASE Resume
  BY <1>0, <1>7 DEF Resume, TakenBack, Copy, WorkerState
<1>8. CASE Tick
  <2>1. worker'.pc = worker.pc /\ worker'.report = worker.report
    BY <1>0, <1>8 DEF Tick, WorkerState
  <2>2. ASSUME worker.pc \in {"resume", "unlabel"} PROVE Copy'.since = None
    <3>1. /\ worker.report \in Report
          /\ Copy \in Object /\ Copy # None
          /\ Copy.since = None
      BY <1>0, <2>2 DEF WorkerOK, Copied, Copy, WorkerState, TakenBack
    <3>2. Copy' = Older(Copy)
      BY <1>0, <1>8, <2>1, <3>1 DEF Tick, Copy, WorkerState
    <3> QED
      BY <3>1, <3>2, OlderType
  <2> QED
    BY <2>1, <2>2 DEF TakenBack
<1>9. CASE UNCHANGED vars
  BY <1>1, <1>9 DEF vars
<1>10. CASE Next
  BY <1>0, <1>1, <1>3, <1>4, <1>5, <1>6, <1>7, <1>8, <1>10, ClearTakesBack
     DEF Next, Operate, Work, Restore, Assess, Deliver, UserSets, DeletePolicy,
         Discover
<1> QED
  BY <1>9, <1>10

LEMMA DecisionInvInductive ==
    /\ Init => DecisionInv
    /\ DecisionInv /\ [Next]_vars => DecisionInv'
<1>1. Init => TakenBack
  BY DEF Init, Idle, TakenBack
<1> QED
  BY <1>1, EnforcementInvInductive, NextTakenBack DEF DecisionInv

LEMMA DecisionRests ==
    ASSUME DecisionInv, [Next]_vars, worker' # worker, Current
    PROVE  RestsOn(store[worker.report])
<1> DEFINE o == store[worker.report]
           level == Level(worker.policy, o)
<1>0. EnforcementInv /\ TypeOK /\ WorkerOK
  BY DEF DecisionInv, EnforcementInv
<1>1. CASE Suspend
  <2>1. /\ worker.pc = "act"
        /\ worker.step <= Len(Actions)
        /\ Fires
        /\ Actions[worker.step].action = "suspendSync"
        /\ risk' = risk
    BY <1>1 DEF Suspend, Acting
  <2>2. worker.policy \in Policy /\ worker.step \in Nat \ {0}
    BY <1>0, <2>1 DEF WorkerOK, TypeOK, WorkerState
  <2>3. worker.step \in DOMAIN Actions
    BY <2>1, <2>2, PolicyAssumption DEF Actions
  <2>4. TriggerMatches(Actions[worker.step].trigger, level)
    BY <2>1, <1>0, LevelOfReport DEF Fires
  <2>5. \A x \in Resource : sync'[x] # sync[x] => sync'[x] = "off"
    BY <1>0, <1>1 DEF Suspend, TypeOK
  <2> QED
    BY <2>1, <2>3, <2>4, <2>5 DEF RestsOn
<1>2. CASE Resume
  <2>1. level = "Compliant"
    BY <1>2, <1>0, LevelOfReport DEF Resume
  <2>2. o.since = None
    <3>1. worker.pc = "resume" /\ worker.report \in Report /\ Same(worker.report)
      BY <1>0, <1>2 DEF Resume, WorkerOK, Current, Matches, Same, Copy
    <3> QED
      BY <1>0, <3>1 DEF DecisionInv, EnforcementInv, CopiesOK, CopyOK, TakenBack, Copy
  <2>3. risk' = risk /\ \A x \in Resource : sync'[x] # sync[x] => sync'[x] = "on"
    BY <1>0, <1>2 DEF Resume, TypeOK
  <2> QED
    BY <2>1, <2>2, <2>3 DEF RestsOn
<1>3. CASE LabelWorkloads
  <2>1. worker.pc = "act" /\ Patches(Copy.workloads, worker.level) /\ sync' = sync
    BY <1>3 DEF LabelWorkloads, Acting
  <2>2. /\ level = worker.level
        /\ level # "Compliant"
        /\ o.workloads = Copy.workloads
    BY <2>1, <1>0, LevelOfReport
  <2>3. \A w \in Workload :
           risk'[w] # risk[w] => w \in o.workloads /\ risk'[w] = level
    BY <2>1, <2>2, PatchesRisk
  <2> QED
    BY <2>1, <2>2, <2>3 DEF RestsOn
<1>4. CASE UnlabelWorkloads
  <2>1. worker.pc = "unlabel" /\ Patches(Copy.workloads, None) /\ sync' = sync
    BY <1>4 DEF UnlabelWorkloads
  <2>2. level = "Compliant" /\ o.workloads = Copy.workloads
    BY <2>1, <1>0, LevelOfReport
  <2>3. \A w \in Workload :
           risk'[w] # risk[w] => w \in o.workloads /\ risk'[w] = None
    BY <2>1, <2>2, PatchesRisk
  <2> QED
    BY <2>1, <2>2, <2>3 DEF RestsOn
<1>5. CASE UNCHANGED <<sync, risk>>
  BY <1>5 DEF RestsOn
<1> QED
  BY <1>0, <1>1, <1>2, <1>3, <1>4, <1>5, DecisionStep

(* As long as nobody has overtaken the worker's copy of a report, what it  *)
(* does to resources and workloads is what the stored findings call for:   *)
(* between the evaluation of the thresholds and the last action, no update *)
(* hides from it that the status is another by now.                        *)
THEOREM DecisionsAreCurrent == Spec => DecisionsRestOnReport
<1>1. ASSUME DecisionInv, [Next]_vars
      PROVE  [worker' # worker /\ Current => RestsOn(store[worker.report])]_vars
  BY <1>1, DecisionRests
<1> QED
  BY <1>1, DecisionInvInductive, PTL DEF Spec, DecisionsRestOnReport

=============================================================================
