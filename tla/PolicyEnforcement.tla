------------------------- MODULE PolicyEnforcement -------------------------
(***************************************************************************)
(* PolicyController: evaluates the reports a policy selects and enforces   *)
(* the policy on them -- annotations on the report, labels on workloads,   *)
(* the sync of the CI/CD resource -- or takes all of it back.  One worker  *)
(* evaluates one policy at a time, on copies of the reports taken from the *)
(* informer cache when the evaluation starts.  Writes to a report carry    *)
(* the version of the copy; patches of CI/CD resources and workloads do    *)
(* not.                                                                    *)
(*                                                                         *)
(* A policy that exists is always evaluated again: after its interval, or  *)
(* sooner when its status update fails.  So EvaluatePolicy(p) is enabled   *)
(* whenever the worker is free, and no work queue is modelled.             *)
(*                                                                         *)
(* Time: the first-detected annotation is an age, counted in ticks and     *)
(* saturated at MaxAge.  Disturbances, at most MaxDisturbances of them:    *)
(* new scans, users changing a resource, policies deleted, restarts, and   *)
(* requests failed for a reason other than a conflict.                     *)
(***************************************************************************)
EXTENDS ComplianceRules, Sequences

CONSTANTS
    Policy,          \* the policies
    Threshold,       \* Spec.Thresholds of each policy
    Enforcement,     \* Spec.Enforcement of each policy, a sequence
    Neighbours,      \* the reports in each policy's namespace
    Selector,        \* Spec.Selector of each policy
    Report,          \* the reports
    LabelOf,         \* the source whose labels each report carries, or None
    Source,          \* the pipeline sources
    Resource,        \* the CI/CD resources in the cluster
    Workload,        \* the workloads a report can correlate with
    Version,         \* resource versions
    MaxAge,          \* where ages saturate
    MaxDisturbances, \* bound on disturbances
    None             \* nothing

VARIABLES
    policies,    \* the policies that exist
    registry,    \* SourceRegistry: per name, the source stored under it
    store,       \* per report, the object the API server holds
    cache,       \* per report, the object the informer cache holds
    worker,      \* PolicyController's worker
    sync,        \* per resource, how it syncs
    risk,        \* per workload, its pipeline-risk label
    suspended,   \* resources the operator's Suspend turned off and nobody
                 \* turned on since (history)
    calm,        \* per report, the ticks since enforcement was last taken
                 \* back from it, or since the start (history)
    disturbances \* disturbances so far

cluster == <<registry, sync, risk, suspended>>
vars == <<policies, store, cache, worker, cluster, calm, disturbances>>

Ages == 0..MaxAge

(* Spec.Enforcement[]; no grace period is None, "0s" is 0.  "invalid"      *)
(* stands for an unknown action, and for one whose grace period cannot be  *)
(* parsed.                                                                 *)
EnforcementAction ==
    [action : {"annotate", "alert", "suspendSync", "labelWorkloads", "invalid"},
     trigger : ComplianceStates, grace : Ages \cup {None}]

ASSUME PolicyAssumption ==
    /\ Threshold \in [Policy -> Thresholds]
    /\ Enforcement \in [Policy -> Seq(EnforcementAction)]
    /\ Neighbours \in [Policy -> SUBSET Report]

(* connector.PipelineSource, the fields that matter here. *)
ASSUME SourceAssumption ==
    /\ \A s \in Source :
          DOMAIN s = {"name", "kind", "namespace", "sourceName", "repo"}
    /\ LabelOf \in [Report -> Source \cup {None}]

(* Three objects at most are in somebody's hands. *)
ASSUME VersionAssumption ==
    /\ Version # {}
    /\ \A a, b, c \in Version : \E v \in Version : v \notin {a, b, c}

ASSUME BoundAssumption == MaxAge \in Nat /\ MaxDisturbances \in Nat

-----------------------------------------------------------------------------
(* Reports.  "shown" stands for the annotations compliance-state and       *)
(* finding-summary, "since" for first-detected.                            *)
Annotations(F) ==
    LET summary == Summarize(F)
    IN  [state |-> StateOf(summary), critical |-> summary.Critical,
         high |-> summary.High, medium |-> summary.Medium]

Object == [rv : Version, findings : SUBSET Finding, workloads : SUBSET Workload,
           shown : {Annotations(F) : F \in SUBSET Finding} \cup {None},
           since : Ages \cup {None}]

ASSUME NoneAssumption == None \notin Object \cup Policy \cup Report \cup Ages

(* How a resource syncs: with the options the operator's Resume sets, with *)
(* others, or not automatically at all.                                    *)
SyncModes == {"on", "custom", "off"}

Names == {s.name : s \in Source} \cup {s.sourceName : s \in Source}

(* The worker evaluates "policy" on the "copies" it still has to deal      *)
(* with, is busy with "report", found to be at "level", and has come to    *)
(* the action number "step".                                               *)
Idle == [pc |-> "idle", policy |-> None, copies |-> [r \in Report |-> None],
         report |-> None, level |-> None, step |-> 1]

WorkerState ==
    [pc : {"idle", "next", "act", "clear", "resume", "unlabel"},
     policy : Policy \cup {None}, copies : [Report -> Object \cup {None}],
     report : Report \cup {None}, level : ComplianceStates \cup {None},
     step : Nat \ {0}]

TypeOK ==
    /\ policies \subseteq Policy
    /\ registry \in [Names -> Source \cup {None}]
    /\ store \in [Report -> Object]
    /\ cache \in [Report -> Object]
    /\ worker \in WorkerState
    /\ sync \in [Resource -> SyncModes]
    /\ risk \in [Workload -> ComplianceStates \cup {None}]
    /\ suspended \subseteq Resource
    /\ calm \in [Report -> Ages]
    /\ disturbances \in 0..MaxDisturbances

Level(p, o) == EvaluateThresholds(Threshold[p], Summarize(o.findings), o.findings)

(* The labels a report carries; a label it lacks reads as "". *)
Label(r, key) ==
    IF LabelOf[r] = None THEN ""
    ELSE CASE key = "source-kind" -> LabelOf[r].kind
           [] key = "source-name" -> LabelOf[r].sourceName
           [] OTHER -> ""

(* strings.EqualFold, for the kinds there are. *)
SameKind(k, l) ==
    \/ k = l
    \/ \E variants \in {{"Application", "application"},
                        {"Kustomization", "kustomization"},
                        {"GitRepository", "gitrepository"},
                        {"Pipeline", "pipeline"}} :
          {k, l} \subseteq variants

(* selectorMatches: "labels" stands for matchLabels, as pairs. *)
SelectorMatches(sel, r) ==
    /\ sel.kinds = {} \/ \E k \in sel.kinds : SameKind(k, Label(r, "source-kind"))
    /\ \A pair \in sel.labels : Label(r, pair[1]) = pair[2]

Selects(p) == {r \in Neighbours[p] : SelectorMatches(Selector[p], r)}

NewVersion(r) ==
    CHOOSE v \in Version :
        v \notin {o.rv : o \in {store[r], cache[r], worker.copies[r]} \ {None}}

Copy == worker.copies[worker.report]

Matches(r, o) == store[r].rv = o.rv

(* Update of a report: metadata only, and nothing at all if it is equal.   *)
Response(r, o) ==
    IF store[r].shown = o.shown /\ store[r].since = o.since
    THEN store[r]
    ELSE [store[r] EXCEPT !.rv = NewVersion(r), !.shown = o.shown,
                          !.since = o.since]

Disturb ==
    /\ disturbances < MaxDisturbances
    /\ disturbances' = disturbances + 1

(* A fault happens only within the bound. *)
Fine == UNCHANGED disturbances

Updated(r, o) ==
    /\ Matches(r, o)
    /\ store' = [store EXCEPT ![r] = Response(r, o)]
    /\ Fine

Refused(r, o) ==
    /\ (~Matches(r, o) /\ Fine) \/ Disturb
    /\ store' = store

-----------------------------------------------------------------------------
(* What the operator patches when it suspends or resumes for a report.     *)

ConnectorFor(kind) ==
    CASE kind = "Application" -> "argocd"
      [] kind \in {"Kustomization", "GitRepository"} -> "flux"
      [] OTHER -> "none"

(* The object that a connector's Suspend and Resume patch for a source. *)
Patched(connector, src) ==
    [kind |-> IF connector = "argocd" THEN "Application" ELSE "Kustomization",
     namespace |-> src.namespace, name |-> src.sourceName]

(* By the report's labels: the registry is asked for the label source-name *)
(* although its keys are the names of the sources.                         *)
Target(r) ==
    IF LabelOf[r] = None THEN None
    ELSE LET src == registry[LabelOf[r].sourceName]
             connector == ConnectorFor(LabelOf[r].kind)
         IN  IF src = None \/ connector = "none" THEN None
             ELSE Patched(connector, src)

-----------------------------------------------------------------------------
Init ==
    /\ policies = Policy
    /\ registry = [n \in Names |-> None]
    /\ \E F \in SUBSET Finding, W \in SUBSET Workload :
          store = [r \in Report |->
                      [rv |-> CHOOSE v \in Version : TRUE, findings |-> F,
                       workloads |-> W, shown |-> None, since |-> None]]
    /\ cache = store
    /\ worker = Idle
    /\ sync \in [Resource -> SyncModes]
    /\ risk = [w \in Workload |-> None]
    /\ suspended = {}
    /\ calm = [r \in Report |-> 0]
    /\ disturbances = 0

NewStatus(r, F, W) ==
    store' = [store EXCEPT ![r] = [@ EXCEPT !.rv = NewVersion(r), !.findings = F,
                                            !.workloads = W]]

(* AnalysisController writes a new status. *)
Assess(r) ==
    /\ Disturb
    /\ \E F \in SUBSET Finding, W \in SUBSET Workload : NewStatus(r, F, W)
    /\ UNCHANGED <<policies, cache, worker, cluster, calm>>

(* The owner of a resource changes how it syncs. *)
UserSets(x) ==
    /\ Disturb
    /\ \E mode \in SyncModes \ {sync[x]} :
          /\ sync' = [sync EXCEPT ![x] = mode]
          /\ suspended' = suspended \ {x}
    /\ UNCHANGED <<policies, registry, store, cache, worker, risk, calm>>

DeletePolicy(p) ==
    /\ Disturb
    /\ p \in policies
    /\ policies' = policies \ {p}
    /\ UNCHANGED <<store, cache, worker, cluster, calm>>

Restart ==
    /\ Disturb
    /\ registry' = [n \in Names |-> None]
    /\ cache' = store
    /\ worker' = Idle
    /\ UNCHANGED <<policies, store, sync, risk, suspended, calm>>

(* DiscoveryController: a name that is new, or whose source has changed. *)
Discover(s) ==
    /\ registry[s.name] # None => registry[s.name].repo # s.repo
    /\ registry' = [registry EXCEPT ![s.name] = s]
    /\ UNCHANGED <<policies, store, cache, worker, sync, risk,
                   suspended, calm, disturbances>>

Deliver(r) ==
    /\ cache[r] # store[r]
    /\ cache' = [cache EXCEPT ![r] = store[r]]
    /\ UNCHANGED <<policies, store, worker, cluster, calm, disturbances>>

Next1(age) == IF age < MaxAge THEN age + 1 ELSE age

Older(o) ==
    IF o = None \/ o.since = None THEN o ELSE [o EXCEPT !.since = Next1(@)]

Tick ==
    /\ store' = [r \in Report |-> Older(store[r])]
    /\ cache' = [r \in Report |-> Older(cache[r])]
    /\ worker' = [worker EXCEPT !.copies = [r \in Report |-> Older(@[r])]]
    /\ calm' = [r \in Report |-> Next1(calm[r])]
    /\ UNCHANGED <<policies, cluster, disturbances>>

-----------------------------------------------------------------------------
(* The evaluation of a policy.                                             *)

(* Reconcile lists the reports. *)
EvaluatePolicy(p) ==
    /\ worker.pc = "idle"
    /\ p \in policies
    /\ worker' = [Idle EXCEPT !.pc = "next", !.policy = p,
                              !.copies = [r \in Report |->
                                  IF r \in Selects(p) THEN cache[r] ELSE None]]
    /\ UNCHANGED <<policies, store, cache, cluster, calm, disturbances>>

(* evaluateThresholds and the two ways through executeEnforcement. *)
EvaluateReport(r) ==
    /\ worker.pc = "next"
    /\ worker.copies[r] # None
    /\ LET level == Level(worker.policy, worker.copies[r])
       IN  worker' = [worker EXCEPT !.pc = IF level = "Compliant" THEN "clear"
                                           ELSE "act",
                                    !.report = r, !.level = level, !.step = 1]
    /\ UNCHANGED <<policies, store, cache, cluster, calm, disturbances>>

NextReport ==
    [worker EXCEPT !.pc = "next", !.report = None, !.level = None, !.step = 1,
                   !.copies = [@ EXCEPT ![worker.report] = None]]

Actions == Enforcement[worker.policy]

ActionsDone ==
    /\ worker.pc = "act"
    /\ worker.step > Len(Actions)
    /\ worker' = NextReport
    /\ UNCHANGED <<policies, store, cache, cluster, calm, disturbances>>

(* The status of the policy is updated, or that fails: either way the      *)
(* policy is queued again.                                                 *)
PolicyDone ==
    /\ worker.pc = "next"
    /\ \A r \in Report : worker.copies[r] = None
    /\ worker' = Idle
    /\ UNCHANGED <<policies, store, cache, cluster, calm, disturbances>>

Fires == TriggerMatches(Actions[worker.step].trigger, worker.level)

Acting(action) ==
    /\ worker.pc = "act"
    /\ worker.step <= Len(Actions)
    /\ Fires
    /\ Actions[worker.step].action = action

(* The next action; the copy has become o. *)
ActionDone(o) ==
    worker' = [worker EXCEPT !.step = @ + 1,
                             !.copies = [@ EXCEPT ![worker.report] = o]]

(* An action that does not fire, one that is not known, and an alert,      *)
(* whether or not its target is valid and answers: nothing changes.        *)
PassOver ==
    /\ \/ worker.pc = "act" /\ worker.step <= Len(Actions) /\ ~Fires
       \/ Acting("alert")
       \/ Acting("invalid")
    /\ ActionDone(Copy)
    /\ UNCHANGED <<policies, store, cache, cluster, calm, disturbances>>

(* Mutant: a patch instead of an update, which nothing refuses. *)
PatchCopy(o) ==
    LET r == worker.report IN
    /\ store' = [store EXCEPT ![r] = Response(r, o)]
    /\ Fine
    /\ ActionDone(Response(r, o))

(* Mutant: the answer to the update is not read into the copy. *)
UpdateBlind(o) ==
    (Updated(worker.report, o) \/ Refused(worker.report, o)) /\ ActionDone(o)

(* Update writes the copy; if that is refused the change stays in it. *)
UpdateCopy(o) ==
    \/ Updated(worker.report, o) /\ ActionDone(Response(worker.report, o))
    \/ Refused(worker.report, o) /\ ActionDone(o)

(* executeAnnotate shows the report's state and counts, not the policy's    *)
(* level.                                                                  *)
Annotate ==
    /\ Acting("annotate")
    /\ UpdateCopy([Copy EXCEPT !.shown = Annotations(Copy.findings)])
    /\ UNCHANGED <<policies, cache, cluster, calm>>

Grace == Actions[worker.step].grace

(* Mutant: every evaluation that finds the violation records its time. *)
StartGraceAgain ==
    /\ Acting("suspendSync")
    /\ Grace # None
    /\ UpdateCopy([Copy EXCEPT !.since = 0])
    /\ UNCHANGED <<policies, cache, cluster, calm>>

(* executeSuspendSync: the first detection starts the grace period. *)
StartGrace ==
    /\ Acting("suspendSync")
    /\ Grace # None
    /\ Copy.since = None
    /\ UpdateCopy([Copy EXCEPT !.since = 0])
    /\ UNCHANGED <<policies, cache, cluster, calm>>

GraceOver(o) == Grace # None => o.since # None /\ o.since >= Grace

WaitGrace ==
    /\ Acting("suspendSync")
    /\ Grace # None
    /\ Copy.since # None
    /\ ~GraceOver(Copy)
    /\ ActionDone(Copy)
    /\ UNCHANGED <<policies, store, cache, cluster, calm, disturbances>>

(* The patch of the source's resource, or one of the errors: no labels, no *)
(* source, no connector, no such resource, a fault.                        *)
Suspend ==
    LET x == Target(worker.report) IN
    /\ Acting("suspendSync")
    /\ GraceOver(Copy)
    /\ \/ /\ x \in Resource
          /\ sync' = [sync EXCEPT ![x] = "off"]
          /\ suspended' = IF sync[x] # "off" THEN suspended \cup {x}
                          ELSE suspended
          /\ Fine
       \/ /\ (x \notin Resource /\ Fine) \/ Disturb
          /\ UNCHANGED <<sync, suspended>>
    /\ ActionDone(Copy)
    /\ UNCHANGED <<policies, registry, store, cache, risk, calm>>

(* A workload that cannot be patched is skipped. *)
Patches(W, label) ==
    \/ /\ risk' = [w \in Workload |-> IF w \in W THEN label ELSE risk[w]]
       /\ Fine
    \/ /\ \E V \in SUBSET W :
             risk' = [w \in Workload |-> IF w \in V THEN label ELSE risk[w]]
       /\ Disturb

LabelWorkloads ==
    /\ Acting("labelWorkloads")
    /\ Patches(Copy.workloads, worker.level)
    /\ ActionDone(Copy)
    /\ UNCHANGED <<policies, registry, store, cache, sync, suspended, calm>>

-----------------------------------------------------------------------------
(* restoreCompliance.                                                      *)

(* Mutant: the first-detected annotation is not among those removed. *)
ClearedButSince == [Copy EXCEPT !.shown = None]

Cleared == [Copy EXCEPT !.shown = None, !.since = None]

(* The annotations go first; if their removal is refused, nothing else is  *)
(* taken back either.                                                      *)
ClearAnnotations ==
    LET r == worker.report
        Proceed(o) ==
            /\ worker' = [worker EXCEPT !.pc = "resume",
                                        !.copies = [@ EXCEPT ![r] = o]]
            /\ calm' = [calm EXCEPT ![r] = 0]
    IN
    /\ worker.pc = "clear"
    /\ \/ Copy = Cleared /\ store' = store /\ Fine /\ Proceed(Copy)
       \/ Copy # Cleared /\ Updated(r, Cleared) /\ Proceed(Response(r, Cleared))
       \/ Copy # Cleared /\ Refused(r, Cleared) /\ worker' = NextReport
          /\ calm' = calm
    /\ UNCHANGED <<policies, cache, cluster>>

(* Resume patches the resource whether or not it was ever suspended; an    *)
(* error is only logged.                                                   *)
Resume ==
    LET x == Target(worker.report) IN
    /\ worker.pc = "resume"
    /\ \/ /\ x \in Resource
          /\ sync' = [sync EXCEPT ![x] = "on"]
          /\ suspended' = suspended \ {x}
          /\ Fine
       \/ /\ (x \notin Resource /\ Fine) \/ Disturb
          /\ UNCHANGED <<sync, suspended>>
    /\ worker' = [worker EXCEPT !.pc = "unlabel"]
    /\ UNCHANGED <<policies, registry, store, cache, risk, calm>>

(* Mutant: the label is emptied, not removed. *)
EmptyLabels ==
    /\ worker.pc = "unlabel"
    /\ Patches(Copy.workloads, "")
    /\ worker' = NextReport
    /\ UNCHANGED <<policies, registry, store, cache, sync, suspended, calm>>

UnlabelWorkloads ==
    /\ worker.pc = "unlabel"
    /\ Patches(Copy.workloads, None)
    /\ worker' = NextReport
    /\ UNCHANGED <<policies, registry, store, cache, sync, suspended, calm>>

-----------------------------------------------------------------------------
Enforce ==
    PassOver \/ Annotate \/ StartGrace \/ WaitGrace \/ Suspend \/ LabelWorkloads

Restore == ClearAnnotations \/ Resume \/ UnlabelWorkloads

Work ==
    \/ \E r \in Report : EvaluateReport(r)
    \/ Enforce
    \/ ActionsDone
    \/ Restore
    \/ PolicyDone

(* Everything but AnalysisController. *)
Operate ==
    \/ \E r \in Report : Deliver(r)
    \/ \E x \in Resource : UserSets(x)
    \/ \E p \in Policy : DeletePolicy(p) \/ EvaluatePolicy(p)
    \/ \E s \in Source : Discover(s)
    \/ Work
    \/ Restart
    \/ Tick

Next == (\E r \in Report : Assess(r)) \/ Operate

Spec == Init /\ [][Next]_vars

(* The manager keeps the worker, discovery and the watch running, requeued *)
(* policies are served in turn, and time passes.                           *)
Fairness ==
    /\ \A p \in Policy : SF_vars(EvaluatePolicy(p))
    /\ WF_vars(Work)
    /\ \A r \in Report : WF_vars(Deliver(r))
    /\ \A s \in Source : WF_vars(Discover(s))
    /\ WF_vars(Tick)

FairSpec == Spec /\ Fairness

-----------------------------------------------------------------------------
(* Safety.                                                                 *)

(* One policy selects the report. *)
Sole(r) == \A p, q \in Policy : r \in Selects(p) /\ r \in Selects(q) => p = q

(* A suspension never comes before the grace period of its action has      *)
(* passed since enforcement was last taken back: a report that was once    *)
(* restored gets its whole grace period again, whatever its copies in the  *)
(* informer cache and in the worker still say.  Where several policies     *)
(* select a report this fails: what another policy clears, a cache that    *)
(* lags behind still shows, and the grace period of the first goes on.     *)
GraceRespected ==
    [][\A x \in Resource :
          worker' # worker /\ sync[x] # "off" /\ sync'[x] = "off" =>
              \/ Grace = None
              \/ calm[worker.report] >= Grace
              \/ ~Sole(worker.report)]_vars

(* Once recorded, the time of the first detection is neither moved forward *)
(* nor lost, until a policy under which the stored report is compliant     *)
(* clears it: no race of the worker with other writers restarts the grace  *)
(* period of a violation.                                                  *)
FirstDetectionKept ==
    [][\A r \in Report :
          store[r].since # None =>
              \/ store'[r].since # None /\ store'[r].since >= store[r].since
              \/ /\ store'[r].since = None
                 /\ worker.report = r
                 /\ Level(worker.policy, store[r]) = "Compliant"]_vars

(* The copy of the report that the worker is busy with has its version. *)
Current == worker.report # None /\ Matches(worker.report, Copy)

(* The step turns a resource off only by an action that the findings of o  *)
(* trigger, turns one on only if they are compliant and the time of their  *)
(* first detection is gone, and sets the labels of the workloads of o, no  *)
(* others, to the level of the findings, or removes them.                  *)
RestsOn(o) ==
    LET level == Level(worker.policy, o) IN
    /\ \A x \in Resource :
          sync'[x] # sync[x] =>
              \/ sync'[x] = "on" /\ level = "Compliant" /\ o.since = None
              \/ /\ sync'[x] = "off"
                 /\ \E i \in DOMAIN Actions :
                       /\ Actions[i].action = "suspendSync"
                       /\ TriggerMatches(Actions[i].trigger, level)
    /\ \A w \in Workload :
          risk'[w] # risk[w] =>
              /\ w \in o.workloads
              /\ risk'[w] = IF level = "Compliant" THEN None ELSE level

(* A decision outlives the status it was taken on only while the worker's  *)
(* copy is out of date, so that its next update is refused.  With a copy   *)
(* that has the version of the stored report, the worker does what the     *)
(* stored status calls for: no update brings a copy up to date under a     *)
(* level that was computed before.                                         *)
DecisionsRestOnReport ==
    [][worker' # worker /\ Current => RestsOn(store[worker.report])]_vars

(* Resume only turns on what Suspend turned off. *)
ResumeOnlyIfSuspended ==
    [][\A x \in Resource :
          worker' # worker /\ sync'[x] # sync[x] /\ sync'[x] # "off" =>
              x \in suspended]_vars

(* The policy wants the source of the report suspended. *)
Demands(p, r) ==
    /\ p \in policies
    /\ r \in Selects(p)
    /\ \E i \in DOMAIN Enforcement[p] :
          /\ Enforcement[p][i].action = "suspendSync"
          /\ TriggerMatches(Enforcement[p][i].trigger, Level(p, store[r]))

(* Enforcement is taken back when compliance is restored: a suspended      *)
(* resource stays suspended while some policy wants it suspended.          *)
ResumedWhenCompliant ==
    [][\A x \in suspended :
          x \notin suspended' /\ worker' # worker =>
              \A p \in Policy : ~Demands(p, worker.report)]_vars

-----------------------------------------------------------------------------
(* Liveness.                                                               *)

Own(r) ==
    [kind |-> LabelOf[r].kind, namespace |-> LabelOf[r].namespace,
     name |-> LabelOf[r].sourceName]

(* A violation that stays gets its source suspended, through conflicts,    *)
(* restarts, failed requests and a cache that lags behind.                 *)
ViolationSuspends ==
    \A p \in Policy, r \in Report :
        LabelOf[r] # None /\ Own(r) \in Resource =>
            (<>[]Demands(p, r) => <>[](sync[Own(r)] = "off"))

(* When compliance is restored for good, the operator takes back what it   *)
(* did: the annotations, the suspension and the labels of the workloads    *)
(* that the report still correlates with.                                  *)
CompliantFor(p, r) ==
    p \in policies /\ r \in Selects(p) /\ Level(p, store[r]) = "Compliant"

Restored(r) ==
    /\ store[r].shown = None
    /\ store[r].since = None
    /\ Own(r) \notin suspended
    /\ \A w \in store[r].workloads : risk[w] = None

ComplianceRestores ==
    \A r \in Report :
        LabelOf[r] # None =>
            (<>[](\A p \in Policy : CompliantFor(p, r)) => <>[]Restored(r))

=============================================================================
