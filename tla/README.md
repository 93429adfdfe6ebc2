# TLA+ specifications of the Fluxgate operator

The Fluxgate operator is a Kubernetes operator (controller-runtime, Go). It
discovers the repositories behind Argo CD applications, Flux Kustomizations and
Tekton pipelines, scans their workflow files on GitHub, keeps one
`PipelineSecurityReport` per repository, and enforces
`PipelineSecurityPolicy` objects on those reports: it annotates, alerts,
suspends the sync of the CI/CD resource and labels workloads, and takes that
back when the report is compliant again.

This directory holds its TLA+ modules, the TLC configurations that check them,
and proofs checked by TLAPS. `PROJECT.json` maps each definition to the lines of
`src/` it models and lists runs, mutants, findings, hazards and theorems.

    tlc -config PolicySafety.cfg MCPolicyArgo     # one run
    tlapm ReportLifecycle_proofs.tla              # one proof module

## 1. Inventory

### The components

| component | state it keeps | operations | triggered by |
|---|---|---|---|
| DiscoveryController (`discovery_controller.go`) | – | asks each connector for its sources, puts new or changed ones into the registry | Namespace events, every 5 min |
| SourceRegistry (same file) | map name → source, in memory, under a RWMutex; nothing is ever removed | Put, Get, List | – |
| AnalysisController (`analysis_controller.go`) | – | for **all** registered sources: Analyze, resolve workloads, create or update the report | PipelineSecurityReport events, every 5 min (2 min with an empty registry) |
| Analyzer (`analyzer.go`) | map owner/repo@branch → findings and time, in memory, 10 min | Analyze; ComputeComplianceState (pure) | AnalysisController |
| GitHub client (`github.go`) | – | list and fetch workflow files | Analyzer |
| ReportController (`report_controller.go`) | – | recomputes state and summary from the findings | PipelineSecurityReport events |
| PolicyController (`policy_controller.go`) | – | per policy: evaluate its reports, enforce or restore | PipelineSecurityPolicy events, the policy's interval |
| connectors (`argocd.go`, `flux.go`, `tekton.go`) | – | Discover, ResolveWorkloads, Suspend, Resume | the controllers |
| alert, metrics | Prometheus gauges and counters | send, count | the controllers |
| API objects (`types.go`, `config/crd`) | reports and policies, with annotations and labels | – | – |

### How they interact

Everything durable is in the API server. The controllers run in one process, one
worker each, and share three things in memory: the informer cache all reads go
through, the registry, and the analyzer's cache. A report is written by three
controllers: AnalysisController (status), ReportController (status) and
PolicyController (annotations, which hold the memory of the grace period). Each
such write is an `Update` of a whole object or status and carries the resource
version of the copy it was made from; the API server refuses it with a conflict
if the object has moved on. CI/CD resources and workloads are changed with merge
patches, which nothing refuses. Reports are the only link from the analysis to
the enforcement; the labels `source-kind` and `source-name` of a report, looked
up in the registry, are the only link back from a report to the resource to
suspend.

### What is hard, and what makes each part correct

* *Concurrency and stale reads.* Two workers write the same status, from copies
  taken from a cache that lags. Right: a write that goes through has read what
  it replaces (`VersionsIdentify`), and ReportController undoes nothing
  (`ReporterOnlyNormalises`).
* *Scan cache, partial failures.* Files that cannot be fetched are skipped, and the
  rest is cached as complete. Right: no finding of another branch is ever shown
  (`NoForeignFindings`), and the truth wins in the end (`EventuallyCurrent`).
* *Who triggers whom.* The analysis runs when a report changes, and the reports
  come from the analysis; names wait in queues, copies in a cache that lags, and
  writes are refused. Right: an incoherent report is always on its way to
  ReportController (`NoWakeUpLost`), and the rounds never stop (`AnalysisGoesOn`).
* *Copies of a List.* A policy is enforced on copies that were made before the first
  of its reports was handled. Right: what is done to resources and workloads is what
  the stored findings call for, unless the copy is outdated (`DecisionsRestOnReport`),
  and only the writes of others outdate it, not the worker's own (`NoSelfConflict`).
* *Grace periods over restarts, conflicts and failures.* Right: neither too early
  (`GraceRespected`) nor postponed (`FirstDetectionKept`, `ViolationSuspends`).
* *Taking back.* Right: all that was done is taken back (`ComplianceRestores`), and
  only that (`ResumeOnlyIfSuspended`).
* *Discovery.* Three connectors, of which some always fail, lists that are not of
  one moment, a registry that is only ever added to. Right: what stays in the
  cluster is registered (`EventuallyRegistered`) and up to date
  (`EventuallyUpToDate`), after a single round if nothing disturbs it
  (`QuietRoundRegisters`).
* *The whole loop.* Scan, report, enforcement, each on what the one before wrote a
  while ago. Right: a pipeline that stays bad is suspended
  (`BadPipelineSuspended`), and a fixed one gets everything back
  (`FixedPipelineRestored`).
* *Decisions.* Two functions written apart, with early returns. Right: the worst
  breach wins (`LevelIsWorstBreach`), more findings never relax and higher limits
  never tighten (`NewFindingsNeverRelax`, `LooserLimitsNeverTighten`), and the two
  agree where they should.

The full list, with lines, is `hazards` in `PROJECT.json`.

## 2. Modules

| module | models |
|---|---|
| `ComplianceRules` | the pure decisions: `Summarize`, `StateOf` (ComputeComplianceState), `EvaluateThresholds`, `TriggerMatches` |
| `RulesCheck` | one report and one policy whose findings and limits change; reference definitions for the decisions |
| `RulesCheck_proofs` | proofs about the decisions |
| `ReportStatus` | the status of a report: what an assessment and a normalisation make of it |
| `ReportRegister` | the abstract specification of the reports: a register in which each write is one step that reads what it replaces |
| `ReportLifecycle` | AnalysisController, ReportController, Analyzer and its cache, the registry as a set, the API server and the informer cache |
| `ReportLifecycle_proofs` | its type invariant, the safety of its writes and the refinement of `ReportRegister`, proved |
| `ReportQueues_proofs` | that its work queues lose nothing, proved |
| `Metrics` | `ReportLifecycle` with the two gauges set when a report has been written |
| `Metrics_proofs` | that `Metrics` implements `ReportLifecycle`, fairness included, and keeps its safety, proved |
| `PolicyEnforcement` | PolicyController with the registry as a map, the connectors' Suspend and Resume, annotations, workloads, resources, time |
| `PolicyEnforcement_proofs` | its type invariant and safety properties, proved |
| `Operator` | `PolicyEnforcement` composed with AnalysisController, whose statuses come from scans and never stop |
| `Operator_proofs` | what of `PolicyEnforcement_proofs` carries over to the composition |
| `Discovery` | DiscoveryController, Discover of the three connectors, ParseRepoURL, the registry |
| `Discovery_proofs` | what the registry holds, and what a round leaves in it, proved |
| `MC...` | instances for TLC |

`ReportLifecycle` and `PolicyEnforcement` both extend `ComplianceRules`, so what
a scan means and what a policy makes of it are the operators the proofs are about.
`ReportLifecycle` is shown to implement `ReportRegister` (`RefinesRegister`, by TLC
and by proof); `Operator` takes from that register that a status is replaced as a
whole and by findings the pipeline has or had, or by some of them, and composes it
with the full `PolicyEnforcement`. Composing `ReportLifecycle` itself with `PolicyEnforcement`
would be out of TLC's reach.

### ComplianceRules

A finding is an identity with a severity; an unknown severity counts in `Total`
only, as in the code. The pin check, three substring tests on rule and message,
is membership of `PinFinding`. Limits are any integers: the CRD does not exclude
negative ones.

### ReportLifecycle

State: `upstream` (what a complete scan of a branch finds), `scanned` (Analyzer.cache),
`registry`, `store` (API server), `cache` (informer), two work queues, the requeue
timer, and one record per worker with its program counter and its local
variables. `published` and nothing else is a history variable.

| action | code |
|---|---|
| `AnalysisStart`, `AnalysisDone`, `AnalysisTimer` | Reconcile of AnalysisController around its loop, the requeue |
| `AnalyzeCached`, `AnalyzeFetched`, `AnalyzePartly`, `AnalyzeFails` | Analyzer.Analyze with FetchWorkflowFiles: cache hit, complete fetch, skipped files (or a 404), failed listing |
| `ReadReport` | the Get of analyzeSource, from the informer cache |
| `CreateReport`, `UpdateReport`, `WriteReportFails` | the Create, the status Update, their errors (logged; the loop goes on) |
| `ReporterRead`, `ReporterWrite`, `ReporterWriteFails` | Reconcile of ReportController; an error is returned, so the request is retried |
| `Discover`, `Expire`, `Deliver` | discovery, the cache's TTL, the watch |
| `Restart` | the process dies between any two steps and starts again |
| `Push`, `ApplyReport`, `DeleteReport`, `Touch`, `EditState` | the world outside |

The steps are cut where the code calls the API server or GitHub, because that is
where other actors get in between. What is abstracted:

* A resource version is only ever compared for equality, so versions are recycled:
  a write takes one that no copy in anybody's hands carries. `VersionAssumption`
  says there are enough.
* `Deliver` moves the informer cache to the newest object; the intermediate ones it
  would have shown for a moment are states in which the delivery is still to come.
* The CRD has a status subresource (`config/crd/pipelinesecurityreport.yaml`): a
  Create drops the status, a status Update touches nothing else, a metadata Update
  leaves the status alone.
* `LastEvaluated` has a resolution of one second: writing the same assessment
  twice within it changes nothing, which `UpdateReport` allows as its second
  disjunct.
* A write in flight when the process dies has either happened before the
  `Restart` or never happens.
* A scan is one step. A fetch that straddles a push may mix two commits; all its
  findings are in `published` either way.
* A file that the scanner cannot parse is skipped in every scan alike, so it adds
  nothing to `upstream` either: that such a branch looks better than it is shows in no
  property. A file that cannot be fetched is a fault of one scan (`AnalyzePartly`). So
  is a 404; a repository that stays invisible is one whose `upstream` is empty.
* ResolveWorkloads and events are left out, the gauges are in `Metrics`; `of` stands
  for the status fields that name the scanned source.

`Reports` drops the versions from the store, and that is all the mapping to
`ReportRegister` does: a write is a write of the register, and everything that
happens in caches, queues and workers is a stutter.

### Metrics

`WriteRecorded` is a write of `ReportLifecycle` that gets through, followed by
`recordFindingsMetrics`: the state gauge of the report and the connector is set, the
series of the findings are set to 1. Gauges live in the process, so `RestartEmpty`
empties them.

### PolicyEnforcement

State: `policies`, `registry` (map by `PipelineSource.Name`), `store` and `cache`
(reports: version, findings, workloads and annotations), `worker` (the policy and
the report in hand, the copies still to evaluate, the actions still to execute),
`sync` per CI/CD resource, `risk` per workload. `suspended` and `calm` are history
variables.

| action | code |
|---|---|
| `EvaluatePolicy` | Reconcile up to the List: copies of all selected reports at once |
| `EvaluateReport` | evaluateThresholds, and the choice between restoreCompliance and the actions whose trigger matches |
| `Annotate` | executeAnnotate: the state and the counts of critical, high and medium findings (`Annotations`) |
| `StartGrace`, `WaitGrace`, `Suspend` | executeSuspendSync: first detection, waiting, lookup and patch |
| `LabelWorkloads` | executeLabelWorkloads, patchWorkloadLabel |
| `ClearAnnotations`, `Resume`, `UnlabelWorkloads` | restoreCompliance in its order; a refused removal ends it |
| `ActionsDone`, `PolicyDone` | the ends of the loops |
| `PassOver` | an action that does not fire, one of an unknown kind, and executeAlert with all its outcomes |
| `Assess` | AnalysisController writing a new status |
| `UserSets`, `DeletePolicy`, `Restart`, `Discover`, `Deliver`, `Tick` | the world outside, discovery, the watch, time |

A refused `Update` leaves its change in the copy that the following actions of the
evaluation use (`UpdateCopy`), as in the code, where the annotation map has been
changed already. `Target` looks the report's `source-name` label up among registry
keys and picks the object the connector patches: for Flux always a Kustomization,
even for a source of kind GitRepository. `SyncModes` tells "on" (the options Resume
writes) from "custom" (others) and "off". `Selects` is `selectorMatches` on the labels
that AnalysisController gives a report.

What is abstracted:

* A policy that exists is always evaluated again (after its interval, or with a
  backoff when its status update failed), so there is no work queue.
* Times are ages in ticks, saturated at `MaxAge`; the truncation of RFC 3339 times
  to seconds is below a tick. A grace period that does not parse makes an action that
  only ever fails, as one of kind "invalid" does.
* The summary of a report is computed from its findings; `EventuallyCoherent` of
  `ReportLifecycle` is what justifies that.

### Operator

| action | code |
|---|---|
| `Push` | the world outside |
| `Fetch` | the analyzer's cache expires, and Analyze fetches the workflow files |
| `FetchPartly` | the same with files skipped, or a 404: some of the findings |
| `Publish` | analyzeSource writes the scan, new or not: LastEvaluated changes, so the report always takes a new version |
| `Enforcing` | every action of `PolicyEnforcement` but `Assess` |

`Publish` is not a disturbance and not bounded. `overtaken` is a history variable:
a status was written under the copies that PolicyController is working on. That its
own updates do not outdate them is `NoSelfConflict`. ReportController is not in this
composition: a write of the status, whoever makes it, is a `Publish`.

### Discovery

State: `objects` (the specs of Applications, GitRepositories, Kustomizations and
Pipelines), `installed` (which of the CRDs there are), `registry`, and `discovery`,
the round in progress. `quiet` is a history variable: since the round began, nothing
was applied, no list of an installed connector failed and the process did not restart.

| action | code |
|---|---|
| `Reconcile` | Reconcile of DiscoveryController begins, with all connectors to go |
| `ListApplications`, `ListPipelines` | Discover of the Argo CD and the Tekton connector |
| `ListGitRepositories`, `ListKustomizations` | Discover of the Flux connector: two lists, then pairs by the index of Kustomizations |
| `ListFails` | any of these lists fails; logged, next connector |
| `Put` | sourceChanged and the registry's Put, one source at a time |
| `ConnectorDone` | the end of the inner loop; after the last connector the round ends |
| `Apply`, `Restart` | users, the process |

A request names a Namespace, which is cluster-scoped, so `req.Namespace` is empty and
every round lists all namespaces. A URL is its form, whether it has a port, and the
segments of its path, which is what ParseRepoURL tells apart: an answer means that
there were two segments, not that there is such a repository. A source's name is the
sequence of names the code joins. Lists come in any order. Labels and target
namespaces are left out: the first are read by nobody, the second only where
workloads are resolved.

## 3. Runs

A disturbance is a user's action, a restart, or a fault other than a conflict;
`MaxDisturbances` bounds how many occur in one behaviour. Conflicts, stale reads,
cache expiry, evaluations and all interleavings are not bounded. Every property
has a mutant of the code in `PROJECT.json` that violates it under the run's
configuration.

| run | instance and bounds | shows |
|---|---|---|
| `RulesCheck` | 7 findings of all severities, limits -1..2: all 4096 (findings, policy) pairs | `LevelIsWorstBreach`, `ZeroToleranceAgrees`, `NewFindingsNeverRelax`, `LooserLimitsNeverTighten` |
| `ReportShared` | 2 sources on 2 branches, 1 shared report, 1 disturbance (1.8M states) | `TypeOK`, `NoForeignFindings`, `VersionsIdentify`, `NoWakeUpLost`, `AnalysisGoesOn`, `ReporterOnlyNormalises`, `RefinesRegister` |
| `ReportLiveness` | `Metrics` with 1 source, 1 report, 2 findings, 1 disturbance, fair (122k states) | `EventuallyCoherent`, `EventuallyCurrent`, `EventuallyShown` |
| `PolicySafety` | 1 policy with 4 actions, 1 application, 1 workload, grace 1 tick, 2 disturbances (1.9M states) | `TypeOK`, `GraceRespected`, `FirstDetectionKept`, `DecisionsRestOnReport` |
| `PolicyLiveness` | the same, 1 disturbance, fair (174k states) | `ViolationSuspends`, `ComplianceRestores` |
| `Operator` | 1 policy, 1 application, 1 finding, grace 1 tick, 2 disturbances, unbounded scans and status writes, fair (468k states) | `NoSelfConflict`, `BadPipelineSuspended`, `FixedPipelineRestored` |
| `Discovery` | 5 resources of 4 kinds, 2 of them GitRepositories of one name, with and without the CRD of Argo CD, 2 changes, fair (42k states) | `TypeOK`, `QuietRoundRegisters`, `EventuallyRegistered`, `EventuallyUpToDate` |

Why these bounds are enough: the limits -1..2 surround every number of critical
and high findings that occurs by one; a finding more of a severity changes nothing
the functions can see. The races of `ReportLifecycle` are between two workers for
one object, and both are there with one report; a second report would be
independent of it except through the queue. A single finding tells a right report
from a wrong one. Five versions are one more than the copies in anybody's hands.
In `PolicySafety` a report goes from violation to compliance and back to violation
with two disturbances, or meets a restart or a failed request in one of these
phases; ages saturate at 1, the grace period itself, which tells "before" from "at or
after" it. In `Operator` a pipeline goes bad and is fixed again, or the reverse, or
does one of these around a restart, a failed request, a partial scan or a user's
change of the sync.
In `Discovery` two changes are what it takes to alter a resource between Flux's two
lists and again before the sources are put, or to let two sources share a name and
then part.

Deadlock is checked except in the runs of `ReportLifecycle`: with the disturbances
used up, a fresh cluster without a report really stops (see `ReportBootstrap`).

### Runs that show a disagreement

| run | property violated | what the code does |
|---|---|---|
| `ReportCreated` | `CreatedReportCarriesItsScan` | The report is created with its status, but the status subresource drops it. The report is empty, ReportController makes it Compliant, and a policy that meets it then takes enforcement back. |
| `ReportBootstrap` | `EverySourceReported` | Nothing triggers AnalysisController but reports, which only it creates: a fresh cluster is never analysed until somebody applies a report by hand. `EventuallyCurrent` therefore supposes that one exists. |
| `PolicyResume` | `ResumeOnlyIfSuspended` | Every evaluation of a compliant report turns automatic sync on, even if its owner had turned it off. |
| `PolicyFlux` | `ViolationSuspends` | A Kustomization is registered as `gitrepository/kustomization` and looked up as `kustomization`: it is never suspended. |
| `PolicyConflict` | `ResumedWhenCompliant` | A lenient policy resumes what a strict one still wants suspended. |

Met while modelling, without a run of their own:

* The README's example reports carry states that `ComputeComplianceState` never gives
  them: `src/README.md:106` shows one with 1 critical finding as NonCompliant, and
  line 107 one with 1 medium finding as Compliant. The code makes the first Critical
  and the second a Warning (`StateOf`), for any report and without a policy.
* Two sources of one repository in one namespace share a report: its labels name
  the source that created it, its status is of the last one analysed.
* Suspend drops the options of `syncPolicy.automated`; Resume sets both to true.
* A workload that is labelled and then leaves the report's list keeps its label.
* AnalysisController writes a status that differs in LastEvaluated only, and is
  triggered by that write: where the writes never pause, every update of
  PolicyController may find its copy outdated, and a grace period never starts. TLC
  finds that behaviour of `Operator`, which is why its properties suppose that
  evaluations are `Spared` again and again. The code's timers make that likely;
  nothing in it makes it certain.
* Flux's Kustomizations are indexed by the kind and the name of their source and not
  by its namespace, although every round covers all namespaces: a Kustomization is
  paired with every GitRepository of that name, under one registry name, and the two
  sources replace each other in every round. So `EventuallyUpToDate` speaks of
  sources that are alone with their names.
* `sourceChanged` does not compare namespaces, kind and resource. An application that
  moves to another target namespace keeps being correlated with the workloads of the
  old one, and one that is created anew in another namespace keeps its old one in the
  registry, where Suspend and Resume then patch nothing (`argocd.go:184,201`), until a
  restart. So `Follows` has only the fields the code compares. Nothing ever removes a
  source from the registry.
* `ParseRepoURL` takes what follows the first colon of an SSH URL for the path: with
  `ssh://git@host:22/org/repo` the owner is `22`, and `ssh://git@host/org/repo` is
  skipped. It accepts an empty owner or repository too.
* A series of `fluxgate_findings_total` is set to 1, whatever the number of findings,
  and never to 0: it goes on showing a finding that was fixed until the next restart.
* With two policies on a report, one may clear the first detection while the other
  still reads the old one from the cache and suspends without a new grace period:
  `GraceRespected` therefore makes an exception of such reports (`Sole`).
* `executeAnnotate` annotates the report, not the CI/CD resource its comment names.
* `ruleOverrides`, `requireSignedCommits`, `requireBranchProtection` are read nowhere.

### Fairness

*Weak*: the steps of the workers, `Deliver`, `Discover`, the timer, `Expire`,
`Tick`. A goroutine that can take a step is scheduled, watches deliver, requeues
fire, time passes. `Discovery` has it for its worker as a whole: a round always ends,
by lists that come or fail, and `Operator` for `Fetch` and `Publish`, the rounds of
analysis. *Strong*: `AnalysisStart(r)`, `ReporterRead(r)` and
`EvaluatePolicy(p)`, which other requests disable again and again by keeping the
worker busy: a work queue is first in, first out, so a request that stays in it is
served. No fairness is assumed of users, pushes, faults or restarts, nor of the
success of a write: a conflict is an outcome of the same step.

## 4. Proofs

TLAPS checks these for every value of the constants that meets the modules' named
assumptions (enough versions, well-typed parameters, `None` outside the other sets).

| theorem | of | property |
|---|---|---|
| `TypeCorrect` | `ReportLifecycle` | `TypeOK` |
| `CopiesIdentified` | | `VersionsIdentify` |
| `ReporterIsAtomic` | | `ReporterOnlyNormalises` |
| `FindingsAreGenuine` | | `NoForeignFindings` |
| `LifecycleRefinesRegister` | | `RefinesRegister` |
| `IncoherenceIsNeverForgotten` | | `NoWakeUpLost` |
| `AnalysisNeverStops` | | `AnalysisGoesOn` |
| `MetricsOnlyWatch` | `Metrics` | implements `FairSpec` of `ReportLifecycle` |
| `WatchedReportsAreSound` | | `NoForeignFindings`, `NoWakeUpLost`, `AnalysisGoesOn` |
| `EnforcementTypeCorrect` | `PolicyEnforcement` | `TypeOK` |
| `FirstDetectionIsKept` | | `FirstDetectionKept` |
| `GraceIsRespected` | | `GraceRespected` |
| `DecisionsAreCurrent` | | `DecisionsRestOnReport` |
| `FirstDetectionOutlivesScans` | `Operator` | `FirstDetectionKept` |
| `GraceOutlivesScans` | | `GraceRespected` |
| `DecisionsOutliveScans` | | `DecisionsRestOnReport` |
| `OnlyScansConflict` | | `NoSelfConflict` |
| `DiscoveryTypeCorrect` | `Discovery` | `TypeOK` |
| `QuietRoundsRegister` | | `QuietRoundRegisters` |
| `LevelIsTheWorstBreach` | `RulesCheck` | `LevelIsWorstBreach` |
| `EnforcementMonotone` | | `NewFindingsNeverRelax` |
| `LooserLimitsRelax` | | `LooserLimitsNeverTighten` |
| `ZeroToleranceIsState` | | `ZeroToleranceAgrees` |

*The argument in `ReportLifecycle`.* `TypeOK` is not inductive: the steps of a
worker need what its program counter says of its locals (a source while it reads
and writes, a key while it is busy, no copy otherwise). `WorkersOK` says so, and
`TypeOK /\ WorkersOK` is inductive. With it, `VersionInv` adds `VersionsIdentify`:
a write takes a version no copy carries (`NewVersionFresh`, from
`VersionAssumption`), so equal versions keep meaning equal objects.
`ReporterIsAtomic` then says of the write that passes the version check that its
copy is the stored object, so the copy's normal form is the stored object's.
For `NoForeignFindings` the invariant `GenuineInv` follows the findings backwards:
what is upstream, in the analyzer's cache and in the worker's hands was published
by the branch in question, and a status written from a copy is the stored one's.

The refinement needs the same facts: a step that passes the version check is one
atomic step of the register because its copy is what the store holds, and every other
step leaves `Reports` alone.

*The argument for the queues* (`QueueInv`). Every step that changes a report without
deleting it writes a version the informer cache does not hold
(`WritesLeaveCacheBehind`), so the delivery that puts the report's name on both
queues is still to come. A name leaves a queue only for the worker's hand, and the
worker's hand only when the copy it read was coherent, when its write went through, or
back to the queue. The first case is the hard one: the copy may be old. If it is,
the delivery is still to come; if it is not, `VersionsIdentify` makes it the stored
object, which is then coherent. A restart queues every report there is. For the
analysis the requeue timer takes the place of
the retry, which is why a failed write, which is only logged, does not end the rounds.
These invariants are the safety half of `EventuallyCoherent` and `EventuallyCurrent`;
the other half, that what is on its way arrives, is fairness.

*The argument in `Metrics`.* A step that records or forgets is a step of
`ReportLifecycle` (`RecordingStep`), and the fairness is stated of the same actions, so
behaviours of `FairMetricsSpec` are behaviours of `FairSpec`.

*The argument in `PolicyEnforcement`.* `EnforcementInv` has the type invariant, what the
worker's phase says of its locals (`WorkerOK`), and `CopiesOK`: a copy that carries the
stored version shows the stored findings and, where one is stored, the stored first
detection. It may differ in what a refused update left in it, and no more. With it an
action that gets through has found the annotation where there is one, so it does not
start it again. For the grace period `GraceInv` adds, per report of one policy, that an
annotation under which a suspension may come is no older than `calm`. The hard case is
the clearing of the annotation: the informer cache may still show the old one, but
only with findings that violate nothing, and as soon as it shows others it has the
new version, without the annotation. With two policies that argument breaks, since
what violates nothing for the one may violate the other.

For `DecisionsRestOnReport`, `DecisionInv` adds `TakenBack`: resources are resumed and
labels removed only under a copy without a first detection. When the copy has the
version of the stored report, `CopiesOK` makes its findings and workloads the stored
ones, so the level the action compares with its trigger is the level of the stored
report. The property is silent while the copy is outdated: then the decision may
be old, and the next update is refused.

*The argument in `Operator`.* `GraceInv` is preserved by `Publish` as by `Assess`, for
both are a `NewStatus`, which takes a version that no copy carries and leaves the
annotations alone. The bound on disturbances plays no part in it. For `NoSelfConflict`
the invariant is `AllSame`, under `~overtaken`: all copies that are left have the stored
version. An update of PolicyController's gives its copy the version it wrote; one that
fails for another reason than a conflict leaves both versions alone; and only the copy in hand
is ever updated, for each report has one.

*The argument in `Discovery`.* For `QuietRoundRegisters`, `RoundInv` says where a quiet round is
(`RoundShaped`: the connectors to go are distinct, and the lists belong to the first)
and what it has done (`RoundOK`): the name of each source of a connector that is no
longer left is `Settled`, registered as some source of that name is in the cluster; the
sources of the connector at work are settled or wait to be put. A `Put` settles its
name, and unsettles no other; in particular one of the same name stays settled by what
replaces it. The registry's old contents do not matter, because `sourceChanged` lets
pass whatever differs in what `Settled` compares. For `TypeOK`, each connector makes
sources that are `Formed`, `Parsed` keeps those with an upstream, and `Put` moves one
to the registry under its name.

*The argument in `RulesCheck`.* The counts of a larger finite set are larger
(`CountMonotone`), so the level does not fall (`MoreFindings`); for the same findings
it does not rise when the thresholds are loosened (`LooserLimits`). A level that is no
milder makes no fewer actions fire (`FiringFollows`). A count is positive if and only if
there is a finding of that severity (`CountPositive`), which ties the level to its
reference definition.

Model-checked only: all liveness (fairness and ENABLED are out of the prover's
reach), that is `EventuallyCoherent`, `EventuallyCurrent`, `EventuallyShown`,
`ViolationSuspends`, `ComplianceRestores`, `EventuallyRegistered`,
`EventuallyUpToDate`, `BadPipelineSuspended` and `FixedPipelineRestored`.

## 5. Not modelled

* ResolveWorkloads of the connectors, which only reads: the workloads of a report are
  a free set wherever they matter.
* Suspend, Resume and ResolveWorkloads of the Tekton connector: no caller reaches them.
* The characters of names and labels (`sanitizeName`), Kubernetes objects as JSON, the
  GitHub protocol beyond its outcomes, the scanner, which is an external library.
* Counters, histograms, and the gauges of discovery and of the rate limit; events; the
  text of alerts.
* How often things happen: there is no clock but the ticks of `PolicyEnforcement`, so
  the rate at which AnalysisController triggers itself is not bounded by the model.
* What should become of the enforcement of a policy that is deleted: `DeletePolicy` is
  an action, but the repository states no intention. The code leaves everything as it is.
* Generated deep copies, manifests and RBAC.
