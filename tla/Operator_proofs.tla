--------------------------- MODULE Operator_proofs ---------------------------
(***************************************************************************)
(* What PolicyEnforcement_proofs shows with a bounded number of new        *)
(* statuses holds as well when AnalysisController writes them for ever,    *)
(* each from the last scan, and never minds what PolicyController is at.   *)
(***************************************************************************)
EXTENDS Operator, PolicyEnforcement_proofs

ScansOK ==
    /\ upstream \in [Report -> SUBSET Finding]
    /\ scan \in [Report -> SUBSET Finding]

OpInv == GraceInv /\ TakenBack /\ ScansOK

(* A step of PolicyEnforcement, the publication of a scan, or one that     *)
(* PolicyController has no part in.                                        *)
LEMMA OpStep ==
    ASSUME [OpNext]_opVars
    PROVE  \/ [Next]_vars
           \/ \E r \in Report : Publish(r)
           \/ /\ UNCHANGED <<policies, store, cache, worker, cluster, calm>>
              /\ Disturb
BY DEF OpNext, Push, Fetch, FetchPartly, Enforcing, Next, opVars

LEMMA DisturbGraceInv ==
    ASSUME GraceInv, UNCHANGED <<policies, store, cache, worker, cluster, calm>>,
           Disturb
    PROVE  GraceInv'
<1>0. TypeOK /\ WorkerOK /\ CopiesOK
  BY DEF GraceInv, EnforcementInv
<1>1. TypeOK'
  BY <1>0, DisturbType DEF TypeOK, cluster
<1>2. WorkerOK' /\ CopiesOK'
  BY <1>0 DEF WorkerOK, CopiesOK, CopyOK, Same, Copied, Untouched, Copy
<1>3. ASSUME NEW r \in Report, Sole(r) PROVE GraceOK(r)'
  BY <1>3 DEF GraceInv, GraceOK, Same, Copied, Untouched, Violated
<1> QED
  BY <1>1, <1>2, <1>3 DEF GraceInv, EnforcementInv, Sole

LEMMA PublishGraceInv ==
    ASSUME OpInv, NEW q \in Report, Publish(q)
    PROVE  GraceInv'
<1>0. /\ EnforcementInv /\ TypeOK /\ WorkerOK
      /\ UNCHANGED <<policies, cache, worker, cluster, calm, disturbances>>
  BY DEF OpInv, GraceInv, EnforcementInv, Publish
<1>1. scan[q] \in SUBSET Finding /\ store[q].workloads \in SUBSET Workload
  BY <1>0 DEF OpInv, ScansOK, TypeOK, Object
<1>2. NewStatus(q, scan[q], store[q].workloads)
  BY DEF Publish
<1>3. TypeOK'
  BY <1>0, <1>1, <1>2, NewStatusStep DEF TypeOK, cluster
<1>4. WorkerOK'
  BY <1>0 DEF WorkerOK, Copied, Copy
<1>5. CopiesOK'
  BY <1>0, <1>1, <1>2, AssessCopiesOK
<1>6. ASSUME NEW r \in Report, Sole(r) PROVE GraceOK(r)'
  BY <1>0, <1>1, <1>2, <1>6, AssessGraceOK DEF OpInv, GraceInv
<1> QED
  BY <1>3, <1>4, <1>5, <1>6 DEF GraceInv, EnforcementInv, Sole

LEMMA OpScansOK ==
    ASSUME ScansOK, [OpNext]_opVars
    PROVE  ScansOK'
<1>1. ASSUME NEW r \in Report, Push(r) PROVE ScansOK'
  BY <1>1 DEF Push, ScansOK
<1>2. ASSUME NEW r \in Report, Fetch(r) PROVE ScansOK'
  BY <1>2 DEF Fetch, ScansOK
<1>3. ASSUME NEW r \in Report, FetchPartly(r) PROVE ScansOK'
  BY <1>3 DEF FetchPartly, ScansOK
<1> QED
  BY <1>1, <1>2, <1>3 DEF OpNext, Publish, Enforcing, opVars, ScansOK

LEMMA OpTakenBack ==
    ASSUME OpInv, [OpNext]_opVars
    PROVE  TakenBack'
<1>1. ASSUME worker' = worker PROVE TakenBack'
  BY <1>1 DEF OpInv, TakenBack, Copy
<1>2. CASE [Next]_vars
  BY <1>2, NextTakenBack DEF OpInv, GraceInv
<1> QED
  BY <1>1, <1>2, OpStep DEF Publish

LEMMA OpInvInductive ==
    /\ OpInit => OpInv
    /\ OpInv /\ [OpNext]_opVars => OpInv'
<1>1. ASSUME OpInit PROVE OpInv
  <2>1. GraceInv
    BY <1>1, GraceInvInductive DEF OpInit
  <2>2. \A r \in Report : store[r].findings \in SUBSET Finding
    BY <2>1 DEF GraceInv, EnforcementInv, TypeOK, Object
  <2>3. TakenBack
    BY <1>1, DecisionInvInductive DEF OpInit, DecisionInv
  <2> QED
    BY <1>1, <2>1, <2>2, <2>3 DEF OpInit, OpInv, ScansOK
<1>2. ASSUME OpInv, [OpNext]_opVars PROVE OpInv'
  <2>1. GraceInv'
    BY <1>2, OpStep, GraceInvInductive, PublishGraceInv, DisturbGraceInv DEF OpInv
  <2> QED
    BY <1>2, <2>1, OpScansOK, OpTakenBack DEF OpInv
<1> QED
  BY <1>1, <1>2

-----------------------------------------------------------------------------
(* However often a scan is published, and whenever, a violation keeps the  *)
(* time of its first detection: publications do not touch the annotation,  *)
(* and PolicyController never writes it back from a copy they overtook.    *)
THEOREM FirstDetectionOutlivesScans == OpSpec => FirstDetectionKept
<1>1. ASSUME OpInv, [OpNext]_opVars
      PROVE  [\A r \in Report :
                 store[r].since # None =>
                     \/ store'[r].since # None /\ store'[r].since >= store[r].since
                     \/ /\ store'[r].since = None
                        /\ worker.report = r
                        /\ Level(worker.policy, store[r]) = "Compliant"]_vars
  <2>0. EnforcementInv /\ TypeOK
    BY <1>1 DEF OpInv, GraceInv, EnforcementInv
  <2>1. SUFFICES ASSUME NEW r \in Report, store[r].since # None
                 PROVE  Keeps(r) \/ Lost(r)
    BY DEF Keeps, Lost
  <2>2. CASE [Next]_vars
    BY <2>0, <2>1, <2>2, NextKeepsOrLost
  <2>3. ASSUME NEW q \in Report, Publish(q) PROVE Keeps(r)
    <3>1. scan[q] \in SUBSET Finding /\ store[q].workloads \in SUBSET Workload
      BY <1>1, <2>0 DEF OpInv, ScansOK, TypeOK, Object
    <3> QED
      BY <2>0, <2>1, <2>3, <3>1, AssessKeeps DEF Publish
  <2>4. CASE store' = store
    BY <2>0, <2>1, <2>4, KeepsIfSame
  <2> QED
    BY <1>1, <2>2, <2>3, <2>4, OpStep
<1> QED
  BY <1>1, OpInvInductive, PTL DEF OpSpec, FirstDetectionKept

(* Nor do publications shorten a grace period: a report that is restored   *)
(* has the whole of it again before its source is suspended.               *)
THEOREM GraceOutlivesScans == OpSpec => GraceRespected
<1>1. ASSUME OpInv, [OpNext]_opVars
      PROVE  [\A x \in Resource :
                 worker' # worker /\ sync[x] # "off" /\ sync'[x] = "off" =>
                     \/ Grace = None
                     \/ calm[worker.report] >= Grace
                     \/ ~Sole(worker.report)]_vars
  <2>1. worker' # worker => [Next]_vars
    BY <1>1, OpStep DEF Publish
  <2> QED
    BY <1>1, <2>1, SuspensionWaited DEF OpInv, Waited
<1> QED
  BY <1>1, OpInvInductive, PTL DEF OpSpec, GraceRespected

(* And a status that is published while PolicyController acts on an older  *)
(* one is never acted on as if it had been evaluated: the update by which  *)
(* the worker would get hold of its version is refused.                    *)
THEOREM DecisionsOutliveScans == OpSpec => DecisionsRestOnReport
<1>1. ASSUME OpInv, [OpNext]_opVars
      PROVE  [worker' # worker /\ Current => RestsOn(store[worker.report])]_vars
  <2>1. worker' # worker => [Next]_vars
    BY <1>1, OpStep DEF Publish
  <2> QED
    BY <1>1, <2>1, DecisionRests DEF OpInv, GraceInv, DecisionInv
<1> QED
  BY <1>1, OpInvInductive, PTL DEF OpSpec, DecisionsRestOnReport

-----------------------------------------------------------------------------
(* Evaluations that no publication overtakes.                              *)

AllSame == \A r \in Report : Copied(r) => worker.copies[r].rv = store[r].rv

LEMMA FewerAllSame ==
    ASSUME AllSame, Fewer, store' = store
    PROVE  AllSame'
BY DEF AllSame, Fewer

(* A report that an update replaces is replaced in the copy as well. *)
LEMMA ReplacedAllSame ==
    ASSUME TypeOK, AllSame, NEW q \in Report, NEW c,
           \/ store' = [store EXCEPT ![q] = c]
           \/ store' = store /\ c.rv = store[q].rv,
           worker'.copies[q] = c,
           \A r \in Report \ {q} : worker'.copies[r] = worker.copies[r]
    PROVE  AllSame'
<1>1. SUFFICES ASSUME NEW r \in Report, Copied(r)'
               PROVE  worker'.copies[r].rv = store'[r].rv
  BY DEF AllSame
<1>2. CASE r = q
  BY <1>2 DEF TypeOK
<1>3. CASE r # q
  BY <1>1, <1>3 DEF TypeOK, AllSame, Copied
<1> QED
  BY <1>2, <1>3

LEMMA EnforceAllSame ==
    ASSUME TypeOK, WorkerOK, AllSame, Enforce
    PROVE  AllSame'
<1>1. worker.report \in Report /\ Copy \in Object
  BY EnforceStep
<1>2. Copy.rv = store[worker.report].rv
  BY <1>1, NoneAssumption DEF AllSame, Copied, Copy
<1>3. PICK q \in Report : q = worker.report
  BY <1>1
<1>4. PICK o \in Object :
        /\ Acted(o)
        /\ \/ /\ store' = [store EXCEPT ![q] = Response(q, o)]
              /\ ActionDone(Response(q, o))
           \/ store' = store /\ ActionDone(o)
  BY <1>3, EnforceStep
<1>5. PICK c \in Object :
        /\ ActionDone(c)
        /\ \/ store' = [store EXCEPT ![q] = c]
           \/ store' = store /\ c.rv = store[q].rv
  BY <1>2, <1>3, <1>4, ResponseType DEF Acted
<1>6. /\ worker'.copies[q] = c
      /\ \A r \in Report \ {q} : worker'.copies[r] = worker.copies[r]
  BY <1>3, <1>5, ActionDoneCopies
<1> QED
  BY <1>5, <1>6, ReplacedAllSame

LEMMA ClearAllSame ==
    ASSUME TypeOK, WorkerOK, AllSame, ClearAnnotations
    PROVE  AllSame'
<1>1. worker.report \in Report /\ worker \in WorkerState
  BY ClearStep DEF TypeOK
<1>2. PICK q \in Report : q = worker.report
  BY <1>1
<1>3. CASE worker' = [worker EXCEPT !.pc = "resume"] /\ store' = store
  BY <1>1, <1>3 DEF AllSame, Copied, WorkerState
<1>4. CASE /\ store' = [store EXCEPT ![q] = Response(q, Cleared)]
           /\ worker' = [worker EXCEPT !.pc = "resume",
                            !.copies = [@ EXCEPT ![q] = Response(q, Cleared)]]
  <2> DEFINE c == Response(q, Cleared)
  <2> HIDE DEF c
  <2>1. /\ worker'.copies[q] = c
        /\ \A r \in Report \ {q} : worker'.copies[r] = worker.copies[r]
    BY <1>1, <1>4 DEF WorkerState, c
  <2> QED
    BY <1>4, <2>1, ReplacedAllSame DEF c
<1>5. CASE worker' = NextReport /\ store' = store
  BY <1>1, <1>5, NextReportFewer, FewerAllSame
<1> QED
  BY <1>2, <1>3, <1>4, <1>5, ClearStep

LEMMA OperateAllSame ==
    ASSUME TypeOK, WorkerOK, AllSame, Operate,
           \A p \in Policy : ~EvaluatePolicy(p)
    PROVE  AllSame'
<1>1. ASSUME worker' = worker, store' = store PROVE AllSame'
  BY <1>1, SameWorkerFewer, FewerAllSame
<1>2. CASE Work
  BY <1>2, WorkFewer, FewerAllSame, EnforceAllSame, ClearAllSame
     DEF Work, Restore
<1>3. CASE Restart
  BY <1>3 DEF Restart, Idle, AllSame, Copied
<1>4. CASE Tick
  <2>1. ASSUME NEW r \in Report, Copied(r)'
        PROVE  worker'.copies[r].rv = store'[r].rv
    <3>1. /\ worker'.copies[r] = Older(worker.copies[r])
          /\ store'[r] = Older(store[r])
          /\ worker.copies[r] \in Object \cup {None}
          /\ store[r] \in Object /\ store[r] # None
      BY <1>4, NoneAssumption DEF Tick, TypeOK, WorkerState
    <3>2. Copied(r)
      BY <2>1, <3>1, OlderType DEF Copied
    <3> QED
      BY <3>1, <3>2, OlderType DEF AllSame, Copied
  <2> QED
    BY <2>1 DEF AllSame
<1> QED
  BY <1>1, <1>2, <1>3, <1>4 DEF Operate, Deliver, UserSets, DeletePolicy, Discover

LEMMA OpAllSame ==
    ASSUME OpInv, [OpNext]_opVars, ~overtaken => AllSame
    PROVE  ~overtaken' => AllSame'
<1>0. /\ TypeOK /\ WorkerOK
  BY DEF OpInv, GraceInv, EnforcementInv
<1>1. ASSUME UNCHANGED <<store, worker, overtaken>> PROVE ~overtaken' => AllSame'
  BY <1>1 DEF AllSame, Copied
<1>2. ASSUME NEW q \in Report, Publish(q), ~overtaken' PROVE AllSame'
  <2>1. /\ worker' = worker
        /\ ~overtaken /\ ~Copied(q)
    BY <1>2 DEF Publish, Copied
  <2>2. scan[q] \in SUBSET Finding /\ store[q].workloads \in SUBSET Workload
    BY <1>0 DEF OpInv, ScansOK, TypeOK, Object
  <2>3. \A r \in Report \ {q} : store'[r] = store[r]
    BY <1>0, <1>2, <2>2, NewStatusStep DEF Publish
  <2> QED
    BY <2>1, <2>3 DEF AllSame, Copied
<1>3. ASSUME Enforcing, ~overtaken' PROVE AllSame'
  <2>1. ASSUME NEW p \in Policy, EvaluatePolicy(p) PROVE AllSame'
    <3>1. store' = store
      BY <2>1 DEF EvaluatePolicy
    <3>2. \A r \in Report : worker'.copies[r] \in {None, store[r]}
      BY <1>3, <2>1 DEF Enforcing
    <3> QED
      BY <3>1, <3>2 DEF AllSame, Copied
  <2>2. ASSUME \A p \in Policy : ~EvaluatePolicy(p) PROVE AllSame'
    <3>1. Operate /\ ~overtaken
      BY <1>3, <2>2 DEF Enforcing
    <3> QED
      BY <1>0, <2>2, <3>1, OperateAllSame
  <2> QED
    BY <2>1, <2>2
<1>4. CASE UNCHANGED opVars
  BY <1>1, <1>4 DEF opVars, vars
<1>5. ASSUME NEW r \in Report, Push(r) \/ Fetch(r) \/ FetchPartly(r)
      PROVE  ~overtaken' => AllSame'
  BY <1>1, <1>5 DEF Push, Fetch, FetchPartly, vars
<1> QED
  BY <1>2, <1>3, <1>4, <1>5 DEF OpNext

(* PolicyController never conflicts with itself.  Each of its updates      *)
(* brings the copy it works from up to the version that it has made, so    *)
(* that the next one is refused only if a status has been written in the   *)
(* meantime, or for a fault.                                               *)
THEOREM OnlyScansConflict == OpSpec => []NoSelfConflict
<1> DEFINE Inv == OpInv /\ (~overtaken => AllSame)
<1>1. OpInit => Inv
  <2>1. OpInit => AllSame
    BY DEF OpInit, Init, Idle, AllSame, Copied
  <2> QED
    BY <2>1, OpInvInductive
<1>2. Inv /\ [OpNext]_opVars => Inv'
  BY OpInvInductive, OpAllSame
<1>3. Inv => NoSelfConflict
  BY DEF AllSame, Copied, NoSelfConflict, Matches
<1> QED
  BY <1>1, <1>2, <1>3, PTL DEF OpSpec

=============================================================================
