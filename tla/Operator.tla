------------------------------- MODULE Operator -------------------------------
(***************************************************************************)
(* PolicyEnforcement with the AnalysisController that feeds it.  The       *)
(* statuses come from scans of the pipelines, and every scan is written,   *)
(* whether or not it found anything new: LastEvaluated always changes, so  *)
(* each write takes a new version, for ever, and competes with the updates *)
(* of PolicyController.  What AnalysisController and ReportController do   *)
(* together is taken from ReportRegister, which ReportLifecycle            *)
(* implements: a status is replaced as a whole, by findings that the       *)
(* pipeline has or had, or by some of them.  ReportController's writes are *)
(* in it with AnalysisController's: to PolicyController the one is as good *)
(* as the other.                                                           *)
(***************************************************************************)
EXTENDS PolicyEnforcement

VARIABLES
    upstream,    \* per report, the findings of a complete scan now
    scan,        \* per report, the analyzer's last scan
    overtaken    \* PolicyController's copies are not, or no longer, those
                 \* the API server holds the status of (history)

opVars == <<vars, upstream, scan, overtaken>>

OpInit ==
    /\ Init
    /\ upstream = [r \in Report |-> store[r].findings]
    /\ scan = upstream
    /\ overtaken = FALSE

(* A push changes the workflow files. *)
Push(r) ==
    /\ Disturb
    /\ \E F \in (SUBSET Finding) \ {upstream[r]} :
          upstream' = [upstream EXCEPT ![r] = F]
    /\ UNCHANGED <<policies, store, cache, worker, cluster, calm, scan, overtaken>>

(* Mutant: a scan in the analyzer's cache never expires. *)
FetchOnce(r) ==
    /\ scan[r] = {}
    /\ scan' = [scan EXCEPT ![r] = upstream[r]]
    /\ UNCHANGED <<vars, upstream, overtaken>>

Fetch(r) ==
    /\ scan[r] # upstream[r]
    /\ scan' = [scan EXCEPT ![r] = upstream[r]]
    /\ UNCHANGED <<vars, upstream, overtaken>>

(* GitHub answers in part: files that could not be fetched are skipped,    *)
(* and a directory that is not found counts as an empty one.               *)
FetchPartly(r) ==
    /\ Disturb
    /\ \E F \in (SUBSET upstream[r]) \ {upstream[r], scan[r]} :
          scan' = [scan EXCEPT ![r] = F]
    /\ UNCHANGED <<policies, store, cache, worker, cluster, calm, upstream, overtaken>>

(* The scan becomes the status of the report, in a new version. *)
Publish(r) ==
    /\ NewStatus(r, scan[r], store[r].workloads)
    /\ overtaken' = (overtaken \/ worker.copies[r] # None)
    /\ UNCHANGED <<policies, cache, worker, cluster, calm, disturbances, upstream,
                   scan>>

(* PolicyController and the rest of the operator. *)
Enforcing ==
    /\ Operate
    /\ overtaken' = IF \E p \in Policy : EvaluatePolicy(p)
                    THEN \E r \in Report : worker'.copies[r] \notin {None, store[r]}
                    ELSE overtaken
    /\ UNCHANGED <<upstream, scan>>

OpNext ==
    \/ \E r \in Report : Push(r) \/ Fetch(r) \/ FetchPartly(r) \/ Publish(r)
    \/ Enforcing

OpSpec == OpInit /\ [][OpNext]_opVars

(* The fairness of PolicyEnforcement, and of rounds of analysis: a scan    *)
(* lives for its TTL and is then made anew, in full once nothing fails.    *)
OpFairness ==
    /\ Fairness
    /\ \A r \in Report : WF_opVars(Fetch(r)) /\ WF_opVars(Publish(r))

FairOpSpec == OpSpec /\ OpFairness

-----------------------------------------------------------------------------
(* The updates of an evaluation do not get into each other's way: as long  *)
(* as no status is published in between, every copy that is left has the   *)
(* version of the stored report, whatever has been annotated and whichever *)
(* requests have failed.  So it takes a write of another writer of the     *)
(* status, or a fault, to have an update of PolicyController's refused.    *)
NoSelfConflict ==
    ~overtaken =>
        \A r \in Report :
            worker.copies[r] # None => Matches(r, worker.copies[r])

(* An evaluation comes to its end, and no status was written meanwhile.    *)
Spared == worker.pc = "next" /\ worker.copies = Idle.copies /\ ~overtaken

(* A pipeline that stays bad ends up suspended.  Rounds of analysis are    *)
(* minutes apart and an evaluation is short: sooner or later one is        *)
(* spared.  Without that each update of PolicyController's could lose      *)
(* against a status write, and the grace period would never start.         *)
BadFor(p, r) ==
    /\ p \in policies
    /\ r \in Selects(p)
    /\ \E i \in DOMAIN Enforcement[p] :
          /\ Enforcement[p][i].action = "suspendSync"
          /\ TriggerMatches(Enforcement[p][i].trigger,
                            Level(p, [findings |-> upstream[r]]))

BadPipelineSuspended ==
    \A p \in Policy, r \in Report :
        LabelOf[r] # None /\ Own(r) \in Resource =>
            ([]<>Spared /\ <>[]BadFor(p, r) => <>[](sync[Own(r)] = "off"))

(* A pipeline that is fixed for good gets everything back. *)
FixedFor(p, r) ==
    /\ p \in policies
    /\ r \in Selects(p)
    /\ Level(p, [findings |-> upstream[r]]) = "Compliant"

FixedPipelineRestored ==
    \A r \in Report :
        LabelOf[r] # None =>
            ([]<>Spared /\ <>[](\A p \in Policy : FixedFor(p, r))
                => <>[]Restored(r))

=============================================================================
