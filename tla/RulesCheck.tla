----------------------------- MODULE RulesCheck -----------------------------
(***************************************************************************)
(* The decision functions of ComplianceRules against reference             *)
(* definitions, along the histories of one report and one policy: scans    *)
(* bring and remove findings one at a time, an administrator edits the     *)
(* thresholds.                                                             *)
(***************************************************************************)
EXTENDS ComplianceRules

CONSTANT Limits   \* the values tried for maxCritical and maxHigh

ASSUME LimitsAssumption == Limits \subseteq Int /\ 0 \in Limits

VARIABLES
    findings,   \* Status.Findings of the report
    policy      \* Spec.Thresholds of the policy

vars == <<findings, policy>>

Policies == [maxCritical : Limits, maxHigh : Limits, requirePinned : BOOLEAN]

Init == findings = {} /\ policy \in Policies

Appears(f) == findings' = findings \cup {f} /\ UNCHANGED policy
Fixed(f) == f \in findings /\ findings' = findings \ {f} /\ UNCHANGED policy
Edit == policy' \in Policies /\ UNCHANGED findings

Next ==
    \/ \E f \in Finding : Appears(f) \/ Fixed(f)
    \/ Edit

Spec == Init /\ [][Next]_vars

-----------------------------------------------------------------------------
Level == EvaluateThresholds(policy, Summarize(findings), findings)
State == StateOf(Summarize(findings))

Worst(levels) ==
    CHOOSE l \in levels : \A k \in levels : Rank[l] >= Rank[k]

(* The levels whose condition, read on its own, the report meets. *)
Breached ==
    {"Compliant"}
    \cup (IF \E f \in findings : Severity[f] = "medium" THEN {"Warning"} ELSE {})
    \cup (IF findings \cap PinFinding # {} /\ policy.requirePinned
          THEN {"NonCompliant"} ELSE {})
    \cup (IF CountOf(findings, "high") > policy.maxHigh
          THEN {"NonCompliant"} ELSE {})
    \cup (IF CountOf(findings, "critical") > policy.maxCritical
          THEN {"Critical"} ELSE {})

(* The order in which evaluateThresholds asks its questions never hides a  *)
(* worse level behind a milder one.                                        *)
LevelIsWorstBreach == Level = Worst(Breached)

(* Under a policy that tolerates nothing and does not ask for pinning, the *)
(* level that drives the enforcement and the state that the report, its    *)
(* metric and its annotation show are the same: the two functions, written *)
(* apart, agree.                                                           *)
ZeroToleranceAgrees ==
    policy = [maxCritical |-> 0, maxHigh |-> 0, requirePinned |-> FALSE] =>
        Level = State

(* The actions that fire for a set of findings under some thresholds. *)
Firing(t, F) ==
    {trigger \in ComplianceStates :
        TriggerMatches(trigger, EvaluateThresholds(t, Summarize(F), F))}

(* A new finding never relaxes the enforcement: each action that fired     *)
(* before it still fires.                                                  *)
NewFindingsNeverRelax ==
    [][findings \subseteq findings' /\ policy' = policy =>
          Firing(policy, findings) \subseteq Firing(policy, findings')]_vars

Looser(old, new) ==
    /\ new.maxCritical >= old.maxCritical
    /\ new.maxHigh >= old.maxHigh
    /\ new.requirePinned => old.requirePinned

(* An administrator who raises a limit, or no longer asks for pinning,     *)
(* never makes an action fire that did not: no limit has a meaning of its  *)
(* own, neither zero nor the negative ones that the CRD lets through.      *)
LooserLimitsNeverTighten ==
    [][Looser(policy, policy') /\ findings' = findings =>
          Firing(policy', findings) \subseteq Firing(policy, findings)]_vars

=============================================================================
