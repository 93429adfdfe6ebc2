-------------------------- MODULE ComplianceRules --------------------------
(***************************************************************************)
(* The decision functions of the operator, none of which keeps state:      *)
(*   - analyzer.ComputeComplianceState: findings -> (state, summary);      *)
(*   - PolicyController.evaluateThresholds: (thresholds, summary,          *)
(*     findings) -> violation level;                                       *)
(*   - triggerMatches: does an enforcement action fire at a level?         *)
(*                                                                         *)
(* A finding is an identity with a severity.  The text of its rule and     *)
(* message matters in one place only, the pin check of evaluateThresholds, *)
(* so it is abstracted to membership of PinFinding.                        *)
(***************************************************************************)
EXTENDS Integers, FiniteSets

CONSTANTS Finding,     \* the findings a scan can return
          Severity,    \* the severity of each finding
          PinFinding   \* findings whose rule or message speaks of pinning

Severities == {"critical", "high", "medium", "low", "info", "unknown"}

ASSUME FindingAssumption ==
    /\ IsFiniteSet(Finding)
    /\ Severity \in [Finding -> Severities]
    /\ PinFinding \subseteq Finding

(* The compliance states of a report; the violation levels are the same.   *)
ComplianceStates == {"Compliant", "Warning", "NonCompliant", "Critical"}

(* triggerMatches' table of levels, extended with Compliant at the bottom. *)
Rank == [l \in ComplianceStates |->
            CASE l = "Compliant"    -> 0
              [] l = "Warning"      -> 1
              [] l = "NonCompliant" -> 2
              [] l = "Critical"     -> 3]

(* PolicyThresholds: nothing in the CRD keeps the two limits from being     *)
(* negative.                                                               *)
Thresholds == [maxCritical : Int, maxHigh : Int, requirePinned : BOOLEAN]

Summaries == [Critical : Nat, High : Nat, Medium : Nat,
              Low : Nat, Info : Nat, Total : Nat]

CountOf(F, sev) == Cardinality({f \in F : Severity[f] = sev})

(* The FindingSummary half of ComputeComplianceState: a severity outside   *)
(* the five known ones is counted in Total only.                           *)
Summarize(F) ==
    [Critical |-> CountOf(F, "critical"),
     High     |-> CountOf(F, "high"),
     Medium   |-> CountOf(F, "medium"),
     Low      |-> CountOf(F, "low"),
     Info     |-> CountOf(F, "info"),
     Total    |-> Cardinality(F)]

(* The state half of ComputeComplianceState. *)
StateOf(summary) ==
    IF summary.Critical > 0 THEN "Critical"
    ELSE IF summary.High > 0 THEN "NonCompliant"
    ELSE IF summary.Medium > 0 THEN "Warning"
    ELSE "Compliant"

(* Mutant: the pin check is asked before the critical count. *)
EvaluatePinFirst(t, summary, F) ==
    IF t.requirePinned /\ F \cap PinFinding # {} THEN "NonCompliant"
    ELSE IF summary.Critical > t.maxCritical THEN "Critical"
    ELSE IF summary.High > t.maxHigh THEN "NonCompliant"
    ELSE IF summary.Medium > 0 THEN "Warning"
    ELSE "Compliant"

(* Mutant: the thresholds themselves count as breaches. *)
EvaluateOffByOne(t, summary, F) ==
    IF summary.Critical >= t.maxCritical THEN "Critical"
    ELSE IF summary.High > t.maxHigh THEN "NonCompliant"
    ELSE IF t.requirePinned /\ F \cap PinFinding # {} THEN "NonCompliant"
    ELSE IF summary.Medium > 0 THEN "Warning"
    ELSE "Compliant"

(* Mutant: a limit of zero, the Go zero value, is taken for no limit. *)
EvaluateZeroUnset(t, summary, F) ==
    IF t.maxCritical # 0 /\ summary.Critical > t.maxCritical THEN "Critical"
    ELSE IF t.maxHigh # 0 /\ summary.High > t.maxHigh THEN "NonCompliant"
    ELSE IF t.requirePinned /\ F \cap PinFinding # {} THEN "NonCompliant"
    ELSE IF summary.Medium > 0 THEN "Warning"
    ELSE "Compliant"

(* evaluateThresholds: F and summary both come from the report's status. *)
EvaluateThresholds(t, summary, F) ==
    IF summary.Critical > t.maxCritical THEN "Critical"
    ELSE IF summary.High > t.maxHigh THEN "NonCompliant"
    ELSE IF t.requirePinned /\ F \cap PinFinding # {} THEN "NonCompliant"
    ELSE IF summary.Medium > 0 THEN "Warning"
    ELSE "Compliant"

(* Mutant: an action fires only at exactly its own level. *)
TriggerExact(trigger, level) == trigger = level /\ Rank[level] > 0

(* triggerMatches: "Compliant" is in neither table, so it matches nothing. *)
TriggerMatches(trigger, level) ==
    /\ {trigger, level} \subseteq ComplianceStates \ {"Compliant"}
    /\ Rank[level] >= Rank[trigger]

=============================================================================
