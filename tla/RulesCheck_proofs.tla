-------------------------- MODULE RulesCheck_proofs --------------------------
(***************************************************************************)
(* Proofs about the decision functions, for any finite set of findings and *)
(* any thresholds.                                                         *)
(***************************************************************************)
EXTENDS RulesCheck, FiniteSetTheorems, TLAPS

Inv == findings \subseteq Finding /\ policy \in Policies

LEMMA InvInductive ==
    /\ Init => Inv
    /\ Inv /\ [Next]_vars => Inv'
BY DEF Init, Next, Appears, Fixed, Edit, Inv, vars

(* More findings never count for less. *)
LEMMA CountMonotone ==
    ASSUME NEW G \in SUBSET Finding, NEW F \in SUBSET G, NEW sev
    PROVE  /\ CountOf(F, sev) \in Nat
           /\ CountOf(G, sev) \in Nat
           /\ CountOf(F, sev) <= CountOf(G, sev)
<1> DEFINE A == {f \in F : Severity[f] = sev}
           B == {f \in G : Severity[f] = sev}
<1>1. A \subseteq B /\ B \subseteq Finding
  OBVIOUS
<1>2. IsFiniteSet(B)
  BY <1>1, FindingAssumption, FS_Subset
<1>3. /\ IsFiniteSet(A)
      /\ Cardinality(A) \in Nat
      /\ Cardinality(B) \in Nat
      /\ Cardinality(A) <= Cardinality(B)
  BY <1>1, <1>2, FS_Subset, FS_CardinalityType
<1> QED
  BY <1>3 DEF CountOf

LevelUnder(t, F) == EvaluateThresholds(t, Summarize(F), F)

(* What evaluateThresholds reads, as numbers and levels of known order. *)
LEMMA LevelReads ==
    ASSUME NEW F \in SUBSET Finding, NEW t \in Policies
    PROVE  /\ t.maxCritical \in Int /\ t.maxHigh \in Int
           /\ LevelUnder(t, F) \in ComplianceStates
           /\ Rank["Compliant"] = 0 /\ Rank["Warning"] = 1
           /\ Rank["NonCompliant"] = 2 /\ Rank["Critical"] = 3
           /\ Summarize(F).Critical = CountOf(F, "critical")
           /\ Summarize(F).High = CountOf(F, "high")
           /\ Summarize(F).Medium = CountOf(F, "medium")
<1>1. t.maxCritical \in Int /\ t.maxHigh \in Int
  BY LimitsAssumption DEF Policies
<1>2. LevelUnder(t, F) \in ComplianceStates
  BY DEF LevelUnder, EvaluateThresholds, ComplianceStates
<1>3. /\ Rank["Compliant"] = 0 /\ Rank["Warning"] = 1
      /\ Rank["NonCompliant"] = 2 /\ Rank["Critical"] = 3
  BY DEF Rank, ComplianceStates
<1>4. /\ Summarize(F).Critical = CountOf(F, "critical")
      /\ Summarize(F).High = CountOf(F, "high")
      /\ Summarize(F).Medium = CountOf(F, "medium")
  BY DEF Summarize
<1> QED
  BY <1>1, <1>2, <1>3, <1>4

(* More findings never lead to a milder level. *)
LEMMA MoreFindings ==
    ASSUME NEW G \in SUBSET Finding, NEW F \in SUBSET G, NEW t \in Policies
    PROVE  Rank[LevelUnder(t, F)] <= Rank[LevelUnder(t, G)]
<1> DEFINE cF == CountOf(F, "critical")  cG == CountOf(G, "critical")
           hF == CountOf(F, "high")      hG == CountOf(G, "high")
           mF == CountOf(F, "medium")    mG == CountOf(G, "medium")
<1>1. /\ cF \in Nat /\ cG \in Nat /\ cF <= cG
      /\ hF \in Nat /\ hG \in Nat /\ hF <= hG
      /\ mF \in Nat /\ mG \in Nat /\ mF <= mG
  BY CountMonotone
<1>2. F \cap PinFinding # {} => G \cap PinFinding # {}
  OBVIOUS
<1>3. /\ Summarize(F).Critical = cF /\ Summarize(G).Critical = cG
      /\ Summarize(F).High = hF /\ Summarize(G).High = hG
      /\ Summarize(F).Medium = mF /\ Summarize(G).Medium = mG
  BY LevelReads
<1> HIDE DEF cF, cG, hF, hG, mF, mG
<1> QED
  BY <1>1, <1>2, <1>3, LevelReads DEF LevelUnder, EvaluateThresholds

(* Looser thresholds never lead to a worse level. *)
LEMMA LooserLimits ==
    ASSUME NEW F \in SUBSET Finding, NEW t \in Policies, NEW u \in Policies,
           Looser(t, u)
    PROVE  Rank[LevelUnder(u, F)] <= Rank[LevelUnder(t, F)]
<1> DEFINE c == CountOf(F, "critical")
           h == CountOf(F, "high")
           m == CountOf(F, "medium")
<1>1. c \in Nat /\ h \in Nat /\ m \in Nat
  BY CountMonotone
<1>2. /\ Summarize(F).Critical = c
      /\ Summarize(F).High = h
      /\ Summarize(F).Medium = m
  BY LevelReads
<1> HIDE DEF c, h, m
<1>3. t.requirePinned \in BOOLEAN /\ u.requirePinned \in BOOLEAN
  BY DEF Policies
<1> QED
  BY <1>1, <1>2, <1>3, LevelReads DEF LevelUnder, EvaluateThresholds, Looser

(* A level no milder makes no fewer actions fire. *)
LEMMA FiringFollows ==
    ASSUME NEW F \in SUBSET Finding, NEW G \in SUBSET Finding,
           NEW t \in Policies, NEW u \in Policies,
           Rank[LevelUnder(t, F)] <= Rank[LevelUnder(u, G)]
    PROVE  Firing(t, F) \subseteq Firing(u, G)
<1> DEFINE below == LevelUnder(t, F)
           above == LevelUnder(u, G)
<1>1. /\ below \in ComplianceStates
      /\ above \in ComplianceStates
      /\ Rank[below] <= Rank[above]
  BY LevelReads
<1>2. /\ Rank \in [ComplianceStates -> Nat]
      /\ Rank["Compliant"] = 0
      /\ \A l \in ComplianceStates : l # "Compliant" => Rank[l] > 0
  BY DEF Rank, ComplianceStates
<1>3. ASSUME NEW l \in ComplianceStates, TriggerMatches(l, below)
      PROVE  TriggerMatches(l, above)
  <2>1. l # "Compliant" /\ Rank[below] >= Rank[l]
    BY <1>3 DEF TriggerMatches
  <2>2. Rank[above] >= Rank[l] /\ Rank[l] > 0
    BY <1>1, <1>2, <2>1
  <2> QED
    BY <1>1, <1>2, <2>1, <2>2 DEF TriggerMatches
<1> HIDE DEF below, above
<1>4. {l \in ComplianceStates : TriggerMatches(l, below)}
        \subseteq {l \in ComplianceStates : TriggerMatches(l, above)}
  BY <1>3
<1> QED
  BY <1>4 DEF Firing, LevelUnder, below, above

(* Whatever the thresholds, a report that only gains findings keeps every  *)
(* enforcement action firing that fired before.                            *)
THEOREM EnforcementMonotone == Spec => NewFindingsNeverRelax
<1>1. Inv /\ Inv' /\ [Next]_vars =>
        [findings \subseteq findings' /\ policy' = policy =>
            Firing(policy, findings) \subseteq Firing(policy, findings')]_vars
  BY MoreFindings, FiringFollows DEF Inv
<1> QED
  BY <1>1, InvInductive, PTL DEF Spec, NewFindingsNeverRelax

(* Whatever the findings, thresholds that are loosened, from and to any    *)
(* integers, make no action fire that did not fire before.                 *)
THEOREM LooserLimitsRelax == Spec => LooserLimitsNeverTighten
<1>1. Inv /\ Inv' /\ [Next]_vars =>
        [Looser(policy, policy') /\ findings' = findings =>
            Firing(policy', findings) \subseteq Firing(policy, findings)]_vars
  <2> SUFFICES ASSUME Inv, Inv', Looser(policy, policy')
               PROVE  Firing(policy', findings) \subseteq Firing(policy, findings)
    OBVIOUS
  <2>1. /\ findings \in SUBSET Finding
        /\ policy \in Policies
        /\ policy' \in Policies
    BY DEF Inv
  <2> QED
    BY <2>1, LooserLimits, FiringFollows
<1> QED
  BY <1>1, InvInductive, PTL DEF Spec, LooserLimitsNeverTighten

(* Under a policy that tolerates nothing and does not ask for pinning, the *)
(* level of the enforcement is the compliance state of the report.         *)
THEOREM ZeroToleranceIsState == Spec => []ZeroToleranceAgrees
<1>1. Inv => ZeroToleranceAgrees
  BY DEF ZeroToleranceAgrees, Level, State, EvaluateThresholds, StateOf
<1> QED
  BY <1>1, InvInductive, PTL DEF Spec

(* The worst of some levels, once it is known. *)
LEMMA WorstIs ==
    ASSUME NEW levels \in SUBSET ComplianceStates, NEW l \in levels,
           \A k \in levels : Rank[l] >= Rank[k]
    PROVE  Worst(levels) = l
<1>1. \A k, m \in ComplianceStates : Rank[k] \in Nat /\ (Rank[k] = Rank[m] => k = m)
  BY DEF Rank, ComplianceStates
<1>2. /\ Worst(levels) \in levels
      /\ \A k \in levels : Rank[Worst(levels)] >= Rank[k]
  BY DEF Worst
<1>3. Rank[Worst(levels)] = Rank[l]
  BY <1>1, <1>2
<1> QED
  BY <1>1, <1>2, <1>3

LEMMA CountPositive ==
    ASSUME NEW F \in SUBSET Finding, NEW sev
    PROVE  /\ CountOf(F, sev) \in Nat
           /\ CountOf(F, sev) > 0 <=> \E f \in F : Severity[f] = sev
<1> DEFINE A == {f \in F : Severity[f] = sev}
<1>1. IsFiniteSet(A)
  BY FindingAssumption, FS_Subset
<1>2. Cardinality(A) \in Nat /\ (Cardinality(A) = 0 <=> A = {})
  BY <1>1, FS_CardinalityType, FS_EmptySet
<1> QED
  BY <1>2 DEF CountOf

(* The order of evaluateThresholds' questions hides no breach: for any     *)
(* limits, negative ones included, and any finite set of findings.         *)
THEOREM LevelIsTheWorstBreach == Spec => []LevelIsWorstBreach
<1>1. ASSUME Inv PROVE LevelIsWorstBreach
  <2>1. /\ Rank["Compliant"] = 0 /\ Rank["Warning"] = 1
        /\ Rank["NonCompliant"] = 2 /\ Rank["Critical"] = 3
    BY DEF Rank, ComplianceStates
  <2>2. Breached \subseteq ComplianceStates
    BY DEF Breached, ComplianceStates
  <2>3. Summarize(findings).Medium > 0 <=>
          \E f \in findings : Severity[f] = "medium"
    BY <1>1, CountPositive DEF Inv, Summarize
  <2>4. /\ Summarize(findings).Critical = CountOf(findings, "critical")
        /\ Summarize(findings).High = CountOf(findings, "high")
    BY DEF Summarize
  <2>5. Level \in Breached
    BY <2>3, <2>4 DEF Level, EvaluateThresholds, Breached
  <2>6. \A k \in Breached : Rank[Level] >= Rank[k]
    BY <2>1, <2>3, <2>4 DEF Level, EvaluateThresholds, Breached
  <2> QED
    BY <2>2, <2>5, <2>6, WorstIs DEF LevelIsWorstBreach
<1> QED
  BY <1>1, InvInductive, PTL DEF Spec

=============================================================================
