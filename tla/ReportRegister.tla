--------------------------- MODULE ReportRegister ---------------------------
(***************************************************************************)
(* What the two controllers of ReportLifecycle promise together, without   *)
(* caches, versions, queues or workers: a register of reports in which     *)
(* every write is one step that reads what it replaces.                    *)
(***************************************************************************)
EXTENDS ReportStatus

VARIABLES
    upstream,   \* per ref, the findings of a complete scan now
    published,  \* per ref, all findings it ever deserved
    reports     \* per report name, its content or None

vars == <<upstream, published, reports>>

Init ==
    /\ upstream \in [Ref -> SUBSET Finding]
    /\ published = upstream
    /\ reports \in [Report -> {None, [label |-> None, status |-> EmptyStatus]}]

Push(f) ==
    /\ \E F \in SUBSET Finding :
          /\ upstream' = [upstream EXCEPT ![f] = F]
          /\ published' = [published EXCEPT ![f] = @ \cup F]
    /\ UNCHANGED reports

Write(r, label, status) ==
    /\ reports' = [reports EXCEPT ![r] = [label |-> label, status |-> status]]
    /\ UNCHANGED <<upstream, published>>

(* Applied by a user, or created for a source. *)
Create(r, label) == reports[r] = None /\ Write(r, label, EmptyStatus)

Delete(r) ==
    /\ reports[r] # None
    /\ reports' = [reports EXCEPT ![r] = None]
    /\ UNCHANGED <<upstream, published>>

Edit(r, state) ==
    /\ reports[r] # None
    /\ Write(r, reports[r].label, [reports[r].status EXCEPT !.state = state])

(* An assessment replaces the status of a report that is there by findings *)
(* that the source's ref has, had, or has among others.                    *)
Assess(s) ==
    LET r == ReportOf[s] IN
    /\ reports[r] # None
    /\ \E F \in SUBSET published[RefOf[s]] :
          Write(r, reports[r].label, Assessment(s, F))

Normalise(r) ==
    /\ reports[r] # None
    /\ Write(r, reports[r].label, Normalised(reports[r].status))

Next ==
    \/ \E f \in Ref : Push(f)
    \/ \E r \in Report :
          \/ Create(r, None)
          \/ Delete(r)
          \/ Normalise(r)
          \/ \E state \in ComplianceStates : Edit(r, state)
    \/ \E s \in Source : Create(ReportOf[s], s) \/ Assess(s)

Spec == Init /\ [][Next]_vars

=============================================================================
