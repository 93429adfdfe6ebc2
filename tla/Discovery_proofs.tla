--------------------------- MODULE Discovery_proofs ---------------------------
(***************************************************************************)
(* Proofs about Discovery, for any resources and specs, any cluster and    *)
(* any number of changes, failed lists and restarts.                       *)
(***************************************************************************)
EXTENDS Discovery, TLAPS

(* The worker is a record of these fields. *)
Shaped ==
    discovery = [pc |-> discovery.pc, left |-> discovery.left,
                 repos |-> discovery.repos, found |-> discovery.found]

LEMMA ShapedInductive ==
    /\ Init => Shaped
    /\ Shaped /\ [Next]_vars => Shaped'
<1>1. Init => Shaped
  BY DEF Init, Idle, Shaped
<1>2. ASSUME Shaped, [Next]_vars PROVE Shaped'
  <2>1. CASE Restart
    BY <2>1 DEF Restart, Idle, Shaped
  <2>2. CASE Reconcile
    BY <2>2 DEF Reconcile, Idle, Shaped
  <2>3. CASE ListFails \/ ConnectorDone
    BY <2>3 DEF ListFails, ConnectorDone, NextConnector, Idle, Shaped
  <2>4. CASE ListApplications \/ ListPipelines \/ ListKustomizations
    BY <1>2, <2>4
       DEF ListApplications, ListPipelines, ListKustomizations, Found, Shaped
  <2>5. CASE ListGitRepositories
    BY <1>2, <2>5 DEF ListGitRepositories, Shaped
  <2>6. ASSUME NEW o \in DOMAIN discovery.found, Put(o) PROVE Shaped'
    <3> DEFINE rest == DOMAIN discovery.found \ {o}
               found == [p \in rest |-> discovery.found[p]]
    <3>1. discovery' = [discovery EXCEPT !.found = found]
      BY <2>6 DEF Put
    <3> HIDE DEF found
    <3> QED
      BY <1>2, <3>1 DEF Shaped
  <2>7. CASE UNCHANGED discovery
    BY <1>2, <2>7 DEF Shaped
  <2> QED
    BY <1>2, <2>1, <2>2, <2>3, <2>4, <2>5, <2>6, <2>7
       DEF Next, Work, Apply, vars
<1> QED
  BY <1>1, <1>2

-----------------------------------------------------------------------------
(* A round that nothing disturbs.                                          *)

Kinds == {"argocd", "flux", "tekton"}

(* The connectors left, the first one in work, at each point of a round. *)
RoundShaped ==
    /\ installed \subseteq Kinds
    /\ discovery.pc \in {"idle", "list", "pair", "put"}
    /\ discovery.left \in
          {<<>>, <<"tekton">>, <<"flux", "tekton">>, <<"argocd", "flux", "tekton">>}
    /\ (discovery.pc = "idle") <=> (discovery.left = <<>>)
    /\ discovery.pc = "pair" => Connector = "flux" /\ "flux" \in installed
    /\ discovery.pc = "put" => Connector \in installed

Left == {discovery.left[i] : i \in DOMAIN discovery.left}

(* The name is registered, as one of the sources of that name is. *)
Settled(name) ==
    /\ name \in DOMAIN registry
    /\ \E last \in Named(name) : Follows(registry[name], last)

SettledBy(connector) ==
    \A o \in DOMAIN FoundBy(connector) : Settled(FoundBy(connector)[o].name)

(* In a quiet round the connectors that have had their turn have their     *)
(* sources registered; the one in work has listed what there is, and what  *)
(* it no longer has to put is registered.                                  *)
RoundOK ==
    /\ \A c \in installed \ Left : SettledBy(c)
    /\ discovery.pc = "pair" => discovery.repos = List("GitRepository")
    /\ discovery.pc = "put" =>
          /\ \A o \in DOMAIN discovery.found : discovery.found[o] \in Present
          /\ \A o \in DOMAIN FoundBy(Connector) :
                \/ /\ o \in DOMAIN discovery.found
                   /\ discovery.found[o] = FoundBy(Connector)[o]
                \/ Settled(FoundBy(Connector)[o].name)

RoundInv == Shaped /\ RoundShaped /\ (quiet => RoundOK)

(* What the cluster holds, and what there is to be found in it, changes    *)
(* with the resources only.                                                *)
LEMMA SameCluster ==
    ASSUME UNCHANGED <<installed, objects>>
    PROVE  /\ \A kind : List(kind)' = List(kind)
           /\ \A c : FoundBy(c)' = FoundBy(c)
           /\ Present' = Present
           /\ \A n : Named(n)' = Named(n)
<1>1. ASSUME NEW kind PROVE List(kind)' = List(kind)
  BY DEF List, Listed
<1>2. ASSUME NEW c PROVE FoundBy(c)' = FoundBy(c)
  BY <1>1 DEF FoundBy
<1>3. Present' = Present
  BY <1>2 DEF Present
<1> QED
  BY <1>1, <1>2, <1>3 DEF Named

LEMMA FoundIsPresent ==
    ASSUME NEW c \in installed, NEW o \in DOMAIN FoundBy(c)
    PROVE  FoundBy(c)[o] \in Present
BY DEF Present

LEMMA SettledStays ==
    ASSUME UNCHANGED <<installed, objects, registry>>
    PROVE  /\ \A n : Settled(n)' <=> Settled(n)
           /\ \A c : SettledBy(c)' <=> SettledBy(c)
<1>1. ASSUME NEW n PROVE Settled(n)' <=> Settled(n)
  BY SameCluster DEF Settled
<1>2. ASSUME NEW c PROVE SettledBy(c)' <=> SettledBy(c)
  BY <1>1, SameCluster DEF SettledBy
<1> QED
  BY <1>1, <1>2

(* To put a source that is present settles its name and unsettles none. *)
LEMMA PutSettles ==
    ASSUME NEW o \in DOMAIN discovery.found, Put(o),
           NEW src \in Present, src = discovery.found[o]
    PROVE  /\ Settled(src.name)'
           /\ \A n : Settled(n) => Settled(n)'
<1>1. UNCHANGED <<installed, objects>> /\ \A n : Named(n)' = Named(n)
  BY SameCluster DEF Put
<1>2. src \in Named(src.name)
  BY DEF Named
<1>3. /\ src.name \in DOMAIN registry'
      /\ Follows(registry'[src.name], src)
  <2>1. CASE src.name \in DOMAIN registry /\ ~SourceChanged(registry[src.name], src)
    BY <2>1 DEF Put, SourceChanged, Follows
  <2>2. CASE ~(src.name \in DOMAIN registry
               /\ ~SourceChanged(registry[src.name], src))
    <3>1. registry' = [n \in DOMAIN registry \cup {src.name} |->
                          IF n = src.name THEN src ELSE registry[n]]
      BY <2>2 DEF Put
    <3>2. src.name \in DOMAIN registry' /\ registry'[src.name] = src
      BY <3>1
    <3> QED
      BY <3>2 DEF Follows
  <2> QED
    BY <2>1, <2>2
<1>4. Settled(src.name)'
  BY <1>1, <1>2, <1>3 DEF Settled
<1>5. ASSUME NEW n, n # src.name, n \in DOMAIN registry
      PROVE  n \in DOMAIN registry' /\ registry'[n] = registry[n]
  <2>1. \/ registry' = registry
        \/ registry' = [m \in DOMAIN registry \cup {src.name} |->
                            IF m = src.name THEN src ELSE registry[m]]
    BY DEF Put
  <2> QED
    BY <1>5, <2>1
<1>6. ASSUME NEW n, n # src.name, Settled(n) PROVE Settled(n)'
  BY <1>1, <1>5, <1>6 DEF Settled
<1> QED
  BY <1>4, <1>6

(* On to the next connector: the one that was in work is done. *)
LEMMA NextConnectorShaped ==
    ASSUME RoundShaped, discovery.pc # "idle", discovery' = NextConnector,
           installed' = installed
    PROVE  /\ RoundShaped'
           /\ discovery'.pc \in {"idle", "list"}
           /\ Left = {Connector} \cup Left'
<1> DEFINE left == Tail(discovery.left)
<1>1. /\ discovery'.pc = IF left = <<>> THEN "idle" ELSE "list"
      /\ discovery'.left = left
  BY DEF NextConnector, Idle
<1>2. CASE discovery.left = <<"tekton">>
  <2>1. left = <<>> /\ Connector = "tekton"
    BY <1>2 DEF Connector
  <2> QED
    BY <1>1, <1>2, <2>1 DEF RoundShaped, Left
<1>3. CASE discovery.left = <<"flux", "tekton">>
  <2>1. left = <<"tekton">> /\ Connector = "flux"
    BY <1>3 DEF Connector
  <2>2. Left = {"flux", "tekton"} /\ Left' = {"tekton"}
    BY <1>1, <1>3, <2>1 DEF Left
  <2> QED
    BY <1>1, <2>1, <2>2 DEF RoundShaped
<1>4. CASE discovery.left = <<"argocd", "flux", "tekton">>
  <2>1. left = <<"flux", "tekton">> /\ Connector = "argocd"
    BY <1>4 DEF Connector
  <2>2. Left = {"argocd", "flux", "tekton"} /\ Left' = {"flux", "tekton"}
    BY <1>1, <1>4, <2>1 DEF Left
  <2> QED
    BY <1>1, <2>1, <2>2 DEF RoundShaped
<1> QED
  BY <1>2, <1>3, <1>4 DEF RoundShaped

(* A connector's last list: its sources are to be put. *)
LEMMA FoundRound ==
    ASSUME RoundInv, discovery.pc \in {"list", "pair"}, Connector \in installed,
           NEW sources, Found(sources),
           UNCHANGED <<installed, objects, registry, quiet>>,
           quiet => Parsed(sources) = FoundBy(Connector)
    PROVE  RoundShaped' /\ (quiet' => RoundOK')
<1>1. /\ discovery'.pc = "put"
      /\ discovery'.left = discovery.left
      /\ discovery'.found = Parsed(sources)
  BY DEF Found, RoundInv, Shaped
<1>2. Connector' = Connector /\ Left' = Left
  BY <1>1 DEF Connector, Left
<1>3. RoundShaped'
  BY <1>1, <1>2 DEF RoundInv, RoundShaped
<1>4. ASSUME quiet PROVE RoundOK'
  <2>1. discovery'.found = FoundBy(Connector)
    BY <1>1, <1>4
  <2>2. \A o \in DOMAIN discovery'.found : discovery'.found[o] \in Present'
    BY <2>1, FoundIsPresent, SameCluster
  <2>3. FoundBy(Connector)' = discovery'.found
    <3>1. PICK c0 : c0 = Connector
      OBVIOUS
    <3>2. FoundBy(c0)' = FoundBy(c0)
      BY SameCluster
    <3> QED
      BY <1>2, <2>1, <3>1, <3>2
  <2>4. \A c \in (installed \ Left)' : SettledBy(c)'
    BY <1>2, <1>4, SettledStays DEF RoundInv, RoundOK
  <2> QED
    BY <1>1, <2>2, <2>3, <2>4 DEF RoundOK
<1> QED
  BY <1>3, <1>4

LEMMA PutRound ==
    ASSUME RoundInv, NEW o \in DOMAIN discovery.found, Put(o)
    PROVE  RoundShaped' /\ (quiet' => RoundOK')
<1> DEFINE rest == DOMAIN discovery.found \ {o}
           found == [p \in rest |-> discovery.found[p]]
<1>1. discovery' = [discovery EXCEPT !.found = found]
  BY DEF Put
<1>2. DOMAIN found = rest /\ \A p \in rest : found[p] = discovery.found[p]
  OBVIOUS
<1> HIDE DEF found
<1>3. /\ discovery.pc = "put"
      /\ discovery'.pc = "put"
      /\ discovery'.left = discovery.left
      /\ discovery'.found = found
      /\ UNCHANGED <<installed, objects, quiet>>
  BY <1>1 DEF Put, RoundInv, Shaped
<1>4. Connector' = Connector /\ Left' = Left
  BY <1>3 DEF Connector, Left
<1>5. RoundShaped'
  BY <1>3, <1>4 DEF RoundInv, RoundShaped
<1>6. ASSUME quiet PROVE RoundOK'
  <2>0. RoundOK
    BY <1>6 DEF RoundInv
  <2>1. PICK src \in Present : src = discovery.found[o]
    BY <1>3, <2>0 DEF RoundOK
  <2>2. Settled(src.name)' /\ \A n : Settled(n) => Settled(n)'
    BY <2>1, PutSettles
  <2>3. PICK c : c = Connector
    OBVIOUS
  <2>4. \A k : FoundBy(k)' = FoundBy(k)
    BY <1>3, SameCluster
  <2>5. \A k \in (installed \ Left)' : SettledBy(k)'
    BY <1>3, <1>4, <2>0, <2>2, <2>4 DEF RoundOK, SettledBy
  <2>6. \A p \in DOMAIN found : found[p] \in Present'
    BY <1>2, <1>3, <2>0, SameCluster DEF RoundOK
  <2>7. ASSUME NEW p \in DOMAIN FoundBy(c)
        PROVE  \/ p \in DOMAIN found /\ found[p] = FoundBy(c)[p]
               \/ Settled(FoundBy(c)[p].name)'
    <3>0. PICK n : n = FoundBy(c)[p].name
      OBVIOUS
    <3>1. \/ p \in DOMAIN discovery.found /\ discovery.found[p] = FoundBy(c)[p]
          \/ Settled(n)
      BY <1>3, <2>0, <2>3, <2>7, <3>0 DEF RoundOK
    <3>2. FoundBy(c)'[p].name = n
      BY <2>4, <3>0
    <3> QED
      BY <1>2, <2>1, <2>2, <3>0, <3>1, <3>2
  <2> QED
    BY <1>2, <1>3, <1>4, <2>3, <2>4, <2>5, <2>6, <2>7 DEF RoundOK
<1> QED
  BY <1>3, <1>5, <1>6

LEMMA RoundInvInit == Init => RoundInv
<1> SUFFICES ASSUME Init PROVE RoundInv
  OBVIOUS
<1>1. discovery.pc = "idle" /\ discovery.left = <<>> /\ quiet = FALSE
  BY DEF Init, Idle
<1>2. installed \subseteq Kinds
  BY CrdAssumption DEF Init, Kinds
<1> QED
  BY <1>1, <1>2, ShapedInductive DEF RoundInv, RoundShaped

(* A step that changes the cluster, or fails, ends the quiet. *)
LEMMA LoudRound ==
    ASSUME RoundShaped, UNCHANGED <<installed, discovery>>, quiet' = FALSE
    PROVE  RoundShaped' /\ (quiet' => RoundOK')
BY DEF RoundShaped, Connector

(* All connectors are left when a round begins. *)
LEMMA ReconcileRound ==
    ASSUME RoundInv, Reconcile
    PROVE  RoundShaped' /\ (quiet' => RoundOK')
<1>1. /\ discovery'.pc = "list"
      /\ discovery'.left = <<"argocd", "flux", "tekton">>
      /\ installed' = installed
  BY DEF Reconcile, Idle, Connectors
<1>2. RoundShaped'
  BY <1>1 DEF RoundInv, RoundShaped
<1>3. Left' = Kinds
  BY <1>1 DEF Left, Kinds
<1> QED
  BY <1>1, <1>2, <1>3 DEF RoundOK, RoundShaped

(* The turn of a connector ends: it has put all its sources, or the        *)
(* cluster does not have it, or the round is no longer quiet.              *)
LEMMA TurnEnds ==
    ASSUME RoundInv, discovery.pc # "idle", discovery' = NextConnector,
           UNCHANGED <<installed, objects, registry>>,
           quiet' => quiet /\ (Connector \in installed => SettledBy(Connector))
    PROVE  RoundShaped' /\ (quiet' => RoundOK')
<1>1. /\ RoundShaped'
      /\ discovery'.pc \in {"idle", "list"}
      /\ Left = {Connector} \cup Left'
  BY NextConnectorShaped DEF RoundInv
<1>2. ASSUME quiet' PROVE RoundOK'
  <2>1. \A c \in installed \ Left' : SettledBy(c)
    BY <1>1, <1>2 DEF RoundInv, RoundOK
  <2>2. \A c \in (installed \ Left)' : SettledBy(c)'
    BY <2>1, SettledStays
  <2> QED
    BY <1>1, <2>2 DEF RoundOK
<1> QED
  BY <1>1, <1>2

LEMMA RoundInvInductive ==
    /\ Init => RoundInv
    /\ RoundInv /\ [Next]_vars => RoundInv'
<1>1. ASSUME RoundInv, [Next]_vars PROVE RoundInv'
  <2>0. Shaped /\ RoundShaped /\ Shaped'
    BY <1>1, ShapedInductive DEF RoundInv
  <2> SUFFICES RoundShaped' /\ (quiet' => RoundOK')
    BY <2>0 DEF RoundInv
  <2>1. ASSUME NEW k \in Resources, Apply(k)
        PROVE  RoundShaped' /\ (quiet' => RoundOK')
    BY <2>0, <2>1, LoudRound DEF Apply
  <2>2. CASE Restart
    <3>1. /\ discovery'.pc = "idle"
          /\ discovery'.left = <<>>
          /\ installed' = installed
          /\ quiet' = FALSE
      BY <2>2 DEF Restart, Idle
    <3> QED
      BY <2>0, <3>1 DEF RoundShaped
  <2>3. CASE Reconcile
    BY <1>1, <2>3, ReconcileRound
  <2>4. CASE ListApplications
    <3>1. Parsed(ArgoFound(List("Application"))) = FoundBy("argocd")
      BY DEF FoundBy
    <3> QED
      BY <1>1, <2>4, <3>1, FoundRound DEF ListApplications, Listing
  <2>5. CASE ListGitRepositories
    <3>1. /\ discovery'.pc = "pair"
          /\ discovery'.left = discovery.left
          /\ discovery'.repos = List("GitRepository")
          /\ discovery.pc = "list" /\ Connector = "flux" /\ "flux" \in installed
          /\ UNCHANGED <<installed, objects, registry, quiet>>
      BY <2>0, <2>5 DEF ListGitRepositories, Listing, Shaped
    <3>2. Connector' = Connector /\ Left' = Left
      BY <3>1 DEF Connector, Left
    <3>3. RoundShaped'
      BY <2>0, <3>1, <3>2 DEF RoundShaped
    <3>4. ASSUME quiet PROVE RoundOK'
      <4>1. \A c \in (installed \ Left)' : SettledBy(c)'
        BY <1>1, <3>1, <3>2, <3>4, SettledStays DEF RoundInv, RoundOK
      <4>2. discovery'.repos = List("GitRepository")'
        BY <3>1, SameCluster
      <4> QED
        BY <3>1, <4>1, <4>2 DEF RoundOK
    <3> QED
      BY <3>1, <3>3, <3>4
  <2>6. CASE ListKustomizations
    <3> DEFINE sources == FluxFound(discovery.repos, List("Kustomization"))
    <3>1. Connector = "flux" /\ Connector \in installed
      BY <2>0, <2>6 DEF ListKustomizations, RoundShaped
    <3>2. quiet => discovery.repos = List("GitRepository")
      BY <1>1, <2>6 DEF ListKustomizations, RoundInv, RoundOK
    <3>3. quiet => Parsed(sources) = FoundBy("flux")
      BY <3>2 DEF FoundBy
    <3> QED
      BY <1>1, <2>6, <3>1, <3>3, FoundRound DEF ListKustomizations
  <2>7. CASE ListPipelines
    <3>1. Parsed(TektonFound(List("Pipeline"))) = FoundBy("tekton")
      BY DEF FoundBy
    <3> QED
      BY <1>1, <2>7, <3>1, FoundRound DEF ListPipelines, Listing
  <2>8. CASE ListFails
    BY <1>1, <2>8, TurnEnds DEF ListFails, Failing
  <2>9. ASSUME NEW o \in DOMAIN discovery.found, Put(o)
        PROVE  RoundShaped' /\ (quiet' => RoundOK')
    BY <1>1, <2>9, PutRound
  <2>10. CASE ConnectorDone
    <3>1. quiet => SettledBy(Connector)
      BY <1>1, <2>10 DEF ConnectorDone, RoundInv, RoundOK, SettledBy
    <3> QED
      BY <1>1, <2>10, <3>1, TurnEnds DEF ConnectorDone
  <2>11. CASE UNCHANGED vars
    <3>1. UNCHANGED <<installed, objects, registry, discovery, quiet>>
      BY <2>11 DEF vars
    <3>2. Connector' = Connector /\ Left' = Left /\ RoundShaped'
      BY <2>0, <3>1 DEF Connector, Left, RoundShaped
    <3>3. ASSUME quiet PROVE RoundOK'
      <4>1. RoundOK
        BY <1>1, <3>3 DEF RoundInv
      <4>2. PICK c : c = Connector
        OBVIOUS
      <4>3. FoundBy(c)' = FoundBy(c) /\ \A n : Settled(n)' <=> Settled(n)
        BY <3>1, SameCluster, SettledStays
      <4>4. \A k \in (installed \ Left)' : SettledBy(k)'
        BY <3>1, <3>2, <4>1, SettledStays DEF RoundOK
      <4>5. discovery'.repos = discovery.repos
              /\ List("GitRepository")' = List("GitRepository")
              /\ Present' = Present
        BY <3>1, SameCluster
      <4> QED
        BY <3>1, <3>2, <4>1, <4>2, <4>3, <4>4, <4>5 DEF RoundOK
    <3> QED
      BY <3>1, <3>2, <3>3
  <2> QED
    BY <1>1, <2>1, <2>2, <2>3, <2>4, <2>5, <2>6, <2>7, <2>8, <2>9, <2>10, <2>11
       DEF Next, Work
<1> QED
  BY <1>1, RoundInvInit

(* A round that nothing disturbs brings the registry up to date, whatever  *)
(* it held, however many resources there are and in whichever order their  *)
(* sources are put: lists that fail for want of a CRD cost the other       *)
(* connectors nothing, and the two lists of Flux are matched with each     *)
(* other as they stand.                                                    *)
THEOREM QuietRoundsRegister == Spec => []QuietRoundRegisters
<1>1. RoundInv => QuietRoundRegisters
  <2> SUFFICES ASSUME RoundInv, quiet, discovery.pc = "idle", NEW src \in Present
               PROVE  /\ src.name \in DOMAIN registry
                      /\ \E last \in Named(src.name) :
                            Follows(registry[src.name], last)
    BY DEF QuietRoundRegisters
  <2>1. Left = {}
    BY DEF RoundInv, RoundShaped, Left
  <2>2. PICK c \in installed : \E o \in DOMAIN FoundBy(c) : src = FoundBy(c)[o]
    BY DEF Present
  <2>3. Settled(src.name)
    BY <2>1, <2>2 DEF RoundInv, RoundOK, SettledBy
  <2> QED
    BY <2>3 DEF Settled
<1> QED
  BY <1>1, RoundInvInductive, PTL DEF Spec

-----------------------------------------------------------------------------
(* The types.                                                              *)

(* What a source is before Parsed has looked at its upstream. *)
Formed(src) ==
    /\ src.name \in SourceNames
    /\ src.upstream = ParseRepoURL(src.repository)
    /\ src.branch # ""

AllFormed(found) == \A o \in DOMAIN found : Formed(found[o])

AllSourceOK(found) == \A o \in DOMAIN found : SourceOK(found[o])

LEMMA NameTypes ==
    /\ \A k \in Resources : <<k.name>> \in SourceNames
    /\ \A k, ks \in Resources : <<k.name, ks.name>> \in SourceNames
BY DEF SourceNames

LEMMA ListTypes == ASSUME NEW kind PROVE DOMAIN List(kind) \subseteq Resources
BY DEF List, Listed

(* Every connector falls back to "main". *)
LEMMA ArgoFormed ==
    ASSUME NEW apps, DOMAIN apps \subseteq Resources
    PROVE  AllFormed(ArgoFound(apps))
<1>1. ASSUME NEW o \in DOMAIN ArgoFound(apps) PROVE Formed(ArgoFound(apps)[o])
  <2>1. PICK k \in DOMAIN apps : o = <<k>>
    BY DEF ArgoFound
  <2>2. ArgoFound(apps)[o] = ArgoSource(k, apps[k])
    BY <2>1 DEF ArgoFound
  <2>3. Formed(ArgoSource(k, apps[k]))
    BY NameTypes DEF Formed, ArgoSource
  <2> QED
    BY <2>2, <2>3
<1> QED
  BY <1>1 DEF AllFormed

LEMMA TektonFormed ==
    ASSUME NEW pipelines, DOMAIN pipelines \subseteq Resources
    PROVE  AllFormed(TektonFound(pipelines))
<1>1. ASSUME NEW o \in DOMAIN TektonFound(pipelines)
      PROVE  Formed(TektonFound(pipelines)[o])
  <2>1. PICK k \in DOMAIN pipelines : o = <<k>>
    BY DEF TektonFound
  <2>2. TektonFound(pipelines)[o] = TektonSource(k, pipelines[k])
    BY <2>1 DEF TektonFound
  <2>3. Formed(TektonSource(k, pipelines[k]))
    BY NameTypes DEF Formed, TektonSource
  <2> QED
    BY <2>2, <2>3
<1> QED
  BY <1>1 DEF AllFormed

(* A Kustomization changes the name of its GitRepository's source, and     *)
(* neither the repository nor the branch.                                  *)
LEMMA FluxFormed ==
    ASSUME NEW repos, DOMAIN repos \subseteq Resources,
           NEW kustomizations, DOMAIN kustomizations \subseteq Resources
    PROVE  AllFormed(FluxFound(repos, kustomizations))
<1> DEFINE found == FluxFound(repos, kustomizations)
<1>1. ASSUME NEW o \in DOMAIN found PROVE Formed(found[o])
  <2> DEFINE single == GitRepositorySource(o[1], repos[o[1]])
             double == KustomizationSource(o[1], repos[o[1]],
                                           o[2], kustomizations[o[2]])
  <2>1. \/ o[1] \in DOMAIN repos /\ found[o] = single
        \/ /\ o[1] \in DOMAIN repos /\ o[2] \in DOMAIN kustomizations
           /\ found[o] = double
    BY DEF FluxFound
  <2>2. FluxBranch(repos[o[1]]) # ""
    BY DEF FluxBranch
  <2>3. o[1] \in Resources => Formed(single)
    BY <2>2, NameTypes DEF Formed, GitRepositorySource
  <2>4. o[1] \in Resources /\ o[2] \in Resources => Formed(double)
    BY <2>2, NameTypes DEF Formed, KustomizationSource, GitRepositorySource
  <2> HIDE DEF found, single, double
  <2> QED
    BY <2>1, <2>3, <2>4
<1> QED
  BY <1>1 DEF AllFormed

LEMMA ParsedOK ==
    ASSUME NEW found, AllFormed(found)
    PROVE  AllSourceOK(Parsed(found))
BY DEF AllFormed, Formed, AllSourceOK, SourceOK, Parsed

(* The registry takes a source as it was found, under its name. *)
LEMMA PutTypes ==
    ASSUME Shaped, TypeOK, NEW o \in DOMAIN discovery.found, Put(o)
    PROVE  /\ DOMAIN registry' \subseteq SourceNames
           /\ \A n \in DOMAIN registry' :
                 SourceOK(registry'[n]) /\ registry'[n].name = n
           /\ discovery'.repos = discovery.repos
           /\ AllSourceOK(discovery'.found)
<1> DEFINE rest == DOMAIN discovery.found \ {o}
           found == [p \in rest |-> discovery.found[p]]
<1>1. PICK src : src = discovery.found[o]
  OBVIOUS
<1>2. SourceOK(src)
  BY <1>1 DEF TypeOK
<1>3. discovery' = [discovery EXCEPT !.found = found]
  BY DEF Put
<1>4. discovery'.repos = discovery.repos /\ AllSourceOK(discovery'.found)
  BY <1>3 DEF TypeOK, AllSourceOK, Shaped
<1>5. \/ registry' = registry
      \/ registry' = [n \in DOMAIN registry \cup {src.name} |->
                         IF n = src.name THEN src ELSE registry[n]]
  BY <1>1 DEF Put
<1>6. /\ DOMAIN registry' \subseteq SourceNames
      /\ \A n \in DOMAIN registry' :
            SourceOK(registry'[n]) /\ registry'[n].name = n
  <2>1. CASE registry' = registry
    BY <2>1 DEF TypeOK
  <2>2. CASE registry' = [n \in DOMAIN registry \cup {src.name} |->
                            IF n = src.name THEN src ELSE registry[n]]
    <3>1. /\ DOMAIN registry' = DOMAIN registry \cup {src.name}
          /\ \A n \in DOMAIN registry' :
                registry'[n] = IF n = src.name THEN src ELSE registry[n]
      BY <2>2
    <3>2. src.name \in SourceNames
      BY <1>2 DEF SourceOK
    <3> QED
      BY <1>2, <3>1, <3>2 DEF TypeOK
  <2> QED
    BY <1>5, <2>1, <2>2
<1> QED
  BY <1>4, <1>6

LEMMA TypeInit == Init => TypeOK
<1> SUFFICES ASSUME Init PROVE TypeOK
  OBVIOUS
<1>1. DOMAIN objects = Resources
        /\ \A k \in Resources : objects[k] \in Manifests[k] \cup {None}
  BY ResourceAssumption DEF Init
<1>2. registry = Nothing /\ DOMAIN Nothing = {}
  BY DEF Init, Nothing
<1>3. /\ discovery.pc = "idle" /\ discovery.left = <<>>
      /\ discovery.repos = Nothing /\ discovery.found = Nothing
  BY DEF Init, Idle
<1>4. installed \in CrdSets /\ quiet = FALSE /\ changes = 0
  BY DEF Init
<1>5. quiet \in BOOLEAN
  BY <1>4
<1>6. changes \in 0..MaxChanges
  BY <1>4, BoundAssumption
<1> QED
  BY <1>1, <1>2, <1>3, <1>4, <1>5, <1>6 DEF TypeOK

(* The variables a step of the worker leaves alone keep their types. *)
LEMMA TypeStep ==
    ASSUME RoundInv, RoundInv', TypeOK, [Next]_vars
    PROVE  TypeOK'
<1> DEFINE Registered ==
             /\ DOMAIN registry \subseteq SourceNames
             /\ \A n \in DOMAIN registry :
                   SourceOK(registry[n]) /\ registry[n].name = n
           Worker == /\ DOMAIN discovery.repos \subseteq Resources
                     /\ AllSourceOK(discovery.found)
<1>0. /\ Shaped
      /\ Registered
      /\ Worker
      /\ changes \in 0..MaxChanges
  BY DEF RoundInv, TypeOK, AllSourceOK
<1>1. /\ installed' = installed
      /\ DOMAIN objects' = Resources
      /\ \A k \in Resources : objects'[k] \in Manifests[k] \cup {None}
      /\ quiet' \in BOOLEAN
  <2>1. ASSUME NEW k \in Resources, Apply(k)
        PROVE  /\ DOMAIN objects' = Resources
               /\ \A j \in Resources : objects'[j] \in Manifests[j] \cup {None}
    BY <2>1 DEF Apply, TypeOK
  <2>2. UNCHANGED objects \/ \E k \in Resources : Apply(k)
    BY DEF Next, Work, Restart, Reconcile, ListApplications, ListGitRepositories,
           ListKustomizations, ListPipelines, ListFails, Put, ConnectorDone, vars
  <2>3. installed' = installed /\ quiet' \in BOOLEAN
    BY DEF Next, Work, Apply, Restart, Reconcile, ListApplications,
           ListGitRepositories, ListKustomizations, ListPipelines, ListFails,
           Failing, Put, ConnectorDone, vars, TypeOK
  <2> QED
    BY <2>1, <2>2, <2>3 DEF TypeOK
<1>2. changes' \in 0..MaxChanges
  <2>1. Disturb => changes' \in 0..MaxChanges
    BY <1>0, BoundAssumption DEF Disturb
  <2>2. Disturb \/ UNCHANGED changes
    BY DEF Next, Work, Apply, Restart, Reconcile, ListApplications,
           ListGitRepositories, ListKustomizations, ListPipelines, ListFails,
           Failing, Put, ConnectorDone, vars
  <2> QED
    BY <1>0, <2>1, <2>2
<1>3. Registered' /\ Worker'
  <2>1. DOMAIN Nothing = {}
    BY DEF Nothing
  <2>2. ASSUME discovery'.repos = Nothing, discovery'.found = Nothing
        PROVE  Worker'
    BY <2>1, <2>2 DEF AllSourceOK
  <2>3. UNCHANGED registry => Registered'
    BY <1>0
  <2>4. ASSUME NEW sources, AllFormed(sources), Found(sources) PROVE Worker'
    <3>1. discovery'.found = Parsed(sources) /\ discovery'.repos = Nothing
      BY <1>0, <2>4 DEF Found, Shaped
    <3> QED
      BY <2>1, <2>4, <3>1, ParsedOK DEF AllSourceOK
  <2>5. CASE UNCHANGED <<registry, discovery>>
    BY <1>0, <2>5 DEF AllSourceOK
  <2>6. CASE Restart
    BY <2>1, <2>2, <2>6 DEF Restart, Idle
  <2>7. CASE Reconcile
    BY <2>2, <2>3, <2>7 DEF Reconcile, Idle
  <2>8. CASE ListFails \/ ConnectorDone
    BY <2>2, <2>3, <2>8 DEF ListFails, ConnectorDone, NextConnector, Idle
  <2>9. CASE ListApplications
    BY <2>3, <2>4, <2>9, ArgoFormed, ListTypes DEF ListApplications
  <2>10. CASE ListPipelines
    BY <2>3, <2>4, <2>10, TektonFormed, ListTypes DEF ListPipelines
  <2>11. CASE ListKustomizations
    BY <1>0, <2>3, <2>4, <2>11, FluxFormed, ListTypes DEF ListKustomizations
  <2>12. CASE ListGitRepositories
    <3>1. /\ discovery'.found = discovery.found
          /\ discovery'.repos = List("GitRepository")
          /\ UNCHANGED registry
      BY <1>0, <2>12 DEF ListGitRepositories, Shaped
    <3> QED
      BY <1>0, <2>3, <3>1, ListTypes DEF AllSourceOK
  <2>13. ASSUME NEW o \in DOMAIN discovery.found, Put(o)
         PROVE  Registered' /\ Worker'
    BY <1>0, <2>13, PutTypes
  <2> QED
    BY <2>5, <2>6, <2>7, <2>8, <2>9, <2>10, <2>11, <2>12, <2>13
       DEF Next, Work, Apply, vars
<1>4. /\ discovery'.pc \in {"idle", "list", "pair", "put"}
      /\ discovery'.left \in
            {<<>>, <<"tekton">>, <<"flux", "tekton">>, <<"argocd", "flux", "tekton">>}
  BY DEF RoundInv, RoundShaped
<1>5. installed' \in CrdSets
  BY <1>1 DEF TypeOK
<1> QED
  BY <1>1, <1>2, <1>3, <1>4, <1>5 DEF TypeOK, AllSourceOK

(* For all manifests, clusters and interleavings, the registry holds only  *)
(* sources that a connector made, under their own names, with a branch and *)
(* an upstream that ParseRepoURL gave.                                     *)
THEOREM DiscoveryTypeCorrect == Spec => []TypeOK
BY TypeInit, TypeStep, RoundInvInductive, PTL DEF Spec

=============================================================================
