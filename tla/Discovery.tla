------------------------------ MODULE Discovery ------------------------------
(***************************************************************************)
(* DiscoveryController, its three connectors and the SourceRegistry they   *)
(* fill.  One round asks the connectors in turn; each lists its resources  *)
(* from the API server, turns them into sources, and these are put into    *)
(* the registry one by one, while users go on changing the resources.      *)
(* Flux needs two lists, which are not of the same moment.                 *)
(*                                                                         *)
(* A request names a Namespace, which is cluster-scoped: req.Namespace is  *)
(* "", and each round lists the resources of all namespaces, whichever     *)
(* namespace it was triggered for.  Rounds follow each other (RequeueAfter *)
(* and the events of other namespaces), never two at a time.               *)
(*                                                                         *)
(* An empty field of a manifest is "" or None.  The order in which a list  *)
(* comes is left open.  Labels, and with them the PipelineRuns that only   *)
(* set labels, the platform of a source and the namespace it deploys to    *)
(* are left out.                                                           *)
(***************************************************************************)
EXTENDS Naturals, Sequences, FiniteSets

CONSTANTS
    Manifests,   \* per resource users may create, the specs it may have
    CrdSets,     \* the sets of connectors whose CRDs a cluster may have
    MaxChanges,  \* bound on changes by users, failed lists and restarts
    None         \* nothing

VARIABLES
    installed,   \* the connectors whose CRDs the cluster has
    objects,     \* per resource, its spec in the cluster, or None
    registry,    \* SourceRegistry.sources
    discovery,   \* DiscoveryController's worker
    quiet,       \* nothing that matters to the round has changed or failed
                 \* since it began (history)
    changes      \* changes and faults so far

vars == <<installed, objects, registry, discovery, quiet, changes>>

(* A resource, as [kind, namespace, name]. *)
Resources == DOMAIN Manifests

ASSUME ResourceAssumption ==
    \A k \in Resources :
        /\ DOMAIN k = {"kind", "namespace", "name"}
        /\ k.kind \in {"Application", "GitRepository", "Kustomization", "Pipeline"}
        /\ Manifests[k] # {} /\ None \notin Manifests[k]

Connectors == <<"argocd", "flux", "tekton">>

ASSUME CrdAssumption ==
    \A crds \in CrdSets : crds \subseteq {"argocd", "flux", "tekton"}

ASSUME BoundAssumption == MaxChanges \in Nat

ConnectorOf(kind) ==
    CASE kind = "Application" -> "argocd"
      [] kind \in {"GitRepository", "Kustomization"} -> "flux"
      [] kind = "Pipeline" -> "tekton"

-----------------------------------------------------------------------------
(* ParseRepoURL.  A URL has a form, "scp" for git@host:path, "ssh" for     *)
(* ssh://git@host/path and "https", may name a port, and has a path, whose *)
(* segments it lists.  What comes after the first ":" of an SSH URL is     *)
(* taken for the path: with ssh:// that is the port and the path, and      *)
(* without a port there is none.  An answer is no promise that there is    *)
(* such an owner: the code cuts the path at its slashes and accepts empty  *)
(* segments.                                                               *)
Segments(url) ==
    CASE url.form = "ssh" /\ ~url.port -> <<>>
      [] url.form = "ssh" /\ url.port  -> <<"22">> \o url.path
      [] OTHER -> url.path

ParseRepoURL(url) ==
    IF url = None \/ Len(Segments(url)) < 2 THEN None
    ELSE [owner |-> Segments(url)[1], repo |-> Segments(url)[2]]

-----------------------------------------------------------------------------
(* The sources that the connectors make of resources.  The name of one is  *)
(* the sequence of names that the code joins with "/".                     *)

ArgoSource(k, spec) ==
    [name |-> <<k.name>>, repository |-> spec.url,
     branch |-> IF spec.revision \in {"", "HEAD"} THEN "main" ELSE spec.revision,
     paths |-> <<spec.path>>, namespace |-> k.namespace, sourceName |-> k.name,
     kind |-> "Application", upstream |-> ParseRepoURL(spec.url)]

FluxBranch(spec) ==
    CASE spec.branch # "" -> spec.branch
      [] spec.branch = "" /\ spec.tag # "" -> spec.tag
      [] OTHER -> "main"

GitRepositorySource(k, spec) ==
    [name |-> <<k.name>>, repository |-> spec.url, branch |-> FluxBranch(spec),
     paths |-> <<>>, namespace |-> k.namespace, sourceName |-> k.name,
     kind |-> "GitRepository", upstream |-> ParseRepoURL(spec.url)]

KustomizationSource(k, spec, ks, ksSpec) ==
    [GitRepositorySource(k, spec) EXCEPT
        !.name = <<k.name, ks.name>>,
        !.paths = IF ksSpec.path = "" THEN <<>> ELSE <<ksSpec.path>>,
        !.sourceName = ks.name,
        !.kind = "Kustomization"]

(* extractGitParams: the last parameter with one of the names wins. *)
UrlParams == {"git-url", "repo-url", "repository-url", "url"}
RevisionParams == {"git-revision", "revision", "branch"}

LastOf(params, names, default) ==
    LET hits == {i \in DOMAIN params : params[i].name \in names}
    IN  IF hits = {} THEN default
        ELSE params[CHOOSE i \in hits : \A j \in hits : j <= i].value

TektonSource(k, spec) ==
    LET url == LastOf(spec.params, UrlParams, None)
        revision == LastOf(spec.params, RevisionParams, "")
    IN  [name |-> <<k.name>>, repository |-> url,
         branch |-> IF revision = "" THEN "main" ELSE revision,
         paths |-> <<>>, namespace |-> k.namespace, sourceName |-> k.name,
         kind |-> "Pipeline", upstream |-> ParseRepoURL(url)]

-----------------------------------------------------------------------------
(* What the connectors find: per origin, one resource or a GitRepository   *)
(* and its Kustomization, the source.                                      *)

Listed(kind) == {k \in Resources : k.kind = kind /\ objects[k] # None}

(* Mutant: every source is kept. *)
ParsedOrNot(found) == found

(* A source whose repository cannot be told is skipped. *)
Parsed(found) ==
    [o \in {p \in DOMAIN found : found[p].upstream # None} |-> found[o]]

(* The specs of the resources of a kind, as a list returns them. *)
List(kind) == [k \in Listed(kind) |-> objects[k]]

ArgoFound(apps) == [o \in {<<k>> : k \in DOMAIN apps} |-> ArgoSource(o[1], apps[o[1]])]

TektonFound(pipelines) ==
    [o \in {<<k>> : k \in DOMAIN pipelines} |-> TektonSource(o[1], pipelines[o[1]])]

(* The index of Kustomizations has the kind and the name of what they      *)
(* refer to, and not the namespace.                                        *)
References(ksSpec, k) == ksSpec.refKind = "GitRepository" /\ ksSpec.ref = k.name

FluxFound(repos, kustomizations) ==
    LET refs(k) == {ks \in DOMAIN kustomizations : References(kustomizations[ks], k)}
        alone == {k \in DOMAIN repos : refs(k) = {}}
        pairs == UNION {{<<k, ks>> : ks \in refs(k)} : k \in DOMAIN repos}
    IN  [o \in {<<k>> : k \in alone} \cup pairs |->
            IF o \in pairs
            THEN KustomizationSource(o[1], repos[o[1]], o[2], kustomizations[o[2]])
            ELSE GitRepositorySource(o[1], repos[o[1]])]

(* What a connector would find, were nothing to change meanwhile. *)
FoundBy(connector) ==
    Parsed(CASE connector = "argocd" -> ArgoFound(List("Application"))
             [] connector = "flux" ->
                  FluxFound(List("GitRepository"), List("Kustomization"))
             [] connector = "tekton" -> TektonFound(List("Pipeline")))

-----------------------------------------------------------------------------
Nothing == [o \in {} |-> None]

(* The connectors that are left, the first one in work: its lists, the     *)
(* GitRepositories that Flux has listed, the sources not yet put.          *)
Idle == [pc |-> "idle", left |-> <<>>, repos |-> Nothing, found |-> Nothing]

(* The resources that the cluster has a CRD for. *)
Possible == {k \in Resources : ConnectorOf(k.kind) \in installed}

Init ==
    /\ installed \in CrdSets
    /\ \E present \in SUBSET Possible :
          objects = [k \in Resources |->
                        IF k \in present THEN CHOOSE spec \in Manifests[k] : TRUE
                        ELSE None]
    /\ registry = Nothing
    /\ discovery = Idle
    /\ quiet = FALSE
    /\ changes = 0

Disturb == changes < MaxChanges /\ changes' = changes + 1

(* A user creates, changes or deletes a resource. *)
Apply(k) ==
    /\ Disturb
    /\ k \in Possible
    /\ \E spec \in (Manifests[k] \cup {None}) \ {objects[k]} :
          objects' = [objects EXCEPT ![k] = spec]
    /\ quiet' = FALSE
    /\ UNCHANGED <<installed, registry, discovery>>

Restart ==
    /\ Disturb
    /\ registry' = Nothing
    /\ discovery' = Idle
    /\ quiet' = FALSE
    /\ UNCHANGED <<installed, objects>>

Reconcile ==
    /\ discovery.pc = "idle"
    /\ discovery' = [Idle EXCEPT !.pc = "list", !.left = Connectors]
    /\ quiet' = TRUE
    /\ UNCHANGED <<installed, objects, registry, changes>>

Connector == Head(discovery.left)

Listing(connector) ==
    /\ discovery.pc = "list"
    /\ Connector = connector
    /\ connector \in installed

Found(sources) ==
    discovery' = [discovery EXCEPT !.pc = "put", !.found = Parsed(sources),
                                   !.repos = Nothing]

ListApplications ==
    /\ Listing("argocd")
    /\ Found(ArgoFound(List("Application")))
    /\ UNCHANGED <<installed, objects, registry, quiet, changes>>

ListGitRepositories ==
    /\ Listing("flux")
    /\ discovery' = [discovery EXCEPT !.pc = "pair", !.repos = List("GitRepository")]
    /\ UNCHANGED <<installed, objects, registry, quiet, changes>>

ListKustomizations ==
    /\ discovery.pc = "pair"
    /\ Found(FluxFound(discovery.repos, List("Kustomization")))
    /\ UNCHANGED <<installed, objects, registry, quiet, changes>>

ListPipelines ==
    /\ Listing("tekton")
    /\ Found(TektonFound(List("Pipeline")))
    /\ UNCHANGED <<installed, objects, registry, quiet, changes>>

NextConnector ==
    LET left == Tail(discovery.left)
    IN  [Idle EXCEPT !.pc = IF left = <<>> THEN "idle" ELSE "list", !.left = left]

(* A list fails: always if there is no such CRD, now and then if there is. *)
Failing ==
    /\ discovery.pc \in {"list", "pair"}
    /\ IF Connector \in installed THEN Disturb /\ quiet' = FALSE
       ELSE UNCHANGED <<quiet, changes>>

(* Mutant: the error ends the round. *)
ListFailsForAll ==
    /\ Failing
    /\ discovery' = Idle
    /\ UNCHANGED <<installed, objects, registry>>

(* The error is logged, and the next connector has its turn. *)
ListFails ==
    /\ Failing
    /\ discovery' = NextConnector
    /\ UNCHANGED <<installed, objects, registry>>

(* Mutant: a new branch of the same repository is no change. *)
RepositoryChanged(old, new) == old.repository # new.repository

(* The paths are compared as they are printed: a list of one empty path    *)
(* looks like no list.                                                     *)
Printed(paths) == IF paths = <<"">> THEN <<>> ELSE paths

SourceChanged(old, new) ==
    \/ old.repository # new.repository
    \/ old.branch # new.branch
    \/ Printed(old.paths) # Printed(new.paths)

Put(o) ==
    LET src == discovery.found[o]
        rest == DOMAIN discovery.found \ {o}
    IN
    /\ discovery.pc = "put"
    /\ registry' =
          IF src.name \in DOMAIN registry /\ ~SourceChanged(registry[src.name], src)
          THEN registry
          ELSE [n \in DOMAIN registry \cup {src.name} |->
                   IF n = src.name THEN src ELSE registry[n]]
    /\ discovery' = [discovery EXCEPT !.found = [p \in rest |-> @[p]]]
    /\ UNCHANGED <<installed, objects, quiet, changes>>

ConnectorDone ==
    /\ discovery.pc = "put"
    /\ DOMAIN discovery.found = {}
    /\ discovery' = NextConnector
    /\ UNCHANGED <<installed, objects, registry, quiet, changes>>

Work ==
    \/ Reconcile
    \/ ListApplications \/ ListGitRepositories \/ ListKustomizations \/ ListPipelines
    \/ ListFails
    \/ \E o \in DOMAIN discovery.found : Put(o)
    \/ ConnectorDone

Next == (\E k \in Resources : Apply(k)) \/ Restart \/ Work

Spec == Init /\ [][Next]_vars

(* Rounds are requeued for ever, and lists are answered. *)
FairSpec == Spec /\ WF_vars(Work)

-----------------------------------------------------------------------------
(* Properties.                                                             *)

SourceNames ==
    LET names == {k.name : k \in Resources}
    IN  {<<n>> : n \in names} \cup (names \X names)

(* A source as Discover returns it: its URL could be cut into an owner and *)
(* a repository, right or wrong, and its branch has a default.             *)
SourceOK(src) ==
    /\ src.name \in SourceNames
    /\ src.upstream = ParseRepoURL(src.repository)
    /\ src.upstream # None
    /\ src.branch # ""

(* The type invariant: the values that the cluster, the registry and the   *)
(* worker take.  Each source stands in the registry under its own name.    *)
TypeOK ==
    /\ installed \in CrdSets
    /\ DOMAIN objects = Resources
    /\ \A k \in Resources : objects[k] \in Manifests[k] \cup {None}
    /\ DOMAIN registry \subseteq SourceNames
    /\ \A n \in DOMAIN registry : SourceOK(registry[n]) /\ registry[n].name = n
    /\ discovery.pc \in {"idle", "list", "pair", "put"}
    /\ discovery.left \in
          {<<>>, <<"tekton">>, <<"flux", "tekton">>, <<"argocd", "flux", "tekton">>}
    /\ DOMAIN discovery.repos \subseteq Resources
    /\ \A o \in DOMAIN discovery.found : SourceOK(discovery.found[o])
    /\ quiet \in BOOLEAN
    /\ changes \in 0..MaxChanges

Present ==
    UNION {LET found == FoundBy(c) IN {found[o] : o \in DOMAIN found} : c \in installed}

Named(n) == {src \in Present : src.name = n}

(* Every source that stays in the cluster is registered in the end, even   *)
(* if another connector's lists fail for ever.                             *)
EventuallyRegistered ==
    \A n \in SourceNames : <>[](Named(n) # {}) => <>[](n \in DOMAIN registry)

(* The fields that a scan uses and sourceChanged compares.  The namespace, *)
(* the kind and the resource of a registered source are not among them:    *)
(* they may be those of one that is gone.                                  *)
Follows(old, new) ==
    /\ old.repository = new.repository
    /\ old.branch = new.branch
    /\ Printed(old.paths) = Printed(new.paths)

(* A round during which nothing changes and no list of an installed        *)
(* connector fails leaves every source of the cluster registered with the  *)
(* repository, the branch and the paths that it has there, or that another *)
(* one of its name has: whatever the registry held before, in whichever    *)
(* order the sources come, and although the lists of the connectors        *)
(* without CRDs fail.                                                      *)
QuietRoundRegisters ==
    quiet /\ discovery.pc = "idle" =>
        \A src \in Present :
            /\ src.name \in DOMAIN registry
            /\ \E last \in Named(src.name) : Follows(registry[src.name], last)

(* A source that is alone with its name is registered in the end with the  *)
(* repository, the branch and the paths it has then, however the changes   *)
(* fell between the lists of a round and the registrations.                *)
EventuallyUpToDate ==
    \A n \in SourceNames :
        <>[](Cardinality(Named(n)) = 1) =>
            <>[](n \in DOMAIN registry /\ \A src \in Named(n) : Follows(registry[n], src))

=============================================================================
