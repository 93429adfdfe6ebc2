----------------------------- MODULE MCDiscovery -----------------------------
EXTENDS Discovery, TLC

Url(form, path) == [form |-> form, port |-> form = "ssh", path |-> path]

Resource(kind, namespace, name) ==
    [kind |-> kind, namespace |-> namespace, name |-> name]

Application(url, revision) ==
    [url |-> url, path |-> ".", revision |-> revision]

(* Two GitRepositories of one name, the Kustomization of one of them, an   *)
(* Application and a Pipeline.                                             *)
MCManifests ==
    Resource("Application", "argocd", "shop") :>
        {Application(Url("https", <<"org", "shop">>), "HEAD"),
         Application(Url("https", <<"org", "shop">>), "next"),
         Application(Url("https", <<"org">>), "HEAD")}
    @@ Resource("GitRepository", "team-a", "web") :>
        {[url |-> Url("scp", <<"org", "web">>), branch |-> "", tag |-> ""],
         [url |-> Url("scp", <<"org", "web">>), branch |-> "", tag |-> "v1"]}
    @@ Resource("GitRepository", "team-b", "web") :>
        {[url |-> Url("https", <<"fork", "web">>), branch |-> "main", tag |-> ""]}
    @@ Resource("Kustomization", "team-a", "apps") :>
        {[refKind |-> "GitRepository", ref |-> "web", path |-> "deploy"],
         [refKind |-> "OCIRepository", ref |-> "web", path |-> ""]}
    @@ Resource("Pipeline", "ci", "build") :>
        {[params |-> <<[name |-> "url", value |-> Url("ssh", <<"org", "ci">>)],
                       [name |-> "revision", value |-> "dev"]>>],
         [params |-> <<[name |-> "revision", value |-> ""]>>]}

MCCrdSets == {{"argocd", "flux", "tekton"}, {"flux", "tekton"}}

=============================================================================
