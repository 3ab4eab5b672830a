-------------------------------- MODULE Planner --------------------------------
(***************************************************************************)
(* From an intent to an execution plan (internal/planner).  Pure operators; *)
(* a plan is a record                                                      *)
(*    intent     the intent it was built from, as the builder left it      *)
(*    approval   RequiresApproval                                          *)
(*    actions    its actions: op, backend, object (a kind), name, ns, and  *)
(*               context, the one a Helm command names, else Unset         *)
(* Manifests, diffs and summaries are left out, and so are the live diffs  *)
(* and the blast radius, which never change what is done.  An image-like   *)
(* name is as good as an image parameter; the read contract's limits and a *)
(* missing helm binary are among the errors of Pipeline's PlanFails.       *)
(***************************************************************************)
EXTENDS Intents

NoPlan == [error |-> "none"]     \* the builder returned an error

Act(op, backend, object, name, ns) ==
    [op |-> op, backend |-> backend, object |-> object, name |-> name, ns |-> ns, context |-> Unset]
HelmAct(op, object, name, ns, context) ==
    [Act(op, "helm", object, name, ns) EXCEPT !.context = context]

IsAction(a) ==
    a = [op |-> a.op, backend |-> a.backend, object |-> a.object, name |-> a.name,
         ns |-> a.ns, context |-> a.context]
IsExecutionPlan(p) ==
    /\ p = [intent |-> p.intent, approval |-> p.approval, actions |-> p.actions]
    /\ IsIntent(p.intent) /\ p.approval \in BOOLEAN
    /\ Len(p.actions) \in Nat /\ p.actions = [i \in 1..Len(p.actions) |-> p.actions[i]]
    /\ \A i \in DOMAIN p.actions : IsAction(p.actions[i])

Reads(in, action) == [intent |-> in, approval |-> FALSE, actions |-> <<action>>]
Mutates(in, actions) == [intent |-> in, approval |-> TRUE, actions |-> actions]
Given(condition, plan) == IF condition THEN plan ELSE NoPlan
Has(in, key) == key \in DOMAIN in.params

(***************************************************************************)
(* Reads.                                                                  *)
(***************************************************************************)
ClusterKinds == {"Node", "Namespace", "PersistentVolume", "StorageClass", "ClusterRole"}

\* A kind of the cluster takes no namespace but the default one.
buildGet(in, ns) ==
    LET object == Or(in.object, "Pod")
        where  == IF object \in ClusterKinds THEN Unset ELSE ns
    IN  Given(/\ object = "Workflow" => in.name # Unset
              /\ object \in ClusterKinds => ns = "default",
              Reads([in EXCEPT !.object = object, !.ns = where],
                    Act("get", "kubernetes", object, in.name, where)))

Diagnosis(in, ns, objects, default) ==
    Given(in.name # Unset,
          Reads(in, Act("get", Unset, IF in.object \in objects THEN in.object ELSE default, in.name, ns)))

buildExplain(in, ns) == Diagnosis(in, ns, {"Pod", "Deployment"}, "Deployment")
buildImpact(in, ns) == Diagnosis(in, ns, {"Service", "Deployment"}, "Service")
buildTimeline(in, ns) ==
    buildExplain([in EXCEPT !.params = @ ++ [window |-> 60]], ns)
buildLogs(in, ns) == Given(Param(in, "tail", 100) >= 1, buildExplain(in, ns))

\* Queries look back over a window of a minute to a day.
Within(in, default, plan) ==
    Given(Param(in, "window", default) \in 1..1440,
          [plan EXCEPT !.intent.params = @ ++ [window |-> default]])

buildPerformance(in, ns) ==
    Given(in.name # Unset,
          Within(in, 15, Reads(in, Act("prom-query", "prometheus", "Deployment", in.name, ns))))
buildTrace(in) ==
    Given(in.name # Unset,
          Within(in, 60, Reads(in, Act("trace-query", "opentelemetry", "Service", in.name, Unset))))
buildDashboard(in) ==
    Reads(in, Act("grafana-query", "grafana", "Dashboard", Param(in, "uid", in.name), Unset))
buildIstio(in) ==
    Reads([in EXCEPT !.object = Or(@, "VirtualService")],
          Act("istio-traffic", "istio", "VirtualService", in.name, in.ns))
buildLearn(in) ==
    Reads([in EXCEPT !.object = Or(@, "Cluster")],
          Act("learn", "learn", Or(in.object, "Cluster"), Unset, Unset))

\* Reports leave the namespace out when their scope is the cluster.
Scope(in) == IF Param(in, "scope", Unset) = "cluster" THEN [in EXCEPT !.ns = Unset] ELSE in
Place(in) == IF Scope(in).ns = Unset THEN "Cluster" ELSE "Namespace"
Scan(in, backend, object) ==
    Reads([Scope(in) EXCEPT !.object = Or(@, object)],
          Act(in.kind, backend, Or(in.object, object), Unset, Scope(in).ns))

buildOptimize(in) == Within(in, 60, Scan(in, "optimize", "Cluster"))
buildRoast(in) == Scan(in, "roast", Place(in))
buildAudit(in) == Scan(in, "audit", Place(in))
buildCleanup(in) == Scan(in, "cleanup", Place(in))
buildScore(in) == Scan(in, "score", Place(in))
buildArchitecture(in) == Scan(in, "architecture", Place(in))
buildGraph(in) == Scan(in, "kubernetes", "ServiceGraph")
buildSearch(in) ==
    Given(Param(in, "query", Unset) # Unset,
          Scan([in EXCEPT !.object = IF @ \in {"Cluster", "Namespace"} THEN Unset ELSE @],
               "search", "Deployment"))
buildDrift(in) ==
    LET object == IF in.name = Unset THEN Or(in.object, Place(in)) ELSE in.object
    IN  Reads([Scope(in) EXCEPT !.object = object],
              Act("drift", "drift", Or(object, "Cluster"), in.name, Scope(in).ns))

(***************************************************************************)
(* Mutations.                                                              *)
(***************************************************************************)
EveryName == {"*", "all", "everything", "--all", "any"}
DeleteKinds == {"Pod", "Deployment", "Service", "Job", "ReplicaSet", "StatefulSet", "DaemonSet"}

buildDelete(in, ns) ==
    LET object == Or(in.object, "Deployment")
    IN  Given(in.name # Unset /\ in.name \notin EveryName /\ object \in DeleteKinds,
              Mutates(in, <<Act("delete", Unset, object, in.name, ns)>>))

buildScale(in, ns) ==
    LET object == Or(in.object, "Deployment")
    IN  Given(/\ in.name # Unset
              /\ Has(in, "replicas") /\ in.params["replicas"] >= 0
              /\ object \in {"Deployment", "StatefulSet"},
              Mutates(in, <<Act("scale", Unset, object, in.name, ns)>>))

buildRollback(in, ns) ==
    Given(/\ in.name # Unset
          /\ Or(in.object, "Deployment") = "Deployment"
          /\ Param(in, "revision", 1) >= 1,
          Mutates(in, <<Act("rollback", Unset, "Deployment", in.name, ns)>>))

\* redis and nginx are known by name: their image, and the port that brings
\* a Service with it.
KnownApps == {"redis", "nginx"}
buildDeploy(in, ns) ==
    LET exposed == IF Has(in, "port") THEN in.params["port"] > 0 ELSE in.name \in KnownApps
        service == IF exposed THEN <<Act("create", Unset, "Service", in.name, ns)>> ELSE <<>>
    IN  Given(/\ in.name # Unset
              /\ Has(in, "image") \/ in.name \in KnownApps,
              Mutates(in, <<Act("create", Unset, "Deployment", in.name, ns)>> \o service))

KnownCharts == {"redis", "postgresql", "mongodb", "nginx"}
resolveHelmChart(in) ==
    {"chart", "repo_url"} \subseteq DOMAIN in.params \/ in.name \in KnownCharts
helmRepoAction(in) == HelmAct("helm-repo", "HelmRepo", Param(in, "repo", "bitnami"), Unset, Unset)

buildInstall(in, ns) ==
    Given(in.name # Unset /\ resolveHelmChart(in),
          Mutates(in, <<helmRepoAction(in),
                        HelmAct("helm-install", "HelmRelease", Param(in, "release", in.name), ns, in.ctx)>>))

buildUpgrade(in, ns) ==
    Given(in.name # Unset /\ Has(in, "version") /\ resolveHelmChart(in),
          Mutates(in, <<helmRepoAction(in),
                        [helmRepoAction(in) EXCEPT !.op = "helm-repo-update"],
                        HelmAct("helm-upgrade", "HelmRelease", Param(in, "release", in.name), ns, in.ctx)>>))

KnownModels == {"yolov11", "yolov8", "yolo"}
buildWorkflow(in, ns) ==
    LET model == Param(in, "model", Unset)
        name  == Or(in.name, Param(in, "task", "run") \o "-" \o model)
    IN  Given(/\ in.name # Unset \/ model # Unset
              /\ Has(in, "image") \/ model \in KnownModels,
              Mutates(in, <<Act("workflow-create", "argo", "Workflow", name, ns)>>))

buildTekton(in, ns) ==
    Mutates(in, <<Act("pipelinerun-create", "tekton", "PipelineRun", Or(in.name, "new-run"), ns)>>)

Triggers == {"cpu", "http", "prometheus", "redis", "cron"}
buildKEDA(in, ns) ==
    LET target == Param(in, "target", in.name)
    IN  Given(target # Unset /\ Param(in, "trigger", "cpu") \in Triggers,
              Mutates(in, <<Act("scaledobject-create", "keda", "ScaledObject",
                                   Param(in, "scaledObject", target \o "-scaler"), ns)>>))

buildHPA(in, ns) ==
    LET target == Param(in, "target", in.name)
        atLeast(key, default) == IF Param(in, key, default) < 1 THEN default ELSE Param(in, key, default)
    IN  Given(target # Unset /\ atLeast("maxReplicas", 10) >= atLeast("minReplicas", 1),
              Mutates(in, <<Act("create", "kubernetes", "HorizontalPodAutoscaler",
                                   Param(in, "hpaName", target \o "-hpa"), ns)>>))

Resources == {"postgres", "bucket", "redis"}
buildCrossplane(in, ns) ==
    Given(Param(in, "resource", "postgres") \in Resources,
          Mutates(in, <<Act("claim-create", "crossplane",
                               Param(in, "claimKind", Or(in.object, "Claim")),
                               Or(in.name, "new-claim"), ns)>>))

\* Status is a read; the other actions need a name and an engine.
buildGitOps(in, ns) ==
    LET action == Param(in, "action", "status")
        engine == Param(in, "engine", "auto")
        kind   == IF engine = "flux" THEN "Kustomization" ELSE "Application"
        shown  == IF engine = "auto" THEN Or(in.object, kind) ELSE kind
        synced == [in EXCEPT !.object = kind,
                             !.params["action"] = IF @ = "reconcile" THEN "sync" ELSE @]
    IN  CASE action \in {"status", "health", "show", "list"} ->
                 Reads(in, Act("gitops-status", "gitops", shown, in.name, ns))
          [] action \in {"sync", "promote", "rollback", "reconcile"} ->
                 Given(in.name # Unset /\ engine # "auto",
                       Mutates(synced, <<Act("gitops-sync", "gitops", kind, in.name, ns)>>))
          [] OTHER -> NoPlan

Build(in) ==
    LET ns == Or(in.ns, "default")
    IN  CASE in.kind = "scale"        -> buildScale(in, ns)
          [] in.kind = "rollback"     -> buildRollback(in, ns)
          [] in.kind = "deploy"       -> buildDeploy(in, ns)
          [] in.kind = "install"      -> buildInstall(in, ns)
          [] in.kind = "upgrade"      -> buildUpgrade(in, ns)
          [] in.kind = "get"          -> buildGet(in, ns)
          [] in.kind \in {"explain", "investigate", "why", "describe"} -> buildExplain(in, ns)
          [] in.kind = "timeline"     -> buildTimeline(in, ns)
          [] in.kind = "impact"       -> buildImpact(in, ns)
          [] in.kind = "logs"         -> buildLogs(in, ns)
          [] in.kind = "workflow"     -> buildWorkflow(in, ns)
          [] in.kind = "tekton"       -> buildTekton(in, ns)
          [] in.kind = "keda"         -> buildKEDA(in, ns)
          [] in.kind = "hpa"          -> buildHPA(in, ns)
          [] in.kind = "istio"        -> buildIstio(in)
          [] in.kind = "crossplane"   -> buildCrossplane(in, ns)
          [] in.kind = "gitops"       -> buildGitOps(in, ns)
          [] in.kind = "performance"  -> buildPerformance(in, ns)
          [] in.kind = "trace"        -> buildTrace(in)
          [] in.kind = "dashboard"    -> buildDashboard(in)
          [] in.kind = "optimize"     -> buildOptimize(in)
          [] in.kind = "roast"        -> buildRoast(in)
          [] in.kind = "graph"        -> buildGraph(in)
          [] in.kind = "audit"        -> buildAudit(in)
          [] in.kind = "cleanup"      -> buildCleanup(in)
          [] in.kind = "search"       -> buildSearch(in)
          [] in.kind = "score"        -> buildScore(in)
          [] in.kind = "architecture" -> buildArchitecture(in)
          [] in.kind = "learn"        -> buildLearn(in)
          [] in.kind = "drift"        -> buildDrift(in)
          [] in.kind = "delete"       -> buildDelete(in, ns)
          [] in.kind = "deny"         -> [intent |-> in, approval |-> FALSE, actions |-> <<>>]
          [] OTHER                    -> NoPlan
=============================================================================
