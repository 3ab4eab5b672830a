-------------------------------- MODULE Intents --------------------------------
(***************************************************************************)
(* From what the model extracted to what is planned (internal/intent): the *)
(* words of the prompt correct the kind the model chose and fill what it   *)
(* left open, flags and phrases settle namespace and context.  Pure        *)
(* operators.  An intent is a record                                       *)
(*    kind, name, ns, object (the target's kind), ctx                      *)
(*    params    parameter -> value, those the intent has                   *)
(* and a prompt is, to the regular expressions of this package, a record   *)
(*    says      the kinds whose patterns match it                          *)
(*    words     the other words that are looked for                        *)
(*    name      the name a pattern captures, or Unset                      *)
(*    infers    the parameters its wording gives away                      *)
(*    ns, ctx   "in staging", "on kind-e2e context", or Unset              *)
(* Windows are in minutes.                                                 *)
(***************************************************************************)
EXTENDS Naturals, Sequences

Mutating == {"deploy", "install", "upgrade", "scale", "rollback", "workflow", "tekton",
             "keda", "hpa", "crossplane", "delete"}
ExtractKinds ==
    Mutating \cup {"get", "explain", "investigate", "why", "timeline", "impact", "audit",
        "cleanup", "search", "score", "architecture", "learn", "drift", "logs", "describe",
        "istio", "gitops", "performance", "trace", "dashboard", "optimize", "roast",
        "graph", "deny", "unknown"}

\* A kind the model invents is unknown; so is patch, which only suggestions have.
ParseStructured(in) == [in EXCEPT !.kind = IF @ \in ExtractKinds THEN @ ELSE "unknown"]

\* A string that is not given.
Unset == "unset"

IsIntent(in) ==
    /\ in = [kind |-> in.kind, name |-> in.name, ns |-> in.ns, object |-> in.object,
             ctx |-> in.ctx, params |-> in.params]
    /\ in.params = [p \in DOMAIN in.params |-> in.params[p]]

\* What is there stays, the rest is added.
params ++ more ==
    [key \in DOMAIN params \cup DOMAIN more |->
        IF key \in DOMAIN params THEN params[key] ELSE more[key]]

Or(value, default) == IF value # Unset THEN value ELSE default
Param(in, key, default) == IF key \in DOMAIN in.params THEN in.params[key] ELSE default
None == <<>>
If(condition, params) == IF condition THEN params ELSE None

\* Patterns that give way to those of another kind.
Shadow == [hpa |-> "keda", why |-> "performance", search |-> "cleanup",
           score |-> "roast", architecture |-> "graph"]
LooksLike(prompt, kind) ==
    kind \in prompt.says /\ (kind \in DOMAIN Shadow => Shadow[kind] \notin prompt.says)

\* The prompt claims the intent for a kind, from itself or from a kind it may be
\* confused with; the intent keeps what it has and gets what it lacks.
Claims(in, prompt, kind, from) == LooksLike(prompt, kind) /\ in.kind \in from \cup {kind}
Filled(in, kind, object, name, params) ==
    [in EXCEPT !.kind = kind, !.object = Or(@, object), !.name = Or(@, name),
               !.params = @ ++ params]

NormalizeInstall(in, prompt) ==
    IF "install" \in prompt.says /\ in.kind = "deploy" THEN [in EXCEPT !.kind = "install"] ELSE in

NormalizeWorkflow(in, prompt) ==
    IF ~Claims(in, prompt, "workflow", {"deploy", "unknown"}) THEN in
    ELSE LET known == If("train" \in prompt.words, [task |-> "train"])
                      ++ If("model" \in DOMAIN prompt.infers, [model |-> prompt.infers["model"]])
             f     == Filled(in, "workflow", "Workflow", Unset, known)
         IN  [f EXCEPT !.name = IF "model" \in DOMAIN f.params
                                THEN Or(@, Param(f, "task", "run") \o "-" \o f.params["model"]) ELSE @]

NormalizeTekton(in, prompt) ==
    IF Claims(in, prompt, "tekton", {"deploy", "workflow", "unknown", "get"})
    THEN Filled(in, "tekton", "PipelineRun", "new-run",
                [task |-> "ci"] ++ If("repo_url" \in DOMAIN prompt.infers,
                                      [repo_url |-> prompt.infers["repo_url"]]))
    ELSE in

\* The name is that of the Deployment to scale; where there is none, the one
\* invented for the ScaledObject takes its place.
NormalizeKEDA(in, prompt) ==
    IF Claims(in, prompt, "keda", {"scale", "deploy", "unknown", "get"})
    THEN LET trigger == IF {"redis", "queue"} \cap prompt.words # {} THEN "redis"
                        ELSE IF {"cron", "idle"} \cap prompt.words # {} THEN "cron" ELSE "cpu"
         IN  Filled(in, "keda", "ScaledObject", "new-scaler",
                    [trigger |-> trigger] ++ If("to-zero" \in prompt.words, [minReplicas |-> 0])
                                          ++ If(in.name # Unset, [target |-> in.name]))
    ELSE in

NormalizeHPA(in, prompt) ==
    IF Claims(in, prompt, "hpa", {"scale", "deploy", "unknown", "get", "optimize"})
    THEN LET target == Param(in, "target", in.name)
         IN  Filled([in EXCEPT !.object = IF @ \in {"Deployment", "HPA"} THEN Unset ELSE @],
                    "hpa", "HorizontalPodAutoscaler", Unset,
                    If(target # Unset, [target |-> target, hpaName |-> target \o "-hpa"]))
    ELSE in

NormalizeIstio(in, prompt) ==
    IF Claims(in, prompt, "istio", {"get", "describe", "explain", "unknown"})
    THEN Filled(in, "istio", "VirtualService", Unset, None) ELSE in

Claim == [bucket |-> "Bucket", redis |-> "RedisInstance", postgres |-> "PostgreSQLInstance"]
NormalizeCrossplane(in, prompt) ==
    IF Claims(in, prompt, "crossplane", {"deploy", "install", "unknown", "get"})
    THEN LET named    == IF "redis" \in prompt.words THEN "redis"
                         ELSE IF "bucket" \in prompt.words THEN "bucket" ELSE "postgres"
             resource == Param(in, "resource", named)
             object   == Claim[IF resource \in DOMAIN Claim THEN resource ELSE "postgres"]
         IN  Filled(in, "crossplane", object, "new-claim", [resource |-> resource])
    ELSE in

\* "show sync status" asks, "sync application web" tells.
LooksLikeGitOpsMutate(prompt) ==
    {"sync", "promote", "rollback"} \cap prompt.words # {} /\ "show" \notin prompt.words
NormalizeGitOps(in, prompt) ==
    IF Claims(in, prompt, "gitops", {"get", "describe", "explain", "rollback", "unknown", "deploy"})
    THEN LET action == CASE "promote" \in prompt.words -> "promote"
                         [] "promote" \notin prompt.words /\ "rollback" \in prompt.words -> "rollback"
                         [] OTHER -> IF LooksLikeGitOpsMutate(prompt) THEN "sync" ELSE "status"
             named  == IF "flux" \in prompt.words THEN "flux"
                       ELSE IF "argocd" \in prompt.words THEN "argocd" ELSE "auto"
             engine == Param(in, "engine", named)
         IN  Filled(in, "gitops", IF engine = "flux" THEN "Kustomization" ELSE "Application", Unset,
                    [action |-> action, engine |-> engine])
    ELSE in

\* Questions about one workload; a pod only when the prompt says so.
Subject(prompt) == IF "pod" \in prompt.words THEN "Pod" ELSE "Deployment"

NormalizePerformance(in, prompt) ==
    IF Claims(in, prompt, "performance", {"explain", "describe", "unknown"})
    THEN Filled(in, "performance", "Deployment", prompt.name, [window |-> 15]) ELSE in

NormalizeWhy(in, prompt) ==
    IF Claims(in, prompt, "why", {"explain", "get", "describe", "unknown", "investigate", "performance"})
    THEN Filled(in, "why", Subject(prompt), prompt.name, None) ELSE in

NormalizeTimeline(in, prompt) ==
    IF Claims(in, prompt, "timeline", {"explain", "get", "describe", "unknown", "investigate", "why"})
    THEN Filled(in, "timeline", Subject(prompt), prompt.name, [window |-> 60]) ELSE in

NormalizeImpact(in, prompt) ==
    IF Claims(in, prompt, "impact", {"explain", "get", "describe", "unknown", "graph"})
    THEN Filled(in, "impact", IF "deployment" \in prompt.words THEN "Deployment" ELSE "Service",
                prompt.name, None)
    ELSE in

NormalizeTrace(in, prompt) ==
    IF Claims(in, prompt, "trace", {"explain", "get", "describe", "unknown"})
    THEN Filled(in, "trace", "Service", prompt.name, [window |-> 60]) ELSE in

NormalizeInvestigate(in, prompt) ==
    IF Claims(in, prompt, "investigate", {"explain", "get", "describe", "unknown"})
    THEN Filled(in, "investigate", "Deployment", prompt.name, None) ELSE in

NormalizeDashboard(in, prompt) ==
    IF Claims(in, prompt, "dashboard", {"get", "describe", "unknown"})
    THEN [Filled(in, "dashboard", Unset, prompt.name, None) EXCEPT !.object = "Dashboard"] ELSE in

NormalizeLearn(in, prompt) ==
    IF Claims(in, prompt, "learn", {"get", "explain", "describe", "unknown", "gitops", "istio"})
    THEN Filled(in, "learn", "Cluster", Unset, None) ELSE in

\* Reports about a namespace, or about the cluster when the prompt says so.
ReportOn(in, prompt, kind, object, params) ==
    [Filled(in, kind, object, Unset, params) EXCEPT
        !.params = If("cluster" \in prompt.words, [scope |-> "cluster"]) ++ @]

NormalizeAudit(in, prompt) ==
    IF Claims(in, prompt, "audit", {"get", "explain", "describe", "unknown", "optimize"})
    THEN ReportOn(in, prompt, "audit", "Namespace", None) ELSE in

NormalizeCleanup(in, prompt) ==
    IF Claims(in, prompt, "cleanup", {"get", "explain", "describe", "unknown", "delete"})
    THEN ReportOn(in, prompt, "cleanup", "Namespace", None) ELSE in

NormalizeSearch(in, prompt) ==
    IF Claims(in, prompt, "search", {"get", "explain", "describe", "unknown", "impact"})
    THEN [ReportOn(in, prompt, "search", "Deployment",
                 If("query" \in DOMAIN prompt.infers, [query |-> prompt.infers["query"]]))
            EXCEPT !.name = Unset]
    ELSE in

NormalizeDrift(in, prompt) ==
    IF Claims(in, prompt, "drift", {"get", "explain", "describe", "unknown", "gitops", "learn"})
    THEN [ReportOn(in, prompt, "drift", "Cluster", None) EXCEPT
            !.params = If("flux" \in prompt.words, [engine |-> "flux"])
                       ++ If("argocd" \in prompt.words, [engine |-> "argocd"]) ++ @]
    ELSE in

NormalizeOptimize(in, prompt) ==
    IF Claims(in, prompt, "optimize", {"get", "explain", "performance", "unknown"})
    THEN ReportOn(in, prompt, "optimize", "Cluster", None) ELSE in

NormalizeRoast(in, prompt) ==
    IF Claims(in, prompt, "roast", {"get", "explain", "describe", "unknown", "optimize"})
    THEN ReportOn(in, prompt, "roast", "Namespace", None) ELSE in

NormalizeScore(in, prompt) ==
    IF Claims(in, prompt, "score", {"get", "explain", "describe", "unknown", "optimize", "audit", "roast"})
    THEN [ReportOn(in, prompt, "score", "Namespace", None) EXCEPT !.name = Unset] ELSE in

NormalizeArchitecture(in, prompt) ==
    IF Claims(in, prompt, "architecture", {"get", "explain", "describe", "unknown", "graph", "learn"})
    THEN [ReportOn(in, prompt, "architecture", "Namespace", None) EXCEPT !.name = Unset] ELSE in

NormalizeGraph(in, prompt) ==
    IF Claims(in, prompt, "graph", {"get", "explain", "trace", "unknown"})
    THEN Filled(in, "graph", "ServiceGraph", Unset,
                If("cluster" \in prompt.words \/ in.ns = Unset, [scope |-> "cluster"]))
    ELSE in

\* The order decides what a prompt of several topics becomes.
NormalizeVerb(in, prompt) ==
    LET provided == NormalizeGitOps(NormalizeCrossplane(NormalizeIstio(NormalizeHPA(NormalizeKEDA(
                        NormalizeTekton(NormalizeWorkflow(NormalizeInstall(in, prompt),
                        prompt), prompt), prompt), prompt), prompt), prompt), prompt)
        asked    == NormalizeSearch(NormalizeCleanup(NormalizeAudit(NormalizeImpact(NormalizeTimeline(
                        NormalizeWhy(NormalizePerformance(provided,
                        prompt), prompt), prompt), prompt), prompt), prompt), prompt)
        shown    == NormalizeOptimize(NormalizeDashboard(NormalizeTrace(NormalizeDrift(
                        NormalizeLearn(asked, prompt), prompt), prompt), prompt), prompt)
    IN  NormalizeGraph(NormalizeInvestigate(NormalizeArchitecture(NormalizeScore(NormalizeRoast(
            shown, prompt), prompt), prompt), prompt), prompt)

(***************************************************************************)
(* Scope.  The preferences of a run: its namespace and context, and        *)
(* whether the command line set them.                                      *)
(***************************************************************************)
IsPrefs(prefs) ==
    /\ prefs.forceNs \in BOOLEAN /\ prefs.forceCtx \in BOOLEAN /\ prefs.ctx # Unset
    /\ prefs.forceNs => prefs.ns # Unset

ApplyScope(in, prompt, prefs) ==
    [in EXCEPT
        !.ns  = IF prefs.forceNs THEN prefs.ns
                ELSE Or(@, Or(prompt.ns, Or(prefs.ns, "default"))),
        !.ctx = IF prefs.forceCtx THEN prefs.ctx ELSE Or(@, Or(prompt.ctx, prefs.ctx))]

ScopedKinds == {"optimize", "graph", "audit", "cleanup", "search", "score", "architecture", "drift"}
Unscoped(in) == [in EXCEPT !.params = [p \in DOMAIN @ \ {"scope"} |-> @[p]]]

\* A report about the cluster takes the default namespace for none.
ApplyReportScope(in, prompt, prefs, kinds) ==
    CASE in.kind \notin kinds -> in
      [] in.kind \in kinds /\ prefs.forceNs -> IF in.kind = "roast" THEN Unscoped(in) ELSE in
      [] in.kind \in kinds /\ ~prefs.forceNs /\ prompt.ns # Unset ->
            [Unscoped(in) EXCEPT !.ns = prompt.ns]
      [] OTHER -> IF Param(in, "scope", Unset) = "cluster" THEN [in EXCEPT !.ns = Unset] ELSE in

\* What RunWith plans from; the preflight of a route leaves roast reports alone.
Prepared(raw, prompt, prefs, kinds) ==
    ApplyReportScope(NormalizeVerb(ApplyScope(ParseStructured(raw), prompt, prefs), prompt),
                     prompt, prefs, kinds)
=============================================================================
