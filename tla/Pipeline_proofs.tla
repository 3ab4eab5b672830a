---------------------------- MODULE Pipeline_proofs ----------------------------
(***************************************************************************)
(* Theorems about Pipeline, for any requests, prompts, answers of the      *)
(* model, clauses, contexts and policies.  The argument: whatever the      *)
(* words of a prompt, preparing an intent and planning it gives a plan     *)
(* whose risk, approval and namespace fit together (Passes, Built); every  *)
(* call in progress holds such a plan, and what it is about to do has been *)
(* judged and agreed to (Sane); what was done goes into the history when   *)
(* its call returns (Written).  The stack is handled by lemmas on what     *)
(* each way of going on leaves alone (Lower, Became, Called).              *)
(***************************************************************************)
EXTENDS Pipeline, WellFoundedInduction, TLAPS

-------------------------------------------------------------------------------

(***************************************************************************)
(* The words of a prompt: what each normaliser makes of an intent. Every   *)
(* one of them either leaves the intent alone or sets a few of its fields. *)
(***************************************************************************)

\* The kinds from which a prompt of each topic claims an intent.
From ==
    [install      |-> {"deploy"},
     workflow     |-> {"deploy", "unknown"},
     tekton       |-> {"deploy", "workflow", "unknown", "get"},
     keda         |-> {"scale", "deploy", "unknown", "get"},
     hpa          |-> {"scale", "deploy", "unknown", "get", "optimize"},
     istio        |-> {"get", "describe", "explain", "unknown"},
     crossplane   |-> {"deploy", "install", "unknown", "get"},
     gitops       |-> {"get", "describe", "explain", "rollback", "unknown", "deploy"},
     performance  |-> {"explain", "describe", "unknown"},
     why          |-> {"explain", "get", "describe", "unknown", "investigate", "performance"},
     timeline     |-> {"explain", "get", "describe", "unknown", "investigate", "why"},
     impact       |-> {"explain", "get", "describe", "unknown", "graph"},
     trace        |-> {"explain", "get", "describe", "unknown"},
     investigate  |-> {"explain", "get", "describe", "unknown"},
     dashboard    |-> {"get", "describe", "unknown"},
     learn        |-> {"get", "explain", "describe", "unknown", "gitops", "istio"},
     audit        |-> {"get", "explain", "describe", "unknown", "optimize"},
     cleanup      |-> {"get", "explain", "describe", "unknown", "delete"},
     search       |-> {"get", "explain", "describe", "unknown", "impact"},
     drift        |-> {"get", "explain", "describe", "unknown", "gitops", "learn"},
     optimize     |-> {"get", "explain", "performance", "unknown"},
     roast        |-> {"get", "explain", "describe", "unknown", "optimize"},
     score        |-> {"get", "explain", "describe", "unknown", "optimize", "audit", "roast"},
     architecture |-> {"get", "explain", "describe", "unknown", "graph", "learn"},
     graph        |-> {"get", "explain", "trace", "unknown"}]

\* A normaliser makes an intent it claims one of its kind, leaves the others
\* alone, and namespace and context always.
Normal(out, in, prompt, kind, from) ==
    /\ IsIntent(out)
    /\ Claims(in, prompt, kind, from) => out.kind = kind
    /\ ~Claims(in, prompt, kind, from) => out = in
    /\ out.ns = in.ns /\ out.ctx = in.ctx

LEMMA FilledIs ==
    ASSUME NEW in, IsIntent(in), NEW kind, NEW object, NEW name, NEW params,
           NEW f, f = Filled(in, kind, object, name, params)
    PROVE  /\ IsIntent(f) /\ f.kind = kind /\ f.ns = in.ns /\ f.ctx = in.ctx
           /\ f.object = Or(in.object, object) /\ f.name = Or(in.name, name)
           /\ f.params = in.params ++ params
  <1>1. PICK r : r = [kind |-> in.kind, name |-> in.name, ns |-> in.ns, object |-> in.object,
             ctx |-> in.ctx, params |-> in.params]
    OBVIOUS
  <1>2. in = r
    BY <1>1 DEF IsIntent
  <1>3. f = [kind |-> kind, name |-> Or(in.name, name), ns |-> in.ns, object |-> Or(in.object, object),
             ctx |-> in.ctx, params |-> in.params ++ params]
    BY <1>1, <1>2 DEF Filled
  <1>4. f.params = [p \in DOMAIN f.params |-> f.params[p]]
    BY <1>3 DEF ++
  <1>5. QED
    BY <1>3, <1>4 DEF IsIntent
LEMMA SetKind ==
    ASSUME NEW in, IsIntent(in), NEW x,
           NEW g, g = [in EXCEPT !.kind = x]
    PROVE  /\ IsIntent(g) /\ g.kind = x
           /\ g.name = in.name /\ g.ns = in.ns /\ g.object = in.object /\ g.ctx = in.ctx /\ g.params = in.params
  <1>1. PICK r : r = [kind |-> in.kind, name |-> in.name, ns |-> in.ns, object |-> in.object,
                      ctx |-> in.ctx, params |-> in.params]
    OBVIOUS
  <1>2. in = r
    BY <1>1 DEF IsIntent
  <1>3. g = [kind |-> x, name |-> in.name, ns |-> in.ns, object |-> in.object, ctx |-> in.ctx, params |-> in.params]
    BY <1>1, <1>2
  <1>4. g.params = [p \in DOMAIN g.params |-> g.params[p]]
    BY <1>3 DEF IsIntent
  <1>5. QED
    BY <1>3, <1>4 DEF IsIntent

LEMMA SetName ==
    ASSUME NEW in, IsIntent(in), NEW x,
           NEW g, g = [in EXCEPT !.name = x]
    PROVE  /\ IsIntent(g) /\ g.name = x
           /\ g.kind = in.kind /\ g.ns = in.ns /\ g.object = in.object /\ g.ctx = in.ctx /\ g.params = in.params
  <1>1. PICK r : r = [kind |-> in.kind, name |-> in.name, ns |-> in.ns, object |-> in.object,
                      ctx |-> in.ctx, params |-> in.params]
    OBVIOUS
  <1>2. in = r
    BY <1>1 DEF IsIntent
  <1>3. g = [kind |-> in.kind, name |-> x, ns |-> in.ns, object |-> in.object, ctx |-> in.ctx, params |-> in.params]
    BY <1>1, <1>2
  <1>4. g.params = [p \in DOMAIN g.params |-> g.params[p]]
    BY <1>3 DEF IsIntent
  <1>5. QED
    BY <1>3, <1>4 DEF IsIntent

LEMMA SetNs ==
    ASSUME NEW in, IsIntent(in), NEW x,
           NEW g, g = [in EXCEPT !.ns = x]
    PROVE  /\ IsIntent(g) /\ g.ns = x
           /\ g.kind = in.kind /\ g.name = in.name /\ g.object = in.object /\ g.ctx = in.ctx /\ g.params = in.params
  <1>1. PICK r : r = [kind |-> in.kind, name |-> in.name, ns |-> in.ns, object |-> in.object,
                      ctx |-> in.ctx, params |-> in.params]
    OBVIOUS
  <1>2. in = r
    BY <1>1 DEF IsIntent
  <1>3. g = [kind |-> in.kind, name |-> in.name, ns |-> x, object |-> in.object, ctx |-> in.ctx, params |-> in.params]
    BY <1>1, <1>2
  <1>4. g.params = [p \in DOMAIN g.params |-> g.params[p]]
    BY <1>3 DEF IsIntent
  <1>5. QED
    BY <1>3, <1>4 DEF IsIntent

LEMMA SetObject ==
    ASSUME NEW in, IsIntent(in), NEW x,
           NEW g, g = [in EXCEPT !.object = x]
    PROVE  /\ IsIntent(g) /\ g.object = x
           /\ g.kind = in.kind /\ g.name = in.name /\ g.ns = in.ns /\ g.ctx = in.ctx /\ g.params = in.params
  <1>1. PICK r : r = [kind |-> in.kind, name |-> in.name, ns |-> in.ns, object |-> in.object,
                      ctx |-> in.ctx, params |-> in.params]
    OBVIOUS
  <1>2. in = r
    BY <1>1 DEF IsIntent
  <1>3. g = [kind |-> in.kind, name |-> in.name, ns |-> in.ns, object |-> x, ctx |-> in.ctx, params |-> in.params]
    BY <1>1, <1>2
  <1>4. g.params = [p \in DOMAIN g.params |-> g.params[p]]
    BY <1>3 DEF IsIntent
  <1>5. QED
    BY <1>3, <1>4 DEF IsIntent

LEMMA SetCtx ==
    ASSUME NEW in, IsIntent(in), NEW x,
           NEW g, g = [in EXCEPT !.ctx = x]
    PROVE  /\ IsIntent(g) /\ g.ctx = x
           /\ g.kind = in.kind /\ g.name = in.name /\ g.ns = in.ns /\ g.object = in.object /\ g.params = in.params
  <1>1. PICK r : r = [kind |-> in.kind, name |-> in.name, ns |-> in.ns, object |-> in.object,
                      ctx |-> in.ctx, params |-> in.params]
    OBVIOUS
  <1>2. in = r
    BY <1>1 DEF IsIntent
  <1>3. g = [kind |-> in.kind, name |-> in.name, ns |-> in.ns, object |-> in.object, ctx |-> x, params |-> in.params]
    BY <1>1, <1>2
  <1>4. g.params = [p \in DOMAIN g.params |-> g.params[p]]
    BY <1>3 DEF IsIntent
  <1>5. QED
    BY <1>3, <1>4 DEF IsIntent

LEMMA SetParams ==
    ASSUME NEW in, IsIntent(in), NEW x,
           x = [p \in DOMAIN x |-> x[p]],
           NEW g, g = [in EXCEPT !.params = x]
    PROVE  /\ IsIntent(g) /\ g.params = x
           /\ g.kind = in.kind /\ g.name = in.name /\ g.ns = in.ns /\ g.object = in.object /\ g.ctx = in.ctx
  <1>1. PICK r : r = [kind |-> in.kind, name |-> in.name, ns |-> in.ns, object |-> in.object,
                      ctx |-> in.ctx, params |-> in.params]
    OBVIOUS
  <1>2. in = r
    BY <1>1 DEF IsIntent
  <1>3. g = [kind |-> in.kind, name |-> in.name, ns |-> in.ns, object |-> in.object, ctx |-> in.ctx, params |-> x]
    BY <1>1, <1>2
  <1>4. g.params = [p \in DOMAIN g.params |-> g.params[p]]
    BY <1>3 DEF IsIntent
  <1>5. QED
    BY <1>3, <1>4 DEF IsIntent

LEMMA PlusIsFunction ==
    ASSUME NEW f, NEW g
    PROVE  f ++ g = [p \in DOMAIN (f ++ g) |-> (f ++ g)[p]]
  BY DEF ++

LEMMA TektonNormal ==
    ASSUME NEW in, IsIntent(in), NEW prompt
    PROVE  Normal(NormalizeTekton(in, prompt), in, prompt, "tekton", {"deploy", "workflow", "unknown", "get"})
  BY FilledIs, SetObject DEF NormalizeTekton, Normal

LEMMA KEDANormal ==
    ASSUME NEW in, IsIntent(in), NEW prompt
    PROVE  Normal(NormalizeKEDA(in, prompt), in, prompt, "keda", {"scale", "deploy", "unknown", "get"})
  BY FilledIs, SetObject DEF NormalizeKEDA, Normal

LEMMA IstioNormal ==
    ASSUME NEW in, IsIntent(in), NEW prompt
    PROVE  Normal(NormalizeIstio(in, prompt), in, prompt, "istio", {"get", "describe", "explain", "unknown"})
  BY FilledIs DEF NormalizeIstio, Normal

LEMMA CrossplaneNormal ==
    ASSUME NEW in, IsIntent(in), NEW prompt
    PROVE  Normal(NormalizeCrossplane(in, prompt), in, prompt, "crossplane", {"deploy", "install", "unknown", "get"})
  BY FilledIs, SetObject DEF NormalizeCrossplane, Normal

LEMMA GitOpsNormal ==
    ASSUME NEW in, IsIntent(in), NEW prompt
    PROVE  Normal(NormalizeGitOps(in, prompt), in, prompt, "gitops", {"get", "describe", "explain", "rollback", "unknown", "deploy"})
  BY FilledIs DEF NormalizeGitOps, Normal

LEMMA PerformanceNormal ==
    ASSUME NEW in, IsIntent(in), NEW prompt
    PROVE  Normal(NormalizePerformance(in, prompt), in, prompt, "performance", {"explain", "describe", "unknown"})
  BY FilledIs DEF NormalizePerformance, Normal

LEMMA WhyNormal ==
    ASSUME NEW in, IsIntent(in), NEW prompt
    PROVE  Normal(NormalizeWhy(in, prompt), in, prompt, "why", {"explain", "get", "describe", "unknown", "investigate", "performance"})
  BY FilledIs DEF NormalizeWhy, Normal

LEMMA TimelineNormal ==
    ASSUME NEW in, IsIntent(in), NEW prompt
    PROVE  Normal(NormalizeTimeline(in, prompt), in, prompt, "timeline", {"explain", "get", "describe", "unknown", "investigate", "why"})
  BY FilledIs DEF NormalizeTimeline, Normal

LEMMA ImpactNormal ==
    ASSUME NEW in, IsIntent(in), NEW prompt
    PROVE  Normal(NormalizeImpact(in, prompt), in, prompt, "impact", {"explain", "get", "describe", "unknown", "graph"})
  BY FilledIs DEF NormalizeImpact, Normal

LEMMA TraceNormal ==
    ASSUME NEW in, IsIntent(in), NEW prompt
    PROVE  Normal(NormalizeTrace(in, prompt), in, prompt, "trace", {"explain", "get", "describe", "unknown"})
  BY FilledIs DEF NormalizeTrace, Normal

LEMMA InvestigateNormal ==
    ASSUME NEW in, IsIntent(in), NEW prompt
    PROVE  Normal(NormalizeInvestigate(in, prompt), in, prompt, "investigate", {"explain", "get", "describe", "unknown"})
  BY FilledIs DEF NormalizeInvestigate, Normal

LEMMA LearnNormal ==
    ASSUME NEW in, IsIntent(in), NEW prompt
    PROVE  Normal(NormalizeLearn(in, prompt), in, prompt, "learn", {"get", "explain", "describe", "unknown", "gitops", "istio"})
  BY FilledIs DEF NormalizeLearn, Normal

LEMMA GraphNormal ==
    ASSUME NEW in, IsIntent(in), NEW prompt
    PROVE  Normal(NormalizeGraph(in, prompt), in, prompt, "graph", {"get", "explain", "trace", "unknown"})
  BY FilledIs DEF NormalizeGraph, Normal

LEMMA ReportIs ==
    ASSUME NEW in, IsIntent(in), NEW prompt, NEW kind, NEW object, NEW params,
           NEW f, f = ReportOn(in, prompt, kind, object, params)
    PROVE  /\ IsIntent(f) /\ f.kind = kind /\ f.ns = in.ns /\ f.ctx = in.ctx
           /\ f.object = Or(in.object, object) /\ f.name = Or(in.name, Unset)
  <1> DEFINE g == Filled(in, kind, object, Unset, params)
             scope == If("cluster" \in prompt.words, [scope |-> "cluster"])
  <1>1. /\ IsIntent(g) /\ g.kind = kind /\ g.ns = in.ns /\ g.ctx = in.ctx
        /\ g.object = Or(in.object, object) /\ g.name = Or(in.name, Unset)
    BY FilledIs
  <1>2. f = [g EXCEPT !.params = scope ++ g.params]
    BY DEF ReportOn
  <1> HIDE DEF g, scope
  <1>3. PICK x : x = scope ++ g.params
    OBVIOUS
  <1>4. x = [p \in DOMAIN x |-> x[p]]
    BY <1>3, PlusIsFunction
  <1>5. f = [g EXCEPT !.params = x]
    BY <1>2, <1>3
  <1>6. QED
    BY <1>1, <1>4, <1>5, SetParams

LEMMA AuditNormal ==
    ASSUME NEW in, IsIntent(in), NEW prompt
    PROVE  Normal(NormalizeAudit(in, prompt), in, prompt, "audit", {"get", "explain", "describe", "unknown", "optimize"})
  BY ReportIs DEF NormalizeAudit, Normal

LEMMA CleanupNormal ==
    ASSUME NEW in, IsIntent(in), NEW prompt
    PROVE  Normal(NormalizeCleanup(in, prompt), in, prompt, "cleanup", {"get", "explain", "describe", "unknown", "delete"})
  BY ReportIs DEF NormalizeCleanup, Normal

LEMMA OptimizeNormal ==
    ASSUME NEW in, IsIntent(in), NEW prompt
    PROVE  Normal(NormalizeOptimize(in, prompt), in, prompt, "optimize", {"get", "explain", "performance", "unknown"})
  BY ReportIs DEF NormalizeOptimize, Normal

LEMMA RoastNormal ==
    ASSUME NEW in, IsIntent(in), NEW prompt
    PROVE  Normal(NormalizeRoast(in, prompt), in, prompt, "roast", {"get", "explain", "describe", "unknown", "optimize"})
  BY ReportIs DEF NormalizeRoast, Normal

LEMMA SearchNormal ==
    ASSUME NEW in, IsIntent(in), NEW prompt
    PROVE  Normal(NormalizeSearch(in, prompt), in, prompt, "search", {"get", "explain", "describe", "unknown", "impact"})
  <1> DEFINE claims == Claims(in, prompt, "search", {"get", "explain", "describe", "unknown", "impact"})
             g == ReportOn(in, prompt, "search", "Deployment",
                 If("query" \in DOMAIN prompt.infers, [query |-> prompt.infers["query"]]))
             f == [g EXCEPT !.name = Unset]
  <1>1. NormalizeSearch(in, prompt) = IF claims THEN f ELSE in
    BY DEF NormalizeSearch
  <1>2. IsIntent(g) /\ g.kind = "search" /\ g.ns = in.ns /\ g.ctx = in.ctx
    BY ReportIs
  <1> HIDE DEF g
  <1>3. IsIntent(f) /\ f.kind = "search" /\ f.ns = in.ns /\ f.ctx = in.ctx
    BY <1>2, SetName
  <1> HIDE DEF f
  <1>4. QED
    BY <1>1, <1>3 DEF Normal

LEMMA ScoreNormal ==
    ASSUME NEW in, IsIntent(in), NEW prompt
    PROVE  Normal(NormalizeScore(in, prompt), in, prompt, "score", {"get", "explain", "describe", "unknown", "optimize", "audit", "roast"})
  <1> DEFINE claims == Claims(in, prompt, "score", {"get", "explain", "describe", "unknown", "optimize", "audit", "roast"})
             g == ReportOn(in, prompt, "score", "Namespace", None)
             f == [g EXCEPT !.name = Unset]
  <1>1. NormalizeScore(in, prompt) = IF claims THEN f ELSE in
    BY DEF NormalizeScore
  <1>2. IsIntent(g) /\ g.kind = "score" /\ g.ns = in.ns /\ g.ctx = in.ctx
    BY ReportIs
  <1> HIDE DEF g
  <1>3. IsIntent(f) /\ f.kind = "score" /\ f.ns = in.ns /\ f.ctx = in.ctx
    BY <1>2, SetName
  <1> HIDE DEF f
  <1>4. QED
    BY <1>1, <1>3 DEF Normal

LEMMA ArchitectureNormal ==
    ASSUME NEW in, IsIntent(in), NEW prompt
    PROVE  Normal(NormalizeArchitecture(in, prompt), in, prompt, "architecture", {"get", "explain", "describe", "unknown", "graph", "learn"})
  <1> DEFINE claims == Claims(in, prompt, "architecture", {"get", "explain", "describe", "unknown", "graph", "learn"})
             g == ReportOn(in, prompt, "architecture", "Namespace", None)
             f == [g EXCEPT !.name = Unset]
  <1>1. NormalizeArchitecture(in, prompt) = IF claims THEN f ELSE in
    BY DEF NormalizeArchitecture
  <1>2. IsIntent(g) /\ g.kind = "architecture" /\ g.ns = in.ns /\ g.ctx = in.ctx
    BY ReportIs
  <1> HIDE DEF g
  <1>3. f = [g EXCEPT !.name = Unset]
    OBVIOUS
  <1> HIDE DEF f
  <1>4. IsIntent(f) /\ f.kind = "architecture" /\ f.ns = in.ns /\ f.ctx = in.ctx
    BY <1>2, <1>3, SetName
  <1>5. QED
    BY <1>1, <1>4 DEF Normal

LEMMA DriftNormal ==
    ASSUME NEW in, IsIntent(in), NEW prompt
    PROVE  Normal(NormalizeDrift(in, prompt), in, prompt, "drift", {"get", "explain", "describe", "unknown", "gitops", "learn"})
  <1> DEFINE claims == Claims(in, prompt, "drift", {"get", "explain", "describe", "unknown", "gitops", "learn"})
             g == ReportOn(in, prompt, "drift", "Cluster", None)
             x == If("flux" \in prompt.words, [engine |-> "flux"])
                       ++ If("argocd" \in prompt.words, [engine |-> "argocd"]) ++ g.params
             f == [g EXCEPT !.params = x]
  <1>1. NormalizeDrift(in, prompt) = IF claims THEN f ELSE in
    BY DEF NormalizeDrift
  <1>2. IsIntent(g) /\ g.kind = "drift" /\ g.ns = in.ns /\ g.ctx = in.ctx
    BY ReportIs
  <1>3. x = [p \in DOMAIN x |-> x[p]]
    BY PlusIsFunction
  <1> HIDE DEF g, x
  <1>4. IsIntent(f) /\ f.kind = "drift" /\ f.ns = in.ns /\ f.ctx = in.ctx
    BY <1>2, <1>3, SetParams
  <1> HIDE DEF f
  <1>5. QED
    BY <1>1, <1>4 DEF Normal

LEMMA DashboardNormal ==
    ASSUME NEW in, IsIntent(in), NEW prompt
    PROVE  Normal(NormalizeDashboard(in, prompt), in, prompt, "dashboard", {"get", "describe", "unknown"})
  <1> DEFINE claims == Claims(in, prompt, "dashboard", {"get", "describe", "unknown"})
             g == Filled(in, "dashboard", Unset, prompt.name, None)
             f == [g EXCEPT !.object = "Dashboard"]
  <1>1. NormalizeDashboard(in, prompt) = IF claims THEN f ELSE in
    BY DEF NormalizeDashboard
  <1>2. IsIntent(g) /\ g.kind = "dashboard" /\ g.ns = in.ns /\ g.ctx = in.ctx
    BY FilledIs
  <1> HIDE DEF g
  <1>3. IsIntent(f) /\ f.kind = "dashboard" /\ f.ns = in.ns /\ f.ctx = in.ctx
    BY <1>2, SetObject
  <1> HIDE DEF f
  <1>4. QED
    BY <1>1, <1>3 DEF Normal

LEMMA InstallNormal ==
    ASSUME NEW in, IsIntent(in), NEW prompt
    PROVE  Normal(NormalizeInstall(in, prompt), in, prompt, "install", {"deploy"})
  <1>1. CASE in.kind = "deploy"
    BY <1>1, SetKind DEF NormalizeInstall, Normal, Claims, LooksLike, Shadow
  <1>2. CASE in.kind # "deploy"
    BY <1>2 DEF NormalizeInstall, Normal, Claims
  <1>3. QED
    BY <1>1, <1>2

LEMMA HPANormal ==
    ASSUME NEW in, IsIntent(in), NEW prompt
    PROVE  Normal(NormalizeHPA(in, prompt), in, prompt, "hpa", {"scale", "deploy", "unknown", "get", "optimize"})
  <1> DEFINE claims == Claims(in, prompt, "hpa", {"scale", "deploy", "unknown", "get", "optimize"})
             target == Param(in, "target", in.name)
             x == IF in.object \in {"Deployment", "HPA"} THEN Unset ELSE in.object
             g == [in EXCEPT !.object = x]
             f == Filled(g, "hpa", "HorizontalPodAutoscaler", Unset,
                    If(target # Unset, [target |-> target, hpaName |-> target \o "-hpa"]))
  <1>1. NormalizeHPA(in, prompt) = IF claims THEN f ELSE in
    BY DEF NormalizeHPA
  <1>a. PICK o : o = x
    OBVIOUS
  <1>b. g = [in EXCEPT !.object = o]
    BY <1>a
  <1> HIDE DEF x
  <1>2. IsIntent(g) /\ g.ns = in.ns /\ g.ctx = in.ctx
    BY <1>b, SetObject
  <1> HIDE DEF g
  <1>3. IsIntent(f) /\ f.kind = "hpa" /\ f.ns = in.ns /\ f.ctx = in.ctx
    BY <1>2, FilledIs
  <1> HIDE DEF f
  <1>4. QED
    BY <1>1, <1>3 DEF Normal

LEMMA WorkflowNormal ==
    ASSUME NEW in, IsIntent(in), NEW prompt
    PROVE  Normal(NormalizeWorkflow(in, prompt), in, prompt, "workflow", {"deploy", "unknown"})
  <1> DEFINE claims == Claims(in, prompt, "workflow", {"deploy", "unknown"})
             known == If("train" \in prompt.words, [task |-> "train"])
                      ++ If("model" \in DOMAIN prompt.infers, [model |-> prompt.infers["model"]])
             g == Filled(in, "workflow", "Workflow", Unset, known)
             x == IF "model" \in DOMAIN g.params
                  THEN Or(g.name, Param(g, "task", "run") \o "-" \o g.params["model"]) ELSE g.name
             f == [g EXCEPT !.name = x]
  <1>1. NormalizeWorkflow(in, prompt) = IF claims THEN f ELSE in
    BY DEF NormalizeWorkflow
  <1>2. IsIntent(g) /\ g.kind = "workflow" /\ g.ns = in.ns /\ g.ctx = in.ctx
    BY FilledIs
  <1> HIDE DEF g, x
  <1>3. IsIntent(f) /\ f.kind = "workflow" /\ f.ns = in.ns /\ f.ctx = in.ctx
    BY <1>2, SetName
  <1> HIDE DEF f
  <1>4. QED
    BY <1>1, <1>3 DEF Normal

\* The intents that NormalizeVerb passes on from one normaliser to the next.
Passes(x, in, prompt) ==
    /\ x[25] = NormalizeVerb(in, prompt)
    /\ x[1] = NormalizeInstall(in, prompt)
    /\ x[2] = NormalizeWorkflow(x[1], prompt)
    /\ x[3] = NormalizeTekton(x[2], prompt)
    /\ x[4] = NormalizeKEDA(x[3], prompt)
    /\ x[5] = NormalizeHPA(x[4], prompt)
    /\ x[6] = NormalizeIstio(x[5], prompt)
    /\ x[7] = NormalizeCrossplane(x[6], prompt)
    /\ x[8] = NormalizeGitOps(x[7], prompt)
    /\ x[9] = NormalizePerformance(x[8], prompt)
    /\ x[10] = NormalizeWhy(x[9], prompt)
    /\ x[11] = NormalizeTimeline(x[10], prompt)
    /\ x[12] = NormalizeImpact(x[11], prompt)
    /\ x[13] = NormalizeAudit(x[12], prompt)
    /\ x[14] = NormalizeCleanup(x[13], prompt)
    /\ x[15] = NormalizeSearch(x[14], prompt)
    /\ x[16] = NormalizeLearn(x[15], prompt)
    /\ x[17] = NormalizeDrift(x[16], prompt)
    /\ x[18] = NormalizeTrace(x[17], prompt)
    /\ x[19] = NormalizeDashboard(x[18], prompt)
    /\ x[20] = NormalizeOptimize(x[19], prompt)
    /\ x[21] = NormalizeRoast(x[20], prompt)
    /\ x[22] = NormalizeScore(x[21], prompt)
    /\ x[23] = NormalizeArchitecture(x[22], prompt)
    /\ x[24] = NormalizeInvestigate(x[23], prompt)
    /\ x[25] = NormalizeGraph(x[24], prompt)

PassesNormal(x, in, prompt) ==
    /\ Normal(x[1], in, prompt, "install", {"deploy"})
    /\ Normal(x[2], x[1], prompt, "workflow", {"deploy", "unknown"})
    /\ Normal(x[3], x[2], prompt, "tekton", {"deploy", "workflow", "unknown", "get"})
    /\ Normal(x[4], x[3], prompt, "keda", {"scale", "deploy", "unknown", "get"})
    /\ Normal(x[5], x[4], prompt, "hpa", {"scale", "deploy", "unknown", "get", "optimize"})
    /\ Normal(x[6], x[5], prompt, "istio", {"get", "describe", "explain", "unknown"})
    /\ Normal(x[7], x[6], prompt, "crossplane", {"deploy", "install", "unknown", "get"})
    /\ Normal(x[8], x[7], prompt, "gitops", {"get", "describe", "explain", "rollback", "unknown", "deploy"})
    /\ Normal(x[9], x[8], prompt, "performance", {"explain", "describe", "unknown"})
    /\ Normal(x[10], x[9], prompt, "why", {"explain", "get", "describe", "unknown", "investigate", "performance"})
    /\ Normal(x[11], x[10], prompt, "timeline", {"explain", "get", "describe", "unknown", "investigate", "why"})
    /\ Normal(x[12], x[11], prompt, "impact", {"explain", "get", "describe", "unknown", "graph"})
    /\ Normal(x[13], x[12], prompt, "audit", {"get", "explain", "describe", "unknown", "optimize"})
    /\ Normal(x[14], x[13], prompt, "cleanup", {"get", "explain", "describe", "unknown", "delete"})
    /\ Normal(x[15], x[14], prompt, "search", {"get", "explain", "describe", "unknown", "impact"})
    /\ Normal(x[16], x[15], prompt, "learn", {"get", "explain", "describe", "unknown", "gitops", "istio"})
    /\ Normal(x[17], x[16], prompt, "drift", {"get", "explain", "describe", "unknown", "gitops", "learn"})
    /\ Normal(x[18], x[17], prompt, "trace", {"explain", "get", "describe", "unknown"})
    /\ Normal(x[19], x[18], prompt, "dashboard", {"get", "describe", "unknown"})
    /\ Normal(x[20], x[19], prompt, "optimize", {"get", "explain", "performance", "unknown"})
    /\ Normal(x[21], x[20], prompt, "roast", {"get", "explain", "describe", "unknown", "optimize"})
    /\ Normal(x[22], x[21], prompt, "score", {"get", "explain", "describe", "unknown", "optimize", "audit", "roast"})
    /\ Normal(x[23], x[22], prompt, "architecture", {"get", "explain", "describe", "unknown", "graph", "learn"})
    /\ Normal(x[24], x[23], prompt, "investigate", {"explain", "get", "describe", "unknown"})
    /\ Normal(x[25], x[24], prompt, "graph", {"get", "explain", "trace", "unknown"})

LEMMA PassesExist ==
    ASSUME NEW in, IsIntent(in), NEW prompt
    PROVE  \E x : Passes(x, in, prompt) /\ PassesNormal(x, in, prompt)
  <1>1. PICK y1 : y1 = NormalizeInstall(in, prompt)
    OBVIOUS
  <1>2. PICK y2 : y2 = NormalizeWorkflow(y1, prompt)
    OBVIOUS
  <1>3. PICK y3 : y3 = NormalizeTekton(y2, prompt)
    OBVIOUS
  <1>4. PICK y4 : y4 = NormalizeKEDA(y3, prompt)
    OBVIOUS
  <1>5. PICK y5 : y5 = NormalizeHPA(y4, prompt)
    OBVIOUS
  <1>6. PICK y6 : y6 = NormalizeIstio(y5, prompt)
    OBVIOUS
  <1>7. PICK y7 : y7 = NormalizeCrossplane(y6, prompt)
    OBVIOUS
  <1>8. PICK y8 : y8 = NormalizeGitOps(y7, prompt)
    OBVIOUS
  <1>9. PICK y9 : y9 = NormalizePerformance(y8, prompt)
    OBVIOUS
  <1>10. PICK y10 : y10 = NormalizeWhy(y9, prompt)
    OBVIOUS
  <1>11. PICK y11 : y11 = NormalizeTimeline(y10, prompt)
    OBVIOUS
  <1>12. PICK y12 : y12 = NormalizeImpact(y11, prompt)
    OBVIOUS
  <1>13. PICK y13 : y13 = NormalizeAudit(y12, prompt)
    OBVIOUS
  <1>14. PICK y14 : y14 = NormalizeCleanup(y13, prompt)
    OBVIOUS
  <1>15. PICK y15 : y15 = NormalizeSearch(y14, prompt)
    OBVIOUS
  <1>16. PICK y16 : y16 = NormalizeLearn(y15, prompt)
    OBVIOUS
  <1>17. PICK y17 : y17 = NormalizeDrift(y16, prompt)
    OBVIOUS
  <1>18. PICK y18 : y18 = NormalizeTrace(y17, prompt)
    OBVIOUS
  <1>19. PICK y19 : y19 = NormalizeDashboard(y18, prompt)
    OBVIOUS
  <1>20. PICK y20 : y20 = NormalizeOptimize(y19, prompt)
    OBVIOUS
  <1>21. PICK y21 : y21 = NormalizeRoast(y20, prompt)
    OBVIOUS
  <1>22. PICK y22 : y22 = NormalizeScore(y21, prompt)
    OBVIOUS
  <1>23. PICK y23 : y23 = NormalizeArchitecture(y22, prompt)
    OBVIOUS
  <1>24. PICK y24 : y24 = NormalizeInvestigate(y23, prompt)
    OBVIOUS
  <1>25. PICK y25 : y25 = NormalizeGraph(y24, prompt)
    OBVIOUS
  <1>26. Normal(y1, in, prompt, "install", {"deploy"}) /\ IsIntent(y1)
    BY <1>1, InstallNormal DEF Normal
  <1>27. Normal(y2, y1, prompt, "workflow", {"deploy", "unknown"}) /\ IsIntent(y2)
    BY <1>2, <1>26, WorkflowNormal DEF Normal
  <1>28. Normal(y3, y2, prompt, "tekton", {"deploy", "workflow", "unknown", "get"}) /\ IsIntent(y3)
    BY <1>3, <1>27, TektonNormal DEF Normal
  <1>29. Normal(y4, y3, prompt, "keda", {"scale", "deploy", "unknown", "get"}) /\ IsIntent(y4)
    BY <1>4, <1>28, KEDANormal DEF Normal
  <1>30. Normal(y5, y4, prompt, "hpa", {"scale", "deploy", "unknown", "get", "optimize"}) /\ IsIntent(y5)
    BY <1>5, <1>29, HPANormal DEF Normal
  <1>31. Normal(y6, y5, prompt, "istio", {"get", "describe", "explain", "unknown"}) /\ IsIntent(y6)
    BY <1>6, <1>30, IstioNormal DEF Normal
  <1>32. Normal(y7, y6, prompt, "crossplane", {"deploy", "install", "unknown", "get"}) /\ IsIntent(y7)
    BY <1>7, <1>31, CrossplaneNormal DEF Normal
  <1>33. Normal(y8, y7, prompt, "gitops", {"get", "describe", "explain", "rollback", "unknown", "deploy"}) /\ IsIntent(y8)
    BY <1>8, <1>32, GitOpsNormal DEF Normal
  <1>34. Normal(y9, y8, prompt, "performance", {"explain", "describe", "unknown"}) /\ IsIntent(y9)
    BY <1>9, <1>33, PerformanceNormal DEF Normal
  <1>35. Normal(y10, y9, prompt, "why", {"explain", "get", "describe", "unknown", "investigate", "performance"}) /\ IsIntent(y10)
    BY <1>10, <1>34, WhyNormal DEF Normal
  <1>36. Normal(y11, y10, prompt, "timeline", {"explain", "get", "describe", "unknown", "investigate", "why"}) /\ IsIntent(y11)
    BY <1>11, <1>35, TimelineNormal DEF Normal
  <1>37. Normal(y12, y11, prompt, "impact", {"explain", "get", "describe", "unknown", "graph"}) /\ IsIntent(y12)
    BY <1>12, <1>36, ImpactNormal DEF Normal
  <1>38. Normal(y13, y12, prompt, "audit", {"get", "explain", "describe", "unknown", "optimize"}) /\ IsIntent(y13)
    BY <1>13, <1>37, AuditNormal DEF Normal
  <1>39. Normal(y14, y13, prompt, "cleanup", {"get", "explain", "describe", "unknown", "delete"}) /\ IsIntent(y14)
    BY <1>14, <1>38, CleanupNormal DEF Normal
  <1>40. Normal(y15, y14, prompt, "search", {"get", "explain", "describe", "unknown", "impact"}) /\ IsIntent(y15)
    BY <1>15, <1>39, SearchNormal DEF Normal
  <1>41. Normal(y16, y15, prompt, "learn", {"get", "explain", "describe", "unknown", "gitops", "istio"}) /\ IsIntent(y16)
    BY <1>16, <1>40, LearnNormal DEF Normal
  <1>42. Normal(y17, y16, prompt, "drift", {"get", "explain", "describe", "unknown", "gitops", "learn"}) /\ IsIntent(y17)
    BY <1>17, <1>41, DriftNormal DEF Normal
  <1>43. Normal(y18, y17, prompt, "trace", {"explain", "get", "describe", "unknown"}) /\ IsIntent(y18)
    BY <1>18, <1>42, TraceNormal DEF Normal
  <1>44. Normal(y19, y18, prompt, "dashboard", {"get", "describe", "unknown"}) /\ IsIntent(y19)
    BY <1>19, <1>43, DashboardNormal DEF Normal
  <1>45. Normal(y20, y19, prompt, "optimize", {"get", "explain", "performance", "unknown"}) /\ IsIntent(y20)
    BY <1>20, <1>44, OptimizeNormal DEF Normal
  <1>46. Normal(y21, y20, prompt, "roast", {"get", "explain", "describe", "unknown", "optimize"}) /\ IsIntent(y21)
    BY <1>21, <1>45, RoastNormal DEF Normal
  <1>47. Normal(y22, y21, prompt, "score", {"get", "explain", "describe", "unknown", "optimize", "audit", "roast"}) /\ IsIntent(y22)
    BY <1>22, <1>46, ScoreNormal DEF Normal
  <1>48. Normal(y23, y22, prompt, "architecture", {"get", "explain", "describe", "unknown", "graph", "learn"}) /\ IsIntent(y23)
    BY <1>23, <1>47, ArchitectureNormal DEF Normal
  <1>49. Normal(y24, y23, prompt, "investigate", {"explain", "get", "describe", "unknown"}) /\ IsIntent(y24)
    BY <1>24, <1>48, InvestigateNormal DEF Normal
  <1>50. Normal(y25, y24, prompt, "graph", {"get", "explain", "trace", "unknown"}) /\ IsIntent(y25)
    BY <1>25, <1>49, GraphNormal DEF Normal
  <1>51. y25 = NormalizeVerb(in, prompt)
    BY <1>1, <1>2, <1>3, <1>4, <1>5, <1>6, <1>7, <1>8, <1>9, <1>10, <1>11, <1>12, <1>13, <1>14, <1>15, <1>16, <1>17, <1>18, <1>19, <1>20, <1>21, <1>22, <1>23, <1>24, <1>25 DEF NormalizeVerb
  <1>52. PICK x : x = <<y1, y2, y3, y4, y5, y6, y7, y8, y9, y10, y11, y12, y13, y14, y15, y16, y17, y18, y19, y20, y21, y22, y23, y24, y25>>
    OBVIOUS
  <1>53. x[1] = y1 /\ x[2] = y2 /\ x[3] = y3 /\ x[4] = y4 /\ x[5] = y5 /\ x[6] = y6 /\ x[7] = y7 /\ x[8] = y8 /\ x[9] = y9 /\ x[10] = y10 /\ x[11] = y11 /\ x[12] = y12 /\ x[13] = y13 /\ x[14] = y14 /\ x[15] = y15 /\ x[16] = y16 /\ x[17] = y17 /\ x[18] = y18 /\ x[19] = y19 /\ x[20] = y20 /\ x[21] = y21 /\ x[22] = y22 /\ x[23] = y23 /\ x[24] = y24 /\ x[25] = y25
    BY <1>52
  <1>54. Passes(x, in, prompt)
    BY <1>51, <1>53, <1>1, <1>2, <1>3, <1>4, <1>5, <1>6, <1>7, <1>8, <1>9, <1>10, <1>11, <1>12, <1>13, <1>14, <1>15, <1>16, <1>17, <1>18, <1>19, <1>20, <1>21, <1>22, <1>23, <1>24, <1>25 DEF Passes
  <1>55. PassesNormal(x, in, prompt)
    BY <1>53, <1>26, <1>27, <1>28, <1>29, <1>30, <1>31, <1>32, <1>33, <1>34, <1>35, <1>36, <1>37, <1>38, <1>39, <1>40, <1>41, <1>42, <1>43, <1>44, <1>45, <1>46, <1>47, <1>48, <1>49, <1>50 DEF PassesNormal
  <1>56. QED
    BY <1>54, <1>55

\* What the words of a prompt leave alone, and where a mutation comes from.
Kept(out, in, prompt) ==
    /\ IsIntent(out) /\ out.ns = in.ns /\ out.ctx = in.ctx
    /\ in.kind \in ExtractKinds => out.kind \in ExtractKinds
    /\ in.kind = "deny" => out.kind = "deny"
    /\ out.kind \in Mutating \cup {"gitops"} =>
          in.kind \in Mutating \cup {"gitops"} \/ prompt.says \cap MutatingTopics # {}

LEMMA VerbKeeps ==
    ASSUME NEW in, IsIntent(in), NEW prompt
    PROVE  Kept(NormalizeVerb(in, prompt), in, prompt)
  <1>1. PICK x : Passes(x, in, prompt) /\ PassesNormal(x, in, prompt)
    BY PassesExist
  <1>2. IsIntent(x[25]) /\ x[25].ns = in.ns /\ x[25].ctx = in.ctx
    BY <1>1 DEF PassesNormal, Normal
  <1>3. in.kind \in ExtractKinds => x[25].kind \in ExtractKinds
    BY <1>1 DEF PassesNormal, Normal, ExtractKinds, Mutating
  <1>4. in.kind = "deny" => x[25].kind = "deny"
    BY SMTT(60), <1>1 DEF PassesNormal, Normal, Claims
  <1>5. ASSUME x[25].kind \in Mutating \cup {"gitops"}, in.kind \notin Mutating \cup {"gitops"}
        PROVE  prompt.says \cap MutatingTopics # {}
    <2>1. x[25].kind \in prompt.says \/ x[25].kind = in.kind
      BY <1>1 DEF PassesNormal, Normal, Claims, LooksLike
    <2>2. x[25].kind \in MutatingTopics \/ x[25].kind = in.kind
      BY <1>1, <1>5 DEF PassesNormal, Normal, Mutating, MutatingTopics
    <2>3. QED
      BY <1>5, <2>1, <2>2
  <1>6. x[25] = NormalizeVerb(in, prompt)
    BY <1>1 DEF Passes
  <1>7. QED
    BY <1>2, <1>3, <1>4, <1>5, <1>6 DEF Kept

\* A topic that no other topic claims from, and that does not claim from one:
\* what is not a mutation stays none when it is prepared again.
LEMMA ReadsAgain ==
    ASSUME NEW raw, IsIntent(raw), NEW prompt, ~({"optimize", "hpa"} \subseteq prompt.says),
           NEW in, IsIntent(in), in.kind = NormalizeVerb(raw, prompt).kind,
           in.kind \notin Mutating \cup {"gitops"}
    PROVE  NormalizeVerb(in, prompt).kind \notin Mutating \cup {"gitops"}
  <1>1. PICK x : Passes(x, raw, prompt) /\ PassesNormal(x, raw, prompt)
    BY PassesExist
  <1>2. PICK z : Passes(z, in, prompt) /\ PassesNormal(z, in, prompt)
    BY PassesExist
  <1>3. x[25].kind = in.kind /\ z[25] = NormalizeVerb(in, prompt)
    BY <1>1, <1>2 DEF Passes
  <1>4. x[25].kind = "unknown" => ~LooksLike(prompt, "workflow") /\ ~LooksLike(prompt, "tekton") /\ ~LooksLike(prompt, "keda") /\ ~LooksLike(prompt, "hpa") /\ ~LooksLike(prompt, "crossplane") /\ ~LooksLike(prompt, "gitops")
    BY SMTT(60), <1>1 DEF PassesNormal, Normal, Claims
  <1>5. x[25].kind = "get" => ~LooksLike(prompt, "tekton") /\ ~LooksLike(prompt, "keda") /\ ~LooksLike(prompt, "hpa") /\ ~LooksLike(prompt, "crossplane") /\ ~LooksLike(prompt, "gitops")
    BY SMTT(60), <1>1 DEF PassesNormal, Normal, Claims
  <1>6. x[25].kind \in {"describe", "explain"} => ~LooksLike(prompt, "gitops")
    BY SMTT(60), <1>1 DEF PassesNormal, Normal, Claims
  <1>7. x[25].kind = "optimize" => ~LooksLike(prompt, "hpa")
    <2>1. CASE "optimize" \in prompt.says
      BY <2>1 DEF LooksLike
    <2>2. CASE "optimize" \notin prompt.says
      <3>1. ~LooksLike(prompt, "optimize")
        BY <2>2 DEF LooksLike
      <3>2. QED
        BY SMTT(60), <1>1, <3>1 DEF PassesNormal, Normal, Claims
    <2>3. QED
      BY <2>1, <2>2
  <1>8. z[8].kind \notin Mutating \cup {"gitops"}
    BY SMTT(60), <1>2, <1>3, <1>4, <1>5, <1>6, <1>7 DEF PassesNormal, Normal, Claims, Mutating
  <1>9. z[25].kind \notin Mutating \cup {"gitops"}
    BY <1>2, <1>8 DEF PassesNormal, Normal, Mutating
  <1>10. QED
    BY <1>3, <1>9

LEMMA DeploySettles ==
    ASSUME NEW in, IsIntent(in), NEW prompt, NormalizeVerb(in, prompt).kind = "deploy"
    PROVE  /\ NormalizeVerb(in, prompt) = in
           /\ ~LooksLike(prompt, "install") /\ ~LooksLike(prompt, "workflow") /\ ~LooksLike(prompt, "tekton") /\ ~LooksLike(prompt, "keda") /\ ~LooksLike(prompt, "hpa") /\ ~LooksLike(prompt, "crossplane") /\ ~LooksLike(prompt, "gitops")
  <1>1. PICK x : Passes(x, in, prompt) /\ PassesNormal(x, in, prompt)
    BY PassesExist
  <1>2. x[25] = NormalizeVerb(in, prompt)
    BY <1>1 DEF Passes
  <1>3. in.kind = "deploy" /\ x[25] = in
    BY <1>1, <1>2 DEF PassesNormal, Normal
  <1>4. ~LooksLike(prompt, "install") /\ ~LooksLike(prompt, "workflow") /\ ~LooksLike(prompt, "tekton") /\ ~LooksLike(prompt, "keda") /\ ~LooksLike(prompt, "hpa") /\ ~LooksLike(prompt, "crossplane") /\ ~LooksLike(prompt, "gitops")
    BY <1>1, <1>2, <1>3 DEF PassesNormal, Normal, Claims
  <1>5. QED
    BY <1>2, <1>3, <1>4

LEMMA DeployAgain ==
    ASSUME NEW in, IsIntent(in), in.kind = "deploy", NEW prompt, ~LooksLike(prompt, "install"), ~LooksLike(prompt, "workflow"), ~LooksLike(prompt, "tekton"), ~LooksLike(prompt, "keda"), ~LooksLike(prompt, "hpa"), ~LooksLike(prompt, "crossplane"), ~LooksLike(prompt, "gitops")
    PROVE  NormalizeVerb(in, prompt) = in
  <1>1. PICK x : Passes(x, in, prompt) /\ PassesNormal(x, in, prompt)
    BY PassesExist
  <1>2. x[25] = NormalizeVerb(in, prompt)
    BY <1>1 DEF Passes
  <1>3. in = in /\ in.kind = "deploy" /\ x[25] = in
    BY <1>1 DEF PassesNormal, Normal, Claims
  <1>4. QED
    BY <1>2, <1>3

LEMMA UpgradeSettles ==
    ASSUME NEW in, IsIntent(in), NEW prompt, NormalizeVerb(in, prompt).kind = "upgrade"
    PROVE  /\ NormalizeVerb(in, prompt) = in
  <1>1. PICK x : Passes(x, in, prompt) /\ PassesNormal(x, in, prompt)
    BY PassesExist
  <1>2. x[25] = NormalizeVerb(in, prompt)
    BY <1>1 DEF Passes
  <1>3. in.kind = "upgrade" /\ x[25] = in
    BY <1>1, <1>2 DEF PassesNormal, Normal
  <1>4. QED
    BY <1>2, <1>3

LEMMA UpgradeAgain ==
    ASSUME NEW in, IsIntent(in), in.kind = "upgrade", NEW prompt
    PROVE  NormalizeVerb(in, prompt) = in
  <1>1. PICK x : Passes(x, in, prompt) /\ PassesNormal(x, in, prompt)
    BY PassesExist
  <1>2. x[25] = NormalizeVerb(in, prompt)
    BY <1>1 DEF Passes
  <1>3. in = in /\ in.kind = "upgrade" /\ x[25] = in
    BY SMTT(60), <1>1 DEF PassesNormal, Normal, Claims
  <1>4. QED
    BY <1>2, <1>3

LEMMA ScaleSettles ==
    ASSUME NEW in, IsIntent(in), NEW prompt, NormalizeVerb(in, prompt).kind = "scale"
    PROVE  /\ NormalizeVerb(in, prompt) = in
           /\ ~LooksLike(prompt, "keda") /\ ~LooksLike(prompt, "hpa")
  <1>1. PICK x : Passes(x, in, prompt) /\ PassesNormal(x, in, prompt)
    BY PassesExist
  <1>2. x[25] = NormalizeVerb(in, prompt)
    BY <1>1 DEF Passes
  <1>3. in.kind = "scale" /\ x[25] = in
    BY <1>1, <1>2 DEF PassesNormal, Normal
  <1>4. ~LooksLike(prompt, "keda") /\ ~LooksLike(prompt, "hpa")
    BY <1>1, <1>2, <1>3 DEF PassesNormal, Normal, Claims
  <1>5. QED
    BY <1>2, <1>3, <1>4

LEMMA ScaleAgain ==
    ASSUME NEW in, IsIntent(in), in.kind = "scale", NEW prompt, ~LooksLike(prompt, "keda"), ~LooksLike(prompt, "hpa")
    PROVE  NormalizeVerb(in, prompt) = in
  <1>1. PICK x : Passes(x, in, prompt) /\ PassesNormal(x, in, prompt)
    BY PassesExist
  <1>2. x[25] = NormalizeVerb(in, prompt)
    BY <1>1 DEF Passes
  <1>3. in = in /\ in.kind = "scale" /\ x[25] = in
    BY <1>1 DEF PassesNormal, Normal, Claims
  <1>4. QED
    BY <1>2, <1>3

LEMMA RollbackSettles ==
    ASSUME NEW in, IsIntent(in), NEW prompt, NormalizeVerb(in, prompt).kind = "rollback"
    PROVE  /\ NormalizeVerb(in, prompt) = in
           /\ ~LooksLike(prompt, "gitops")
  <1>1. PICK x : Passes(x, in, prompt) /\ PassesNormal(x, in, prompt)
    BY PassesExist
  <1>2. x[25] = NormalizeVerb(in, prompt)
    BY <1>1 DEF Passes
  <1>3. in.kind = "rollback" /\ x[25] = in
    BY <1>1, <1>2 DEF PassesNormal, Normal
  <1>4. ~LooksLike(prompt, "gitops")
    BY <1>1, <1>2, <1>3 DEF PassesNormal, Normal, Claims
  <1>5. QED
    BY <1>2, <1>3, <1>4

LEMMA RollbackAgain ==
    ASSUME NEW in, IsIntent(in), in.kind = "rollback", NEW prompt, ~LooksLike(prompt, "gitops")
    PROVE  NormalizeVerb(in, prompt) = in
  <1>1. PICK x : Passes(x, in, prompt) /\ PassesNormal(x, in, prompt)
    BY PassesExist
  <1>2. x[25] = NormalizeVerb(in, prompt)
    BY <1>1 DEF Passes
  <1>3. in = in /\ in.kind = "rollback" /\ x[25] = in
    BY <1>1 DEF PassesNormal, Normal, Claims
  <1>4. QED
    BY <1>2, <1>3

LEMMA DeleteSettles ==
    ASSUME NEW in, IsIntent(in), NEW prompt, NormalizeVerb(in, prompt).kind = "delete"
    PROVE  /\ NormalizeVerb(in, prompt) = in
           /\ ~LooksLike(prompt, "cleanup")
  <1>1. PICK x : Passes(x, in, prompt) /\ PassesNormal(x, in, prompt)
    BY PassesExist
  <1>2. x[25] = NormalizeVerb(in, prompt)
    BY <1>1 DEF Passes
  <1>3. in.kind = "delete" /\ x[25] = in
    BY <1>1, <1>2 DEF PassesNormal, Normal
  <1>4. ~LooksLike(prompt, "cleanup")
    BY <1>1, <1>2, <1>3 DEF PassesNormal, Normal, Claims
  <1>5. QED
    BY <1>2, <1>3, <1>4

LEMMA DeleteAgain ==
    ASSUME NEW in, IsIntent(in), in.kind = "delete", NEW prompt, ~LooksLike(prompt, "cleanup")
    PROVE  NormalizeVerb(in, prompt) = in
  <1>1. PICK x : Passes(x, in, prompt) /\ PassesNormal(x, in, prompt)
    BY PassesExist
  <1>2. x[25] = NormalizeVerb(in, prompt)
    BY <1>1 DEF Passes
  <1>3. in = in /\ in.kind = "delete" /\ x[25] = in
    BY <1>1 DEF PassesNormal, Normal, Claims
  <1>4. QED
    BY <1>2, <1>3

LEMMA InstallSettles ==
    ASSUME NEW in, IsIntent(in), NEW prompt, NormalizeVerb(in, prompt).kind = "install"
    PROVE  /\ \E y : /\ IsIntent(y) /\ y.ns = in.ns /\ y.ctx = in.ctx
                    /\ NormalizeVerb(in, prompt) = NormalizeInstall(y, prompt)
           /\ ~LooksLike(prompt, "crossplane")
  <1>1. PICK x : Passes(x, in, prompt) /\ PassesNormal(x, in, prompt)
    BY PassesExist
  <1>2. x[25] = NormalizeVerb(in, prompt) /\ x[1] = NormalizeInstall(in, prompt)
    BY <1>1 DEF Passes
  <1>3. x[1].kind = "install" /\ x[25] = x[1]
    BY <1>1, <1>2 DEF PassesNormal, Normal
  <1>4. ~LooksLike(prompt, "crossplane")
    BY SMTT(60), <1>1, <1>2, <1>3 DEF PassesNormal, Normal, Claims
  <1>5. QED
    BY <1>2, <1>3, <1>4

LEMMA InstallAgain ==
    ASSUME NEW in, IsIntent(in), in.kind = "install", NEW prompt, ~LooksLike(prompt, "crossplane")
    PROVE  NormalizeVerb(in, prompt) = NormalizeInstall(in, prompt)
  <1>1. PICK x : Passes(x, in, prompt) /\ PassesNormal(x, in, prompt)
    BY PassesExist
  <1>2. x[25] = NormalizeVerb(in, prompt) /\ x[1] = NormalizeInstall(in, prompt)
    BY <1>1 DEF Passes
  <1>3. in = in /\ x[1].kind = "install" /\ x[25] = x[1]
    BY <1>1 DEF PassesNormal, Normal, Claims
  <1>4. QED
    BY <1>2, <1>3

LEMMA WorkflowSettles ==
    ASSUME NEW in, IsIntent(in), NEW prompt, NormalizeVerb(in, prompt).kind = "workflow"
    PROVE  /\ \E y : /\ IsIntent(y) /\ y.ns = in.ns /\ y.ctx = in.ctx
                    /\ NormalizeVerb(in, prompt) = NormalizeWorkflow(y, prompt)
           /\ ~LooksLike(prompt, "tekton")
  <1>1. PICK x : Passes(x, in, prompt) /\ PassesNormal(x, in, prompt)
    BY PassesExist
  <1>2. x[25] = NormalizeVerb(in, prompt) /\ x[2] = NormalizeWorkflow(x[1], prompt)
    BY <1>1 DEF Passes
  <1>3. x[2].kind = "workflow" /\ x[25] = x[2]
    BY <1>1, <1>2 DEF PassesNormal, Normal
  <1>4. ~LooksLike(prompt, "tekton")
    BY SMTT(60), <1>1, <1>2, <1>3 DEF PassesNormal, Normal, Claims
  <1>5. IsIntent(x[1]) /\ x[1].ns = in.ns /\ x[1].ctx = in.ctx
    BY <1>1 DEF PassesNormal, Normal
  <1>6. QED
    BY <1>2, <1>3, <1>4, <1>5

LEMMA WorkflowAgain ==
    ASSUME NEW in, IsIntent(in), in.kind = "workflow", NEW prompt, ~LooksLike(prompt, "tekton")
    PROVE  NormalizeVerb(in, prompt) = NormalizeWorkflow(in, prompt)
  <1>1. PICK x : Passes(x, in, prompt) /\ PassesNormal(x, in, prompt)
    BY PassesExist
  <1>2. x[25] = NormalizeVerb(in, prompt) /\ x[2] = NormalizeWorkflow(x[1], prompt)
    BY <1>1 DEF Passes
  <1>3. x[1] = in /\ x[2].kind = "workflow" /\ x[25] = x[2]
    BY <1>1 DEF PassesNormal, Normal, Claims
  <1>4. QED
    BY <1>2, <1>3

LEMMA TektonSettles ==
    ASSUME NEW in, IsIntent(in), NEW prompt, NormalizeVerb(in, prompt).kind = "tekton"
    PROVE  /\ \E y : /\ IsIntent(y) /\ y.ns = in.ns /\ y.ctx = in.ctx
                    /\ NormalizeVerb(in, prompt) = NormalizeTekton(y, prompt)
  <1>1. PICK x : Passes(x, in, prompt) /\ PassesNormal(x, in, prompt)
    BY PassesExist
  <1>2. x[25] = NormalizeVerb(in, prompt) /\ x[3] = NormalizeTekton(x[2], prompt)
    BY <1>1 DEF Passes
  <1>3. x[3].kind = "tekton" /\ x[25] = x[3]
    BY <1>1, <1>2 DEF PassesNormal, Normal
  <1>4. IsIntent(x[2]) /\ x[2].ns = in.ns /\ x[2].ctx = in.ctx
    BY <1>1 DEF PassesNormal, Normal
  <1>5. QED
    BY <1>2, <1>3, <1>4

LEMMA TektonAgain ==
    ASSUME NEW in, IsIntent(in), in.kind = "tekton", NEW prompt
    PROVE  NormalizeVerb(in, prompt) = NormalizeTekton(in, prompt)
  <1>1. PICK x : Passes(x, in, prompt) /\ PassesNormal(x, in, prompt)
    BY PassesExist
  <1>2. x[25] = NormalizeVerb(in, prompt) /\ x[3] = NormalizeTekton(x[2], prompt)
    BY <1>1 DEF Passes
  <1>3. x[2] = in /\ x[3].kind = "tekton" /\ x[25] = x[3]
    BY <1>1 DEF PassesNormal, Normal, Claims
  <1>4. QED
    BY <1>2, <1>3

LEMMA KEDASettles ==
    ASSUME NEW in, IsIntent(in), NEW prompt, NormalizeVerb(in, prompt).kind = "keda"
    PROVE  /\ \E y : /\ IsIntent(y) /\ y.ns = in.ns /\ y.ctx = in.ctx
                    /\ NormalizeVerb(in, prompt) = NormalizeKEDA(y, prompt)
  <1>1. PICK x : Passes(x, in, prompt) /\ PassesNormal(x, in, prompt)
    BY PassesExist
  <1>2. x[25] = NormalizeVerb(in, prompt) /\ x[4] = NormalizeKEDA(x[3], prompt)
    BY <1>1 DEF Passes
  <1>3. x[4].kind = "keda" /\ x[25] = x[4]
    BY <1>1, <1>2 DEF PassesNormal, Normal
  <1>4. IsIntent(x[3]) /\ x[3].ns = in.ns /\ x[3].ctx = in.ctx
    BY <1>1 DEF PassesNormal, Normal
  <1>5. QED
    BY <1>2, <1>3, <1>4

LEMMA KEDAAgain ==
    ASSUME NEW in, IsIntent(in), in.kind = "keda", NEW prompt
    PROVE  NormalizeVerb(in, prompt) = NormalizeKEDA(in, prompt)
  <1>1. PICK x : Passes(x, in, prompt) /\ PassesNormal(x, in, prompt)
    BY PassesExist
  <1>2. x[25] = NormalizeVerb(in, prompt) /\ x[4] = NormalizeKEDA(x[3], prompt)
    BY <1>1 DEF Passes
  <1>3. x[3] = in /\ x[4].kind = "keda" /\ x[25] = x[4]
    BY <1>1 DEF PassesNormal, Normal, Claims
  <1>4. QED
    BY <1>2, <1>3

LEMMA HPASettles ==
    ASSUME NEW in, IsIntent(in), NEW prompt, NormalizeVerb(in, prompt).kind = "hpa"
    PROVE  /\ \E y : /\ IsIntent(y) /\ y.ns = in.ns /\ y.ctx = in.ctx
                    /\ NormalizeVerb(in, prompt) = NormalizeHPA(y, prompt)
  <1>1. PICK x : Passes(x, in, prompt) /\ PassesNormal(x, in, prompt)
    BY PassesExist
  <1>2. x[25] = NormalizeVerb(in, prompt) /\ x[5] = NormalizeHPA(x[4], prompt)
    BY <1>1 DEF Passes
  <1>3. x[5].kind = "hpa" /\ x[25] = x[5]
    BY <1>1, <1>2 DEF PassesNormal, Normal
  <1>4. IsIntent(x[4]) /\ x[4].ns = in.ns /\ x[4].ctx = in.ctx
    BY <1>1 DEF PassesNormal, Normal
  <1>5. QED
    BY <1>2, <1>3, <1>4

LEMMA HPAAgain ==
    ASSUME NEW in, IsIntent(in), in.kind = "hpa", NEW prompt
    PROVE  NormalizeVerb(in, prompt) = NormalizeHPA(in, prompt)
  <1>1. PICK x : Passes(x, in, prompt) /\ PassesNormal(x, in, prompt)
    BY PassesExist
  <1>2. x[25] = NormalizeVerb(in, prompt) /\ x[5] = NormalizeHPA(x[4], prompt)
    BY <1>1 DEF Passes
  <1>3. x[4] = in /\ x[5].kind = "hpa" /\ x[25] = x[5]
    BY <1>1 DEF PassesNormal, Normal, Claims
  <1>4. QED
    BY <1>2, <1>3

LEMMA CrossplaneSettles ==
    ASSUME NEW in, IsIntent(in), NEW prompt, NormalizeVerb(in, prompt).kind = "crossplane"
    PROVE  /\ \E y : /\ IsIntent(y) /\ y.ns = in.ns /\ y.ctx = in.ctx
                    /\ NormalizeVerb(in, prompt) = NormalizeCrossplane(y, prompt)
  <1>1. PICK x : Passes(x, in, prompt) /\ PassesNormal(x, in, prompt)
    BY PassesExist
  <1>2. x[25] = NormalizeVerb(in, prompt) /\ x[7] = NormalizeCrossplane(x[6], prompt)
    BY <1>1 DEF Passes
  <1>3. x[7].kind = "crossplane" /\ x[25] = x[7]
    BY <1>1, <1>2 DEF PassesNormal, Normal
  <1>4. IsIntent(x[6]) /\ x[6].ns = in.ns /\ x[6].ctx = in.ctx
    BY <1>1 DEF PassesNormal, Normal
  <1>5. QED
    BY <1>2, <1>3, <1>4

LEMMA CrossplaneAgain ==
    ASSUME NEW in, IsIntent(in), in.kind = "crossplane", NEW prompt
    PROVE  NormalizeVerb(in, prompt) = NormalizeCrossplane(in, prompt)
  <1>1. PICK x : Passes(x, in, prompt) /\ PassesNormal(x, in, prompt)
    BY PassesExist
  <1>2. x[25] = NormalizeVerb(in, prompt) /\ x[7] = NormalizeCrossplane(x[6], prompt)
    BY <1>1 DEF Passes
  <1>3. x[6] = in /\ x[7].kind = "crossplane" /\ x[25] = x[7]
    BY <1>1 DEF PassesNormal, Normal, Claims
  <1>4. QED
    BY <1>2, <1>3

LEMMA GitOpsSettles ==
    ASSUME NEW in, IsIntent(in), NEW prompt, NormalizeVerb(in, prompt).kind = "gitops"
    PROVE  /\ \E y : /\ IsIntent(y) /\ y.ns = in.ns /\ y.ctx = in.ctx
                    /\ NormalizeVerb(in, prompt) = NormalizeGitOps(y, prompt)
           /\ ~LooksLike(prompt, "learn") /\ ~LooksLike(prompt, "drift")
  <1>1. PICK x : Passes(x, in, prompt) /\ PassesNormal(x, in, prompt)
    BY PassesExist
  <1>2. x[25] = NormalizeVerb(in, prompt) /\ x[8] = NormalizeGitOps(x[7], prompt)
    BY <1>1 DEF Passes
  <1>3. x[8].kind = "gitops" /\ x[25] = x[8]
    BY <1>1, <1>2 DEF PassesNormal, Normal
  <1>4. ~LooksLike(prompt, "learn") /\ ~LooksLike(prompt, "drift")
    BY <1>1, <1>2, <1>3 DEF PassesNormal, Normal, Claims
  <1>5. IsIntent(x[7]) /\ x[7].ns = in.ns /\ x[7].ctx = in.ctx
    BY <1>1 DEF PassesNormal, Normal
  <1>6. QED
    BY <1>2, <1>3, <1>4, <1>5

LEMMA GitOpsAgain ==
    ASSUME NEW in, IsIntent(in), in.kind = "gitops", NEW prompt, ~LooksLike(prompt, "learn"), ~LooksLike(prompt, "drift")
    PROVE  NormalizeVerb(in, prompt) = NormalizeGitOps(in, prompt)
  <1>1. PICK x : Passes(x, in, prompt) /\ PassesNormal(x, in, prompt)
    BY PassesExist
  <1>2. x[25] = NormalizeVerb(in, prompt) /\ x[8] = NormalizeGitOps(x[7], prompt)
    BY <1>1 DEF Passes
  <1>3. x[7] = in /\ x[8].kind = "gitops" /\ x[25] = x[8]
    BY <1>1 DEF PassesNormal, Normal, Claims
  <1>4. QED
    BY <1>2, <1>3

-------------------------------------------------------------------------------

(***************************************************************************)
(* The builders: the plan that each of them makes of an intent.            *)
(***************************************************************************)

\* What every builder makes of an intent.
Built(p, in) ==
    /\ IsExecutionPlan(p) /\ p.intent.kind = in.kind
    /\ ~p.approval => in.kind \in ReadKinds \cup {"gitops", "deny"}
    /\ p.approval =>
        /\ in.kind \in Mutating \cup {"gitops"} /\ p.intent.ns = in.ns /\ p.intent.ctx = in.ctx
        /\ \A i \in DOMAIN p.actions :
            /\ p.actions[i].ns \in {Unset, Or(in.ns, "default")}
            /\ p.actions[i].context \in {Unset, in.ctx}

LEMMA ActIs ==
    ASSUME NEW op, NEW backend, NEW object, NEW name, NEW ns,
           NEW a, a = Act(op, backend, object, name, ns)
    PROVE  IsAction(a) /\ a.ns = ns /\ a.context = Unset
  BY DEF Act, IsAction

LEMMA HelmActIs ==
    ASSUME NEW op, NEW object, NEW name, NEW ns, NEW context,
           NEW a, a = HelmAct(op, object, name, ns, context)
    PROVE  IsAction(a) /\ a.ns = ns /\ a.context = context /\ a.op = op
  BY DEF Act, HelmAct, IsAction

LEMMA ReadsBuilt ==
    ASSUME NEW in, NEW x, IsIntent(x), x.kind = in.kind, in.kind \in ReadKinds \cup {"gitops", "deny"},
           NEW a, IsAction(a)
    PROVE  Built(Reads(x, a), in)
  <1>1. PICK p : p = Reads(x, a)
    OBVIOUS
  <1>2. p = [intent |-> x, approval |-> FALSE, actions |-> <<a>>]
    BY <1>1 DEF Reads
  <1>3. p.actions = [i \in 1..1 |-> p.actions[i]] /\ DOMAIN p.actions = 1..1 /\ p.actions[1] = a
    BY <1>2
  <1>4. IsExecutionPlan(p)
    BY <1>2, <1>3 DEF IsExecutionPlan
  <1>5. QED
    BY <1>1, <1>2, <1>4 DEF Built

LEMMA MutatesBuilt ==
    ASSUME NEW in, NEW x, IsIntent(x), x.kind = in.kind, in.kind \in Mutating \cup {"gitops"},
           x.ns = in.ns, x.ctx = in.ctx,
           NEW actions, NEW n \in Nat, actions = [i \in 1..n |-> actions[i]],
           \A i \in 1..n : /\ IsAction(actions[i])
                           /\ actions[i].ns \in {Unset, Or(in.ns, "default")}
                           /\ actions[i].context \in {Unset, in.ctx}
    PROVE  Built(Mutates(x, actions), in)
  <1>1. PICK p : p = Mutates(x, actions)
    OBVIOUS
  <1>2. p = [intent |-> x, approval |-> TRUE, actions |-> actions]
    BY <1>1 DEF Mutates
  <1>3. DOMAIN p.actions = 1..n
    BY <1>2
  <1>4. IsExecutionPlan(p)
    BY <1>2, <1>3 DEF IsExecutionPlan
  <1>5. p.intent = x /\ p.approval = TRUE /\ p.actions = actions
    BY <1>2
  <1>6. \A i \in DOMAIN p.actions : /\ p.actions[i].ns \in {Unset, Or(in.ns, "default")}
                                    /\ p.actions[i].context \in {Unset, in.ctx}
    BY <1>3, <1>5
  <1>7. QED
    BY <1>1, <1>4, <1>5, <1>6 DEF Built

LEMMA MutatesOneBuilt ==
    ASSUME NEW in, IsIntent(in), in.kind \in Mutating \cup {"gitops"},
           NEW op, NEW backend, NEW object, NEW name
    PROVE  Built(Mutates(in, <<Act(op, backend, object, name, Or(in.ns, "default"))>>), in)
  <1>1. PICK a : a = Act(op, backend, object, name, Or(in.ns, "default"))
    OBVIOUS
  <1>2. IsAction(a) /\ a.ns = Or(in.ns, "default") /\ a.context = Unset
    BY <1>1, ActIs
  <1>3. PICK s : s = <<a>>
    OBVIOUS
  <1>4. s = [i \in 1..1 |-> s[i]] /\ \A i \in 1..1 : s[i] = a
    BY <1>3
  <1>5. 1 \in Nat
    OBVIOUS
  <1>6. \A i \in 1..1 : /\ IsAction(s[i])
                        /\ s[i].ns \in {Unset, Or(in.ns, "default")}
                        /\ s[i].context \in {Unset, in.ctx}
    BY <1>2, <1>4
  <1>8. Built(Mutates(in, s), in)
    BY <1>4, <1>5, <1>6, MutatesBuilt
  <1>7. QED
    BY <1>1, <1>3, <1>8

LEMMA GetBuilt ==
    ASSUME NEW in, IsIntent(in), in.kind = "get", NEW ns, buildGet(in, ns) # NoPlan
    PROVE  Built(buildGet(in, ns), in)
  <1> DEFINE object == Or(in.object, "Pod")
             where == IF object \in ClusterKinds THEN Unset ELSE ns
  <1>1. PICK o, w : o = object /\ w = where
    OBVIOUS
  <1>2. PICK x : x = [in EXCEPT !.object = o, !.ns = w]
    OBVIOUS
  <1>3. PICK a : a = Act("get", "kubernetes", o, in.name, w)
    OBVIOUS
  <1>4. buildGet(in, ns) = Reads(x, a)
    BY <1>1, <1>2, <1>3 DEF buildGet, Given
  <1>5. PICK y : y = [in EXCEPT !.object = o]
    OBVIOUS
  <1>6. IsIntent(y) /\ y.kind = "get"
    BY <1>5, SetObject
  <1>7. x = [y EXCEPT !.ns = w]
    BY <1>2, <1>5 DEF IsIntent
  <1>8. IsIntent(x) /\ x.kind = "get"
    BY <1>6, <1>7, SetNs
  <1>9. IsAction(a)
    BY <1>3, ActIs
  <1>10. QED
    BY <1>4, <1>8, <1>9, ReadsBuilt DEF ReadKinds

LEMMA DiagnosisBuilt ==
    ASSUME NEW in, NEW y, IsIntent(y), y.kind = in.kind, in.kind \in ReadKinds, NEW ns, NEW objects, NEW default,
           Diagnosis(y, ns, objects, default) # NoPlan
    PROVE  Built(Diagnosis(y, ns, objects, default), in)
  BY ActIs, ReadsBuilt DEF Diagnosis, Given

LEMMA TimelineBuilt ==
    ASSUME NEW in, IsIntent(in), in.kind \in ReadKinds, NEW ns, buildTimeline(in, ns) # NoPlan
    PROVE  Built(buildTimeline(in, ns), in)
  <1>1. PICK x : x = in.params ++ [window |-> 60]
    OBVIOUS
  <1>2. PICK y : y = [in EXCEPT !.params = x]
    OBVIOUS
  <1>3. IsIntent(y) /\ y.kind = in.kind
    BY <1>1, <1>2, PlusIsFunction, SetParams
  <1>4. buildTimeline(in, ns) = Diagnosis(y, ns, {"Pod", "Deployment"}, "Deployment")
    BY <1>1, <1>2 DEF buildTimeline, buildExplain
  <1>5. QED
    BY <1>3, <1>4, DiagnosisBuilt

\* A windowed plan is either not given, or given with the window made explicit.
LEMMA WithinIs ==
    ASSUME NEW in, NEW default, NEW plan
    PROVE  \/ Within(in, default, plan) = NoPlan
           \/ Within(in, default, plan) = [plan EXCEPT !.intent.params = @ ++ [window |-> default]]
  BY DEF Within, Given

LEMMA WithinBuilt ==
    ASSUME NEW in, NEW default, NEW x, IsIntent(x), x.kind = in.kind, in.kind \in ReadKinds, NEW a, IsAction(a),
           Within(in, default, Reads(x, a)) # NoPlan
    PROVE  Built(Within(in, default, Reads(x, a)), in)
  <1>1. PICK q : q = x.params ++ [window |-> default]
    OBVIOUS
  <1>2. PICK y : y = [x EXCEPT !.params = q]
    OBVIOUS
  <1>3. IsIntent(y) /\ y.kind = in.kind
    BY <1>1, <1>2, PlusIsFunction, SetParams
  <1>4. PICK p : p = [intent |-> x, approval |-> FALSE, actions |-> <<a>>]
    OBVIOUS
  <1>5. Within(in, default, Reads(x, a)) = [p EXCEPT !.intent.params = p.intent.params ++ [window |-> default]]
    <2>1. Reads(x, a) = p
      BY <1>4 DEF Reads
    <2>2. \/ Within(in, default, p) = NoPlan
          \/ Within(in, default, p) = [p EXCEPT !.intent.params = p.intent.params ++ [window |-> default]]
      BY WithinIs
    <2>3. QED
      BY <2>1, <2>2
  <1>7. PICK r : r = [p EXCEPT !.intent.params = p.intent.params ++ [window |-> default]]
    OBVIOUS
  <1>8. r.intent = [x EXCEPT !.params = q] /\ r.approval = FALSE /\ r.actions = <<a>>
    BY <1>1, <1>4, <1>7
  <1>9. r = [intent |-> r.intent, approval |-> r.approval, actions |-> r.actions]
    BY <1>4, <1>7
  <1>10. Within(in, default, Reads(x, a)) = Reads(y, a)
    BY <1>2, <1>5, <1>7, <1>8, <1>9 DEF Reads
  <1>6. QED
    BY <1>3, <1>10, ReadsBuilt

LEMMA ScopeIs ==
    ASSUME NEW in, IsIntent(in)
    PROVE  IsIntent(Scope(in)) /\ Scope(in).kind = in.kind
  BY SMTT(60), SetNs DEF Scope

LEMMA ScanBuilt ==
    ASSUME NEW in, NEW y, IsIntent(y), y.kind = in.kind, in.kind \in ReadKinds, NEW backend, NEW object
    PROVE  \E x, a : Scan(y, backend, object) = Reads(x, a) /\ IsIntent(x) /\ x.kind = in.kind /\ IsAction(a)
  <1>1. PICK o : o = Or(Scope(y).object, object)
    OBVIOUS
  <1>2. PICK x : x = [Scope(y) EXCEPT !.object = o]
    OBVIOUS
  <1>3. IsIntent(x) /\ x.kind = in.kind
    BY <1>2, ScopeIs, SetObject
  <1>4. PICK a : a = Act(y.kind, backend, Or(y.object, object), Unset, Scope(y).ns)
    OBVIOUS
  <1>5. IsAction(a)
    BY <1>4, ActIs
  <1>6. Scan(y, backend, object) = Reads(x, a)
    BY <1>1, <1>2, <1>4 DEF Scan
  <1>7. QED
    BY <1>3, <1>5, <1>6

LEMMA OptimizeBuilt ==
    ASSUME NEW in, IsIntent(in), in.kind \in ReadKinds, buildOptimize(in) # NoPlan
    PROVE  Built(buildOptimize(in), in)
  BY ScanBuilt, WithinBuilt DEF buildOptimize

LEMMA ReportBuilt ==
    ASSUME NEW in, NEW y, IsIntent(y), y.kind = in.kind, in.kind \in ReadKinds, NEW backend, NEW object
    PROVE  Built(Scan(y, backend, object), in)
  BY ScanBuilt, ReadsBuilt

LEMMA SearchBuilt ==
    ASSUME NEW in, IsIntent(in), in.kind \in ReadKinds, buildSearch(in) # NoPlan
    PROVE  Built(buildSearch(in), in)
  <1>1. PICK o : o = IF in.object \in {"Cluster", "Namespace"} THEN Unset ELSE in.object
    OBVIOUS
  <1>2. PICK y : y = [in EXCEPT !.object = o]
    OBVIOUS
  <1>3. IsIntent(y) /\ y.kind = in.kind
    BY <1>2, SetObject
  <1>4. buildSearch(in) = Scan(y, "search", "Deployment")
    BY <1>1, <1>2 DEF buildSearch, Given
  <1>5. QED
    BY <1>3, <1>4, ReportBuilt

LEMMA DriftBuilt ==
    ASSUME NEW in, IsIntent(in), in.kind \in ReadKinds
    PROVE  Built(buildDrift(in), in)
  <1> DEFINE object == IF in.name = Unset THEN Or(in.object, Place(in)) ELSE in.object
  <1>1. PICK o : o = object
    OBVIOUS
  <1>2. PICK x : x = [Scope(in) EXCEPT !.object = o]
    OBVIOUS
  <1>3. IsIntent(x) /\ x.kind = in.kind
    BY <1>2, ScopeIs, SetObject
  <1>4. PICK a : a = Act("drift", "drift", Or(o, "Cluster"), in.name, Scope(in).ns)
    OBVIOUS
  <1>5. IsAction(a)
    BY <1>4, ActIs
  <1>6. buildDrift(in) = Reads(x, a)
    BY <1>1, <1>2, <1>4 DEF buildDrift
  <1>7. QED
    BY <1>3, <1>5, <1>6, ReadsBuilt

LEMMA ObjectBuilt ==
    ASSUME NEW in, IsIntent(in), in.kind \in {"istio", "learn"}
    PROVE  Built(IF in.kind = "istio" THEN buildIstio(in) ELSE buildLearn(in), in)
  <1>1. PICK o : o = Or(in.object, IF in.kind = "istio" THEN "VirtualService" ELSE "Cluster")
    OBVIOUS
  <1>2. PICK x : x = [in EXCEPT !.object = o]
    OBVIOUS
  <1>3. IsIntent(x) /\ x.kind = in.kind
    BY <1>2, SetObject
  <1>4. PICK a : a = IF in.kind = "istio" THEN Act("istio-traffic", "istio", "VirtualService", in.name, in.ns)
                     ELSE Act("learn", "learn", Or(in.object, "Cluster"), Unset, Unset)
    OBVIOUS
  <1>5. IsAction(a)
    BY <1>4, ActIs
  <1>6. (IF in.kind = "istio" THEN buildIstio(in) ELSE buildLearn(in)) = Reads(x, a)
    BY <1>1, <1>2, <1>4 DEF buildIstio, buildLearn
  <1>7. QED
    BY <1>3, <1>5, <1>6, ReadsBuilt DEF ReadKinds

LEMMA DeployBuilt ==
    ASSUME NEW in, IsIntent(in), in.kind \in Mutating, buildDeploy(in, Or(in.ns, "default")) # NoPlan
    PROVE  Built(buildDeploy(in, Or(in.ns, "default")), in)
  <1> DEFINE exposed == IF Has(in, "port") THEN in.params["port"] > 0 ELSE in.name \in KnownApps
  <1>1. PICK a, b : /\ a = Act("create", Unset, "Deployment", in.name, Or(in.ns, "default"))
                    /\ b = Act("create", Unset, "Service", in.name, Or(in.ns, "default"))
    OBVIOUS
  <1>2. /\ IsAction(a) /\ a.ns = Or(in.ns, "default") /\ a.context = Unset
        /\ IsAction(b) /\ b.ns = Or(in.ns, "default") /\ b.context = Unset
    BY <1>1, ActIs
  <1>3. CASE exposed
    <2>1. PICK s : s = <<a>> \o <<b>>
      OBVIOUS
    <2>2. s \in Seq({a, b}) /\ Len(s) = 2 /\ s[1] = a /\ s[2] = b
      BY <2>1
    <2>3. s = [i \in 1..2 |-> s[i]] /\ \A i \in 1..2 : s[i] = a \/ s[i] = b
      BY <2>2
    <2>4. Built(Mutates(in, s), in)
      <3>1. 2 \in Nat
        OBVIOUS
      <3>2. \A i \in 1..2 : /\ IsAction(s[i])
                            /\ s[i].ns \in {Unset, Or(in.ns, "default")}
                            /\ s[i].context \in {Unset, in.ctx}
        BY <1>2, <2>3
      <3>3. QED
        BY <2>3, <3>1, <3>2, MutatesBuilt
    <2>5. QED
      BY <1>1, <1>3, <2>1, <2>4 DEF buildDeploy, Given
  <1>4. CASE ~exposed
    <2>1. PICK s : s = <<a>> \o <<>>
      OBVIOUS
    <2>2. s = <<a>>
      BY <2>1
    <2>3. buildDeploy(in, Or(in.ns, "default")) = Mutates(in, s)
      BY <1>1, <1>4, <2>1 DEF buildDeploy, Given
    <2>4. QED
      BY <1>1, <2>2, <2>3, MutatesOneBuilt
  <1>5. QED
    BY <1>3, <1>4

LEMMA HelmBuilt ==
    ASSUME NEW in, IsIntent(in), in.kind \in {"install", "upgrade"},
           NEW p, p # NoPlan,
           p = IF in.kind = "install" THEN buildInstall(in, Or(in.ns, "default"))
               ELSE buildUpgrade(in, Or(in.ns, "default"))
    PROVE  Built(p, in)
  <1>1. PICK a, b, c, d :
            /\ a = helmRepoAction(in) /\ b = [helmRepoAction(in) EXCEPT !.op = "helm-repo-update"]
            /\ c = HelmAct("helm-install", "HelmRelease", Param(in, "release", in.name), Or(in.ns, "default"), in.ctx)
            /\ d = HelmAct("helm-upgrade", "HelmRelease", Param(in, "release", in.name), Or(in.ns, "default"), in.ctx)
    OBVIOUS
  <1> DEFINE Good(x) == /\ IsAction(x) /\ x.ns \in {Unset, Or(in.ns, "default")}
                        /\ x.context \in {Unset, in.ctx}
  <1>2. IsAction(a) /\ a.ns = Unset /\ a.context = Unset
    BY <1>1, HelmActIs DEF helmRepoAction
  <1>3. b = [a EXCEPT !.op = "helm-repo-update"]
    BY <1>1
  <1>4. IsAction(b) /\ b.ns = Unset /\ b.context = Unset
    BY <1>2, <1>3 DEF IsAction
  <1>5. Good(a) /\ Good(b) /\ Good(c) /\ Good(d)
    BY <1>1, <1>2, <1>4, HelmActIs
  <1>6. in.kind \in Mutating \cup {"gitops"}
    BY DEF Mutating
  <1>7. CASE in.kind = "install"
    <2>1. PICK s : s = <<a, c>>
      OBVIOUS
    <2>2. s = [i \in 1..2 |-> s[i]] /\ \A i \in 1..2 : s[i] = a \/ s[i] = c
      BY <2>1
    <2>3. \A i \in 1..2 : Good(s[i])
      BY <1>5, <2>2
    <2>4. 2 \in Nat
      OBVIOUS
    <2>5. Built(Mutates(in, s), in)
      BY <1>6, <2>2, <2>3, <2>4, MutatesBuilt
    <2>6. QED
      BY <1>1, <1>7, <2>1, <2>5 DEF buildInstall, Given
  <1>8. CASE in.kind = "upgrade"
    <2>1. PICK s : s = <<a, b, d>>
      OBVIOUS
    <2>2. s = [i \in 1..3 |-> s[i]] /\ \A i \in 1..3 : s[i] = a \/ s[i] = b \/ s[i] = d
      BY <2>1
    <2>3. \A i \in 1..3 : Good(s[i])
      BY <1>5, <2>2
    <2>4. 3 \in Nat
      OBVIOUS
    <2>5. Built(Mutates(in, s), in)
      BY <1>6, <2>2, <2>3, <2>4, MutatesBuilt
    <2>6. QED
      BY <1>1, <1>8, <2>1, <2>5 DEF buildUpgrade, Given
  <1>9. QED
    BY <1>7, <1>8

LEMMA OneBuilt ==
    ASSUME NEW in, IsIntent(in), in.kind \in Mutating, NEW ns, ns = Or(in.ns, "default"), NEW p, p # NoPlan,
           p \in {buildDelete(in, ns), buildScale(in, ns), buildRollback(in, ns), buildWorkflow(in, ns),
                  buildTekton(in, ns), buildKEDA(in, ns), buildHPA(in, ns), buildCrossplane(in, ns)}
    PROVE  Built(p, in)
  <1>1. \E op, backend, object, name :
            p = Mutates(in, <<Act(op, backend, object, name, Or(in.ns, "default"))>>)
    BY DEF buildDelete, buildScale, buildRollback, buildWorkflow, buildTekton, buildKEDA, buildHPA,
           buildCrossplane, Given
  <1>2. QED
    BY <1>1, MutatesOneBuilt

LEMMA GitOpsBuilt ==
    ASSUME NEW in, IsIntent(in), in.kind = "gitops", buildGitOps(in, Or(in.ns, "default")) # NoPlan
    PROVE  Built(buildGitOps(in, Or(in.ns, "default")), in)
  <1> DEFINE action == Param(in, "action", "status")
             engine == Param(in, "engine", "auto")
             kind   == IF engine = "flux" THEN "Kustomization" ELSE "Application"
             shown  == IF engine = "auto" THEN Or(in.object, kind) ELSE kind
             ps     == [in.params EXCEPT !["action"] = IF @ = "reconcile" THEN "sync" ELSE @]
  <1>1. CASE action \in {"status", "health", "show", "list"}
    <2>1. PICK a : a = Act("gitops-status", "gitops", shown, in.name, Or(in.ns, "default"))
      OBVIOUS
    <2>2. IsAction(a)
      BY <2>1, ActIs
    <2>3. buildGitOps(in, Or(in.ns, "default")) = Reads(in, a)
      BY <1>1, <2>1 DEF buildGitOps
    <2>4. QED
      BY <2>2, <2>3, ReadsBuilt
  <1>2. CASE action \in {"sync", "promote", "rollback", "reconcile"}
    <2>1. PICK q : q = ps
      OBVIOUS
    <2>2. q = [p \in DOMAIN q |-> q[p]]
      BY <2>1 DEF IsIntent
    <2>3. PICK k : k = kind
      OBVIOUS
    <2>5. PICK w : w = [in EXCEPT !.object = k]
      OBVIOUS
    <2>4. PICK x : x = [w EXCEPT !.params = q]
      OBVIOUS
    <2>6. IsIntent(w) /\ w.kind = "gitops" /\ w.ns = in.ns /\ w.ctx = in.ctx /\ w.params = in.params
      BY <2>5, SetObject
    <2>7. IsIntent(x) /\ x.kind = "gitops" /\ x.ns = in.ns /\ x.ctx = in.ctx
      BY <2>2, <2>4, <2>6, SetParams
    <2>8. PICK a : a = Act("gitops-sync", "gitops", k, in.name, Or(in.ns, "default"))
      OBVIOUS
    <2>9. IsAction(a) /\ a.ns = Or(in.ns, "default") /\ a.context = Unset
      BY <2>8, ActIs
    <2>10. [in EXCEPT !.object = k, !.params["action"] = IF @ = "reconcile" THEN "sync" ELSE @] = x
      BY <2>1, <2>4, <2>5 DEF IsIntent
    <2>11. buildGitOps(in, Or(in.ns, "default")) = Mutates(x, <<a>>)
      BY <1>2, <2>3, <2>8, <2>10 DEF buildGitOps, Given
    <2>12. PICK s : s = <<a>>
      OBVIOUS
    <2>13. s = [i \in 1..1 |-> s[i]] /\ \A i \in 1..1 : s[i] = a
      BY <2>12
    <2>14. 1 \in Nat
      OBVIOUS
    <2>15. \A i \in 1..1 : IsAction(s[i]) /\ s[i].ns \in {Unset, Or(in.ns, "default")} /\ s[i].context \in {Unset, in.ctx}
      BY <2>9, <2>13
    <2>16. Built(Mutates(x, s), in)
      BY <2>7, <2>13, <2>14, <2>15, MutatesBuilt
    <2>17. QED
      BY <2>11, <2>12, <2>16
  <1>3. CASE action \notin {"status", "health", "show", "list", "sync", "promote", "rollback", "reconcile"}
    BY <1>3 DEF buildGitOps
  <1>4. QED
    BY <1>1, <1>2, <1>3

LEMMA DenyBuilt ==
    ASSUME NEW in, IsIntent(in), in.kind = "deny"
    PROVE  Built([intent |-> in, approval |-> FALSE, actions |-> <<>>], in)
  <1>1. PICK p : p = [intent |-> in, approval |-> FALSE, actions |-> <<>>]
    OBVIOUS
  <1>2. p.actions = [i \in 1..0 |-> p.actions[i]] /\ DOMAIN p.actions = {}
    BY <1>1
  <1>3. IsExecutionPlan(p)
    BY <1>1, <1>2 DEF IsExecutionPlan
  <1>4. QED
    BY <1>1, <1>3 DEF Built

LEMMA BuildBuilt ==
    ASSUME NEW in, IsIntent(in), Build(in) # NoPlan
    PROVE  Built(Build(in), in)
  <1> DEFINE ns == Or(in.ns, "default")
  <1>1. CASE in.kind \in {"explain", "investigate", "why", "describe"}
    <2>1. Build(in) = buildExplain(in, ns)
      BY <1>1 DEF Build
    <2>2. QED
      BY <1>1, <2>1, DiagnosisBuilt DEF buildExplain, ReadKinds
  <1>2. CASE in.kind = "scale"
    <2>1. Build(in) = buildScale(in, ns)
      BY <1>2 DEF Build
    <2>2. QED
      BY <1>2, <2>1, OneBuilt DEF Mutating
  <1>3. CASE in.kind = "rollback"
    <2>1. Build(in) = buildRollback(in, ns)
      BY <1>3 DEF Build
    <2>2. QED
      BY <1>3, <2>1, OneBuilt DEF Mutating
  <1>4. CASE in.kind = "deploy"
    <2>1. Build(in) = buildDeploy(in, ns)
      BY <1>4 DEF Build
    <2>2. QED
      BY <1>4, <2>1, DeployBuilt DEF Mutating
  <1>5. CASE in.kind = "install"
    <2>1. Build(in) = buildInstall(in, ns)
      BY <1>5 DEF Build
    <2>2. QED
      BY <1>5, <2>1, HelmBuilt DEF Mutating
  <1>6. CASE in.kind = "upgrade"
    <2>1. Build(in) = buildUpgrade(in, ns)
      BY <1>6 DEF Build
    <2>2. QED
      BY <1>6, <2>1, HelmBuilt DEF Mutating
  <1>7. CASE in.kind = "get"
    <2>1. Build(in) = buildGet(in, ns)
      BY <1>7 DEF Build
    <2>2. QED
      BY <1>7, <2>1, GetBuilt DEF ReadKinds
  <1>8. CASE in.kind = "timeline"
    <2>1. Build(in) = buildTimeline(in, ns)
      BY <1>8 DEF Build
    <2>2. QED
      BY <1>8, <2>1, TimelineBuilt DEF ReadKinds
  <1>9. CASE in.kind = "impact"
    <2>1. Build(in) = buildImpact(in, ns)
      BY <1>9 DEF Build
    <2>2. QED
      BY <1>9, <2>1, DiagnosisBuilt DEF buildImpact, ReadKinds
  <1>10. CASE in.kind = "logs"
    <2>1. Build(in) = buildLogs(in, ns)
      BY <1>10 DEF Build
    <2>2. QED
      BY <1>10, <2>1, DiagnosisBuilt DEF buildLogs, buildExplain, Given, ReadKinds
  <1>11. CASE in.kind = "workflow"
    <2>1. Build(in) = buildWorkflow(in, ns)
      BY <1>11 DEF Build
    <2>2. QED
      BY <1>11, <2>1, OneBuilt DEF Mutating
  <1>12. CASE in.kind = "tekton"
    <2>1. Build(in) = buildTekton(in, ns)
      BY <1>12 DEF Build
    <2>2. QED
      BY <1>12, <2>1, OneBuilt DEF Mutating
  <1>13. CASE in.kind = "keda"
    <2>1. Build(in) = buildKEDA(in, ns)
      BY <1>13 DEF Build
    <2>2. QED
      BY <1>13, <2>1, OneBuilt DEF Mutating
  <1>14. CASE in.kind = "hpa"
    <2>1. Build(in) = buildHPA(in, ns)
      BY <1>14 DEF Build
    <2>2. QED
      BY <1>14, <2>1, OneBuilt DEF Mutating
  <1>15. CASE in.kind = "istio"
    <2>1. Build(in) = buildIstio(in)
      BY <1>15 DEF Build
    <2>2. QED
      BY <1>15, <2>1, ObjectBuilt DEF ReadKinds
  <1>16. CASE in.kind = "crossplane"
    <2>1. Build(in) = buildCrossplane(in, ns)
      BY <1>16 DEF Build
    <2>2. QED
      BY <1>16, <2>1, OneBuilt DEF Mutating
  <1>17. CASE in.kind = "gitops"
    <2>1. Build(in) = buildGitOps(in, ns)
      BY <1>17 DEF Build
    <2>2. QED
      BY <1>17, <2>1, GitOpsBuilt DEF ReadKinds
  <1>18. CASE in.kind = "performance"
    <2>1. Build(in) = buildPerformance(in, ns)
      BY <1>18 DEF Build
    <2>2. QED
      BY <1>18, <2>1, ActIs, WithinBuilt DEF buildPerformance, Given, ReadKinds
  <1>19. CASE in.kind = "trace"
    <2>1. Build(in) = buildTrace(in)
      BY <1>19 DEF Build
    <2>2. QED
      BY <1>19, <2>1, ActIs, WithinBuilt DEF buildTrace, Given, ReadKinds
  <1>20. CASE in.kind = "dashboard"
    <2>1. Build(in) = buildDashboard(in)
      BY <1>20 DEF Build
    <2>2. QED
      BY <1>20, <2>1, ActIs, ReadsBuilt DEF buildDashboard, ReadKinds
  <1>21. CASE in.kind = "optimize"
    <2>1. Build(in) = buildOptimize(in)
      BY <1>21 DEF Build
    <2>2. QED
      BY <1>21, <2>1, OptimizeBuilt DEF ReadKinds
  <1>22. CASE in.kind = "roast"
    <2>1. Build(in) = buildRoast(in)
      BY <1>22 DEF Build
    <2>2. QED
      BY <1>22, <2>1, ReportBuilt DEF buildRoast, ReadKinds
  <1>23. CASE in.kind = "graph"
    <2>1. Build(in) = buildGraph(in)
      BY <1>23 DEF Build
    <2>2. QED
      BY <1>23, <2>1, ReportBuilt DEF buildGraph, ReadKinds
  <1>24. CASE in.kind = "audit"
    <2>1. Build(in) = buildAudit(in)
      BY <1>24 DEF Build
    <2>2. QED
      BY <1>24, <2>1, ReportBuilt DEF buildAudit, ReadKinds
  <1>25. CASE in.kind = "cleanup"
    <2>1. Build(in) = buildCleanup(in)
      BY <1>25 DEF Build
    <2>2. QED
      BY <1>25, <2>1, ReportBuilt DEF buildCleanup, ReadKinds
  <1>26. CASE in.kind = "search"
    <2>1. Build(in) = buildSearch(in)
      BY <1>26 DEF Build
    <2>2. QED
      BY <1>26, <2>1, SearchBuilt DEF ReadKinds
  <1>27. CASE in.kind = "score"
    <2>1. Build(in) = buildScore(in)
      BY <1>27 DEF Build
    <2>2. QED
      BY <1>27, <2>1, ReportBuilt DEF buildScore, ReadKinds
  <1>28. CASE in.kind = "architecture"
    <2>1. Build(in) = buildArchitecture(in)
      BY <1>28 DEF Build
    <2>2. QED
      BY <1>28, <2>1, ReportBuilt DEF buildArchitecture, ReadKinds
  <1>29. CASE in.kind = "learn"
    <2>1. Build(in) = buildLearn(in)
      BY <1>29 DEF Build
    <2>2. QED
      BY <1>29, <2>1, ObjectBuilt DEF ReadKinds
  <1>30. CASE in.kind = "drift"
    <2>1. Build(in) = buildDrift(in)
      BY <1>30 DEF Build
    <2>2. QED
      BY <1>30, <2>1, DriftBuilt DEF ReadKinds
  <1>31. CASE in.kind = "delete"
    <2>1. Build(in) = buildDelete(in, ns)
      BY <1>31 DEF Build
    <2>2. QED
      BY <1>31, <2>1, OneBuilt DEF Mutating
  <1>32. CASE in.kind = "deny"
    <2>1. Build(in) = [intent |-> in, approval |-> FALSE, actions |-> <<>>]
      BY <1>32 DEF Build
    <2>2. QED
      BY <1>32, <2>1, DenyBuilt DEF ReadKinds
  <1>33. CASE in.kind \notin {"explain", "investigate", "why", "describe", "scale", "rollback", "deploy", "install", "upgrade", "get", "timeline", "impact", "logs", "workflow", "tekton", "keda", "hpa", "istio", "crossplane", "gitops", "performance", "trace", "dashboard", "optimize", "roast", "graph", "audit", "cleanup", "search", "score", "architecture", "learn", "drift", "delete", "deny"}
    BY <1>33 DEF Build
  <1>34. QED
    BY <1>1, <1>2, <1>3, <1>4, <1>5, <1>6, <1>7, <1>8, <1>9, <1>10, <1>11, <1>12, <1>13, <1>14, <1>15, <1>16, <1>17, <1>18, <1>19, <1>20, <1>21, <1>22, <1>23, <1>24, <1>25, <1>26, <1>27, <1>28, <1>29, <1>30, <1>31, <1>32, <1>33

-------------------------------------------------------------------------------

(***************************************************************************)
(* Preparing an intent, and the risk of its plan. What these lemmas say of *)
(* any prompt and any answer of the model gives PlansSound.                *)
(***************************************************************************)

LEMMA Scoped ==
    ASSUME NEW raw, IsIntent(raw), NEW prompt, NEW prefs,
           NEW in, in = ApplyScope(ParseStructured(raw), prompt, prefs)
    PROVE  /\ IsIntent(in)
           /\ in.kind = (IF raw.kind \in ExtractKinds THEN raw.kind ELSE "unknown")
           /\ in.name = raw.name /\ in.object = raw.object /\ in.params = raw.params
           /\ in.ns = (IF prefs.forceNs THEN prefs.ns
                       ELSE Or(raw.ns, Or(prompt.ns, Or(prefs.ns, "default"))))
           /\ in.ctx = (IF prefs.forceCtx THEN prefs.ctx ELSE Or(raw.ctx, Or(prompt.ctx, prefs.ctx)))
  <1>1. PICK k, n, c :
            /\ k = (IF raw.kind \in ExtractKinds THEN raw.kind ELSE "unknown")
            /\ n = (IF prefs.forceNs THEN prefs.ns
                    ELSE Or(raw.ns, Or(prompt.ns, Or(prefs.ns, "default"))))
            /\ c = (IF prefs.forceCtx THEN prefs.ctx ELSE Or(raw.ctx, Or(prompt.ctx, prefs.ctx)))
    OBVIOUS
  <1>2. PICK x : x = [raw EXCEPT !.kind = k]
    OBVIOUS
  <1>3. PICK y : y = [x EXCEPT !.ns = n]
    OBVIOUS
  <1>4. PICK z : z = [y EXCEPT !.ctx = c]
    OBVIOUS
  <1>5. /\ IsIntent(x) /\ x.kind = k /\ x.name = raw.name /\ x.ns = raw.ns /\ x.object = raw.object
        /\ x.ctx = raw.ctx /\ x.params = raw.params
    BY <1>2, SetKind
  <1>6. /\ IsIntent(y) /\ y.kind = k /\ y.name = raw.name /\ y.ns = n /\ y.object = raw.object
        /\ y.ctx = raw.ctx /\ y.params = raw.params
    BY <1>3, <1>5, SetNs
  <1>7. /\ IsIntent(z) /\ z.kind = k /\ z.name = raw.name /\ z.ns = n /\ z.object = raw.object
        /\ z.ctx = c /\ z.params = raw.params
    BY <1>4, <1>6, SetCtx
  <1>8. x = ParseStructured(raw)
    BY <1>1, <1>2 DEF ParseStructured
  <1>9. in = [x EXCEPT !.ns = n, !.ctx = c]
    BY <1>1, <1>5, <1>8 DEF ApplyScope
  <1>10. in = z
    BY <1>3, <1>4, <1>5, <1>9 DEF IsIntent
  <1>11. QED
    BY <1>1, <1>7, <1>10

LEMMA ReportScoped ==
    ASSUME NEW in, IsIntent(in), NEW prompt, NEW prefs, NEW kinds, prefs.forceNs \in BOOLEAN,
           NEW out, out = ApplyReportScope(in, prompt, prefs, kinds)
    PROVE  /\ IsIntent(out) /\ out.kind = in.kind /\ out.ctx = in.ctx
           /\ in.kind \notin kinds => out = in
           /\ prefs.forceNs => out.ns = in.ns
  <1>1. PICK q : q = [p \in DOMAIN in.params \ {"scope"} |-> in.params[p]]
    OBVIOUS
  <1>2. PICK x : x = [in EXCEPT !.params = q]
    OBVIOUS
  <1>3. IsIntent(x) /\ x.kind = in.kind /\ x.ctx = in.ctx /\ x.ns = in.ns
    BY <1>1, <1>2, SetParams
  <1>4. Unscoped(in) = x
    BY <1>1, <1>2 DEF Unscoped
  <1>5. PICK y : y = [x EXCEPT !.ns = prompt.ns]
    OBVIOUS
  <1>6. IsIntent(y) /\ y.kind = in.kind /\ y.ctx = in.ctx
    BY <1>3, <1>5, SetNs
  <1>7. PICK z : z = [in EXCEPT !.ns = Unset]
    OBVIOUS
  <1>8. IsIntent(z) /\ z.kind = in.kind /\ z.ctx = in.ctx
    BY <1>7, SetNs
  <1>9. CASE in.kind \notin kinds
    BY <1>9 DEF ApplyReportScope
  <1>10. CASE in.kind \in kinds /\ prefs.forceNs
    <2>1. out = in \/ out = x
      BY <1>4, <1>10 DEF ApplyReportScope
    <2>2. QED
      BY <1>3, <1>10, <2>1
  <1>11. CASE in.kind \in kinds /\ ~prefs.forceNs
    <2>1. out = y \/ out = in \/ out = z
      BY <1>4, <1>5, <1>7, <1>11 DEF ApplyReportScope
    <2>2. QED
      BY <1>6, <1>8, <1>11, <2>1
  <1>12. QED
    BY <1>9, <1>10, <1>11

LEMMA PreparedIs ==
    ASSUME NEW raw, IsIntent(raw), NEW prompt, NEW prefs, IsPrefs(prefs),
           NEW kinds, kinds \in {ScopedKinds, ScopedKinds \cup {"roast"}},
           NEW out, out = Prepared(raw, prompt, prefs, kinds)
    PROVE  /\ IsIntent(out) /\ out.kind \in ExtractKinds
           /\ out.ctx = (IF prefs.forceCtx THEN prefs.ctx ELSE Or(raw.ctx, Or(prompt.ctx, prefs.ctx)))
           /\ out.ctx # Unset
           /\ prefs.forceNs => out.ns = prefs.ns
  <1>1. PICK in : in = ApplyScope(ParseStructured(raw), prompt, prefs)
    OBVIOUS
  <1>2. PICK x : x = NormalizeVerb(in, prompt)
    OBVIOUS
  <1>3. /\ IsIntent(in)
        /\ in.kind = (IF raw.kind \in ExtractKinds THEN raw.kind ELSE "unknown")
        /\ in.ctx = (IF prefs.forceCtx THEN prefs.ctx ELSE Or(raw.ctx, Or(prompt.ctx, prefs.ctx)))
        /\ prefs.forceNs => in.ns = prefs.ns
    BY <1>1, Scoped
  <1>4. Kept(x, in, prompt)
    BY <1>2, <1>3, VerbKeeps
  <1>5. out = ApplyReportScope(x, prompt, prefs, kinds)
    BY <1>1, <1>2 DEF Prepared
  <1>6. IsIntent(out) /\ out.kind = x.kind /\ out.ctx = x.ctx /\ (prefs.forceNs => out.ns = x.ns)
    BY <1>4, <1>5, ReportScoped DEF Kept, IsPrefs
  <1>7. in.kind \in ExtractKinds
    BY <1>3 DEF ExtractKinds
  <1>8. in.ctx # Unset
    BY <1>3 DEF IsPrefs, Or
  <1>9. QED
    BY <1>3, <1>4, <1>6, <1>7, <1>8 DEF Kept

LEMMA PreparedPlace ==
    ASSUME NEW raw, IsIntent(raw), NEW prompt, NEW prefs, IsPrefs(prefs),
           NEW kinds, kinds \in {ScopedKinds, ScopedKinds \cup {"roast"}},
           NEW out, out = Prepared(raw, prompt, prefs, kinds)
    PROVE  out.ctx # Unset /\ (prefs.forceNs => out.ns = prefs.ns)
  <1>1. PICK in : in = ApplyScope(ParseStructured(raw), prompt, prefs)
    OBVIOUS
  <1>2. PICK x : x = NormalizeVerb(in, prompt)
    OBVIOUS
  <1>3. /\ IsIntent(in)
        /\ in.ctx = (IF prefs.forceCtx THEN prefs.ctx ELSE Or(raw.ctx, Or(prompt.ctx, prefs.ctx)))
        /\ prefs.forceNs => in.ns = prefs.ns
    BY <1>1, Scoped
  <1>4. Kept(x, in, prompt)
    BY <1>2, <1>3, VerbKeeps
  <1>5. out = ApplyReportScope(x, prompt, prefs, kinds)
    BY <1>1, <1>2 DEF Prepared
  <1>6. out.ctx = x.ctx /\ (prefs.forceNs => out.ns = x.ns)
    BY <1>4, <1>5, ReportScoped DEF Kept, IsPrefs
  <1>7. in.ctx # Unset
    BY <1>3 DEF IsPrefs, Or
  <1>8. QED
    BY <1>3, <1>4, <1>6, <1>7 DEF Kept

LEMMA PreparedDeny ==
    ASSUME NEW raw, IsIntent(raw), raw.kind = "deny", NEW prompt, NEW prefs, IsPrefs(prefs),
           NEW kinds, kinds \in {ScopedKinds, ScopedKinds \cup {"roast"}},
           NEW out, out = Prepared(raw, prompt, prefs, kinds)
    PROVE  out.kind = "deny"
  <1>1. PICK in : in = ApplyScope(ParseStructured(raw), prompt, prefs)
    OBVIOUS
  <1>2. PICK x : x = NormalizeVerb(in, prompt)
    OBVIOUS
  <1>3. IsIntent(in) /\ in.kind = "deny"
    BY <1>1, Scoped DEF ExtractKinds
  <1>4. Kept(x, in, prompt)
    BY <1>2, <1>3, VerbKeeps
  <1>5. out = ApplyReportScope(x, prompt, prefs, kinds)
    BY <1>1, <1>2 DEF Prepared
  <1>6. out.kind = x.kind
    BY <1>4, <1>5, ReportScoped DEF Kept, IsPrefs
  <1>7. QED
    BY <1>3, <1>4, <1>6 DEF Kept

LEMMA PreparedMutation ==
    ASSUME NEW raw, IsIntent(raw), NEW prompt, NEW prefs, IsPrefs(prefs),
           NEW kinds, kinds \in {ScopedKinds, ScopedKinds \cup {"roast"}},
           NEW out, out = Prepared(raw, prompt, prefs, kinds),
           out.kind \in Mutating \cup {"gitops"}
    PROVE  /\ raw.kind \in Mutating \cup {"gitops"} \/ prompt.says \cap MutatingTopics # {}
           /\ out.ns = (IF prefs.forceNs THEN prefs.ns
                        ELSE Or(raw.ns, Or(prompt.ns, Or(prefs.ns, "default"))))
           /\ out = NormalizeVerb(ApplyScope(ParseStructured(raw), prompt, prefs), prompt)
  <1>1. PICK in : in = ApplyScope(ParseStructured(raw), prompt, prefs)
    OBVIOUS
  <1>2. PICK x : x = NormalizeVerb(in, prompt)
    OBVIOUS
  <1>3. /\ IsIntent(in)
        /\ in.kind = (IF raw.kind \in ExtractKinds THEN raw.kind ELSE "unknown")
        /\ in.ns = (IF prefs.forceNs THEN prefs.ns
                    ELSE Or(raw.ns, Or(prompt.ns, Or(prefs.ns, "default"))))
    BY <1>1, Scoped
  <1>4. Kept(x, in, prompt)
    BY <1>2, <1>3, VerbKeeps
  <1>5. out = ApplyReportScope(x, prompt, prefs, kinds)
    BY <1>1, <1>2 DEF Prepared
  <1>6. /\ IsIntent(out) /\ out.kind = x.kind
        /\ x.kind \notin kinds => out = x
    BY <1>4, <1>5, ReportScoped DEF Kept, IsPrefs
  <1>7. in.kind \in Mutating \cup {"gitops"} => raw.kind \in Mutating \cup {"gitops"}
    BY <1>3 DEF Mutating
  <1>8. x.kind \notin kinds
    BY <1>6 DEF Mutating, ScopedKinds
  <1>9. QED
    BY <1>1, <1>2, <1>3, <1>4, <1>6, <1>7, <1>8 DEF Kept

LEMMA IsRisk ==
    ASSUME NEW p
    PROVE  EvaluatePlan(p) \in {"low", "medium", "high", "denied"}
  <1>1. KindRisk(p) \in {"low", "medium", "high"}
    BY DEF KindRisk
  <1>2. QED
    BY <1>1 DEF EvaluatePlan

LEMMA MutationRisk ==
    ASSUME NEW p, p.intent.kind \in Mutating \cup {"gitops"}, p.approval = TRUE
    PROVE  EvaluatePlan(p) \in {"medium", "high", "denied"}
  <1>1. p.intent.kind \in HighKinds => KindRisk(p) = "high"
    BY DEF KindRisk, HighKinds, MediumKinds, ReadKinds
  <1>2. p.intent.kind \in MediumKinds => KindRisk(p) = "medium"
    BY DEF KindRisk, HighKinds, MediumKinds, ReadKinds
  <1>3. p.intent.kind = "gitops" => KindRisk(p) = "medium"
    BY DEF KindRisk, HighKinds, MediumKinds, ReadKinds
  <1>4. p.intent.kind \in Mutating => p.intent.kind \in HighKinds \/ p.intent.kind \in MediumKinds
    BY DEF Mutating, HighKinds, MediumKinds
  <1>5. KindRisk(p) \in {"medium", "high"}
    BY <1>1, <1>2, <1>3, <1>4
  <1>6. QED
    BY <1>5 DEF EvaluatePlan

LEMMA ReadRisk ==
    ASSUME NEW p, p.intent.kind \in ReadKinds \cup {"gitops"}, p.approval = FALSE
    PROVE  EvaluatePlan(p) \in {"low", "denied"}
  <1>1. KindRisk(p) = "low"
    BY DEF KindRisk, ReadKinds, HighKinds, MediumKinds
  <1>2. QED
    BY <1>1 DEF EvaluatePlan

LEMMA DenyRisk ==
    ASSUME NEW p, p.intent.kind = "deny"
    PROVE  EvaluatePlan(p) = "denied"
  BY DEF EvaluatePlan

LEMMA SampleSound ==
    ASSUME NEW s, IsIntent(s.raw), IsPrefs(s.prefs), Build(First(s)) # NoPlan
    PROVE  PlanSound(s, Build(First(s)), EvaluatePlan(Build(First(s))))
  <1>1. PICK in : in = First(s)
    OBVIOUS
  <1>2. PICK p : p = Build(in)
    OBVIOUS
  <1>3. PICK risk : risk = EvaluatePlan(p)
    OBVIOUS
  <1>4. /\ IsIntent(in) /\ in.kind \in ExtractKinds
        /\ s.raw.kind = "deny" => in.kind = "deny"
        /\ in.kind \in Mutating \cup {"gitops"} =>
             /\ s.raw.kind \in Mutating \cup {"gitops"} \/ s.prompt.says \cap MutatingTopics # {}
             /\ in.ns # Unset
             /\ s.prefs.forceNs => in.ns = s.prefs.ns
    <2>1. PICK kinds, raw, prompt, prefs :
            kinds = ScopedKinds /\ raw = s.raw /\ prompt = s.prompt /\ prefs = s.prefs
      OBVIOUS
    <2>2. in = Prepared(raw, prompt, prefs, kinds) /\ IsIntent(raw) /\ IsPrefs(prefs)
      BY <1>1, <2>1 DEF First
    <2>3. kinds \in {ScopedKinds, ScopedKinds \cup {"roast"}}
      BY <2>1
    <2>4. IsIntent(in) /\ in.kind \in ExtractKinds
      BY <2>2, <2>3, PreparedIs
    <2>7. raw.kind = "deny" => in.kind = "deny"
      BY <2>2, <2>3, PreparedDeny
    <2>8. ASSUME in.kind \in Mutating \cup {"gitops"}
          PROVE  /\ raw.kind \in Mutating \cup {"gitops"} \/ prompt.says \cap MutatingTopics # {}
                 /\ in.ns # Unset
                 /\ prefs.forceNs => in.ns = prefs.ns
      BY <2>2, <2>3, <2>8, PreparedMutation DEF IsPrefs, Or, Unset
    <2>6. QED
      BY <2>1, <2>4, <2>7, <2>8
  <1>5. Built(p, in)
    BY <1>1, <1>2, <1>4, BuildBuilt
  <1>6. p.approval \in BOOLEAN
    BY <1>5 DEF Built, IsExecutionPlan
  <1>7. s.raw.kind = "deny" => risk = "denied"
    BY <1>3, <1>4, <1>5, DenyRisk DEF Built
  <1>8. ASSUME ~p.approval
        PROVE  risk \in {"low", "denied"} /\ (IsReadOnly(p) \/ risk = "denied")
    <2>1. p.approval = FALSE
      BY <1>6, <1>8
    <2>2. QED
      BY <1>3, <1>5, <1>8, <2>1, ReadRisk, DenyRisk DEF Built, IsReadOnly
  <1>9. ASSUME p.approval
        PROVE  /\ RiskRank[risk] > RiskRank["low"]
               /\ s.raw.kind \in Mutating \cup {"gitops"} \/ s.prompt.says \cap MutatingTopics # {}
               /\ \A i \in DOMAIN p.actions :
                    /\ p.actions[i].ns \in {Unset, planNamespace(p)}
                    /\ s.prefs.forceNs => p.actions[i].ns \in {Unset, s.prefs.ns}
    <2>1. risk \in {"medium", "high", "denied"}
      <3>1. p.intent.kind \in Mutating \cup {"gitops"}
        BY <1>5, <1>9 DEF Built
      <3>2. p.approval = TRUE
        BY <1>6, <1>9
      <3>3. QED
        BY <1>3, <3>2, <3>1, MutationRisk
    <2>2. RiskRank[risk] > RiskRank["low"]
      BY <2>1 DEF RiskRank
    <2>3. in.ns # Unset
      BY <1>4, <1>5, <1>9 DEF Built
    <2>4. planNamespace(p) = in.ns /\ Or(in.ns, "default") = in.ns
      BY <1>5, <1>9, <2>3 DEF Built, planNamespace, Or
    <2>5. \A i \in DOMAIN p.actions : p.actions[i].ns \in {Unset, in.ns}
      BY <1>5, <1>9, <2>4 DEF Built
    <2>6. QED
      BY <1>4, <1>5, <1>9, <2>2, <2>4, <2>5 DEF Built
  <1>10. PlanSound(s, p, risk)
    BY <1>7, <1>8, <1>9 DEF PlanSound
  <1>11. QED
    BY <1>1, <1>2, <1>3, <1>10

-------------------------------------------------------------------------------

(***************************************************************************)
(* Sequences and the stack of calls: what each way of going on does to it. *)
(***************************************************************************)

IsSeq(s) == Len(s) \in Nat /\ s = [i \in 1..Len(s) |-> s[i]]

LEMMA FunctionIsSeq ==
    ASSUME NEW n \in Nat, NEW s, s = [i \in 1..n |-> s[i]]
    PROVE  Len(s) = n /\ IsSeq(s)
  <1>1. Len(s) = n
    OBVIOUS
  <1>2. s = [i \in 1..Len(s) |-> s[i]]
    BY <1>1
  <1>3. QED
    BY <1>1, <1>2 DEF IsSeq

LEMMA SeqOf ==
    ASSUME NEW s, IsSeq(s), NEW S, \A i \in 1..Len(s) : s[i] \in S
    PROVE  s \in Seq(S)
  BY DEF IsSeq

LEMMA SeqIsSeq ==
    ASSUME NEW S, NEW s \in Seq(S)
    PROVE  IsSeq(s)
  BY DEF IsSeq

IsLonger(b, s, e) == b = Append(s, e)
AreTwoLonger(b, s, e, f) == b = s \o <<e, f>>

LEMMA AppendIs ==
    ASSUME NEW s, IsSeq(s), NEW e, NEW b, IsLonger(b, s, e)
    PROVE  Len(b) = Len(s) + 1 /\ IsSeq(b) /\ b[Len(s)+1] = e /\ \A i \in 1..Len(s) : b[i] = s[i]
  <1>1. PICK S : S = {s[i] : i \in 1..Len(s)} \cup {e}
    OBVIOUS
  <1>2. s \in Seq(S) /\ e \in S
    BY <1>1, SeqOf
  <1>3. b \in Seq(S) /\ Len(b) = Len(s) + 1 /\ b[Len(s)+1] = e /\ \A i \in 1..Len(s) : b[i] = s[i]
    BY <1>2 DEF IsLonger
  <1>4. QED
    BY <1>3, SeqIsSeq

LEMMA TailIs ==
    ASSUME NEW s, IsSeq(s), Len(s) > 0, NEW b, b = Tail(s)
    PROVE  Len(b) = Len(s) - 1 /\ IsSeq(b) /\ \A i \in 1..(Len(s)-1) : b[i] = s[i+1]
  <1>1. PICK S : S = {s[i] : i \in 1..Len(s)}
    OBVIOUS
  <1>2. s \in Seq(S) /\ s # <<>>
    BY <1>1, SeqOf DEF IsSeq
  <1>3. b \in Seq(S) /\ Len(b) = Len(s) - 1 /\ \A i \in 1..(Len(s)-1) : b[i] = s[i+1]
    BY <1>2
  <1>4. QED
    BY <1>3, SeqIsSeq

\* Only the n-th element changes.
OnlyLast(s, b, n, h) == b = [i \in DOMAIN s |-> IF i = n THEN h ELSE s[i]]

LEMMA LastIs ==
    ASSUME NEW s, IsSeq(s), NEW n \in Nat, n > 0, n = Len(s), NEW h, NEW b, OnlyLast(s, b, n, h)
    PROVE  Len(b) = n /\ IsSeq(b) /\ b[n] = h /\ \A i \in 1..(n-1) : b[i] = s[i]
  <1>2. DOMAIN s = 1..n
    BY DEF IsSeq
  <1>3. b = [i \in 1..n |-> b[i]] /\ b[n] = h /\ \A i \in 1..(n-1) : b[i] = s[i]
    BY <1>2 DEF OnlyLast
  <1>4. QED
    BY <1>3, FunctionIsSeq

LEMMA BelowIs ==
    ASSUME NEW s, IsSeq(s), Len(s) > 0, NEW b, b = SubSeq(s, 1, Len(s) - 1)
    PROVE  Len(b) = Len(s) - 1 /\ IsSeq(b) /\ \A i \in 1..(Len(s)-1) : b[i] = s[i]
  BY DEF IsSeq

LEMMA RestIs ==
    ASSUME NEW s, IsSeq(s), NEW n \in Nat, n <= Len(s), NEW b, b = SubSeq(s, n+1, Len(s))
    PROVE  Len(b) = Len(s) - n /\ IsSeq(b) /\ \A i \in 1..(Len(s)-n) : b[i] = s[i+n]
  BY SMTT(60) DEF IsSeq

LEMMA FirstIs ==
    ASSUME NEW s, IsSeq(s), NEW n \in Nat, n <= Len(s), NEW b, b = SubSeq(s, 1, n)
    PROVE  Len(b) = n /\ IsSeq(b) /\ \A i \in 1..n : b[i] = s[i]
  BY DEF IsSeq

LEMMA TwoIs ==
    ASSUME NEW s, IsSeq(s), NEW e, NEW f, NEW b, AreTwoLonger(b, s, e, f)
    PROVE  /\ Len(b) = Len(s) + 2 /\ IsSeq(b) /\ b[Len(s)+1] = e /\ b[Len(s)+2] = f
           /\ \A i \in 1..Len(s) : b[i] = s[i]
  BY DEF IsSeq, AreTwoLonger

LEMMA EmptyIs ==
    ASSUME NEW s, IsSeq(s)
    PROVE  (s = <<>>) <=> (Len(s) = 0)
  BY DEF IsSeq

Fields == {"type", "at", "prompt", "ns", "ctx", "forceNs", "forceCtx", "contexts", "approve", "each",
           "child", "auto", "steps", "json", "plan", "risk", "fixes", "next", "applied", "decision",
           "verify", "queue", "todo", "plans", "seen", "back"}
IsRec(f) == f = [x \in Fields |-> f[x]]

\* The same call, but for what it hears from the calls it makes.
Alike(f, g) == IsRec(g) /\ \A x \in Fields \ {"seen", "back", "queue"} : g[x] = f[x]
FewerOf(q, r) == \E n \in Nat : n <= Len(r) /\ q = SubSeq(r, n + 1, Len(r))

GoesOn(f, g) ==
    /\ Alike(f, g)
    /\ g.queue = f.queue \/ FewerOf(g.queue, f.queue)
    /\ g.back \in {f.back, "ok", "error"}

\* The lower n calls go on, and may have handed out intents.
Lower(s, t, n) ==
    /\ IsSeq(t) /\ n \in Nat /\ n <= Len(t) /\ n <= Len(s)
    /\ \A i \in 1..n : GoesOn(s[i], t[i])

IsStack(s) == IsSeq(s) /\ \A i \in 1..Len(s) : IsRec(s[i])

LEMMA AlikeSelf ==
    ASSUME NEW f, IsRec(f)
    PROVE  Alike(f, f)
  BY DEF Alike

LEMMA BelowLower ==
    ASSUME IsStack(stack), stack # <<>>
    PROVE  Lower(stack, Below, Len(stack) - 1) /\ Len(Below) = Len(stack) - 1
  <1>1. Len(stack) \in Nat /\ Len(stack) > 0
    BY EmptyIs DEF IsStack, IsSeq
  <1>2. Len(Below) = Len(stack) - 1 /\ IsSeq(Below) /\ \A i \in 1..(Len(stack)-1) : Below[i] = stack[i]
    BY <1>1, BelowIs DEF Below, IsStack
  <1>3. \A i \in 1..(Len(stack)-1) : i \in 1..Len(stack)
    BY <1>1
  <1>4. QED
    BY <1>1, <1>2, <1>3, AlikeSelf DEF Lower, IsStack, GoesOn

LEMMA ObservedLower ==
    ASSUME IsStack(stack), NEW frames, NEW n, Lower(stack, frames, n), Len(frames) = n, NEW doc
    PROVE  Lower(stack, Observed(frames, doc), n) /\ Len(Observed(frames, doc)) = n
  <1>1. PICK o : o = Observed(frames, doc)
    OBVIOUS
  <1>2. n \in Nat /\ DOMAIN frames = 1..n
    BY DEF Lower, IsSeq
  <1>3. o = [i \in 1..n |-> o[i]] /\ \A i \in 1..n : o[i] = [frames[i] EXCEPT !.seen = doc] \/ o[i] = frames[i]
    BY <1>1, <1>2 DEF Observed
  <1>4. Len(o) = n /\ IsSeq(o)
    BY <1>2, <1>3, FunctionIsSeq
  <1>5. ASSUME NEW i \in 1..n
        PROVE  GoesOn(stack[i], o[i])
    <2>1. PICK f, g, h : f = stack[i] /\ g = frames[i] /\ h = o[i]
      OBVIOUS
    <2>2. GoesOn(f, g) /\ (h = [g EXCEPT !.seen = doc] \/ h = g)
      BY <1>3, <2>1 DEF Lower
    <2>3. Alike(f, h) /\ h.queue = g.queue /\ h.back = g.back
      BY <2>2 DEF GoesOn, Alike, IsRec, Fields
    <2>4. QED
      BY <2>1, <2>2, <2>3 DEF GoesOn
  <1>6. QED
    BY <1>1, <1>2, <1>4, <1>5 DEF Lower

LEMMA ConsumedLower ==
    ASSUME IsStack(stack), stack # <<>>, NEW n \in Nat, ~Exhausted(n),
           \A i \in 1..Len(stack) : IsSeq(stack[i].queue)
    PROVE  Lower(stack, Consumed(n), Len(stack) - 1) /\ Len(Consumed(n)) = Len(stack) - 1
  <1>1. Lower(stack, Below, Len(stack) - 1) /\ Len(Below) = Len(stack) - 1
    BY BelowLower
  <1>2. CASE Model
    BY <1>1, <1>2 DEF Consumed
  <1>3. CASE ~Model
    <2>1. Len(stack) \in Nat /\ Len(stack) > 1
      BY <1>3, EmptyIs DEF IsStack, IsSeq, Model
    <2>2. PICK b, k : b = Below /\ k = Len(stack) - 1
      OBVIOUS
    <2>3. k \in Nat /\ k > 0 /\ Len(b) = k /\ IsSeq(b) /\ k \in 1..Len(stack)
      BY <1>1, <2>1, <2>2 DEF Lower
    <2>4. PICK h, q : q = SubSeq(b[k].queue, n + 1, Len(b[k].queue)) /\ h = [b[k] EXCEPT !.queue = q]
      OBVIOUS
    <2>5. PICK c : c = Consumed(n)
      OBVIOUS
    <2>6. OnlyLast(b, c, k, h)
      BY <1>3, <2>2, <2>3, <2>4, <2>5 DEF Consumed, OnlyLast, IsSeq
    <2>7. Len(c) = k /\ IsSeq(c) /\ c[k] = h /\ \A i \in 1..(k-1) : c[i] = b[i]
      BY <2>3, <2>6, LastIs
    <2>8. b[k] = stack[k] /\ IsRec(stack[k])
      BY <2>1, <2>2, <2>3, BelowIs DEF Below, IsStack
    <2>9. Alike(stack[k], h) /\ h.queue = q /\ h.back = stack[k].back
      BY <2>4, <2>8 DEF Alike, IsRec, Fields
    <2>10. FewerOf(q, stack[k].queue)
      <3>1. Len(b[k].queue) \in Nat
        BY <2>3, <2>8 DEF IsSeq
      <3>2. ~(Len(b[k].queue) < n)
        BY <1>3, <2>2, <2>3 DEF Exhausted
      <3>3. n <= Len(b[k].queue)
        BY <3>1, <3>2
      <3>4. QED
        BY <2>4, <2>8, <3>3 DEF FewerOf
    <2>11. \A i \in 1..k : GoesOn(stack[i], c[i])
      <3>1. SUFFICES ASSUME NEW i \in 1..k
                     PROVE  GoesOn(stack[i], c[i])
        OBVIOUS
      <3>2. CASE i = k
        BY <2>7, <2>9, <2>10, <3>2 DEF GoesOn
      <3>3. CASE i # k
        <4>1. i \in 1..(k-1)
          BY <2>3, <3>3
        <4>2. QED
          BY <1>1, <2>2, <2>7, <4>1 DEF Lower
      <3>4. QED
        BY <3>2, <3>3
    <2>12. QED
      BY <2>1, <2>2, <2>3, <2>5, <2>7, <2>11 DEF Lower
  <1>4. QED
    BY <1>2, <1>3

\* What a step makes of the calls: it ends the innermost, or all of them; it
\* goes on in the innermost; it makes another call.
Popped(n) == stack' = <<>> \/ (n > 0 /\ IsSeq(stack') /\ Len(stack') = n /\ Lower(stack, stack', n))
Became(f, n) == IsSeq(stack') /\ Len(stack') = n /\ Lower(stack, stack', n - 1) /\ stack'[n] = f
Called(f, g, n) ==
    \/ stack' = <<>>
    \/ /\ IsSeq(stack') /\ Len(stack') = n + 1 /\ Lower(stack, stack', n - 1)
       /\ stack'[n] = f /\ stack'[n+1] = g

LEMMA LowerExtends ==
    ASSUME NEW n \in Nat, NEW s, NEW t, NEW u, Lower(s, t, n), IsSeq(u), Len(u) >= n,
           \A i \in 1..n : u[i] = t[i]
    PROVE  Lower(s, u, n)
  BY DEF Lower, IsSeq

LEMMA ReturnPops ==
    ASSUME NEW n \in Nat, NEW frames, Lower(stack, frames, n), Len(frames) = n, NEW how, how \in {"ok", "error"},
           NEW applied, Return(frames, how, applied)
    PROVE  /\ Popped(n)
           /\ outcome' = outcome \/ (stack' = <<>> /\ outcome' = [how |-> how, applied |-> applied])
  <1>1. IsSeq(frames)
    BY DEF Lower
  <1>2. CASE frames = <<>>
    BY <1>2 DEF Return, Popped
  <1>3. CASE frames # <<>>
    <2>1. n > 0
      BY <1>1, <1>3, EmptyIs
    <2>2. PICK b : b = stack'
      OBVIOUS
    <2>3. b = [frames EXCEPT ![n].back = how] /\ outcome' = outcome
      BY <1>3, <2>2 DEF Return
    <2>4. Len(b) = n /\ IsSeq(b) /\ b[n] = [frames[n] EXCEPT !.back = how] /\ \A i \in 1..(n-1) : b[i] = frames[i]
      <3>1. PICK g : g = [frames[n] EXCEPT !.back = how]
        OBVIOUS
      <3>2. OnlyLast(frames, b, n, g)
        BY <1>1, <2>1, <2>3, <3>1 DEF OnlyLast, IsSeq
      <3>3. QED
        BY <1>1, <2>1, <3>1, <3>2, LastIs
    <2>5. PICK f, g, h : f = stack[n] /\ g = frames[n] /\ h = b[n]
      OBVIOUS
    <2>6. GoesOn(f, g) /\ h = [g EXCEPT !.back = how]
      BY <2>1, <2>4, <2>5 DEF Lower
    <2>7. Alike(f, h) /\ h.queue = g.queue /\ h.back = how
      BY <2>6 DEF GoesOn, Alike, IsRec, Fields
    <2>8. GoesOn(f, h)
      BY <2>6, <2>7 DEF GoesOn
    <2>9. \A i \in 1..n : GoesOn(stack[i], b[i])
      <3>1. SUFFICES ASSUME NEW i \in 1..n PROVE GoesOn(stack[i], b[i])
        OBVIOUS
      <3>2. CASE i = n
        BY <2>5, <2>8, <3>2
      <3>3. CASE i # n
        BY <2>4, <3>3 DEF Lower
      <3>4. QED
        BY <3>2, <3>3
    <2>10. QED
      BY <2>1, <2>2, <2>3, <2>4, <2>9 DEF Popped, Lower
  <1>4. QED
    BY <1>2, <1>3

LEMMA AppendBecomes ==
    ASSUME NEW n \in Nat, n > 0, NEW left, Lower(stack, left, n - 1), Len(left) = n - 1, NEW f,
           stack' = Append(left, f)
    PROVE  Became(f, n)
  <1>1. PICK b : b = stack'
    OBVIOUS
  <1>2. IsSeq(left)
    BY DEF Lower
  <1>3. Len(b) = n /\ IsSeq(b) /\ b[n] = f /\ \A i \in 1..(n-1) : b[i] = left[i]
    <2>1. Len(b) = Len(left) + 1 /\ IsSeq(b) /\ b[Len(left)+1] = f /\ \A i \in 1..Len(left) : b[i] = left[i]
      <3>1. IsLonger(b, left, f)
        BY <1>1 DEF IsLonger
      <3>2. QED
        BY <1>2, <3>1, AppendIs
    <2>2. Len(left) + 1 = n
      OBVIOUS
    <2>3. QED
      BY <2>1, <2>2
  <1>4. Lower(stack, b, n - 1)
    BY <1>3, LowerExtends
  <1>5. QED
    BY <1>1, <1>3, <1>4 DEF Became

LEMMA BecomeBecomes ==
    ASSUME IsStack(stack), stack # <<>>, NEW f, Become(f)
    PROVE  Became(f, Len(stack)) /\ outcome' = outcome
  <1>1. PICK n \in Nat : n = Len(stack) /\ n > 0
    BY EmptyIs DEF IsStack, IsSeq
  <1>2. PICK b : b = Below
    OBVIOUS
  <1>3. Lower(stack, b, n - 1) /\ Len(b) = n - 1 /\ stack' = Append(b, f)
    BY <1>1, <1>2, BelowLower DEF Become
  <1>4. Became(f, n)
    BY <1>1, <1>3, AppendBecomes
  <1>5. QED
    BY <1>1, <1>4 DEF Become

LEMMA CallCalls ==
    ASSUME IsStack(stack), stack # <<>>, NEW f, NEW g, Call(f, g)
    PROVE  /\ Called(f, g, Len(stack)) /\ (stack' = <<>> \/ Len(stack) < MaxDepth)
           /\ outcome' = outcome \/ (stack' = <<>> /\ outcome' = [how |-> "overflow", applied |-> FALSE])
  <1>1. PICK n \in Nat : n = Len(stack) /\ n > 0
    BY EmptyIs DEF IsStack, IsSeq
  <1>2. PICK b : b = Below
    OBVIOUS
  <1>3. Lower(stack, b, n - 1) /\ Len(b) = n - 1 /\ IsSeq(b)
    BY <1>1, <1>2, BelowLower DEF Lower
  <1>4. CASE n < MaxDepth
    <2>1. PICK c : c = stack'
      OBVIOUS
    <2>2. c = b \o <<f, g>> /\ outcome' = outcome
      BY <1>1, <1>2, <1>4, <2>1 DEF Call
    <2>3. Len(c) = n + 1 /\ IsSeq(c) /\ c[n] = f /\ c[n+1] = g /\ \A i \in 1..(n-1) : c[i] = b[i]
      <3>1. /\ Len(c) = Len(b) + 2 /\ IsSeq(c) /\ c[Len(b)+1] = f /\ c[Len(b)+2] = g
            /\ \A i \in 1..Len(b) : c[i] = b[i]
        <4>1. AreTwoLonger(c, b, f, g)
          BY <2>2 DEF AreTwoLonger
        <4>2. QED
          BY <1>3, <4>1, TwoIs
      <3>2. Len(b) + 1 = n /\ Len(b) + 2 = n + 1
        BY <1>1, <1>3
      <3>3. QED
        BY <1>3, <3>1, <3>2
    <2>4. Lower(stack, c, n - 1)
      BY <1>3, <2>3, LowerExtends
    <2>5. QED
      BY <1>1, <1>4, <2>1, <2>2, <2>3, <2>4 DEF Called
  <1>5. CASE ~(n < MaxDepth)
    BY <1>1, <1>5 DEF Call, Called
  <1>6. QED
    BY <1>4, <1>5

-------------------------------------------------------------------------------

(***************************************************************************)
(* What is shown of a plan, and what may be changed in it without a new    *)
(* question.                                                               *)
(***************************************************************************)

LEMMA Smallest ==
    ASSUME NEW T \in SUBSET Nat, T # {}
    PROVE  \E x \in T : \A y \in T : x <= y
  <1> DEFINE R == OpToRel(<, Nat)
  <1>1. PICK d \in T : \A y \in T : ~(<<y, d>> \in R)
    <2>1. IsWellFoundedOn(R, Nat)
      BY NatLessThanWellFounded
    <2> HIDE DEF R
    <2> QED BY <2>1, WFMin
  <1>2. \A y \in T : ~(y < d)
    BY <1>1 DEF OpToRel
  <1> QED BY <1>2

LEMMA ShownIs ==
    ASSUME NEW p, IsExecutionPlan(p), NEW s, s = Shown(p)
    PROVE  /\ s.approval = p.approval /\ s.intent.kind = p.intent.kind /\ s.intent.ns = p.intent.ns
           /\ s.intent.name = p.intent.name /\ s.intent.object = p.intent.object
           /\ s.intent.params = p.intent.params ++ [target |-> p.intent.name]
           /\ s.actions = [i \in DOMAIN p.actions |-> [p.actions[i] EXCEPT !.context = Unset]]
           /\ s = [intent |-> s.intent, approval |-> s.approval, actions |-> s.actions]
  <1>1. PICK x : x = p.intent
    OBVIOUS
  <1>2. PICK q : q = x.params ++ [target |-> x.name]
    OBVIOUS
  <1>3. PICK c : c = [i \in DOMAIN p.actions |-> [p.actions[i] EXCEPT !.context = Unset]]
    OBVIOUS
  <1>4. PICK y : y = [x EXCEPT !.ctx = Unset, !.params = q]
    OBVIOUS
  <1>5. /\ y.kind = x.kind /\ y.ns = x.ns /\ y.name = x.name /\ y.object = x.object /\ y.params = q
    BY <1>1, <1>4 DEF IsExecutionPlan, IsIntent
  <1>6. s.intent = y /\ s.approval = p.approval /\ s.actions = c
    BY <1>1, <1>2, <1>3, <1>4 DEF Shown, IsExecutionPlan, IsIntent
  <1>8. s = [intent |-> s.intent, approval |-> s.approval, actions |-> s.actions]
    BY <1>1, <1>2, <1>3, <1>4 DEF Shown, IsExecutionPlan
  <1>7. QED
    BY <1>1, <1>2, <1>3, <1>5, <1>6, <1>8

LEMMA ShownActions ==
    ASSUME NEW p, IsExecutionPlan(p), NEW s, s = Shown(p)
    PROVE  /\ DOMAIN s.actions = DOMAIN p.actions
           /\ \A i \in DOMAIN p.actions :
                /\ s.actions[i].op = p.actions[i].op /\ s.actions[i].backend = p.actions[i].backend
                /\ s.actions[i].object = p.actions[i].object /\ s.actions[i].name = p.actions[i].name
                /\ s.actions[i].ns = p.actions[i].ns
  <1>1. PICK t : t = s.actions
    OBVIOUS
  <1>2. t = [i \in DOMAIN p.actions |-> [p.actions[i] EXCEPT !.context = Unset]]
    BY <1>1, ShownIs
  <1>3. QED
    BY <1>1, <1>2 DEF IsExecutionPlan, IsAction

LEMMA ShownKeeps ==
    ASSUME NEW p, IsExecutionPlan(p)
    PROVE  /\ Shown(p).approval = p.approval /\ Shown(p).intent.kind = p.intent.kind
           /\ DOMAIN Shown(p).actions = DOMAIN p.actions
  <1>1. PICK s : s = Shown(p)
    OBVIOUS
  <1>2. s.approval = p.approval /\ s.intent.kind = p.intent.kind
    BY <1>1, ShownIs
  <1>3. DOMAIN s.actions = DOMAIN p.actions
    BY <1>1, ShownActions
  <1>4. QED
    BY <1>1, <1>2, <1>3

LEMMA ShownEvaluated ==
    ASSUME NEW p, IsExecutionPlan(p)
    PROVE  EvaluatePlan(Shown(p)) = EvaluatePlan(p)
  <1>1. PICK s : s = Shown(p)
    OBVIOUS
  <1>2. /\ s.approval = p.approval /\ s.intent.kind = p.intent.kind
        /\ s.intent.params = p.intent.params ++ [target |-> p.intent.name]
    BY ZenonT(60), <1>1, ShownIs
  <1>3. Param(s.intent, "confirm_orphans", FALSE) = Param(p.intent, "confirm_orphans", FALSE)
    <2>1. PICK a, b : a = p.intent.params /\ b = [target |-> p.intent.name]
      OBVIOUS
    <2>2. PICK c : c = a ++ b
      OBVIOUS
    <2>3. c = [key \in DOMAIN a \cup DOMAIN b |-> IF key \in DOMAIN a THEN a[key] ELSE b[key]]
      BY <2>2 DEF ++
    <2>4. DOMAIN b = {"target"}
      BY <2>1
    <2>5. /\ "confirm_orphans" \in DOMAIN c <=> "confirm_orphans" \in DOMAIN a
          /\ "confirm_orphans" \in DOMAIN a => c["confirm_orphans"] = a["confirm_orphans"]
      BY <2>3, <2>4
    <2>6. s.intent.params = c /\ p.intent.params = a
      BY <1>2, <2>1, <2>2
    <2>7. QED
      BY <2>5, <2>6 DEF Param
  <1>4. /\ DOMAIN s.actions = DOMAIN p.actions
        /\ \A i \in DOMAIN p.actions :
                /\ s.actions[i].op = p.actions[i].op /\ s.actions[i].backend = p.actions[i].backend
                /\ s.actions[i].object = p.actions[i].object /\ s.actions[i].name = p.actions[i].name
    BY <1>1, ShownActions
  <1>5. KindRisk(s) = KindRisk(p)
    BY <1>2 DEF KindRisk
  <1>6. ASSUME NEW i \in DOMAIN p.actions
        PROVE  /\ SafeDelete(s, s.actions[i]) <=> SafeDelete(p, p.actions[i])
               /\ SafeForBackend(s.actions[i]) <=> SafeForBackend(p.actions[i])
    BY <1>3, <1>4 DEF SafeDelete, SafeForBackend
  <1>7. QED
    BY <1>1, <1>2, <1>4, <1>5, <1>6 DEF EvaluatePlan

LEMMA ShownJudged ==
    ASSUME NEW p, IsExecutionPlan(p), NEW org, NEW ctx, NEW at
    PROVE  EvaluatePlanWithOrg(Shown(p), org, ctx, at) = EvaluatePlanWithOrg(p, org, ctx, at)
  <1>1. PICK s : s = Shown(p)
    OBVIOUS
  <1>2. /\ s.approval = p.approval /\ s.intent.kind = p.intent.kind /\ s.intent.ns = p.intent.ns
    BY ZenonT(60), <1>1, ShownIs
  <1>3. /\ DOMAIN s.actions = DOMAIN p.actions
        /\ \A i \in DOMAIN p.actions : s.actions[i].ns = p.actions[i].ns
    BY <1>1, ShownActions
  <1>4. planNamespace(s) = planNamespace(p)
    <2>1. PICK n : n = {i \in DOMAIN p.actions : p.actions[i].ns # Unset}
      OBVIOUS
    <2>2. n = {i \in DOMAIN s.actions : s.actions[i].ns # Unset}
      BY <1>3, <2>1
    <2>3. CASE n = {}
      BY <1>2, <2>1, <2>2, <2>3 DEF planNamespace
    <2>4. CASE n # {}
      <3>1. PICK k : k = CHOOSE i \in n : \A j \in n : i <= j
        OBVIOUS
      <3>2. planNamespace(p) = (IF p.intent.ns # Unset THEN p.intent.ns ELSE p.actions[k].ns)
        BY <2>1, <2>4, <3>1 DEF planNamespace
      <3>3. planNamespace(s) = (IF s.intent.ns # Unset THEN s.intent.ns ELSE s.actions[k].ns)
        BY <2>2, <2>4, <3>1 DEF planNamespace
      <3>4. n \in SUBSET Nat
        BY <2>1 DEF IsExecutionPlan
      <3>5. k \in n
        BY <2>4, <3>1, <3>4, Smallest
      <3>6. p.actions[k].ns = s.actions[k].ns
        BY <1>3, <2>1, <3>5
      <3>7. QED
        BY <1>2, <3>2, <3>3, <3>6
    <2>5. QED
      BY <2>3, <2>4
  <1>5. EvaluatePlan(s) = EvaluatePlan(p)
    BY <1>1, ShownEvaluated
  <1>6. QED
    BY <1>1, <1>2, <1>4, <1>5 DEF EvaluatePlanWithOrg, ApplyOrgPolicy, OutsideChangeWindow

-------------------------------------------------------------------------------

(***************************************************************************)
(* The preflight of a route: its steps are prepared one after the other.   *)
(***************************************************************************)

\* The i-th step of a preflight, prepared in a scope.
StepIn(f, raws, prefs, i) ==
    StepOf(Prepared(raws[i], Words[RouteOf(f)[i]], prefs, ScopedKinds), prefs)
ScopeOf(f, g, i) == IF i = 1 THEN Prefs(f) ELSE g[i-1].after
IsPreflight(g, f, raws, n) == g = [i \in 1..n |-> StepIn(f, raws, ScopeOf(f, g, i), i)]

LEMMA PreflightExists ==
    ASSUME NEW f, NEW raws, NEW n \in Nat
    PROVE  \E g : IsPreflight(g, f, raws, n)
  <1> DEFINE bad == {k \in Nat : ~ \E g : IsPreflight(g, f, raws, k)}
  <1>1. ASSUME bad # {} PROVE FALSE
    <2>1. PICK b : b = bad
      OBVIOUS
    <2>2. PICK m \in b : \A y \in b : m <= y
      BY <1>1, <2>1, Smallest
    <2>3. m \in Nat /\ ~ \E g : IsPreflight(g, f, raws, m)
      BY <2>1, <2>2
    <2>4. CASE m = 0
      <3>1. PICK g : g = [i \in 1..0 |-> i]
        OBVIOUS
      <3>2. IsPreflight(g, f, raws, 0)
        BY <3>1 DEF IsPreflight
      <3>3. QED
        BY <2>3, <2>4, <3>2
    <2>5. CASE m # 0
      <3>1. m - 1 \in Nat /\ m - 1 \notin b
        BY <2>2, <2>3, <2>5
      <3>2. PICK g : IsPreflight(g, f, raws, m - 1)
        BY <2>1, <3>1
      <3>3. PICK e : e = StepIn(f, raws, ScopeOf(f, g, m), m)
        OBVIOUS
      <3>4. PICK h : h = [i \in 1..m |-> IF i = m THEN e ELSE g[i]]
        OBVIOUS
      <3>5. ASSUME NEW i \in 1..m
            PROVE  ScopeOf(f, h, i) = ScopeOf(f, g, i)
        BY <2>3, <3>4 DEF ScopeOf
      <3>6. ASSUME NEW i \in 1..m
            PROVE  h[i] = StepIn(f, raws, ScopeOf(f, h, i), i)
        <4>1. CASE i = m
          BY <3>3, <3>4, <3>5, <4>1
        <4>2. CASE i # m
          <5>1. i \in 1..(m-1)
            BY <2>3, <4>2
          <5>2. g[i] = StepIn(f, raws, ScopeOf(f, g, i), i)
            BY <3>2, <5>1 DEF IsPreflight
          <5>3. h[i] = g[i]
            BY <3>4, <4>2
          <5>4. QED
            BY <3>5, <5>2, <5>3
        <4>3. QED
          BY <4>1, <4>2
      <3>7. IsPreflight(h, f, raws, m)
        BY <3>4, <3>6 DEF IsPreflight
      <3>8. QED
        BY <2>3, <3>7
    <2>6. QED
      BY <2>4, <2>5
  <1>2. QED
    BY <1>1

LEMMA PreflightIs ==
    ASSUME NEW f, NEW raws, IsSeq(raws), NEW steps, steps = Preflight(f, raws)
    PROVE  IsPreflight(steps, f, raws, Len(raws)) /\ Len(steps) = Len(raws) /\ IsSeq(steps)
  <1>1. PICK n \in Nat : n = Len(raws) /\ DOMAIN raws = 1..n
    BY DEF IsSeq
  <1>2. steps = CHOOSE g : IsPreflight(g, f, raws, n)
    BY <1>1 DEF Preflight, IsPreflight, StepIn, ScopeOf
  <1>3. IsPreflight(steps, f, raws, n)
    BY <1>2, PreflightExists
  <1>4. steps = [i \in 1..n |-> steps[i]]
    BY <1>3 DEF IsPreflight
  <1>5. QED
    BY <1>1, <1>3, <1>4, FunctionIsSeq

IsScope(p) ==
    /\ p = [ns |-> p.ns, ctx |-> p.ctx, forceNs |-> p.forceNs, forceCtx |-> p.forceCtx]
    /\ IsPrefs(p)

LEMMA PrefsScope ==
    ASSUME NEW f, IsPrefs(f)
    PROVE  IsScope(Prefs(f)) /\ Prefs(f).ns = f.ns /\ Prefs(f).ctx = f.ctx
           /\ Prefs(f).forceNs = f.forceNs /\ Prefs(f).forceCtx = f.forceCtx
  BY DEF Prefs, IsScope, IsPrefs

LEMMA CarriedScope ==
    ASSUME NEW p, IsScope(p), NEW ns, NEW ctx, NEW q, q = Carried(p, ns, ctx)
    PROVE  IsScope(q) /\ q.forceNs = p.forceNs /\ q.forceCtx = p.forceCtx
           /\ q.ns = Or(ns, p.ns) /\ q.ctx = Or(ctx, p.ctx)
  <1>1. /\ q = [ns |-> q.ns, ctx |-> q.ctx, forceNs |-> q.forceNs, forceCtx |-> q.forceCtx]
        /\ q.forceNs = p.forceNs /\ q.forceCtx = p.forceCtx
        /\ q.ns = Or(ns, p.ns) /\ q.ctx = Or(ctx, p.ctx)
    BY DEF Carried, IsScope
  <1>2. IsPrefs(q)
    BY <1>1 DEF IsScope, IsPrefs, Or
  <1>3. QED
    BY <1>1, <1>2 DEF IsScope

\* A step prepared in a scope leaves a scope behind.
LEMMA StepSound ==
    ASSUME NEW raw, IsIntent(raw), NEW prompt, NEW p, IsScope(p),
           NEW s, s = StepOf(Prepared(raw, prompt, p, ScopedKinds), p)
    PROVE  /\ s.in = Prepared(raw, prompt, p, ScopedKinds) /\ IsIntent(s.in) /\ s.in.kind \in ExtractKinds
           /\ s.plan = Build(s.in) /\ s.ctx = p.ctx
           /\ s.after = Carried(p, s.in.ns, s.in.ctx) /\ IsScope(s.after)
           /\ s.after.forceNs = p.forceNs /\ s.after.forceCtx = p.forceCtx
  <1>1. PICK in, kinds : in = Prepared(raw, prompt, p, kinds) /\ kinds = ScopedKinds
    OBVIOUS
  <1>2. IsIntent(in) /\ in.kind \in ExtractKinds
    BY <1>1, PreparedIs DEF IsScope
  <1>3. PICK q : q = Carried(p, in.ns, in.ctx)
    OBVIOUS
  <1>4. IsScope(q) /\ q.forceNs = p.forceNs /\ q.forceCtx = p.forceCtx
    BY <1>3, CarriedScope
  <1>5. s.in = in /\ s.plan = Build(in) /\ s.ctx = p.ctx /\ s.after = q
    BY <1>1, <1>3 DEF StepOf
  <1>6. QED
    BY <1>1, <1>2, <1>3, <1>4, <1>5

LEMMA PreflightScopes ==
    ASSUME NEW f, IsPrefs(f), NEW raws, IsSeq(raws), \A i \in 1..Len(raws) : IsIntent(raws[i]),
           NEW steps, steps = Preflight(f, raws)
    PROVE  \A i \in 1..Len(raws) :
                IsScope(ScopeOf(f, steps, i)) /\ ScopeOf(f, steps, i).forceNs = f.forceNs
                /\ ScopeOf(f, steps, i).forceCtx = f.forceCtx
  <1> DEFINE Good(i) == IsScope(ScopeOf(f, steps, i)) /\ ScopeOf(f, steps, i).forceNs = f.forceNs
                        /\ ScopeOf(f, steps, i).forceCtx = f.forceCtx
  <1>1. PICK n \in Nat : n = Len(raws)
    BY DEF IsSeq
  <1>2. IsPreflight(steps, f, raws, n)
    BY <1>1, PreflightIs
  <1>3. PICK b : b = {i \in 1..n : ~Good(i)}
    OBVIOUS
  <1>4. ASSUME b # {} PROVE FALSE
    <2>1. PICK m \in b : \A y \in b : m <= y
      BY <1>3, <1>4, Smallest
    <2>2. m \in 1..n /\ ~Good(m)
      BY <1>3, <2>1
    <2>3. m # 1
      BY <2>2, PrefsScope DEF ScopeOf
    <2>4. m - 1 \in 1..n /\ m - 1 \notin b
      BY <1>1, <2>1, <2>2, <2>3
    <2>5. Good(m - 1)
      BY <1>3, <2>4
    <2>6. PICK p, raw, prompt, s :
            /\ p = ScopeOf(f, steps, m - 1) /\ raw = raws[m-1] /\ prompt = Words[RouteOf(f)[m-1]]
            /\ s = steps[m-1]
      OBVIOUS
    <2>7. s = StepOf(Prepared(raw, prompt, p, ScopedKinds), p)
      BY <1>2, <2>4, <2>6 DEF IsPreflight, StepIn
    <2>8. IsIntent(raw) /\ IsScope(p) /\ p.forceNs = f.forceNs /\ p.forceCtx = f.forceCtx
      BY <1>1, <2>4, <2>5, <2>6
    <2>9. IsScope(s.after) /\ s.after.forceNs = f.forceNs /\ s.after.forceCtx = f.forceCtx
      BY <2>7, <2>8, StepSound
    <2>10. ScopeOf(f, steps, m) = s.after
      BY <2>3, <2>6 DEF ScopeOf
    <2>11. QED
      BY <2>2, <2>9, <2>10
  <1>5. QED
    BY <1>1, <1>3, <1>4

LEMMA PreflightSound ==
    ASSUME NEW f, IsPrefs(f), NEW raws, IsSeq(raws), \A i \in 1..Len(raws) : IsIntent(raws[i]),
           NEW steps, steps = Preflight(f, raws), NEW i \in 1..Len(raws),
           NEW p, p = ScopeOf(f, steps, i), NEW s, s = steps[i]
    PROVE  /\ IsScope(p) /\ p.forceNs = f.forceNs /\ p.forceCtx = f.forceCtx
           /\ s.in = Prepared(raws[i], Words[RouteOf(f)[i]], p, ScopedKinds)
           /\ IsIntent(s.in) /\ s.in.kind \in ExtractKinds
           /\ s.plan = Build(s.in) /\ s.ctx = p.ctx
           /\ s.after = Carried(p, s.in.ns, s.in.ctx) /\ IsScope(s.after)
  <1>1. IsScope(p) /\ p.forceNs = f.forceNs /\ p.forceCtx = f.forceCtx
    BY PreflightScopes
  <1>2. PICK raw, prompt : raw = raws[i] /\ prompt = Words[RouteOf(f)[i]]
    OBVIOUS
  <1>3. IsPreflight(steps, f, raws, Len(raws))
    BY PreflightIs
  <1>4. s = StepOf(Prepared(raw, prompt, p, ScopedKinds), p)
    BY <1>2, <1>3 DEF IsPreflight, StepIn
  <1>5. IsIntent(raw)
    BY <1>2
  <1>6. QED
    BY <1>1, <1>2, <1>4, <1>5, StepSound

-------------------------------------------------------------------------------

(***************************************************************************)
(* What is known of a call in progress (Sane), in a world as it is now:    *)
(* what the user asked for and agreed to, what was done, policy and clock. *)
(***************************************************************************)
Actual == [req |-> req, policy |-> policy, hour |-> hour, changes |-> changes,
          actions |-> Actions, agreed |-> agreed]

IsPlanned(p) == p # NoPlan /\ IsExecutionPlan(p) /\ p.intent.kind \in ExtractKinds
OrgOf(w) == IF w.policy = Torn THEN NoPolicy ELSE w.policy
Vetted(plan, ctx, w) ==
    /\ EvaluatePlan(plan) # "denied"
    /\ w.changes = 0 => EvaluatePlanWithOrg(plan, OrgOf(w), ctx, w.hour) # "denied"
Several(r) == r.approve /\ ~r.each /\ Len(r.contexts) > 1
Knows(w, plan, ctx) == <<Shown(plan), ctx>> \in w.agreed
HasDone(w, plan, ctx, n) ==
    \E a \in w.actions : OfPrompt(a) /\ a.plan = Shown(plan) /\ a.ctx = ctx /\ a.n = n
FixFlag(f) == (Branch(f.plan).flag /\ f.approve) \/ f.auto
RunFlag(f) == f.approve \/ f.auto

AreSet(s) == IsSeq(s) /\ \A k \in 1..Len(s) : s[k] # Unset
AreIntents(s) == IsSeq(s) /\ \A k \in 1..Len(s) : IsIntent(s[k])
ArePlanned(s) == IsSeq(s) /\ \A k \in 1..Len(s) : IsPlanned(s[k])
AreFixes(s) == IsSeq(s) /\ \A k \in 1..Len(s) : IsSuggestion(s[k])

\* What holds of every call in progress.
AsCalled(f, w) ==
    /\ IsRec(f) /\ f.prompt \in Prompts /\ f.steps = w.req.steps /\ IsPrefs(f)
    /\ f.approve \in BOOLEAN /\ f.each \in BOOLEAN /\ f.child \in BOOLEAN
    /\ f.auto \in BOOLEAN /\ f.json \in BOOLEAN /\ f.applied \in BOOLEAN
    /\ f.next \in Nat /\ f.next > 0 /\ f.risk \in Risks /\ f.verify = "none"
    /\ f.back \in {"none", "ok", "error"}
    /\ AreSet(f.contexts) /\ AreSet(f.todo) /\ AreIntents(f.queue)

OneClause(steps, prompt) == ~(Len(IF steps # <<>> THEN steps ELSE Clauses[prompt]) > 1)

\* Who may say yes: a child asks nobody only if its parent did.
Asked(f, w) ==
    /\ f.auto => f.child
    /\ f.child => Len(f.contexts) = 0 /\ OneClause(f.steps, f.prompt)
    /\ ~f.child => f.contexts = w.req.contexts
    /\ Several(w.req) => /\ ~f.each
                         /\ f.child => ~f.approve /\ ~f.auto
                         /\ ~f.child => f.approve

AtStart(f) ==
    f.plan = NoPlan /\ ~f.applied /\ f.decision = "planned" /\ f.next = 1
    /\ f.fixes = <<>> /\ f.plans = <<>>
\* The plan was judged, for the context that its actions are to reach.
Settled(f, w) ==
    /\ IsPlanned(f.plan) /\ Vetted(f.plan, f.ctx, w) /\ Len(f.contexts) <= 1 /\ f.plans = <<>>
    /\ f.plan.approval => \A i \in DOMAIN f.plan.actions : f.plan.actions[i].context \in {Unset, f.ctx}
Reading(f) ==
    IsReadOnly(f.plan) /\ ~f.applied /\ f.decision = "planned"
    /\ ~(f.child /\ f.plan.intent.kind = "optimize" /\ Len(f.fixes) > 0)
Fixing(f, w) ==
    /\ AreFixes(f.fixes) /\ Len(f.fixes) > 0
    /\ f.at \in {"askfix", "fix"} => Vetted(f.fixes[1], f.ctx, w)
    /\ f.at = "fix" => FixFlag(f) \/ Knows(w, f.fixes[1], f.ctx)
Changing(f, w) ==
    /\ f.plan.approval = TRUE /\ f.fixes = <<>>
    /\ f.at = "ask" => ~f.applied /\ f.decision = "planned" /\ f.next = 1
    /\ f.at \in {"pr", "apply"} => ~f.applied /\ f.decision = "approved"
    /\ f.at = "verify" => f.applied /\ f.decision = "applied"
                          /\ \A n \in DOMAIN f.plan.actions : HasDone(w, f.plan, f.ctx, n)
    /\ f.at = "apply" => \A n \in 1..(f.next - 1) : HasDone(w, f.plan, f.ctx, n)
    /\ f.at = "pr" => w.req.pr
    /\ f.at \in {"apply", "verify"} => ~w.req.pr
    /\ f.at \in {"pr", "apply", "verify"} => RunFlag(f) \/ Knows(w, f.plan, f.ctx)

Run(f, w) ==
    \/ f.at = "start" /\ AtStart(f)
    \/ f.at = "read" /\ Settled(f, w) /\ Reading(f) /\ f.fixes = <<>>
    \/ f.at \in {"offer", "askfix", "fix"} /\ Settled(f, w) /\ Reading(f) /\ Fixing(f, w)
    \/ f.at \in {"ask", "pr", "apply", "verify"} /\ Settled(f, w) /\ Changing(f, w)
Route(f) ==
    /\ f.at \in {"ask", "step", "back"} /\ f.plan = NoPlan /\ f.decision = "planned"
    /\ f.fixes = <<>> /\ ArePlanned(f.plans) /\ ~f.child
Fan(f, w) ==
    /\ f.at \in {"next", "back"} /\ IsPlanned(f.plan) /\ f.decision = "planned"
    /\ f.fixes = <<>> /\ f.plans = <<>> /\ ~f.child /\ OneClause(f.steps, f.prompt)
    /\ Several(w.req) => IsReadOnly(f.plan)

Sane(f, w) ==
    /\ AsCalled(f, w) /\ Asked(f, w)
    /\ \/ f.type = "run" /\ Run(f, w)
       \/ f.type = "route" /\ Route(f)
       \/ f.type = "fan" /\ Fan(f, w)

\* The world as a step may leave it.
Onward(w, v) ==
    /\ v.req = w.req
    /\ v.changes # 0 \/ (v.changes = w.changes /\ v.policy = w.policy /\ v.hour = w.hour)
    /\ w.actions \subseteq v.actions /\ w.agreed \subseteq v.agreed

LEMMA QueueShrinks ==
    ASSUME NEW q, AreIntents(q), NEW r, r = q \/ FewerOf(r, q)
    PROVE  AreIntents(r)
  <1>1. CASE r = q
    BY <1>1
  <1>2. CASE FewerOf(r, q)
    <2>1. PICK n \in Nat : n <= Len(q) /\ r = SubSeq(q, n + 1, Len(q))
      BY <1>2 DEF FewerOf
    <2>2. Len(r) = Len(q) - n /\ IsSeq(r) /\ \A i \in 1..(Len(q)-n) : r[i] = q[i+n]
      BY <2>1, RestIs DEF AreIntents
    <2>3. Len(q) \in Nat
      BY DEF AreIntents, IsSeq
    <2>4. \A i \in 1..(Len(q)-n) : i + n \in 1..Len(q)
      BY <2>1, <2>3
    <2>5. QED
      BY <2>2, <2>4 DEF AreIntents
  <1>3. QED
    BY <1>1, <1>2

LEMMA VettedOn ==
    ASSUME NEW p, NEW ctx, NEW w, NEW v, Onward(w, v), Vetted(p, ctx, w)
    PROVE  Vetted(p, ctx, v)
  BY DEF Vetted, Onward, OrgOf

LEMMA SaneGoesOn ==
    ASSUME NEW f, NEW g, GoesOn(f, g), NEW w, NEW v, Onward(w, v), Sane(f, w)
    PROVE  Sane(g, v)
  <1>1. /\ IsRec(g) /\ \A x \in Fields \ {"seen", "back", "queue"} : g[x] = f[x]
        /\ g.back \in {f.back, "ok", "error"}
        /\ g.queue = f.queue \/ FewerOf(g.queue, f.queue)
    BY DEF GoesOn, Alike
  <1>2. /\ g.type = f.type /\ g.at = f.at /\ g.prompt = f.prompt /\ g.ns = f.ns /\ g.ctx = f.ctx
        /\ g.forceNs = f.forceNs /\ g.forceCtx = f.forceCtx /\ g.contexts = f.contexts
        /\ g.approve = f.approve /\ g.each = f.each /\ g.child = f.child /\ g.auto = f.auto
        /\ g.steps = f.steps /\ g.json = f.json /\ g.plan = f.plan /\ g.risk = f.risk
        /\ g.fixes = f.fixes /\ g.next = f.next /\ g.applied = f.applied
        /\ g.decision = f.decision /\ g.verify = f.verify /\ g.todo = f.todo /\ g.plans = f.plans
    BY <1>1 DEF Fields
  <1>3. AreIntents(g.queue)
    BY <1>1, QueueShrinks DEF Sane, AsCalled
  <1>4. AsCalled(g, v)
    BY <1>1, <1>2, <1>3 DEF Sane, AsCalled, IsPrefs, Onward
  <1>5. Asked(g, v)
    BY <1>2 DEF Sane, Asked, Onward
  <1>6. Settled(f, w) => Settled(g, v)
    BY <1>2, VettedOn DEF Settled
  <1>7. Reading(f) => Reading(g)
    BY <1>2 DEF Reading
  <1>8. Fixing(f, w) => Fixing(g, v)
    BY <1>2, VettedOn DEF Fixing, Knows, FixFlag, Onward
  <1>9. Changing(f, w) => Changing(g, v)
    BY <1>2 DEF Changing, Knows, RunFlag, Onward, HasDone
  <1>10. Run(f, w) => Run(g, v)
    BY <1>2, <1>6, <1>7, <1>8, <1>9 DEF Run, AtStart
  <1>11. Route(f) => Route(g)
    BY <1>2 DEF Route
  <1>12. Fan(f, w) => Fan(g, v)
    BY <1>2 DEF Fan, Onward
  <1>13. QED
    BY <1>2, <1>4, <1>5, <1>10, <1>11, <1>12 DEF Sane

AllSane(s, w) == IsSeq(s) /\ \A i \in 1..Len(s) : Sane(s[i], w)

LEMMA SaneStack ==
    ASSUME NEW w, AllSane(stack, w)
    PROVE  IsStack(stack) /\ \A i \in 1..Len(stack) : IsSeq(stack[i].queue)
  BY DEF AllSane, IsStack, Sane, AsCalled, AreIntents

LEMMA LowerSane ==
    ASSUME NEW s, NEW w, AllSane(s, w), NEW v, Onward(w, v), NEW n, NEW t, Lower(s, t, n)
    PROVE  \A i \in 1..n : Sane(t[i], v)
  <1>1. SUFFICES ASSUME NEW i \in 1..n PROVE Sane(t[i], v)
    OBVIOUS
  <1>2. i \in 1..Len(s) /\ GoesOn(s[i], t[i])
    BY DEF Lower, AllSane, IsSeq
  <1>3. QED
    BY <1>2, SaneGoesOn DEF AllSane

LEMMA PoppedSane ==
    ASSUME NEW w, AllSane(stack, w), NEW v, Onward(w, v), NEW n, Popped(n)
    PROVE  AllSane(stack', v)
  <1>1. PICK s, t : s = stack /\ t = stack'
    OBVIOUS
  <1>2. CASE t = <<>>
    BY <1>1, <1>2 DEF AllSane, IsSeq
  <1>3. CASE t # <<>>
    <2>1. IsSeq(t) /\ Len(t) = n /\ Lower(s, t, n)
      BY <1>1, <1>3 DEF Popped
    <2>2. \A i \in 1..n : Sane(t[i], v)
      BY <1>1, <2>1, LowerSane
    <2>3. QED
      BY <1>1, <2>1, <2>2 DEF AllSane
  <1>4. QED
    BY <1>2, <1>3

LEMMA BecameSane ==
    ASSUME NEW w, AllSane(stack, w), NEW v, Onward(w, v), NEW n \in Nat, NEW f, Became(f, n), Sane(f, v)
    PROVE  AllSane(stack', v)
  <1>1. PICK s, t : s = stack /\ t = stack'
    OBVIOUS
  <1>2. IsSeq(t) /\ Len(t) = n /\ Lower(s, t, n - 1) /\ t[n] = f
    BY <1>1 DEF Became
  <1>3. \A i \in 1..(n-1) : Sane(t[i], v)
    BY <1>1, <1>2, LowerSane
  <1>4. \A i \in 1..n : Sane(t[i], v)
    <2>1. SUFFICES ASSUME NEW i \in 1..n PROVE Sane(t[i], v)
      OBVIOUS
    <2>2. i = n \/ i \in 1..(n-1)
      OBVIOUS
    <2>3. QED
      BY <1>2, <1>3, <2>2
  <1>5. QED
    BY <1>1, <1>2, <1>4 DEF AllSane

LEMMA CalledSane ==
    ASSUME NEW w, AllSane(stack, w), NEW v, Onward(w, v), NEW n \in Nat, NEW f, NEW g,
           Called(f, g, n), Sane(f, v), Sane(g, v)
    PROVE  AllSane(stack', v)
  <1>1. PICK s, t : s = stack /\ t = stack'
    OBVIOUS
  <1>2. CASE t = <<>>
    BY <1>1, <1>2 DEF AllSane, IsSeq
  <1>3. CASE t # <<>>
    <2>1. IsSeq(t) /\ Len(t) = n + 1 /\ Lower(s, t, n - 1) /\ t[n] = f /\ t[n+1] = g
      BY <1>1, <1>3 DEF Called
    <2>2. \A i \in 1..(n-1) : Sane(t[i], v)
      BY <1>1, <2>1, LowerSane
    <2>3. \A i \in 1..(n+1) : Sane(t[i], v)
      <3>1. SUFFICES ASSUME NEW i \in 1..(n+1) PROVE Sane(t[i], v)
        OBVIOUS
      <3>2. i = n + 1 \/ i = n \/ i \in 1..(n-1)
        OBVIOUS
      <3>3. QED
        BY <2>1, <2>2, <3>2
    <2>4. QED
      BY <1>1, <2>1, <2>3 DEF AllSane
  <1>4. QED
    BY <1>2, <1>3

LEMMA FrameIs ==
    ASSUME NEW r, NEW f, f = FrameOf(r)
    PROVE  /\ IsRec(f) /\ f.type = "run" /\ f.at = "start" /\ f.prompt = r.prompt /\ f.ns = r.ns
           /\ f.ctx = r.ctx /\ f.forceNs = r.forceNs /\ f.forceCtx = r.forceCtx
           /\ f.contexts = r.contexts /\ f.approve = r.approve /\ f.each = r.each
           /\ f.child \in BOOLEAN /\ ~f.child /\ f.auto \in BOOLEAN /\ ~f.auto /\ f.steps = r.steps /\ f.json = r.json
           /\ AtStart(f) /\ f.risk = "low" /\ f.verify = "none" /\ f.applied \in BOOLEAN /\ ~f.applied
           /\ f.queue = <<>> /\ f.todo = <<>> /\ f.seen = NoDoc /\ f.back = "none"
  <1>1. IsRec(f)
    BY DEF FrameOf, IsRec, Fields
  <1>2. QED
    BY <1>1 DEF FrameOf, AtStart

LEMMA EmptySets ==
    ASSUME NEW s, s = <<>>
    PROVE  IsSeq(s) /\ Len(s) = 0 /\ AreSet(s) /\ AreIntents(s) /\ ArePlanned(s) /\ AreFixes(s)
  BY DEF IsSeq, AreSet, AreIntents, ArePlanned, AreFixes

LEMMA RequestIs ==
    ASSUME NEW r \in Requests
    PROVE  /\ r.prompt \in Prompts /\ r.steps \in Seq(Prompts) /\ IsPrefs(r)
           /\ r.approve \in BOOLEAN /\ r.each \in BOOLEAN /\ r.json \in BOOLEAN /\ r.tty \in BOOLEAN
           /\ r.pr \in BOOLEAN /\ r.wait \in BOOLEAN /\ AreSet(r.contexts)
  <1>1. IsRequest(r)
    BY PipelineAssumption
  <1>2. PICK c, S : c = r.contexts /\ S = {c[k] : k \in DOMAIN c} \ {Unset}
    OBVIOUS
  <1>3. c \in Seq(S)
    BY <1>1, <1>2 DEF IsRequest
  <1>4. AreSet(c)
    BY <1>2, <1>3 DEF AreSet, IsSeq
  <1>5. QED
    BY <1>1, <1>2, <1>4 DEF IsRequest

\* A call begins.
Begins(g, w) ==
    /\ IsRec(g) /\ g.type = "run" /\ g.at = "start" /\ AtStart(g) /\ g.risk = "low"
    /\ g.verify = "none" /\ g.back = "none" /\ g.queue = <<>> /\ g.todo = <<>>
    /\ g.prompt \in Prompts /\ g.steps = w.req.steps /\ IsPrefs(g)
    /\ g.approve \in BOOLEAN /\ g.each \in BOOLEAN /\ g.child \in BOOLEAN /\ g.auto \in BOOLEAN
    /\ g.json \in BOOLEAN /\ AreSet(g.contexts) /\ Asked(g, w) /\ g.applied \in BOOLEAN /\ ~g.applied

LEMMA BeginsSane ==
    ASSUME NEW g, NEW w, Begins(g, w)
    PROVE  Sane(g, w)
  <1>1. AreSet(g.todo) /\ AreIntents(g.queue) /\ g.next = 1 /\ g.risk \in Risks
    BY EmptySets DEF Begins, AtStart, Risks, RiskRank
  <1>2. AsCalled(g, w)
    <2>1. g.applied \in BOOLEAN /\ g.next \in Nat /\ g.next > 0
      BY <1>1 DEF Begins
    <2>2. QED
      BY <1>1, <2>1 DEF Begins, AsCalled
  <1>3. Run(g, w)
    BY DEF Begins, Run
  <1>4. QED
    BY <1>2, <1>3 DEF Begins, Sane

LEMMA FrameBegins ==
    ASSUME NEW r \in Requests, NEW w, w.req = r, NEW f, f = FrameOf(r)
    PROVE  Begins(f, w)
  <1>1. /\ IsRec(f) /\ f.type = "run" /\ f.at = "start" /\ f.prompt = r.prompt /\ f.ns = r.ns
        /\ f.ctx = r.ctx /\ f.forceNs = r.forceNs /\ f.forceCtx = r.forceCtx
        /\ f.contexts = r.contexts /\ f.approve = r.approve /\ f.each = r.each
        /\ f.child \in BOOLEAN /\ ~f.child /\ f.auto \in BOOLEAN /\ ~f.auto /\ f.steps = r.steps /\ f.json = r.json
        /\ AtStart(f) /\ f.risk = "low" /\ f.verify = "none" /\ f.applied \in BOOLEAN /\ ~f.applied
        /\ f.queue = <<>> /\ f.todo = <<>> /\ f.seen = NoDoc /\ f.back = "none"
    BY FrameIs
  <1>2. /\ r.prompt \in Prompts /\ IsPrefs(r)
        /\ r.approve \in BOOLEAN /\ r.each \in BOOLEAN /\ r.json \in BOOLEAN /\ AreSet(r.contexts)
    BY RequestIs
  <1>3. IsPrefs(f)
    BY <1>1, <1>2 DEF IsPrefs
  <1>4. Asked(f, w)
    BY <1>1, <1>2 DEF Asked, Several
  <1>5. QED
    BY <1>1, <1>2, <1>3, <1>4 DEF Begins

-------------------------------------------------------------------------------

(***************************************************************************)
(* Every action keeps AllSane: what goes into the history, fixes, changes. *)
(***************************************************************************)

EntrySane(e, w) ==
    /\ IsPlan(e.plan)
    /\ e.decision = "pr_opened" => w.req.pr
    /\ e.applied /\ e.decision # "pr_opened" /\ e.plan.approval =>
            \A n \in DOMAIN e.plan.actions :
                \E a \in w.actions : OfPrompt(a) /\ a.plan = e.plan /\ a.ctx = e.ctx /\ a.n = n

LedgerStep(v) == ledger' = ledger \/ \E e : IsLonger(ledger', ledger, e) /\ EntrySane(e, v)

LEMMA TopSane ==
    ASSUME AllSane(stack, Actual), NEW type, NEW at, Running(type, at),
           NEW w, w = Actual, NEW f, f = Top, NEW n, n = Len(stack)
    PROVE  /\ n \in Nat /\ n > 0 /\ n \in 1..Len(stack) /\ Sane(f, w) /\ f.type = type /\ f.at = at
           /\ AllSane(stack, w) /\ IsStack(stack) /\ stack # <<>> /\ IsRec(f)
  <1>1. IsStack(stack) /\ stack # <<>>
    BY SaneStack DEF Running
  <1>2. n \in Nat /\ n > 0
    BY <1>1, EmptyIs DEF IsStack, IsSeq
  <1>3. Sane(f, w) /\ IsRec(f)
    BY <1>1, <1>2 DEF AllSane, Top, IsStack
  <1>4. QED
    BY <1>1, <1>2, <1>3 DEF Running

LEMMA RecordedSane ==
    ASSUME NEW g, IsExecutionPlan(g.plan), g.plan.intent.kind \in ExtractKinds, NEW w,
           g.decision = "pr_opened" => w.req.pr /\ g.verify # "failed",
           g.applied /\ g.decision # "pr_opened" /\ g.plan.approval =>
                \A n \in DOMAIN g.plan.actions : HasDone(w, g.plan, g.ctx, n)
    PROVE  EntrySane(Recorded(g), w)
  <1>1. PICK e, s, p : e = Recorded(g) /\ s = Shown(p) /\ p = g.plan
    OBVIOUS
  <1>2. /\ s.approval = p.approval /\ s.intent.kind = p.intent.kind
        /\ DOMAIN s.actions = DOMAIN p.actions
    <2>1. IsExecutionPlan(p)
      BY <1>1
    <2>2. QED
      BY <1>1, <2>1, ShownKeeps
  <1>3. /\ e.plan = s /\ e.ctx = g.ctx /\ e.applied = g.applied
        /\ e.decision = "pr_opened" => g.decision = "pr_opened"
        /\ g.decision = "pr_opened" => e.decision = "pr_opened"
    BY <1>1 DEF Recorded
  <1>4. IsPlan(s)
    BY <1>1, <1>2 DEF IsPlan, IsExecutionPlan
  <1>5. ASSUME e.applied, e.decision # "pr_opened", s.approval, NEW n \in DOMAIN s.actions
        PROVE  \E a \in w.actions : OfPrompt(a) /\ a.plan = s /\ a.ctx = e.ctx /\ a.n = n
    <2>1. HasDone(w, p, g.ctx, n)
      BY <1>1, <1>2, <1>3, <1>5
    <2>2. QED
      BY <1>1, <1>3, <2>1 DEF HasDone
  <1>6. QED
    BY <1>1, <1>3, <1>4, <1>5 DEF EntrySane

LEMMA FinishEnds ==
    ASSUME IsStack(stack), stack # <<>>, NEW g, NEW how, how \in {"ok", "error"}, Finish(g, how)
    PROVE  /\ Popped(Len(stack) - 1) /\ IsLonger(ledger', ledger, Recorded(g))
           /\ outcome' = outcome \/ (stack' = <<>> /\ outcome' = [how |-> how, applied |-> g.applied])
  <1>1. PICK b, d, o, n, a : b = Below /\ d = Doc(g.plan, g.ctx, FALSE, g.applied) /\ o = Observed(b, d)
                             /\ n = Len(stack) - 1 /\ a = g.applied
    OBVIOUS
  <1>2. n \in Nat
    BY <1>1, EmptyIs DEF IsStack, IsSeq
  <1>3. Lower(stack, b, n) /\ Len(b) = n
    BY <1>1, BelowLower
  <1>4. Lower(stack, o, n) /\ Len(o) = n
    BY <1>1, <1>3, ObservedLower
  <1>5. Return(o, how, a) /\ IsLonger(ledger', ledger, Recorded(g))
    BY <1>1 DEF Finish, IsLonger
  <1>6. QED
    BY <1>1, <1>2, <1>4, <1>5, ReturnPops

LEMMA FinishSane ==
    ASSUME NEW w, AllSane(stack, w), stack # <<>>, NEW v, Onward(w, v), NEW g,
           NEW how, how \in {"ok", "error"}, Finish(g, how), EntrySane(Recorded(g), v)
    PROVE  AllSane(stack', v) /\ LedgerStep(v)
  <1>1. Popped(Len(stack) - 1) /\ IsLonger(ledger', ledger, Recorded(g))
    BY SaneStack, FinishEnds
  <1>2. PICK n : n = Len(stack) - 1
    OBVIOUS
  <1>3. AllSane(stack', v)
    BY <1>1, <1>2, PoppedSane
  <1>4. QED
    BY <1>1, <1>3 DEF LedgerStep

LEMMA BecomeSane ==
    ASSUME NEW w, AllSane(stack, w), stack # <<>>, NEW v, Onward(w, v), NEW g, Become(g), Sane(g, v)
    PROVE  AllSane(stack', v) /\ outcome' = outcome
  <1>1. PICK n \in Nat : n = Len(stack)
    BY SaneStack DEF IsStack, IsSeq
  <1>2. Became(g, n) /\ outcome' = outcome
    BY <1>1, SaneStack, BecomeBecomes
  <1>3. QED
    BY <1>2, BecameSane

LEMMA FailSane ==
    ASSUME NEW w, AllSane(stack, w), stack # <<>>, NEW v, Onward(w, v), NEW how, how \in {"ok", "error"},
           NEW applied, Return(Below, how, applied)
    PROVE  /\ AllSane(stack', v)
           /\ outcome' = outcome \/ (stack' = <<>> /\ outcome' = [how |-> how, applied |-> applied])
  <1>1. PICK b, n : b = Below /\ n = Len(stack) - 1
    OBVIOUS
  <1>2. n \in Nat
    BY <1>1, SaneStack, EmptyIs DEF IsStack, IsSeq
  <1>3. Lower(stack, b, n) /\ Len(b) = n
    BY <1>1, SaneStack, BelowLower
  <1>4. Return(b, how, applied)
    BY <1>1
  <1>5. /\ Popped(n)
        /\ outcome' = outcome \/ (stack' = <<>> /\ outcome' = [how |-> how, applied |-> applied])
    BY <1>2, <1>3, <1>4, ReturnPops
  <1>6. QED
    BY <1>5, PoppedSane

\* Returning what was read from the provider, too.
LEMMA ObservedSane ==
    ASSUME NEW w, AllSane(stack, w), stack # <<>>, NEW v, Onward(w, v), NEW how, how \in {"ok", "error"},
           NEW left, Lower(stack, left, Len(stack) - 1), Len(left) = Len(stack) - 1, NEW doc,
           NEW applied, Return(Observed(left, doc), how, applied)
    PROVE  /\ AllSane(stack', v)
           /\ outcome' = outcome \/ (stack' = <<>> /\ outcome' = [how |-> how, applied |-> applied])
  <1>1. PICK o, n : o = Observed(left, doc) /\ n = Len(stack) - 1
    OBVIOUS
  <1>2. n \in Nat
    BY <1>1, SaneStack, EmptyIs DEF IsStack, IsSeq
  <1>3. Lower(stack, o, n) /\ Len(o) = n
    BY <1>1, SaneStack, ObservedLower
  <1>4. Return(o, how, applied)
    BY <1>1
  <1>5. /\ Popped(n)
        /\ outcome' = outcome \/ (stack' = <<>> /\ outcome' = [how |-> how, applied |-> applied])
    BY <1>2, <1>3, <1>4, ReturnPops
  <1>6. QED
    BY <1>5, PoppedSane

LEMMA OnwardQuiet ==
    ASSUME UNCHANGED <<req, env, done>>, agreed \subseteq agreed', NEW w, w = Actual, NEW v, v = Actual'
    PROVE  Onward(w, v) /\ v.actions = w.actions
  BY DEF Onward, Actual, env, Actions

LEMMA AgreeOnward ==
    ASSUME NEW flag, NEW reply, NEW consents, Agree(flag, reply, consents)
    PROVE  agreed \subseteq agreed'
  BY DEF Agree

LEMMA OnwardDone ==
    ASSUME IsSeq(done), NEW a, IsLonger(done', done, a), UNCHANGED <<req, env, agreed>>,
           NEW w, w = Actual, NEW v, v = Actual'
    PROVE  Onward(w, v) /\ v.actions = w.actions \cup {a}
  <1>1. PICK d, e : d = done /\ e = done'
    OBVIOUS
  <1>2. Len(e) = Len(d) + 1 /\ IsSeq(e) /\ e[Len(d)+1] = a /\ \A i \in 1..Len(d) : e[i] = d[i]
    BY <1>1, AppendIs
  <1>3. DOMAIN d = 1..Len(d) /\ DOMAIN e = 1..(Len(d) + 1) /\ Len(d) \in Nat
    BY <1>1, <1>2 DEF IsSeq
  <1>4. {e[i] : i \in DOMAIN e} = {d[i] : i \in DOMAIN d} \cup {a}
    <2>1. \A i \in DOMAIN e : i \in DOMAIN d \/ i = Len(d) + 1
      BY <1>3
    <2>2. Len(d) + 1 \in DOMAIN e /\ \A i \in DOMAIN d : i \in DOMAIN e /\ e[i] = d[i]
      BY <1>2, <1>3
    <2>3. QED
      BY <1>2, <2>1, <2>2
  <1>5. w.actions = {d[i] : i \in DOMAIN d} /\ v.actions = {e[i] : i \in DOMAIN e}
    BY <1>1 DEF Actual, Actions
  <1>6. QED
    BY <1>4, <1>5 DEF Onward, Actual, env

\* A read-only run may be recorded as applied: it changes nothing.
LEMMA ReadRecorded ==
    ASSUME NEW f, NEW w, Sane(f, w), f.type = "run", f.at \in {"read", "offer", "askfix", "fix"},
           NEW g, g = f \/ g = [f EXCEPT !.applied = TRUE]
    PROVE  EntrySane(Recorded(g), w)
  <1>1. IsRec(f) /\ IsPlanned(f.plan) /\ IsReadOnly(f.plan) /\ f.decision = "planned" /\ f.verify = "none"
    BY DEF Sane, AsCalled, Run, Settled, Reading
  <1>2. g.plan = f.plan /\ g.decision = f.decision /\ g.verify = f.verify
    BY <1>1 DEF IsRec, Fields
  <1>3. QED
    BY <1>1, <1>2, RecordedSane DEF IsPlanned, IsReadOnly

LEMMA FixesOf ==
    ASSUME NEW kind \in DOMAIN Fixes
    PROVE  AreFixes(Fixes[kind])
  <1>1. PICK s, S : s = Fixes[kind] /\ S = {p \in {s[i] : i \in DOMAIN s} : IsSuggestion(p)}
    OBVIOUS
  <1>2. s \in Seq(S)
    BY <1>1, PipelineAssumption
  <1>3. QED
    BY <1>1, <1>2 DEF AreFixes, IsSeq

LEMMA OfferedFixes ==
    ASSUME NEW f, NEW s, s = Offered(f)
    PROVE  AreFixes(s) /\ (f.child /\ f.plan.intent.kind = "optimize" => s = <<>>)
  <1>1. PICK t : t = Suggestions(f.plan)
    OBVIOUS
  <1>2. AreFixes(t)
    BY <1>1, FixesOf, EmptySets DEF Suggestions
  <1>3. CASE t = <<>>
    BY <1>1, <1>2, <1>3, EmptySets DEF Offered
  <1>4. CASE t # <<>>
    <2>1. Len(t) \in Nat /\ Len(t) > 0
      BY <1>2, <1>4, EmptyIs DEF AreFixes, IsSeq
    <2>2. PICK e, b : e = t[1] /\ b = <<e>>
      OBVIOUS
    <2>3. IsSuggestion(e)
      BY <1>2, <2>1, <2>2 DEF AreFixes
    <2>4. IsSeq(b) /\ Len(b) = 1 /\ b[1] = e
      BY <2>2 DEF IsSeq
    <2>5. AreFixes(b)
      BY <2>3, <2>4 DEF AreFixes
    <2>6. Head(t) = e
      BY <2>2
    <2>7. s = <<>> \/ s = t \/ s = b
      BY <1>1, <2>2, <2>6 DEF Offered
    <2>8. f.child /\ f.plan.intent.kind = "optimize" => s = <<>>
      BY DEF Offered
    <2>9. QED
      BY <1>2, <2>5, <2>7, <2>8, EmptySets
  <1>5. QED
    BY <1>3, <1>4

\* A reading run goes on to a fix.
LEMMA FixFrame ==
    ASSUME NEW f, NEW w, Sane(f, w), f.type = "run", f.at \in {"read", "offer", "askfix", "fix"},
           NEW v, Onward(w, v), NEW g, IsRec(g),
           \A x \in Fields \ {"fixes", "at", "next", "risk"} : g[x] = f[x],
           g.at \in {"offer", "askfix", "fix"}, g.next \in Nat, g.next > 0, g.risk \in Risks,
           Fixing(g, v), ~(f.child /\ f.plan.intent.kind = "optimize")
    PROVE  Sane(g, v)
  <1>1. /\ g.type = f.type /\ g.prompt = f.prompt /\ g.ns = f.ns /\ g.ctx = f.ctx
        /\ g.forceNs = f.forceNs /\ g.forceCtx = f.forceCtx /\ g.contexts = f.contexts
        /\ g.approve = f.approve /\ g.each = f.each /\ g.child = f.child /\ g.auto = f.auto
        /\ g.steps = f.steps /\ g.json = f.json /\ g.plan = f.plan /\ g.applied = f.applied
        /\ g.decision = f.decision /\ g.verify = f.verify /\ g.todo = f.todo /\ g.plans = f.plans
        /\ g.queue = f.queue /\ g.back = f.back
    BY DEF Fields
  <1>2. AsCalled(f, w) /\ Asked(f, w) /\ Settled(f, w) /\ Reading(f)
    BY DEF Sane, Run
  <1>3. AsCalled(g, v)
    BY <1>1, <1>2 DEF AsCalled, IsPrefs, Onward
  <1>4. Asked(g, v)
    BY <1>1, <1>2 DEF Asked, Onward
  <1>5. Settled(g, v)
    BY <1>1, <1>2, VettedOn DEF Settled
  <1>6. Reading(g)
    BY <1>1, <1>2 DEF Reading
  <1>7. QED
    BY <1>1, <1>3, <1>4, <1>5, <1>6 DEF Sane, Run

LEMMA NotOptimizeChild ==
    ASSUME NEW f, NEW w, Sane(f, w), f.type = "run", f.at \in {"offer", "askfix", "fix"}
    PROVE  /\ ~(f.child /\ f.plan.intent.kind = "optimize") /\ Fixing(f, w) /\ IsRec(f)
           /\ f.next \in Nat /\ f.next > 0 /\ f.risk \in Risks
  BY DEF Sane, Run, Reading, Fixing, AsCalled

LEMMA SaneOnward ==
    ASSUME NEW f, NEW w, Sane(f, w), NEW v, Onward(w, v)
    PROVE  Sane(f, v)
  <1>1. IsRec(f)
    BY DEF Sane, AsCalled
  <1>2. GoesOn(f, f)
    BY <1>1, AlikeSelf DEF GoesOn
  <1>3. QED
    BY <1>2, SaneGoesOn

\* On to the next fix.
LEMMA AfterFixSane ==
    ASSUME NEW w, AllSane(stack, w), stack # <<>>, NEW v, Onward(w, v),
           NEW f, Sane(f, w), f.type = "run", f.at \in {"offer", "askfix", "fix"}, AfterFix(f)
    PROVE  AllSane(stack', v) /\ LedgerStep(v)
  <1>1. /\ ~(f.child /\ f.plan.intent.kind = "optimize") /\ Fixing(f, w) /\ IsRec(f)
        /\ f.risk \in Risks
    BY NotOptimizeChild
  <1>2. CASE Len(f.fixes) > 1
    <2>1. PICK t : t = Tail(f.fixes)
      OBVIOUS
    <2>2. PICK g : g = [f EXCEPT !.fixes = t, !.next = 1, !.at = "offer"]
      OBVIOUS
    <2>3. Become(g) /\ ledger' = ledger
      BY <1>2, <2>1, <2>2 DEF AfterFix
    <2>4. /\ IsRec(g) /\ \A x \in Fields \ {"fixes", "at", "next", "risk"} : g[x] = f[x]
          /\ g.at = "offer" /\ g.next = 1 /\ g.risk = f.risk /\ g.fixes = t
      BY <1>1, <2>2 DEF IsRec, Fields
    <2>5. PICK s : s = f.fixes
      OBVIOUS
    <2>6. IsSeq(s) /\ Len(s) > 1 /\ \A k \in 1..Len(s) : IsSuggestion(s[k])
      BY <1>1, <1>2, <2>5 DEF Fixing, AreFixes
    <2>7. Len(t) = Len(s) - 1 /\ IsSeq(t) /\ \A i \in 1..(Len(s)-1) : t[i] = s[i+1]
      BY <2>1, <2>5, <2>6, TailIs DEF IsSeq
    <2>8. AreFixes(t) /\ Len(t) > 0
      BY <2>6, <2>7 DEF AreFixes, IsSeq
    <2>9. Fixing(g, v)
      BY <2>4, <2>8 DEF Fixing
    <2>10. Sane(g, v)
      BY <1>1, <2>4, <2>9, FixFrame
    <2>11. QED
      BY <2>3, <2>10, BecomeSane DEF LedgerStep
  <1>3. CASE ~(Len(f.fixes) > 1)
    <2>1. PICK g : g = [f EXCEPT !.applied = TRUE]
      OBVIOUS
    <2>2. Finish(g, "ok")
      BY <1>3, <2>1 DEF AfterFix, Finished
    <2>3. EntrySane(Recorded(g), v)
      BY <2>1, SaneOnward, ReadRecorded
    <2>4. QED
      BY <2>2, <2>3, FinishSane
  <1>4. QED
    BY <1>2, <1>3

LEMMA ReadSane ==
    ASSUME AllSane(stack, Actual), Read
    PROVE  AllSane(stack', Actual') /\ LedgerStep(Actual')
  <1>1. PICK w, v, f, n : w = Actual /\ v = Actual' /\ f = Top /\ n = Len(stack)
    OBVIOUS
  <1>2. /\ Sane(f, w) /\ f.type = "run" /\ f.at = "read" /\ AllSane(stack, w) /\ stack # <<>> /\ IsRec(f)
    BY <1>1, TopSane DEF Read
  <1>3. Onward(w, v)
    BY <1>1, OnwardQuiet DEF Read
  <1>4. EntrySane(Recorded(f), v) /\ EntrySane(Recorded([f EXCEPT !.applied = TRUE]), v)
    BY <1>2, <1>3, SaneOnward, ReadRecorded
  <1>5. CASE Finish(Top, "error")
    BY <1>1, <1>2, <1>3, <1>4, <1>5, FinishSane
  <1>6. CASE Finished(Top)
    <2>1. Finish([f EXCEPT !.applied = TRUE], "ok")
      BY <1>1, <1>6 DEF Finished
    <2>2. QED
      BY <1>1, <1>2, <1>3, <1>4, <2>1, FinishSane
  <1>7. CASE /\ Offered(Top) # <<>>
             /\ Become([Top EXCEPT !.fixes = Offered(Top), !.at = "offer"])
             /\ UNCHANGED ledger
    <2>1. PICK s, g : s = Offered(f) /\ g = [f EXCEPT !.fixes = s, !.at = "offer"]
      OBVIOUS
    <2>2. s # <<>> /\ Become(g) /\ ledger' = ledger
      BY <1>1, <1>7, <2>1
    <2>3. AreFixes(s) /\ ~(f.child /\ f.plan.intent.kind = "optimize")
      BY <2>1, <2>2, OfferedFixes
    <2>4. Len(s) > 0
      BY <2>2, <2>3, EmptyIs DEF AreFixes, IsSeq
    <2>5. /\ IsRec(g) /\ \A x \in Fields \ {"fixes", "at", "next", "risk"} : g[x] = f[x]
          /\ g.at = "offer" /\ g.next = f.next /\ g.risk = f.risk /\ g.fixes = s
      BY <1>2, <2>1 DEF IsRec, Fields
    <2>6. Fixing(g, v) /\ f.next \in Nat /\ f.next > 0 /\ f.risk \in Risks
      BY <1>2, <2>3, <2>4, <2>5 DEF Fixing, Sane, AsCalled
    <2>7. Sane(g, v)
      BY <1>2, <1>3, <2>3, <2>5, <2>6, FixFrame
    <2>8. QED
      BY <1>1, <1>2, <1>3, <2>2, <2>7, BecomeSane DEF LedgerStep
  <1>8. QED
    BY <1>5, <1>6, <1>7 DEF Read

LEMMA OfferFixSane ==
    ASSUME AllSane(stack, Actual), OfferFix
    PROVE  AllSane(stack', Actual') /\ LedgerStep(Actual')
  <1>1. PICK w, v, f, n : w = Actual /\ v = Actual' /\ f = Top /\ n = Len(stack)
    OBVIOUS
  <1>2. /\ Sane(f, w) /\ f.type = "run" /\ f.at = "offer" /\ AllSane(stack, w) /\ stack # <<>> /\ IsRec(f)
    BY <1>1, TopSane DEF OfferFix
  <1>3. Onward(w, v)
    BY <1>1, OnwardQuiet DEF OfferFix
  <1>4. PICK risk : risk = Risk(f.fixes[1], f.ctx)
    OBVIOUS
  <1>5. CASE AfterFix(Top)
    BY <1>1, <1>2, <1>3, <1>5, AfterFixSane
  <1>6. CASE ~AfterFix(Top)
    <2>1. PICK x : x = IF Param(f.fixes[1].intent, "confirm_orphans", FALSE) THEN "high" ELSE risk
      OBVIOUS
    <2>2. PICK g : g = [f EXCEPT !.risk = x, !.at = "askfix"]
      OBVIOUS
    <2>3. risk # "denied" /\ Become(g) /\ ledger' = ledger
      BY <1>1, <1>4, <1>6, <2>1, <2>2 DEF OfferFix
    <2>4. /\ IsRec(g) /\ \A y \in Fields \ {"fixes", "at", "next", "risk"} : g[y] = f[y]
          /\ g.at = "askfix" /\ g.next = f.next /\ g.risk = x /\ g.fixes = f.fixes /\ g.ctx = f.ctx
      BY <1>2, <2>2 DEF IsRec, Fields
    <2>5. /\ ~(f.child /\ f.plan.intent.kind = "optimize") /\ Fixing(f, w) /\ f.next \in Nat /\ f.next > 0
      BY <1>2, NotOptimizeChild
    <2>6. PICK e : e = EvaluatePlan(f.fixes[1])
      OBVIOUS
    <2>7. e \in {"low", "medium", "high", "denied"}
      BY <2>6, IsRisk
    <2>8. risk = ApplyOrgPolicy(e, f.fixes[1], loadOrgPolicy, f.ctx, hour)
      BY <1>4, <2>6 DEF Risk, EvaluatePlanWithOrg
    <2>9. risk \in {e, "denied"}
      BY <2>8 DEF ApplyOrgPolicy
    <2>10. x \in Risks
      BY <2>1, <2>7, <2>9 DEF Risks, RiskRank
    <2>11. Vetted(f.fixes[1], f.ctx, w)
      <3>1. e # "denied"
        BY <2>3, <2>8 DEF ApplyOrgPolicy
      <3>2. EvaluatePlanWithOrg(f.fixes[1], OrgOf(w), f.ctx, w.hour) # "denied"
        BY <1>1, <1>4, <2>3 DEF Risk, OrgOf, loadOrgPolicy, Actual
      <3>3. QED
        BY <2>6, <3>1, <3>2 DEF Vetted
    <2>12. Vetted(f.fixes[1], f.ctx, v)
      BY <1>3, <2>11, VettedOn
    <2>13. Fixing(g, v)
      BY <2>4, <2>5, <2>12 DEF Fixing
    <2>14. Sane(g, v)
      BY <1>2, <1>3, <2>4, <2>5, <2>10, <2>13, FixFrame
    <2>15. QED
      BY <1>1, <1>2, <1>3, <2>3, <2>14, BecomeSane DEF LedgerStep
  <1>7. QED
    BY <1>5, <1>6

LEMMA AskFixSane ==
    ASSUME AllSane(stack, Actual), AskFix
    PROVE  AllSane(stack', Actual') /\ LedgerStep(Actual')
  <1>1. PICK w, v, f, n : w = Actual /\ v = Actual' /\ f = Top /\ n = Len(stack)
    OBVIOUS
  <1>2. /\ Sane(f, w) /\ f.type = "run" /\ f.at = "askfix" /\ AllSane(stack, w) /\ stack # <<>> /\ IsRec(f)
    BY <1>1, TopSane DEF AskFix
  <1>3. PICK flag : flag = FixFlag(f)
    OBVIOUS
  <1>4. PICK reply \in Replies(flag) :
            /\ CASE Verdict(reply, f.risk) = "yes" ->
                        Become([f EXCEPT !.at = "fix"]) /\ UNCHANGED ledger
                 [] Verdict(reply, f.risk) = "no" -> AfterFix(f)
                 [] OTHER -> Finish(f, "error")
            /\ Agree(flag, reply, {Consent(f.fixes[1], f.ctx)})
    BY <1>1, <1>3 DEF AskFix, FixFlag
  <1>5. Onward(w, v)
    BY <1>1, <1>4, OnwardQuiet, AgreeOnward DEF AskFix
  <1>6. CASE Verdict(reply, f.risk) = "yes"
    <2>1. PICK g : g = [f EXCEPT !.at = "fix"]
      OBVIOUS
    <2>2. Become(g) /\ ledger' = ledger
      BY <1>4, <1>6, <2>1
    <2>3. reply = "yes"
      BY <1>6 DEF Verdict
    <2>4. /\ IsRec(g) /\ \A y \in Fields \ {"fixes", "at", "next", "risk"} : g[y] = f[y]
          /\ g.at = "fix" /\ g.next = f.next /\ g.risk = f.risk /\ g.fixes = f.fixes
      BY <1>2, <2>1 DEF IsRec, Fields
    <2>5. /\ g.plan = f.plan /\ g.approve = f.approve /\ g.auto = f.auto /\ g.ctx = f.ctx
      BY <2>4 DEF Fields
    <2>6. /\ ~(f.child /\ f.plan.intent.kind = "optimize") /\ Fixing(f, w) /\ f.next \in Nat /\ f.next > 0
          /\ f.risk \in Risks
      BY <1>2, NotOptimizeChild
    <2>7. Vetted(f.fixes[1], f.ctx, v)
      BY <1>2, <1>5, <2>6, VettedOn DEF Fixing
    <2>8. flag \/ Knows(v, f.fixes[1], f.ctx)
      BY <1>1, <1>4, <2>3 DEF Agree, Consent, Knows, Actual
    <2>9. FixFlag(g) = FixFlag(f)
      BY <2>5 DEF FixFlag
    <2>10. Fixing(g, v)
      BY <1>3, <2>4, <2>5, <2>6, <2>7, <2>8, <2>9 DEF Fixing
    <2>11. Sane(g, v)
      BY <1>2, <1>5, <2>4, <2>6, <2>10, FixFrame
    <2>12. QED
      BY <1>1, <1>2, <1>5, <2>2, <2>11, BecomeSane DEF LedgerStep
  <1>7. CASE Verdict(reply, f.risk) = "no"
    <2>1. AfterFix(f)
      BY <1>4, <1>7
    <2>2. QED
      BY <1>1, <1>2, <1>5, <2>1, AfterFixSane
  <1>8. CASE Verdict(reply, f.risk) # "yes" /\ Verdict(reply, f.risk) # "no"
    <2>1. Finish(f, "error")
      BY <1>4, <1>8
    <2>2. EntrySane(Recorded(f), v)
      BY <1>2, <1>5, SaneOnward, ReadRecorded
    <2>3. QED
      BY <1>1, <1>2, <1>5, <2>1, <2>2, FinishSane
  <1>9. QED
    BY <1>6, <1>7, <1>8

LEMMA FixAppliedSane ==
    ASSUME AllSane(stack, Actual), FixApplied
    PROVE  AllSane(stack', Actual') /\ LedgerStep(Actual')
  <1>1. PICK w, v, f, n : w = Actual /\ v = Actual' /\ f = Top /\ n = Len(stack)
    OBVIOUS
  <1>2. /\ Sane(f, w) /\ f.type = "run" /\ f.at = "fix" /\ AllSane(stack, w) /\ stack # <<>> /\ IsRec(f)
    BY <1>1, TopSane DEF FixApplied
  <1>3. Onward(w, v)
    BY <1>1, OnwardQuiet DEF FixApplied
  <1>4. EntrySane(Recorded(f), v)
    BY <1>2, <1>3, SaneOnward, ReadRecorded
  <1>5. AfterFix(f) \/ Finish(f, "error")
    BY <1>1 DEF FixApplied
  <1>6. QED
    BY <1>1, <1>2, <1>3, <1>4, <1>5, AfterFixSane, FinishSane

ActionSane(a, w) ==
    /\ IsPlan(a.plan) /\ EvaluatePlan(a.plan) # "denied"
    /\ w.changes = 0 => EvaluatePlanWithOrg(a.plan, OrgOf(w), a.ctx, w.hour) # "denied"
    /\ a.by = "optimize" \/ Several(w.req) => <<a.plan, a.ctx>> \in w.agreed
    /\ OfPrompt(a) => ~w.req.pr

DoneStep(v) == done' = done \/ \E a : IsLonger(done', done, a) /\ ActionSane(a, v)

LEMMA ChangeFrame ==
    ASSUME NEW f, NEW w, Sane(f, w), f.type = "run", f.at \in {"ask", "pr", "apply", "verify"},
           NEW v, Onward(w, v), NEW g, IsRec(g),
           \A x \in Fields \ {"at", "decision", "next", "applied"} : g[x] = f[x],
           g.at \in {"pr", "apply", "verify"}, g.next \in Nat, g.next > 0, g.applied \in BOOLEAN,
           Changing(g, v)
    PROVE  Sane(g, v)
  <1>1. /\ g.type = f.type /\ g.prompt = f.prompt /\ g.ns = f.ns /\ g.ctx = f.ctx
        /\ g.forceNs = f.forceNs /\ g.forceCtx = f.forceCtx /\ g.contexts = f.contexts
        /\ g.approve = f.approve /\ g.each = f.each /\ g.child = f.child /\ g.auto = f.auto
        /\ g.steps = f.steps /\ g.json = f.json /\ g.plan = f.plan /\ g.fixes = f.fixes
        /\ g.verify = f.verify /\ g.todo = f.todo /\ g.plans = f.plans /\ g.risk = f.risk
        /\ g.queue = f.queue /\ g.back = f.back
    BY DEF Fields
  <1>2. AsCalled(f, w) /\ Asked(f, w) /\ Settled(f, w)
    BY DEF Sane, Run
  <1>3. AsCalled(g, v)
    BY <1>1, <1>2 DEF AsCalled, IsPrefs, Onward
  <1>4. Asked(g, v)
    BY <1>1, <1>2 DEF Asked, Onward
  <1>5. Settled(g, v)
    BY <1>1, <1>2, VettedOn DEF Settled
  <1>6. QED
    BY <1>1, <1>3, <1>4, <1>5 DEF Sane, Run

LEMMA ChangingIs ==
    ASSUME NEW f, NEW w, Sane(f, w), f.type = "run", f.at \in {"ask", "pr", "apply", "verify"}
    PROVE  /\ Settled(f, w) /\ Changing(f, w) /\ IsRec(f) /\ AsCalled(f, w) /\ Asked(f, w)
           /\ IsExecutionPlan(f.plan) /\ f.plan.intent.kind \in ExtractKinds /\ f.verify = "none"
           /\ f.next \in Nat /\ f.next > 0
  BY DEF Sane, Run, Settled, IsPlanned, AsCalled

LEMMA PlanShown ==
    ASSUME NEW p, IsExecutionPlan(p), p.intent.kind \in ExtractKinds \cup {"patch"}, NEW ctx, NEW w, Vetted(p, ctx, w)
    PROVE  /\ IsPlan(Shown(p)) /\ EvaluatePlan(Shown(p)) # "denied"
           /\ w.changes = 0 => EvaluatePlanWithOrg(Shown(p), OrgOf(w), ctx, w.hour) # "denied"
  <1>1. PICK s : s = Shown(p)
    OBVIOUS
  <1>2. s.approval = p.approval /\ s.intent.kind = p.intent.kind
    BY <1>1, ShownKeeps
  <1>3. IsPlan(s)
    BY <1>2 DEF IsPlan, IsExecutionPlan
  <1>4. QED
    BY <1>1, <1>3, ShownEvaluated, ShownJudged DEF Vetted

LEMMA FixAction ==
    ASSUME NEW f, NEW w, Sane(f, w), f.type = "run", f.at = "fix",
           NEW n \in 1..Len(f.fixes[1].actions), NEW a, a = Action(f.fixes[1], f.ctx, n, f.plan.intent.kind)
    PROVE  ActionSane(a, w) /\ ~OfPrompt(a)
  <1>1. PICK p : p = f.fixes[1]
    OBVIOUS
  <1>2. /\ Settled(f, w) /\ Reading(f) /\ Fixing(f, w) /\ AsCalled(f, w) /\ Asked(f, w)
    BY DEF Sane, Run
  <1>3. IsSuggestion(p)
    BY <1>1, <1>2 DEF Fixing, AreFixes, IsSeq
  <1>4. IsExecutionPlan(p) /\ p.intent.kind \in ExtractKinds \cup {"patch"} /\ p.actions[n].context = Unset
    BY <1>1, <1>3 DEF IsSuggestion, IsExecutionPlan
  <1>5. a.plan = Shown(p) /\ a.ctx = f.ctx /\ a.by = f.plan.intent.kind
    BY <1>1, <1>4 DEF Action, Or
  <1>6. Vetted(p, f.ctx, w)
    BY <1>1, <1>2 DEF Fixing
  <1>7. ~OfPrompt(a)
    BY <1>2, <1>5 DEF Settled, IsPlanned, ExtractKinds, Mutating, OfPrompt
  <1>8. FixFlag(f) \/ <<a.plan, a.ctx>> \in w.agreed
    BY <1>1, <1>2, <1>5 DEF Fixing, Knows
  <1>9. a.by = "optimize" => ~FixFlag(f)
    <2>1. SUFFICES ASSUME f.plan.intent.kind = "optimize" PROVE ~FixFlag(f)
      BY <1>5
    <2>2. ~f.child
      BY <1>2, <2>1 DEF Reading, Fixing
    <2>3. ~f.auto
      BY <1>2, <2>2 DEF Asked
    <2>4. ~Branch(f.plan).flag
      BY <2>1 DEF Branch, Optimize
    <2>5. QED
      BY <2>3, <2>4 DEF FixFlag
  <1>10. Several(w.req) => ~FixFlag(f)
    BY <1>2 DEF Several, Settled, Asked, FixFlag
  <1>11. QED
    BY <1>4, <1>5, <1>6, <1>7, <1>8, <1>9, <1>10, PlanShown DEF ActionSane

LEMMA Tried ==
    ASSUME IsSeq(done), NEW a, done' \in {done, Append(done, a)}, UNCHANGED <<req, env, agreed>>,
           NEW w, w = Actual, NEW v, v = Actual', ActionSane(a, v)
    PROVE  Onward(w, v) /\ DoneStep(v)
  <1>1. CASE done' = done
    BY <1>1, OnwardQuiet DEF DoneStep
  <1>2. CASE done' = Append(done, a)
    <2>1. IsLonger(done', done, a)
      BY <1>2 DEF IsLonger
    <2>2. QED
      BY <2>1, OnwardDone DEF DoneStep
  <1>3. QED
    BY <1>1, <1>2

\* What an action is held to depends on no step.
LEMMA ActionSaneAnyway ==
    ASSUME NEW a, NEW w, ActionSane(a, w), NEW v, v.req = w.req, v.changes = w.changes,
           v.policy = w.policy, v.hour = w.hour, w.agreed \subseteq v.agreed
    PROVE  ActionSane(a, v)
  BY DEF ActionSane, OrgOf

LEMMA ApplyFixSane ==
    ASSUME AllSane(stack, Actual), IsSeq(done), ApplyFix
    PROVE  /\ AllSane(stack', Actual') /\ LedgerStep(Actual')
           /\ \E a : ActionSane(a, Actual') /\ ~OfPrompt(a) /\ (done' = done \/ IsLonger(done', done, a))
  <1>1. PICK w, v, f, n : w = Actual /\ v = Actual' /\ f = Top /\ n = Len(stack)
    OBVIOUS
  <1>2. /\ Sane(f, w) /\ f.type = "run" /\ f.at = "fix" /\ AllSane(stack, w) /\ stack # <<>> /\ IsRec(f)
    BY <1>1, TopSane DEF ApplyFix
  <1>3. /\ ~(f.child /\ f.plan.intent.kind = "optimize") /\ Fixing(f, w) /\ f.risk \in Risks
        /\ f.next \in Nat /\ f.next > 0
    BY <1>2, NotOptimizeChild
  <1>4. PICK p : p = f.fixes[1]
    OBVIOUS
  <1>5. PICK a : a = Action(p, f.ctx, f.next, f.plan.intent.kind)
    OBVIOUS
  <1>6. UNCHANGED <<req, env, agreed>> /\ f.next <= Len(p.actions)
    BY <1>1, <1>4 DEF ApplyFix, ApplyNext
  <1>7. f.next \in 1..Len(p.actions)
    <2>1. IsExecutionPlan(p)
      BY <1>3, <1>4 DEF Fixing, AreFixes, IsSeq, IsSuggestion
    <2>2. QED
      BY <1>3, <1>6, <2>1 DEF IsExecutionPlan
  <1>8. ActionSane(a, w) /\ ~OfPrompt(a)
    BY <1>2, <1>4, <1>5, <1>7, FixAction
  <1>9. ActionSane(a, v)
    BY <1>1, <1>6, <1>8, ActionSaneAnyway DEF Actual, env
  <1>10. CASE /\ done' = Append(done, a)
              /\ Become([f EXCEPT !.next = @ + 1])
              /\ UNCHANGED ledger
    <2>1. IsLonger(done', done, a)
      BY <1>10 DEF IsLonger
    <2>2. Onward(w, v)
      BY <1>1, <1>6, <2>1, OnwardDone
    <2>3. PICK g : g = [f EXCEPT !.next = f.next + 1]
      OBVIOUS
    <2>4. /\ IsRec(g) /\ \A y \in Fields \ {"fixes", "at", "next", "risk"} : g[y] = f[y]
          /\ g.at = "fix" /\ g.next = f.next + 1 /\ g.risk = f.risk /\ g.fixes = f.fixes
      BY <1>2, <2>3 DEF IsRec, Fields
    <2>5. /\ g.plan = f.plan /\ g.approve = f.approve /\ g.auto = f.auto /\ g.ctx = f.ctx
      BY <2>4 DEF Fields
    <2>6. Vetted(f.fixes[1], f.ctx, v)
      BY <1>2, <1>3, <2>2, VettedOn DEF Fixing
    <2>7. FixFlag(g) = FixFlag(f)
      BY <2>5 DEF FixFlag
    <2>8. FixFlag(f) \/ Knows(v, f.fixes[1], f.ctx)
      BY <1>2, <1>3, <2>2 DEF Fixing, Knows, Onward
    <2>9. Fixing(g, v)
      BY <1>3, <2>4, <2>5, <2>6, <2>7, <2>8 DEF Fixing
    <2>10. Sane(g, v)
      BY <1>2, <1>3, <2>2, <2>4, <2>9, FixFrame
    <2>11. Become(g) /\ ledger' = ledger
      BY <1>10, <2>3
    <2>12. QED
      BY <1>1, <1>2, <1>8, <1>9, <2>1, <2>2, <2>10, <2>11, BecomeSane DEF LedgerStep
  <1>11. CASE done' \in {done, Append(done, a)} /\ Finish(f, "error")
    <2>1. Onward(w, v)
      BY <1>1, <1>6, <1>9, <1>11, Tried
    <2>2. done' = done \/ IsLonger(done', done, a)
      BY <1>11 DEF IsLonger
    <2>3. EntrySane(Recorded(f), v)
      BY <1>2, <2>1, SaneOnward, ReadRecorded
    <2>4. QED
      BY <1>1, <1>2, <1>8, <1>9, <1>11, <2>1, <2>2, <2>3, FinishSane
  <1>12. QED
    BY <1>1, <1>4, <1>5, <1>10, <1>11 DEF ApplyFix, ApplyNext

\* A mutating run goes on with its plan, or its plan is in the history.
Ongoing(f, n) ==
    \/ /\ outcome' = outcome
       /\ \E g : Became(g, n) /\ g.type = "run" /\ g.at \in {"apply", "verify"} /\ g.plan = f.plan /\ g.ctx = f.ctx
    \/ \E e : IsLonger(ledger', ledger, e) /\ e.plan = Shown(f.plan) /\ e.ctx = f.ctx

LEMMA FinishOngoing ==
    ASSUME NEW f, NEW n, NEW g, g.plan = f.plan, g.ctx = f.ctx, NEW how, Finish(g, how)
    PROVE  Ongoing(f, n)
  <1>1. PICK e : e = Recorded(g)
    OBVIOUS
  <1>2. e.plan = Shown(f.plan) /\ e.ctx = f.ctx
    BY <1>1 DEF Recorded
  <1>3. IsLonger(ledger', ledger, e)
    BY <1>1 DEF Finish, IsLonger
  <1>4. QED
    BY <1>2, <1>3 DEF Ongoing

LEMMA BecomeOngoing ==
    ASSUME IsStack(stack), stack # <<>>, NEW f, NEW g, g.plan = f.plan, g.ctx = f.ctx, g.type = "run",
           g.at \in {"apply", "verify"}, Become(g)
    PROVE  Ongoing(f, Len(stack))
  BY BecomeBecomes DEF Ongoing

LEMMA ApplySane ==
    ASSUME AllSane(stack, Actual), IsSeq(done), Apply
    PROVE  /\ AllSane(stack', Actual') /\ LedgerStep(Actual') /\ Ongoing(Top, Len(stack))
           /\ \E a : /\ ActionSane(a, Actual') /\ a.plan = Shown(Top.plan) /\ a.ctx = Top.ctx
                     /\ done' = done \/ IsLonger(done', done, a)
  <1>1. PICK w, v, f, n : w = Actual /\ v = Actual' /\ f = Top /\ n = Len(stack)
    OBVIOUS
  <1>2. /\ Sane(f, w) /\ f.type = "run" /\ f.at = "apply" /\ AllSane(stack, w) /\ stack # <<>> /\ IsRec(f)
        /\ IsStack(stack)
    BY <1>1, TopSane DEF Apply
  <1>3. /\ Settled(f, w) /\ Changing(f, w) /\ AsCalled(f, w) /\ Asked(f, w)
        /\ IsExecutionPlan(f.plan) /\ f.plan.intent.kind \in ExtractKinds /\ f.verify = "none"
        /\ f.next \in Nat /\ f.next > 0
    BY <1>2, ChangingIs
  <1>4. PICK p : p = f.plan
    OBVIOUS
  <1>5. PICK a : a = Action(p, f.ctx, f.next, "prompt")
    OBVIOUS
  <1>6. UNCHANGED <<req, env, agreed>> /\ f.next <= Len(p.actions)
    BY <1>1, <1>4 DEF Apply, ApplyNext
  <1>7. f.next \in DOMAIN p.actions
    BY <1>3, <1>4, <1>6 DEF IsExecutionPlan
  <1>8. a.plan = Shown(p) /\ a.ctx = f.ctx /\ a.by = "prompt" /\ a.n = f.next /\ OfPrompt(a)
    <2>1. p.actions[f.next].context \in {Unset, f.ctx}
      BY <1>3, <1>4, <1>7 DEF Settled, Changing
    <2>2. QED
      BY <1>5, <2>1 DEF Action, Or, OfPrompt
  <1>9. ActionSane(a, w)
    <2>1. Several(w.req) => <<a.plan, a.ctx>> \in w.agreed
      BY <1>2, <1>3, <1>4, <1>8 DEF Several, Settled, Asked, RunFlag, Changing, Knows
    <2>2. ~w.req.pr
      BY <1>2, <1>3 DEF Changing
    <2>3. Vetted(p, f.ctx, w)
      BY <1>3, <1>4 DEF Settled
    <2>4. QED
      BY <1>3, <1>4, <1>8, <2>1, <2>2, <2>3, PlanShown DEF ActionSane
  <1>10. ActionSane(a, v)
    BY <1>1, <1>6, <1>9, ActionSaneAnyway DEF Actual, env
  <1>11. CASE /\ done' = Append(done, a)
              /\ Become([f EXCEPT !.next = @ + 1])
              /\ UNCHANGED ledger
    <2>1. IsLonger(done', done, a)
      BY <1>11 DEF IsLonger
    <2>2. Onward(w, v) /\ v.actions = w.actions \cup {a}
      BY <1>1, <1>6, <2>1, OnwardDone
    <2>3. PICK g : g = [f EXCEPT !.next = f.next + 1]
      OBVIOUS
    <2>4. /\ IsRec(g) /\ \A y \in Fields \ {"at", "decision", "next", "applied"} : g[y] = f[y]
          /\ g.at = "apply" /\ g.next = f.next + 1 /\ g.decision = f.decision /\ g.applied = f.applied
      BY <1>2, <2>3 DEF IsRec, Fields
    <2>5. /\ g.plan = f.plan /\ g.approve = f.approve /\ g.auto = f.auto /\ g.ctx = f.ctx
          /\ g.fixes = f.fixes /\ g.type = "run"
      BY <1>2, <2>4 DEF Fields
    <2>6. \A k \in 1..(g.next - 1) : HasDone(v, f.plan, f.ctx, k)
      <3>1. SUFFICES ASSUME NEW k \in 1..f.next PROVE HasDone(v, f.plan, f.ctx, k)
        BY <1>3, <2>4
      <3>2. CASE k = f.next
        BY <1>4, <1>8, <2>2, <3>2 DEF HasDone
      <3>3. CASE k # f.next
        <4>1. k \in 1..(f.next - 1)
          BY <1>3, <3>3
        <4>2. HasDone(w, f.plan, f.ctx, k)
          BY <1>2, <1>3, <4>1 DEF Changing
        <4>3. QED
          BY <2>2, <4>2 DEF HasDone, Onward
      <3>4. QED
        BY <3>2, <3>3
    <2>7. Changing(g, v)
      BY <1>2, <1>3, <2>2, <2>4, <2>5, <2>6 DEF Changing, RunFlag, Knows, Onward
    <2>8. Sane(g, v)
      BY <1>2, <1>3, <2>2, <2>4, <2>7, ChangeFrame DEF AsCalled
    <2>9. Become(g) /\ ledger' = ledger
      BY <1>11, <2>3
    <2>10. Ongoing(f, n)
      BY <1>1, <1>2, <2>4, <2>5, <2>9, BecomeOngoing
    <2>11. QED
      BY <1>1, <1>2, <1>4, <1>8, <1>10, <2>1, <2>2, <2>8, <2>9, <2>10, BecomeSane DEF LedgerStep
  <1>12. CASE done' \in {done, Append(done, a)} /\ Finish(f, "error")
    <2>1. Onward(w, v)
      BY <1>1, <1>6, <1>10, <1>12, Tried
    <2>2. done' = done \/ IsLonger(done', done, a)
      BY <1>12 DEF IsLonger
    <2>3. EntrySane(Recorded(f), v)
      <3>1. f.decision # "pr_opened" /\ ~f.applied
        BY <1>2, <1>3 DEF Changing
      <3>2. QED
        BY <1>3, <3>1, RecordedSane
    <2>4. Ongoing(f, n)
      BY <1>12, FinishOngoing
    <2>5. QED
      BY <1>1, <1>2, <1>4, <1>8, <1>10, <1>12, <2>1, <2>2, <2>3, <2>4, FinishSane
  <1>13. QED
    BY <1>1, <1>4, <1>5, <1>11, <1>12 DEF Apply, ApplyNext

LEMMA ApproveSane ==
    ASSUME AllSane(stack, Actual), Approve, req.pr \in BOOLEAN
    PROVE  AllSane(stack', Actual') /\ LedgerStep(Actual')
  <1>1. PICK w, v, f, n : w = Actual /\ v = Actual' /\ f = Top /\ n = Len(stack)
    OBVIOUS
  <1>2. /\ Sane(f, w) /\ f.type = "run" /\ f.at = "ask" /\ AllSane(stack, w) /\ stack # <<>> /\ IsRec(f)
    BY <1>1, TopSane DEF Approve
  <1>3. /\ Settled(f, w) /\ Changing(f, w) /\ AsCalled(f, w)
        /\ IsExecutionPlan(f.plan) /\ f.plan.intent.kind \in ExtractKinds /\ f.verify = "none"
        /\ f.next \in Nat /\ f.next > 0
    BY <1>2, ChangingIs
  <1>4. PICK flag : flag = RunFlag(f)
    OBVIOUS
  <1>5. PICK reply \in Replies(flag) :
            /\ CASE Verdict(reply, f.risk) = "yes" ->
                        /\ Become([f EXCEPT !.decision = "approved", !.at = IF req.pr THEN "pr" ELSE "apply"])
                        /\ UNCHANGED ledger
                 [] Verdict(reply, f.risk) = "no" -> Finish([f EXCEPT !.decision = "denied"], "ok")
                 [] OTHER -> Finish(f, "error")
            /\ Agree(flag, reply, {Consent(f.plan, f.ctx)})
    BY <1>1, <1>4 DEF Approve, RunFlag
  <1>6. Onward(w, v)
    BY <1>1, <1>5, OnwardQuiet, AgreeOnward DEF Approve
  <1>7. ~f.applied /\ f.decision = "planned" /\ f.next = 1 /\ f.plan.approval = TRUE /\ f.fixes = <<>>
    BY <1>2, <1>3 DEF Changing
  <1>8. CASE Verdict(reply, f.risk) = "yes"
    <2>1. PICK at : at = IF req.pr THEN "pr" ELSE "apply"
      OBVIOUS
    <2>2. PICK g : g = [f EXCEPT !.decision = "approved", !.at = at]
      OBVIOUS
    <2>3. Become(g) /\ ledger' = ledger
      BY <1>5, <1>8, <2>1, <2>2
    <2>4. /\ IsRec(g) /\ \A y \in Fields \ {"at", "decision", "next", "applied"} : g[y] = f[y]
          /\ g.at = at /\ g.next = f.next /\ g.decision = "approved" /\ g.applied = f.applied
      BY <1>2, <2>2 DEF IsRec, Fields
    <2>5. /\ g.plan = f.plan /\ g.approve = f.approve /\ g.auto = f.auto /\ g.ctx = f.ctx
          /\ g.fixes = f.fixes
      BY <2>4 DEF Fields
    <2>6. reply = "yes"
      BY <1>8 DEF Verdict
    <2>7. flag \/ Knows(v, f.plan, f.ctx)
      BY <1>1, <1>5, <2>6 DEF Agree, Consent, Knows, Actual
    <2>8. v.req = req
      BY <1>1, <1>6 DEF Actual, Onward
    <2>9. /\ at \in {"pr", "apply"} /\ (at = "pr" => v.req.pr) /\ (at = "apply" => ~v.req.pr)
      BY <2>1, <2>8
    <2>10. RunFlag(g) = RunFlag(f)
      BY <2>5 DEF RunFlag
    <2>11. Changing(g, v)
      BY <1>4, <1>7, <2>4, <2>5, <2>7, <2>9, <2>10 DEF Changing
    <2>12. Sane(g, v)
      BY <1>2, <1>3, <1>6, <2>4, <2>9, <2>11, ChangeFrame DEF AsCalled
    <2>13. QED
      BY <1>1, <1>2, <1>6, <2>3, <2>12, BecomeSane DEF LedgerStep
  <1>9. CASE Verdict(reply, f.risk) = "no"
    <2>1. PICK g : g = [f EXCEPT !.decision = "denied"]
      OBVIOUS
    <2>2. Finish(g, "ok")
      BY <1>5, <1>9, <2>1
    <2>3. g.plan = f.plan /\ g.decision = "denied" /\ g.applied = f.applied
      BY <1>2, <2>1 DEF IsRec, Fields
    <2>4. EntrySane(Recorded(g), v)
      BY <1>3, <1>7, <2>3, RecordedSane
    <2>5. QED
      BY <1>1, <1>2, <1>6, <2>2, <2>4, FinishSane
  <1>10. CASE Verdict(reply, f.risk) # "yes" /\ Verdict(reply, f.risk) # "no"
    <2>1. Finish(f, "error")
      BY <1>5, <1>10
    <2>2. EntrySane(Recorded(f), v)
      BY <1>3, <1>7, RecordedSane
    <2>3. QED
      BY <1>1, <1>2, <1>6, <2>1, <2>2, FinishSane
  <1>11. QED
    BY <1>8, <1>9, <1>10

LEMMA OpenPRSane ==
    ASSUME AllSane(stack, Actual), OpenPR
    PROVE  AllSane(stack', Actual') /\ LedgerStep(Actual')
  <1>1. PICK w, v, f, n : w = Actual /\ v = Actual' /\ f = Top /\ n = Len(stack)
    OBVIOUS
  <1>2. /\ Sane(f, w) /\ f.type = "run" /\ f.at = "pr" /\ AllSane(stack, w) /\ stack # <<>> /\ IsRec(f)
    BY <1>1, TopSane DEF OpenPR
  <1>3. /\ Settled(f, w) /\ Changing(f, w)
        /\ IsExecutionPlan(f.plan) /\ f.plan.intent.kind \in ExtractKinds /\ f.verify = "none"
    BY <1>2, ChangingIs
  <1>4. Onward(w, v)
    BY <1>1, OnwardQuiet DEF OpenPR
  <1>5. ~f.applied /\ f.decision = "approved" /\ w.req.pr
    BY <1>2, <1>3 DEF Changing
  <1>6. v.req.pr
    BY <1>4, <1>5 DEF Onward
  <1>7. CASE Finish(f, "error")
    <2>1. EntrySane(Recorded(f), v)
      BY <1>3, <1>5, RecordedSane
    <2>2. QED
      BY <1>1, <1>2, <1>4, <1>7, <2>1, FinishSane
  <1>8. CASE Finished([f EXCEPT !.decision = "pr_opened"])
    <2>1. PICK h : h = [f EXCEPT !.decision = "pr_opened"]
      OBVIOUS
    <2>2. PICK g : g = [h EXCEPT !.applied = TRUE]
      OBVIOUS
    <2>3. Finish(g, "ok")
      BY <1>8, <2>1, <2>2 DEF Finished
    <2>4. g.plan = f.plan /\ g.decision = "pr_opened" /\ g.verify = "none"
      BY <1>2, <1>3, <2>1, <2>2 DEF IsRec, Fields
    <2>5. EntrySane(Recorded(g), v)
      BY <1>3, <1>6, <2>4, RecordedSane
    <2>6. QED
      BY <1>1, <1>2, <1>4, <2>3, <2>5, FinishSane
  <1>9. QED
    BY <1>1, <1>7, <1>8 DEF OpenPR

LEMMA AppliedSane ==
    ASSUME AllSane(stack, Actual), Applied
    PROVE  AllSane(stack', Actual') /\ LedgerStep(Actual') /\ Ongoing(Top, Len(stack))
  <1>1. PICK w, v, f, n : w = Actual /\ v = Actual' /\ f = Top /\ n = Len(stack)
    OBVIOUS
  <1>2. /\ Sane(f, w) /\ f.type = "run" /\ f.at = "apply" /\ AllSane(stack, w) /\ stack # <<>> /\ IsRec(f)
        /\ IsStack(stack)
    BY <1>1, TopSane DEF Applied
  <1>3. /\ Settled(f, w) /\ Changing(f, w)
        /\ IsExecutionPlan(f.plan) /\ f.plan.intent.kind \in ExtractKinds /\ f.verify = "none"
        /\ f.next \in Nat /\ f.next > 0
    BY <1>2, ChangingIs
  <1>4. Onward(w, v)
    BY <1>1, OnwardQuiet DEF Applied
  <1>5. \A k \in DOMAIN f.plan.actions : HasDone(v, f.plan, f.ctx, k)
    <2>1. SUFFICES ASSUME NEW k \in DOMAIN f.plan.actions PROVE HasDone(v, f.plan, f.ctx, k)
      OBVIOUS
    <2>2. f.next > Len(f.plan.actions)
      BY <1>1 DEF Applied
    <2>3. k \in 1..(f.next - 1)
      BY <1>3, <2>2 DEF IsExecutionPlan
    <2>4. HasDone(w, f.plan, f.ctx, k)
      BY <1>2, <1>3, <2>3 DEF Changing
    <2>5. QED
      BY <1>4, <2>4 DEF HasDone, Onward
  <1>6. PICK g : g = [f EXCEPT !.applied = TRUE]
    OBVIOUS
  <1>7. g.plan = f.plan /\ g.ctx = f.ctx /\ g.decision = f.decision /\ g.verify = f.verify /\ g.applied
    BY <1>2, <1>6 DEF IsRec, Fields
  <1>8. f.decision = "approved" /\ ~w.req.pr
    BY <1>2, <1>3 DEF Changing
  <1>9. CASE Finish(g, "ok") \/ Finish(g, "error")
    <2>1. EntrySane(Recorded(g), v)
      BY <1>3, <1>5, <1>7, <1>8, RecordedSane
    <2>2. Ongoing(f, n)
      BY <1>7, <1>9, FinishOngoing
    <2>3. QED
      BY <1>1, <1>2, <1>4, <1>9, <2>1, <2>2, FinishSane
  <1>10. CASE Become([g EXCEPT !.decision = "applied", !.at = "verify"]) /\ UNCHANGED ledger
    <2>1. PICK h : h = [g EXCEPT !.decision = "applied", !.at = "verify"]
      OBVIOUS
    <2>2. /\ IsRec(h) /\ \A y \in Fields \ {"at", "decision", "next", "applied"} : h[y] = f[y]
          /\ h.at = "verify" /\ h.next = f.next /\ h.decision = "applied" /\ h.applied \in BOOLEAN /\ h.applied
      BY <1>2, <1>6, <2>1 DEF IsRec, Fields
    <2>3. /\ h.plan = f.plan /\ h.approve = f.approve /\ h.auto = f.auto /\ h.ctx = f.ctx
          /\ h.fixes = f.fixes /\ h.type = "run"
      BY <1>2, <2>2 DEF Fields
    <2>4. Changing(h, v)
      BY <1>2, <1>3, <1>4, <1>5, <1>8, <2>2, <2>3 DEF Changing, RunFlag, Knows, Onward
    <2>5. Sane(h, v)
      BY <1>2, <1>3, <1>4, <2>2, <2>4, ChangeFrame
    <2>6. Become(h) /\ ledger' = ledger
      BY <1>10, <2>1
    <2>7. Ongoing(f, n)
      BY <1>1, <1>2, <2>2, <2>3, <2>6, BecomeOngoing
    <2>8. QED
      BY <1>1, <1>2, <1>4, <2>5, <2>6, <2>7, BecomeSane DEF LedgerStep
  <1>11. QED
    BY <1>1, <1>6, <1>9, <1>10 DEF Applied

LEMMA VerifySane ==
    ASSUME AllSane(stack, Actual), Verify
    PROVE  AllSane(stack', Actual') /\ LedgerStep(Actual') /\ Ongoing(Top, Len(stack))
  <1>1. PICK w, v, f, n : w = Actual /\ v = Actual' /\ f = Top /\ n = Len(stack)
    OBVIOUS
  <1>2. /\ Sane(f, w) /\ f.type = "run" /\ f.at = "verify" /\ AllSane(stack, w) /\ stack # <<>> /\ IsRec(f)
        /\ IsStack(stack)
    BY <1>1, TopSane DEF Verify
  <1>3. /\ Changing(f, w) /\ IsExecutionPlan(f.plan) /\ f.plan.intent.kind \in ExtractKinds
    BY <1>2, ChangingIs
  <1>4. Onward(w, v)
    BY <1>1, OnwardQuiet DEF Verify
  <1>5. PICK verify, how : /\ how \in {"ok", "error"} /\ Finish([f EXCEPT !.verify = verify], how)
    BY <1>1 DEF Verify
  <1>6. PICK g : g = [f EXCEPT !.verify = verify]
    OBVIOUS
  <1>7. g.plan = f.plan /\ g.ctx = f.ctx /\ g.decision = f.decision
    BY <1>2, <1>6 DEF IsRec, Fields
  <1>8. f.decision = "applied" /\ \A k \in DOMAIN f.plan.actions : HasDone(w, f.plan, f.ctx, k)
    BY <1>2, <1>3 DEF Changing
  <1>9. \A k \in DOMAIN f.plan.actions : HasDone(v, f.plan, f.ctx, k)
    BY <1>4, <1>8 DEF HasDone, Onward
  <1>10. EntrySane(Recorded(g), v)
    BY <1>3, <1>7, <1>8, <1>9, RecordedSane
  <1>11. Finish(g, how)
    BY <1>5, <1>6
  <1>12. Ongoing(f, n)
    BY <1>7, <1>11, FinishOngoing
  <1>13. QED
    BY <1>1, <1>2, <1>4, <1>5, <1>10, <1>11, <1>12, FinishSane

-------------------------------------------------------------------------------

(***************************************************************************)
(* Every action keeps AllSane: the start of a run, of a route and of a     *)
(* fan-out.                                                                *)
(***************************************************************************)

ArePrompts(s) == IsSeq(s) /\ \A i \in 1..Len(s) : s[i] \in Prompts

LEMMA RouteOfIs ==
    ASSUME NEW f, NEW w, AsCalled(f, w), w.req \in Requests
    PROVE  ArePrompts(RouteOf(f))
  <1>1. PICK s, t : s = w.req.steps /\ t = Clauses[f.prompt]
    OBVIOUS
  <1>2. s \in Seq(Prompts) /\ t \in Seq(Prompts)
    BY <1>1, RequestIs, PipelineAssumption DEF AsCalled
  <1>3. ArePrompts(s) /\ ArePrompts(t)
    BY <1>2, SeqIsSeq DEF ArePrompts
  <1>4. RouteOf(f) = s \/ RouteOf(f) = t
    BY <1>1 DEF RouteOf, AsCalled
  <1>5. QED
    BY <1>3, <1>4

LEMMA ExtractedIs ==
    ASSUME NEW w, AllSane(stack, w), stack # <<>>, NEW ps, ArePrompts(ps), ~Exhausted(Len(ps)),
           NEW raws, raws = Extracted(ps)
    PROVE  AreIntents(raws) /\ Len(raws) = Len(ps)
  <1>1. PICK n \in Nat : n = Len(ps) /\ ps = [i \in 1..n |-> ps[i]]
    BY DEF ArePrompts, IsSeq
  <1>2. CASE Model
    <2>1. raws = [i \in 1..n |-> Answer[ps[i]]]
      BY <1>1, <1>2 DEF Extracted
    <2>2. raws = [i \in 1..n |-> raws[i]] /\ \A i \in 1..n : raws[i] = Answer[ps[i]]
      BY <2>1
    <2>3. Len(raws) = n /\ IsSeq(raws)
      BY <2>2, FunctionIsSeq
    <2>4. \A i \in 1..n : IsIntent(raws[i])
      BY <1>1, <2>2, PipelineAssumption DEF ArePrompts
    <2>5. QED
      BY <1>1, <2>3, <2>4 DEF AreIntents
  <1>3. CASE ~Model
    <2>1. IsStack(stack) /\ Len(stack) \in Nat /\ Len(stack) > 0
      BY SaneStack, EmptyIs DEF IsStack, IsSeq
    <2>2. Len(stack) > 1
      <3>1. PICK k \in Nat : k = Len(stack) /\ k > 0
        BY <2>1
      <3>2. k # 1
        BY <1>3, <3>1 DEF Model
      <3>3. QED
        BY <3>1, <3>2
    <2>3. PICK b, m : b = Below /\ m = Len(stack) - 1
      OBVIOUS
    <2>4. Len(b) = m /\ b[m] = stack[m] /\ m \in 1..Len(stack)
      BY <2>1, <2>2, <2>3, BelowIs DEF Below, IsStack
    <2>5. PICK q : q = b[m].queue
      OBVIOUS
    <2>6. AreIntents(q)
      BY <2>4, <2>5 DEF AllSane, Sane, AsCalled
    <2>7. ~(Len(q) < n)
      BY <1>1, <1>3, <2>3, <2>4, <2>5 DEF Exhausted
    <2>8. n <= Len(q) /\ IsSeq(q)
      BY <1>1, <2>6, <2>7 DEF AreIntents, IsSeq
    <2>9. raws = SubSeq(q, 1, n)
      BY <1>1, <1>3, <2>3, <2>4, <2>5 DEF Extracted
    <2>10. Len(raws) = n /\ IsSeq(raws) /\ \A i \in 1..n : raws[i] = q[i]
      BY <2>8, <2>9, FirstIs
    <2>11. \A i \in 1..n : i \in 1..Len(q)
      BY <2>8 DEF IsSeq
    <2>12. QED
      BY <1>1, <2>6, <2>10, <2>11 DEF AreIntents
  <1>4. QED
    BY <1>2, <1>3

LEMMA WithPlanIs ==
    ASSUME NEW f, IsRec(f), IsPrefs(f), NEW raw, IsIntent(raw), NEW g, g = WithPlan(f, raw),
           NEW prompt, prompt = Words[f.prompt], NEW prefs, prefs = Prefs(f),
           NEW kinds, kinds = ScopedKinds \cup {"roast"}, NEW in, in = Prepared(raw, prompt, prefs, kinds)
    PROVE  /\ IsRec(g) /\ \A x \in Fields \ {"ns", "ctx", "plan"} : g[x] = f[x]
           /\ g.ns = in.ns /\ g.ctx = in.ctx /\ g.plan = Build(in)
           /\ IsPrefs(g) /\ IsIntent(in) /\ in.kind \in ExtractKinds
           /\ g.plan # NoPlan => Built(g.plan, in)
  <1>2. IsPrefs(prefs) /\ prefs.forceNs = f.forceNs /\ prefs.forceCtx = f.forceCtx /\ prefs.ns = f.ns
    BY PrefsScope DEF IsScope
  <1>3. in = Prepared(raw, prompt, prefs, kinds) /\ kinds \in {ScopedKinds, ScopedKinds \cup {"roast"}}
    OBVIOUS
  <1>4. /\ IsIntent(in) /\ in.kind \in ExtractKinds /\ in.ctx # Unset
        /\ prefs.forceNs => in.ns = prefs.ns
    <2>1. IsIntent(raw) /\ IsPrefs(prefs)
      BY <1>2
    <2>2. IsIntent(in) /\ in.kind \in ExtractKinds
      BY ZenonT(60), <1>3, <2>1, PreparedIs
    <2>3. in.ctx # Unset
      BY <1>3, <2>1, PreparedPlace
    <2>4. prefs.forceNs => in.ns = prefs.ns
      BY <1>3, <2>1, PreparedPlace
    <2>5. QED
      BY <2>2, <2>3, <2>4
  <1>5. PICK p : p = Build(in)
    OBVIOUS
  <1>6. g = [f EXCEPT !.ns = in.ns, !.ctx = Or(in.ctx, f.ctx), !.plan = p]
    BY <1>5 DEF WithPlan, WithIntent
  <1>7. Or(in.ctx, f.ctx) = in.ctx
    BY <1>4 DEF Or
  <1>8. /\ IsRec(g) /\ \A x \in Fields \ {"ns", "ctx", "plan"} : g[x] = f[x]
        /\ g.ns = in.ns /\ g.ctx = in.ctx /\ g.plan = p
    BY <1>6, <1>7 DEF IsRec, Fields
  <1>9. g.forceNs = f.forceNs /\ g.forceCtx = f.forceCtx
    BY <1>8 DEF Fields
  <1>10. IsPrefs(g)
    BY <1>2, <1>4, <1>8, <1>9 DEF IsPrefs
  <1>11. g.plan # NoPlan => Built(g.plan, in)
    BY <1>4, <1>5, <1>8, BuildBuilt
  <1>12. QED
    BY <1>4, <1>5, <1>8, <1>10, <1>11

Outcomes == [how : {"running", "ok", "error", "overflow", "killed"}, applied : BOOLEAN]

\* The invocation goes on, or it has ended with an outcome; calls nest up to the bound.
Moves ==
    /\ outcome' = outcome \/ (stack' = <<>> /\ outcome' \in Outcomes)
    /\ \/ stack' = <<>>
       \/ Len(stack') <= Len(stack)
       \/ Len(stack) < MaxDepth /\ Len(stack') = Len(stack) + 1

LEMMA ReturnMoves ==
    ASSUME IsStack(stack), stack # <<>>, NEW left, Lower(stack, left, Len(stack) - 1),
           Len(left) = Len(stack) - 1, NEW how, how \in {"ok", "error"},
           NEW applied, applied \in BOOLEAN, Return(left, how, applied)
    PROVE  Moves
  <1>1. PICK n : n = Len(stack) - 1
    OBVIOUS
  <1>2. n \in Nat /\ Len(stack) \in Nat
    BY <1>1, EmptyIs DEF IsStack, IsSeq
  <1>3. /\ Popped(n)
        /\ outcome' = outcome \/ (stack' = <<>> /\ outcome' = [how |-> how, applied |-> applied])
    BY <1>1, <1>2, ReturnPops
  <1>4. [how |-> how, applied |-> applied] \in Outcomes
    BY DEF Outcomes
  <1>5. stack' = <<>> \/ Len(stack') <= Len(stack)
    BY <1>1, <1>2, <1>3 DEF Popped
  <1>6. QED
    BY <1>3, <1>4, <1>5 DEF Moves

LEMMA ObservedMoves ==
    ASSUME IsStack(stack), stack # <<>>, NEW left, Lower(stack, left, Len(stack) - 1),
           Len(left) = Len(stack) - 1, NEW how, how \in {"ok", "error"}, NEW doc,
           NEW applied, applied \in BOOLEAN, Return(Observed(left, doc), how, applied)
    PROVE  Moves
  <1>1. PICK o, n : o = Observed(left, doc) /\ n = Len(stack) - 1
    OBVIOUS
  <1>2. n \in Nat
    BY <1>1, EmptyIs DEF IsStack, IsSeq
  <1>3. Lower(stack, o, n) /\ Len(o) = n
    BY <1>1, <1>2, ObservedLower
  <1>4. Return(o, how, applied)
    BY <1>1
  <1>5. QED
    BY <1>1, <1>3, <1>4, ReturnMoves

LEMMA FinishMoves ==
    ASSUME IsStack(stack), stack # <<>>, NEW f, f.applied \in BOOLEAN, NEW how, how \in {"ok", "error"},
           Finish(f, how)
    PROVE  Moves
  <1>1. PICK b, d, a : b = Below /\ d = Doc(f.plan, f.ctx, FALSE, f.applied) /\ a = f.applied
    OBVIOUS
  <1>2. Lower(stack, b, Len(stack) - 1) /\ Len(b) = Len(stack) - 1
    BY <1>1, BelowLower
  <1>3. Return(Observed(b, d), how, a) /\ a \in BOOLEAN
    BY <1>1 DEF Finish
  <1>4. QED
    BY <1>2, <1>3, ObservedMoves

LEMMA BecameMoves ==
    ASSUME IsStack(stack), stack # <<>>, NEW f, Became(f, Len(stack)), outcome' = outcome
    PROVE  Moves
  <1>1. Len(stack) \in Nat
    BY DEF IsStack, IsSeq
  <1>2. Len(stack') = Len(stack)
    BY DEF Became
  <1>3. QED
    BY <1>1, <1>2 DEF Moves

LEMMA BecomeMoves ==
    ASSUME IsStack(stack), stack # <<>>, NEW f, Become(f)
    PROVE  Moves
  BY BecomeBecomes, BecameMoves

LEMMA CallMoves ==
    ASSUME IsStack(stack), stack # <<>>, NEW f, NEW g, Call(f, g)
    PROVE  Moves
  <1>1. /\ Called(f, g, Len(stack)) /\ (stack' = <<>> \/ Len(stack) < MaxDepth)
        /\ outcome' = outcome \/ (stack' = <<>> /\ outcome' = [how |-> "overflow", applied |-> FALSE])
    BY CallCalls
  <1>2. [how |-> "overflow", applied |-> FALSE] \in Outcomes
    BY DEF Outcomes
  <1>3. QED
    BY <1>1, <1>2 DEF Moves, Called

LEMMA ReportSane ==
    ASSUME NEW w, AllSane(stack, w), stack # <<>>, NEW v, Onward(w, v),
           NEW doc, doc.applied \in BOOLEAN, Report(doc)
    PROVE  AllSane(stack', v) /\ Moves
  <1>1. PICK b, a : b = Below /\ a = doc.applied
    OBVIOUS
  <1>2. Lower(stack, b, Len(stack) - 1) /\ Len(b) = Len(stack) - 1 /\ IsStack(stack)
    BY <1>1, SaneStack, BelowLower
  <1>3. Return(Observed(b, doc), "ok", a) /\ a \in BOOLEAN
    BY <1>1 DEF Report
  <1>4. AllSane(stack', v)
    BY <1>2, <1>3, ObservedSane
  <1>5. QED
    BY <1>2, <1>3, <1>4, ObservedMoves

LEMMA ReturnSane ==
    ASSUME NEW w, AllSane(stack, w), stack # <<>>, NEW v, Onward(w, v), NEW how, how \in {"ok", "error"},
           NEW applied, applied \in BOOLEAN, Return(Below, how, applied)
    PROVE  AllSane(stack', v) /\ Moves
  <1>1. PICK b : b = Below
    OBVIOUS
  <1>2. Lower(stack, b, Len(stack) - 1) /\ Len(b) = Len(stack) - 1 /\ IsStack(stack)
    BY <1>1, SaneStack, BelowLower
  <1>3. Return(b, how, applied)
    BY <1>1
  <1>4. AllSane(stack', v)
    BY FailSane
  <1>5. QED
    BY <1>2, <1>3, <1>4, ReturnMoves

LEMMA QuietOnward ==
    ASSUME Quiet, NEW w, w = Actual, NEW v, v = Actual'
    PROVE  Onward(w, v) /\ v.actions = w.actions
  BY OnwardQuiet DEF Quiet

LEMMA CheckPromptSane ==
    ASSUME AllSane(stack, Actual), CheckPrompt
    PROVE  AllSane(stack', Actual') /\ Moves
  <1>1. PICK w, v : w = Actual /\ v = Actual'
    OBVIOUS
  <1>2. stack # <<>> /\ Onward(w, v) /\ AllSane(stack, w)
    BY <1>1, QuietOnward DEF CheckPrompt, Running
  <1>3. PICK d : d = Doc(NoPlan, Unset, TRUE, FALSE)
    OBVIOUS
  <1>4. Report(d) /\ d.applied \in BOOLEAN
    BY <1>3 DEF CheckPrompt, Doc
  <1>5. QED
    BY <1>1, <1>2, <1>4, ReportSane

LEMMA LocalPromptSane ==
    ASSUME AllSane(stack, Actual), LocalPrompt
    PROVE  AllSane(stack', Actual') /\ Moves
  <1>1. PICK w, v : w = Actual /\ v = Actual'
    OBVIOUS
  <1>2. stack # <<>> /\ Onward(w, v) /\ AllSane(stack, w)
    BY <1>1, QuietOnward DEF LocalPrompt, Running
  <1>3. CASE Fail
    <2>1. Return(Below, "error", FALSE)
      BY <1>3 DEF Fail
    <2>2. QED
      BY <1>1, <1>2, <2>1, ReturnSane
  <1>4. ASSUME NEW denied \in BOOLEAN, Report(Doc(NoPlan, Top.ctx, denied, ~denied))
        PROVE  AllSane(stack', Actual') /\ Moves
    <2>1. PICK d : d = Doc(NoPlan, Top.ctx, denied, ~denied)
      OBVIOUS
    <2>2. Report(d) /\ d.applied \in BOOLEAN
      BY <1>4, <2>1 DEF Doc
    <2>3. QED
      BY <1>1, <1>2, <2>2, ReportSane
  <1>5. QED
    BY <1>3, <1>4 DEF LocalPrompt

LEMMA PlanFailsSane ==
    ASSUME AllSane(stack, Actual), PlanFails
    PROVE  AllSane(stack', Actual') /\ Moves
  <1>1. PICK w, v : w = Actual /\ v = Actual'
    OBVIOUS
  <1>2. stack # <<>> /\ Onward(w, v) /\ AllSane(stack, w)
    BY <1>1, QuietOnward DEF PlanFails, Running
  <1>3. Return(Below, "error", FALSE)
    BY DEF PlanFails, Fail
  <1>4. QED
    BY <1>1, <1>2, <1>3, ReturnSane

LEMMA StartIs ==
    ASSUME NEW f, NEW w, Sane(f, w), f.type = "run", f.at = "start"
    PROVE  /\ AsCalled(f, w) /\ Asked(f, w) /\ AtStart(f) /\ IsRec(f) /\ IsPrefs(f)
           /\ f.prompt \in Prompts /\ Len(f.contexts) \in Nat
  BY DEF Sane, Run, AsCalled, AreSet, IsSeq

LEMMA OneExtracted ==
    ASSUME NEW w, AllSane(stack, w), stack # <<>>, NEW p \in Prompts, ~Exhausted(1),
           NEW raw, raw = Extracted(<<p>>)[1]
    PROVE  IsIntent(raw)
  <1>1. PICK ps : ps = <<p>>
    OBVIOUS
  <1>2. ArePrompts(ps) /\ Len(ps) = 1
    BY <1>1 DEF ArePrompts, IsSeq
  <1>3. PICK raws : raws = Extracted(ps)
    OBVIOUS
  <1>4. AreIntents(raws) /\ Len(raws) = 1
    BY <1>2, <1>3, ExtractedIs
  <1>5. QED
    BY <1>1, <1>3, <1>4 DEF AreIntents

\* The plan of a call, as it is made of the intent for it.
PlanOf(g, f, in) ==
    /\ IsRec(g) /\ \A x \in Fields \ {"ns", "ctx", "plan"} : g[x] = f[x]
    /\ IsPrefs(g) /\ g.ctx = in.ctx
    /\ g.plan # NoPlan => Built(g.plan, in) /\ IsPlanned(g.plan)

LEMMA PlanOfIs ==
    ASSUME NEW f, IsRec(f), IsPrefs(f), NEW raw, IsIntent(raw), NEW g, g = WithPlan(f, raw)
    PROVE  \E in : PlanOf(g, f, in)
  <1>1. PICK prompt, prefs, kinds : prompt = Words[f.prompt] /\ prefs = Prefs(f) /\ kinds = ScopedKinds \cup {"roast"}
    OBVIOUS
  <1>2. PICK in : in = Prepared(raw, prompt, prefs, kinds)
    OBVIOUS
  <1>3. /\ IsRec(g) /\ \A x \in Fields \ {"ns", "ctx", "plan"} : g[x] = f[x]
        /\ g.ctx = in.ctx /\ IsPrefs(g) /\ in.kind \in ExtractKinds
        /\ g.plan # NoPlan => Built(g.plan, in)
    BY <1>1, <1>2, WithPlanIs
  <1>4. g.plan # NoPlan => IsPlanned(g.plan)
    BY <1>3 DEF Built, IsPlanned
  <1>5. QED
    BY <1>3, <1>4 DEF PlanOf

LEMMA RiskVets ==
    ASSUME NEW p, NEW ctx, Risk(p, ctx) # "denied", NEW w, w = Actual
    PROVE  Vetted(p, ctx, w) /\ Risk(p, ctx) \in Risks
  <1>1. PICK e : e = EvaluatePlan(p)
    OBVIOUS
  <1>2. e \in {"low", "medium", "high", "denied"}
    BY <1>1, IsRisk
  <1>3. Risk(p, ctx) = ApplyOrgPolicy(e, p, loadOrgPolicy, ctx, hour)
    BY <1>1 DEF Risk, EvaluatePlanWithOrg
  <1>4. e # "denied" /\ Risk(p, ctx) = e
    BY <1>3 DEF ApplyOrgPolicy
  <1>5. EvaluatePlanWithOrg(p, OrgOf(w), ctx, w.hour) # "denied"
    BY DEF Risk, OrgOf, loadOrgPolicy, Actual
  <1>6. QED
    BY <1>1, <1>2, <1>4, <1>5 DEF Vetted, Risks, RiskRank

LEMMA DeniedDenies ==
    ASSUME NEW p, NEW ctx, EvaluatePlan(p) = "denied"
    PROVE  Risk(p, ctx) = "denied"
  BY DEF Risk, EvaluatePlanWithOrg, ApplyOrgPolicy

LEMMA JudgedFrame ==
    ASSUME NEW f, NEW w, w = Actual, Sane(f, w), f.type = "run", f.at = "start", ~FansOut(f),
           NEW in, NEW g, PlanOf(g, f, in), g.plan # NoPlan,
           NEW risk, risk = Risk(g.plan, g.ctx), risk # "denied",
           NEW h, IsRec(h), \A x \in Fields \ {"risk", "at"} : h[x] = g[x], h.risk = risk,
           h.at = (IF IsReadOnly(g.plan) THEN "read" ELSE "ask")
    PROVE  Sane(h, w)
  <1>1. AsCalled(f, w) /\ Asked(f, w) /\ AtStart(f) /\ Len(f.contexts) \in Nat
    BY StartIs
  <1>2. Vetted(g.plan, g.ctx, w) /\ risk \in Risks
    BY RiskVets
  <1>3. /\ IsRec(g) /\ \A x \in Fields \ {"ns", "ctx", "plan"} : g[x] = f[x]
        /\ IsPrefs(g) /\ g.ctx = in.ctx /\ Built(g.plan, in) /\ IsPlanned(g.plan)
    BY DEF PlanOf
  <1>4. /\ h.type = "run" /\ h.prompt = f.prompt /\ h.contexts = f.contexts
        /\ h.approve = f.approve /\ h.each = f.each /\ h.child = f.child /\ h.auto = f.auto
        /\ h.steps = f.steps /\ h.json = f.json /\ h.fixes = f.fixes /\ h.next = f.next
        /\ h.applied = f.applied /\ h.decision = f.decision /\ h.verify = f.verify
        /\ h.queue = f.queue /\ h.todo = f.todo /\ h.plans = f.plans /\ h.back = f.back
    BY <1>3 DEF Fields
  <1>5. /\ h.ns = g.ns /\ h.ctx = g.ctx /\ h.forceNs = g.forceNs /\ h.forceCtx = g.forceCtx
        /\ h.plan = g.plan
    BY DEF Fields
  <1>6. IsPrefs(h)
    BY <1>3, <1>5 DEF IsPrefs
  <1>7. AsCalled(h, w)
    BY <1>1, <1>2, <1>4, <1>6 DEF AsCalled
  <1>8. Asked(h, w)
    BY <1>1, <1>4 DEF Asked
  <1>9. Settled(h, w)
    <2>1. h.plans = <<>> /\ Len(h.contexts) <= 1
      BY <1>1, <1>4 DEF AtStart, FansOut
    <2>2. h.plan.approval => \A i \in DOMAIN h.plan.actions : h.plan.actions[i].context \in {Unset, h.ctx}
      BY <1>3, <1>5 DEF Built
    <2>3. QED
      BY <1>2, <1>3, <1>5, <2>1, <2>2 DEF Settled
  <1>10. CASE IsReadOnly(g.plan)
    <2>1. Reading(h) /\ h.fixes = <<>> /\ h.at = "read"
      BY <1>1, <1>4, <1>5, <1>10 DEF Reading, AtStart
    <2>2. QED
      BY <1>4, <1>7, <1>8, <1>9, <2>1 DEF Sane, Run
  <1>11. CASE ~IsReadOnly(g.plan)
    <2>1. PICK p : p = g.plan
      OBVIOUS
    <2>2. p.approval \in BOOLEAN /\ EvaluatePlan(p) # "denied"
      BY <1>2, <1>3, <2>1 DEF IsPlanned, IsExecutionPlan, Vetted
    <2>3. p.intent.kind # "deny"
      BY <2>2, DenyRisk
    <2>4. p.approval
      BY <1>3, <1>11, <2>1, <2>3 DEF Built, IsReadOnly
    <2>5. h.plan.approval = TRUE
      BY <1>5, <2>1, <2>2, <2>4
    <2>6. Changing(h, w) /\ h.at = "ask"
      BY <1>1, <1>4, <1>11, <2>5 DEF Changing, AtStart
    <2>7. QED
      BY <1>4, <1>7, <1>8, <1>9, <2>6 DEF Sane, Run
  <1>12. QED
    BY <1>10, <1>11

\* A step that hands on what is left of the provider's answers.
LEMMA LeftIs ==
    ASSUME NEW w, AllSane(stack, w), stack # <<>>, NEW k \in Nat, ~Exhausted(k), NEW left, left = Consumed(k)
    PROVE  Lower(stack, left, Len(stack) - 1) /\ Len(left) = Len(stack) - 1 /\ IsStack(stack)
  BY SaneStack, ConsumedLower

LEMMA LeftReturns ==
    ASSUME NEW w, AllSane(stack, w), stack # <<>>, NEW v, Onward(w, v),
           NEW left, Lower(stack, left, Len(stack) - 1), Len(left) = Len(stack) - 1,
           NEW how, how \in {"ok", "error"}, Return(left, how, FALSE)
    PROVE  AllSane(stack', v) /\ Moves
  <1>1. IsStack(stack)
    BY SaneStack
  <1>2. PICK n : n = Len(stack) - 1
    OBVIOUS
  <1>3. n \in Nat
    BY <1>1, <1>2, EmptyIs DEF IsStack, IsSeq
  <1>4. Popped(n)
    BY <1>2, <1>3, ReturnPops
  <1>5. AllSane(stack', v)
    BY <1>4, PoppedSane
  <1>6. PICK a : a = FALSE
    OBVIOUS
  <1>7. a \in BOOLEAN /\ Return(left, how, a)
    BY <1>6
  <1>8. QED
    BY <1>1, <1>5, <1>7, ReturnMoves

LEMMA LeftObserved ==
    ASSUME NEW w, AllSane(stack, w), stack # <<>>, NEW v, Onward(w, v),
           NEW left, Lower(stack, left, Len(stack) - 1), Len(left) = Len(stack) - 1,
           NEW doc, Return(Observed(left, doc), "ok", FALSE)
    PROVE  AllSane(stack', v) /\ Moves
  <1>1. IsStack(stack)
    BY SaneStack
  <1>2. PICK a, how : a = FALSE /\ how = "ok"
    OBVIOUS
  <1>3. a \in BOOLEAN /\ how \in {"ok", "error"} /\ Return(Observed(left, doc), how, a)
    BY <1>2
  <1>4. AllSane(stack', v)
    BY <1>3, ObservedSane
  <1>5. QED
    BY <1>1, <1>3, <1>4, ObservedMoves

LEMMA LeftBecomes ==
    ASSUME NEW w, AllSane(stack, w), stack # <<>>, NEW v, Onward(w, v),
           NEW left, Lower(stack, left, Len(stack) - 1), Len(left) = Len(stack) - 1,
           NEW h, Sane(h, v), stack' = Append(left, h), outcome' = outcome
    PROVE  AllSane(stack', v) /\ Moves
  <1>1. IsStack(stack)
    BY SaneStack
  <1>2. PICK n \in Nat : n = Len(stack) /\ n > 0
    BY <1>1, EmptyIs DEF IsStack, IsSeq
  <1>3. Became(h, n)
    BY <1>2, AppendBecomes
  <1>4. AllSane(stack', v)
    BY <1>3, BecameSane
  <1>5. QED
    BY <1>1, <1>2, <1>3, <1>4, BecameMoves

LEMMA BuildPlanSane ==
    ASSUME AllSane(stack, Actual), BuildPlan
    PROVE  AllSane(stack', Actual') /\ Moves
  <1>1. PICK w, v, f : w = Actual /\ v = Actual' /\ f = Top
    OBVIOUS
  <1>2. /\ Sane(f, w) /\ f.type = "run" /\ f.at = "start" /\ AllSane(stack, w) /\ stack # <<>>
    BY <1>1, TopSane DEF BuildPlan, Planning
  <1>3. Onward(w, v)
    BY <1>1, QuietOnward DEF BuildPlan
  <1>4. PICK raw, left : raw = Extracted(<<f.prompt>>)[1] /\ left = Consumed(1)
    OBVIOUS
  <1>5. PICK g : g = WithPlan(f, raw)
    OBVIOUS
  <1>6. Judged(g) /\ ~FansOut(f) /\ ~Exhausted(1)
    BY <1>1, <1>4, <1>5 DEF BuildPlan, Planning
  <1>7. IsRec(f) /\ IsPrefs(f) /\ f.prompt \in Prompts
    BY <1>2, StartIs
  <1>8. IsIntent(raw)
    BY <1>2, <1>4, <1>6, <1>7, OneExtracted
  <1>9. PICK in : PlanOf(g, f, in)
    BY <1>5, <1>7, <1>8, PlanOfIs
  <1>10. Lower(stack, left, Len(stack) - 1) /\ Len(left) = Len(stack) - 1
    BY <1>2, <1>4, <1>6, LeftIs
  <1>11. PICK risk : risk = Risk(g.plan, g.ctx)
    OBVIOUS
  <1>12. PICK doc : doc = Doc(g.plan, g.ctx, TRUE, FALSE)
    OBVIOUS
  <1>13. CASE risk = "denied" \/ (g.plan.approval /\ g.ctx \in Mismatched)
    <2>1. Return(Observed(left, doc), "ok", FALSE)
      BY <1>4, <1>6, <1>11, <1>12, <1>13 DEF Judged
    <2>2. QED
      BY <1>1, <1>2, <1>3, <1>10, <2>1, LeftObserved
  <1>14. CASE ~(risk = "denied" \/ (g.plan.approval /\ g.ctx \in Mismatched))
    <2>1. PICK x : x = IF IsReadOnly(g.plan) THEN "read" ELSE "ask"
      OBVIOUS
    <2>2. PICK h : h = [g EXCEPT !.risk = risk, !.at = x]
      OBVIOUS
    <2>3. stack' = Append(left, h) /\ outcome' = outcome /\ g.plan # NoPlan /\ risk # "denied"
      BY <1>4, <1>6, <1>11, <1>14, <2>1, <2>2 DEF Judged
    <2>4. IsRec(h) /\ (\A y \in Fields \ {"risk", "at"} : h[y] = g[y]) /\ h.risk = risk /\ h.at = x
      BY <1>9, <2>2 DEF PlanOf, IsRec, Fields
    <2>5. Sane(h, w)
      BY <1>1, <1>2, <1>6, <1>9, <1>11, <2>1, <2>3, <2>4, JudgedFrame
    <2>6. Sane(h, v)
      BY <1>3, <2>5, SaneOnward
    <2>7. QED
      BY <1>1, <1>2, <1>3, <1>10, <2>3, <2>6, LeftBecomes
  <1>15. QED
    BY <1>13, <1>14

LEMMA FanFrame ==
    ASSUME NEW f, NEW w, w = Actual, Sane(f, w), f.type = "run", f.at = "start", FansOut(f), ~IsRoute(f),
           NEW in, NEW g, PlanOf(g, f, in), g.plan # NoPlan,
           Several(w.req) => IsReadOnly(g.plan),
           NEW h, IsRec(h), \A x \in Fields \ {"type", "at", "todo", "applied"} : h[x] = g[x],
           h.type = "fan", h.at = "next", h.todo = g.contexts, h.applied \in BOOLEAN
    PROVE  Sane(h, w)
  <1>1. AsCalled(f, w) /\ Asked(f, w) /\ AtStart(f) /\ Len(f.contexts) \in Nat
    BY StartIs
  <1>2. /\ IsRec(g) /\ \A x \in Fields \ {"ns", "ctx", "plan"} : g[x] = f[x]
        /\ IsPrefs(g) /\ IsPlanned(g.plan)
    BY DEF PlanOf
  <1>3. /\ h.prompt = f.prompt /\ h.contexts = f.contexts
        /\ h.approve = f.approve /\ h.each = f.each /\ h.child = f.child /\ h.auto = f.auto
        /\ h.steps = f.steps /\ h.json = f.json /\ h.fixes = f.fixes /\ h.next = f.next
        /\ h.decision = f.decision /\ h.verify = f.verify /\ h.risk = f.risk
        /\ h.queue = f.queue /\ h.todo = f.contexts /\ h.plans = f.plans /\ h.back = f.back
    BY <1>2 DEF Fields
  <1>4. /\ h.ns = g.ns /\ h.ctx = g.ctx /\ h.forceNs = g.forceNs /\ h.forceCtx = g.forceCtx
        /\ h.plan = g.plan
    BY DEF Fields
  <1>5. IsPrefs(h)
    BY <1>2, <1>4 DEF IsPrefs
  <1>6. AsCalled(h, w)
    BY <1>1, <1>3, <1>5 DEF AsCalled
  <1>7. Asked(h, w)
    BY <1>1, <1>3 DEF Asked
  <1>8. ~f.child
    BY <1>1 DEF Asked, FansOut
  <1>9. Fan(h, w)
    <2>1. OneClause(f.steps, f.prompt)
      BY DEF OneClause, IsRoute, RouteOf
    <2>2. QED
      BY <1>1, <1>2, <1>3, <1>4, <1>8, <2>1 DEF Fan, AtStart
  <1>10. QED
    BY <1>6, <1>7, <1>9 DEF Sane

LEMMA FanOutSane ==
    ASSUME AllSane(stack, Actual), FanOut
    PROVE  AllSane(stack', Actual') /\ Moves
  <1>1. PICK w, v, f : w = Actual /\ v = Actual' /\ f = Top
    OBVIOUS
  <1>2. /\ Sane(f, w) /\ f.type = "run" /\ f.at = "start" /\ AllSane(stack, w) /\ stack # <<>>
    BY <1>1, TopSane DEF FanOut, Planning
  <1>3. Onward(w, v)
    BY <1>1, QuietOnward DEF FanOut
  <1>4. PICK raw, left : raw = Extracted(<<f.prompt>>)[1] /\ left = Consumed(1)
    OBVIOUS
  <1>5. PICK g : g = WithPlan(f, raw)
    OBVIOUS
  <1>6. BeginFan(g) /\ FansOut(f) /\ ~Exhausted(1) /\ ~IsRoute(f)
    BY <1>1, <1>4, <1>5 DEF FanOut, Planning
  <1>7. IsRec(f) /\ IsPrefs(f) /\ f.prompt \in Prompts
    BY <1>2, StartIs
  <1>8. IsIntent(raw)
    BY <1>2, <1>4, <1>6, <1>7, OneExtracted
  <1>9. PICK in : PlanOf(g, f, in)
    BY <1>5, <1>7, <1>8, PlanOfIs
  <1>10. Lower(stack, left, Len(stack) - 1) /\ Len(left) = Len(stack) - 1
    BY <1>2, <1>4, <1>6, LeftIs
  <1>11. PICK risk : risk = Risk(g.plan, g.ctx)
    OBVIOUS
  <1>12. PICK doc : doc = Doc(g.plan, IF risk = "denied" THEN g.ctx ELSE Unset, TRUE, FALSE)
    OBVIOUS
  <1>13. CASE risk = "denied" \/ FanRefused(g, g.plan, risk)
    <2>1. Return(Observed(left, doc), "ok", FALSE)
      BY <1>4, <1>6, <1>11, <1>12, <1>13 DEF BeginFan
    <2>2. QED
      BY <1>1, <1>2, <1>3, <1>10, <2>1, LeftObserved
  <1>14. CASE ~(risk = "denied" \/ FanRefused(g, g.plan, risk))
    <2>1. PICK h : h = [g EXCEPT !.type = "fan", !.at = "next", !.todo = g.contexts, !.applied = TRUE]
      OBVIOUS
    <2>2. stack' = Append(left, h) /\ outcome' = outcome /\ g.plan # NoPlan
      BY <1>4, <1>6, <1>11, <1>14, <2>1 DEF BeginFan
    <2>3. /\ IsRec(h) /\ \A x \in Fields \ {"type", "at", "todo", "applied"} : h[x] = g[x]
          /\ h.type = "fan" /\ h.at = "next" /\ h.todo = g.contexts /\ h.applied \in BOOLEAN
      BY <1>9, <2>1 DEF PlanOf, IsRec, Fields
    <2>4. Several(w.req) => IsReadOnly(g.plan)
      <3>1. Asked(f, w) /\ AtStart(f) /\ Len(f.contexts) \in Nat
        BY <1>2, StartIs
      <3>2. ~f.child
        BY <1>6, <3>1 DEF Asked, FansOut
      <3>3. g.approve = f.approve /\ g.each = f.each
        BY <1>9 DEF PlanOf, Fields
      <3>4. Several(w.req) => g.approve /\ ~g.each
        BY <3>1, <3>2, <3>3 DEF Asked
      <3>5. QED
        BY <1>14, <3>4 DEF FanRefused
    <2>5. Sane(h, w)
      BY <1>1, <1>2, <1>6, <1>9, <2>2, <2>3, <2>4, FanFrame
    <2>6. Sane(h, v)
      BY <1>3, <2>5, SaneOnward
    <2>7. QED
      BY <1>1, <1>2, <1>3, <1>10, <2>2, <2>6, LeftBecomes
  <1>15. QED
    BY <1>13, <1>14

LEMMA HighestIs ==
    ASSUME NEW R, R # {}, R \subseteq {"low", "medium", "high"},
           NEW h, h = Highest(R)
    PROVE  h \in Risks
  <1>1. RiskRank["low"] = 1 /\ RiskRank["medium"] = 2 /\ RiskRank["high"] = 3
    BY DEF RiskRank
  <1>2. \E r \in R : \A s \in R : RiskRank[s] <= RiskRank[r]
    <2>1. CASE "high" \in R
      <3>1. \A s \in R : RiskRank[s] <= RiskRank["high"]
        BY <1>1
      <3>2. QED
        BY <2>1, <3>1
    <2>2. CASE "high" \notin R /\ "medium" \in R
      <3>1. \A s \in R : RiskRank[s] <= RiskRank["medium"]
        BY <1>1, <2>2
      <3>2. QED
        BY <2>2, <3>1
    <2>3. CASE "high" \notin R /\ "medium" \notin R
      <3>1. R = {"low"}
        BY <2>3
      <3>2. QED
        BY <1>1, <3>1
    <2>4. QED
      BY <2>1, <2>2, <2>3
  <1>3. h \in R
    BY <1>2 DEF Highest
  <1>4. QED
    BY <1>3 DEF Risks, RiskRank

\* The steps of a route, as they were prepared for it.
Prepares(steps, plans, queue) ==
    /\ IsSeq(steps) /\ IsSeq(plans) /\ IsSeq(queue) /\ Len(plans) = Len(steps) /\ Len(queue) = Len(steps)
    /\ \A i \in 1..Len(steps) : plans[i] = steps[i].plan /\ queue[i] = steps[i].in
    /\ \A i \in 1..Len(steps) : plans[i] # NoPlan => IsPlanned(plans[i]) /\ Built(plans[i], queue[i])
    /\ AreIntents(queue)

LEMMA StepsPrepared ==
    ASSUME NEW f, IsPrefs(f), NEW raws, AreIntents(raws), NEW steps, steps = Preflight(f, raws),
           NEW plans, plans = [i \in DOMAIN steps |-> steps[i].plan],
           NEW queue, queue = [i \in DOMAIN steps |-> steps[i].in]
    PROVE  Prepares(steps, plans, queue) /\ Len(steps) = Len(raws) /\ DOMAIN plans = 1..Len(steps)
           /\ DOMAIN steps = 1..Len(steps)
  <1>1. IsSeq(steps) /\ Len(steps) = Len(raws) /\ IsSeq(raws) /\ \A i \in 1..Len(raws) : IsIntent(raws[i])
    BY PreflightIs DEF AreIntents
  <1>2. PICK n \in Nat : n = Len(steps) /\ DOMAIN steps = 1..n
    BY <1>1 DEF IsSeq
  <1>3. /\ plans = [i \in 1..n |-> plans[i]] /\ \A i \in 1..n : plans[i] = steps[i].plan
        /\ queue = [i \in 1..n |-> queue[i]] /\ \A i \in 1..n : queue[i] = steps[i].in
    BY <1>2
  <1>4. IsSeq(plans) /\ Len(plans) = n /\ IsSeq(queue) /\ Len(queue) = n
    BY <1>2, <1>3, FunctionIsSeq
  <1>5. ASSUME NEW i \in 1..n
        PROVE  /\ IsIntent(queue[i])
               /\ plans[i] # NoPlan => IsPlanned(plans[i]) /\ Built(plans[i], queue[i])
    <2>1. PICK p, s, in : p = ScopeOf(f, steps, i) /\ s = steps[i] /\ in = queue[i]
      OBVIOUS
    <2>2. i \in 1..Len(raws)
      BY <1>1, <1>2
    <2>3. IsIntent(s.in) /\ s.in.kind \in ExtractKinds /\ s.plan = Build(s.in)
      BY SMTT(60), <1>1, <2>1, <2>2, PreflightSound
    <2>4. in = s.in /\ plans[i] = Build(in)
      BY <1>3, <2>1, <2>3
    <2>5. plans[i] # NoPlan => Built(plans[i], in)
      BY <2>3, <2>4, BuildBuilt
    <2>6. plans[i] # NoPlan => IsPlanned(plans[i])
      BY <2>3, <2>4, <2>5 DEF Built, IsPlanned
    <2>7. QED
      BY <2>1, <2>3, <2>4, <2>5, <2>6
  <1>6. QED
    BY <1>1, <1>2, <1>3, <1>4, <1>5 DEF Prepares, AreIntents

LEMMA RouteFrame ==
    ASSUME NEW f, NEW w, Sane(f, w), f.type = "run", f.at = "start", IsRoute(f),
           NEW plans, ArePlanned(plans), NEW queue, AreIntents(queue), NEW risk, risk \in Risks,
           NEW at, at \in {"ask", "step"},
           NEW h, h = [f EXCEPT !.type = "route", !.plans = plans, !.queue = queue, !.risk = risk,
                                !.applied = TRUE, !.at = at]
    PROVE  Sane(h, w)
  <1>1. AsCalled(f, w) /\ Asked(f, w) /\ AtStart(f) /\ IsRec(f)
    BY StartIs
  <1>2. /\ IsRec(h) /\ h.type = "route" /\ h.plans = plans /\ h.queue = queue /\ h.risk = risk
        /\ h.applied \in BOOLEAN /\ h.at = at
        /\ \A x \in Fields \ {"type", "plans", "queue", "risk", "applied", "at"} : h[x] = f[x]
    BY ZenonT(60), <1>1 DEF IsRec, Fields
  <1>3. /\ h.prompt = f.prompt /\ h.ns = f.ns /\ h.ctx = f.ctx
        /\ h.forceNs = f.forceNs /\ h.forceCtx = f.forceCtx /\ h.contexts = f.contexts
        /\ h.approve = f.approve /\ h.each = f.each /\ h.child = f.child /\ h.auto = f.auto
        /\ h.steps = f.steps /\ h.json = f.json /\ h.fixes = f.fixes /\ h.next = f.next
        /\ h.plan = f.plan
        /\ h.decision = f.decision /\ h.verify = f.verify /\ h.todo = f.todo /\ h.back = f.back
    BY <1>2 DEF Fields
  <1>4. IsPrefs(h)
    BY <1>1, <1>3 DEF AsCalled, IsPrefs
  <1>5. AsCalled(h, w)
    BY <1>1, <1>2, <1>3, <1>4 DEF AsCalled
  <1>6. Asked(h, w)
    BY <1>1, <1>3 DEF Asked
  <1>7. Route(h)
    <2>1. ~OneClause(f.steps, f.prompt)
      BY DEF OneClause, IsRoute, RouteOf
    <2>2. ~f.child
      BY <1>1, <2>1 DEF Asked
    <2>3. QED
      BY <1>1, <1>2, <1>3, <2>2 DEF Route, AtStart
  <1>8. QED
    BY <1>2, <1>5, <1>6, <1>7 DEF Sane

LEMMA RouteBeginsSane ==
    ASSUME AllSane(stack, Actual), RouteBegins, req \in Requests
    PROVE  AllSane(stack', Actual') /\ Moves
  <1>1. PICK w, v, f : w = Actual /\ v = Actual' /\ f = Top
    OBVIOUS
  <1>2. /\ Sane(f, w) /\ f.type = "run" /\ f.at = "start" /\ AllSane(stack, w) /\ stack # <<>>
    BY <1>1, TopSane DEF RouteBegins, Planning
  <1>3. Onward(w, v) /\ w.req \in Requests
    BY <1>1, QuietOnward DEF RouteBegins, Actual
  <1>4. AsCalled(f, w) /\ IsRec(f) /\ IsPrefs(f)
    BY <1>2, StartIs
  <1>5. PICK ps : ps = RouteOf(f)
    OBVIOUS
  <1>6. ArePrompts(ps)
    BY <1>3, <1>4, <1>5, RouteOfIs
  <1>7. PICK raws : raws = Extracted(ps)
    OBVIOUS
  <1>8. PICK steps : steps = Preflight(f, raws)
    OBVIOUS
  <1>9. ~Exhausted(Len(ps)) /\ BeginRoute(steps) /\ Len(ps) > 1 /\ IsRoute(f)
    BY <1>1, <1>5, <1>7, <1>8 DEF RouteBegins, Planning, IsRoute
  <1>10. AreIntents(raws) /\ Len(raws) = Len(ps)
    BY <1>2, <1>6, <1>7, <1>9, ExtractedIs
  <1>11. PICK plans, queue : plans = [i \in DOMAIN steps |-> steps[i].plan]
                             /\ queue = [i \in DOMAIN steps |-> steps[i].in]
    OBVIOUS
  <1>12. /\ Prepares(steps, plans, queue) /\ Len(steps) = Len(raws) /\ DOMAIN plans = 1..Len(steps)
         /\ DOMAIN steps = 1..Len(steps)
    BY <1>4, <1>8, <1>10, <1>11, StepsPrepared
  <1>13. PICK k \in Nat : k = Len(plans) /\ k = Len(ps) /\ k > 1 /\ DOMAIN plans = 1..k
    BY <1>6, <1>9, <1>10, <1>12 DEF Prepares, ArePrompts, IsSeq
  <1>14. PICK left : left = Consumed(k)
    OBVIOUS
  <1>15. Lower(stack, left, Len(stack) - 1) /\ Len(left) = Len(stack) - 1
    BY <1>2, <1>9, <1>13, <1>14, LeftIs
  <1>16. PICK risks : risks = {Risk(plans[i], steps[i].ctx) : i \in DOMAIN plans}
    OBVIOUS
  <1>18. PICK highest : highest = Highest(risks)
    OBVIOUS
  <1>19. PICK at : at = IF \E i \in DOMAIN plans : plans[i].approval THEN "ask" ELSE "step"
    OBVIOUS
  <1>20. PICK h : h = [f EXCEPT !.type = "route", !.plans = plans, !.queue = queue, !.risk = highest,
                                !.applied = TRUE, !.at = at]
    OBVIOUS
  <1>21. /\ \A i \in DOMAIN plans : plans[i] # NoPlan
         /\ \/ Return(left, "error", FALSE)
            \/ Return(left, "ok", FALSE)
            \/ "denied" \notin risks /\ stack' = Append(left, h) /\ outcome' = outcome
    BY ZenonT(60), <1>1, <1>9, <1>11, <1>13, <1>14, <1>16, <1>18, <1>19, <1>20 DEF BeginRoute
  <1>22. CASE Return(left, "error", FALSE) \/ Return(left, "ok", FALSE)
    BY <1>1, <1>2, <1>3, <1>15, <1>22, LeftReturns
  <1>23. CASE "denied" \notin risks /\ stack' = Append(left, h) /\ outcome' = outcome
    <2>1. 1 \in DOMAIN plans
      BY <1>13
    <2>2. risks # {}
      BY <1>16, <2>1
    <2>3. risks \subseteq {"low", "medium", "high"}
      <3>1. \A r \in risks : r \in Risks /\ r # "denied"
        <4>1. SUFFICES ASSUME NEW i \in DOMAIN plans, Risk(plans[i], steps[i].ctx) # "denied"
                       PROVE  Risk(plans[i], steps[i].ctx) \in Risks
          BY <1>16, <1>23
        <4>2. PICK p, c : p = plans[i] /\ c = steps[i].ctx
          OBVIOUS
        <4>3. Risk(p, c) \in Risks
          BY <1>1, <4>1, <4>2, RiskVets
        <4>4. QED
          BY <4>2, <4>3
      <3>2. QED
        BY <3>1 DEF Risks, RiskRank
    <2>4. highest \in Risks
      BY <1>18, <2>2, <2>3, HighestIs
    <2>5. ArePlanned(plans) /\ AreIntents(queue)
      BY <1>12, <1>21 DEF Prepares, ArePlanned
    <2>6. Sane(h, w)
      BY <1>2, <1>9, <1>19, <1>20, <2>4, <2>5, RouteFrame
    <2>7. Sane(h, v)
      BY <1>3, <2>6, SaneOnward
    <2>8. QED
      BY <1>1, <1>2, <1>3, <1>15, <1>23, <2>7, LeftBecomes
  <1>24. QED
    BY <1>21, <1>22, <1>23

-------------------------------------------------------------------------------

(***************************************************************************)
(* Every action keeps AllSane: routes and fan-outs at work.                *)
(***************************************************************************)

LEMMA CallSane ==
    ASSUME NEW w, AllSane(stack, w), stack # <<>>, NEW v, Onward(w, v), NEW f, NEW g, Call(f, g),
           Sane(f, v), Sane(g, v)
    PROVE  AllSane(stack', v) /\ Moves
  <1>1. PICK n \in Nat : n = Len(stack)
    BY SaneStack DEF IsStack, IsSeq
  <1>2. Called(f, g, n) /\ IsStack(stack)
    BY <1>1, SaneStack, CallCalls
  <1>3. AllSane(stack', v)
    BY <1>2, CalledSane
  <1>4. QED
    BY <1>2, <1>3, CallMoves

LEMMA BecomesSane ==
    ASSUME NEW w, AllSane(stack, w), stack # <<>>, NEW v, Onward(w, v), NEW g, Become(g), Sane(g, v)
    PROVE  AllSane(stack', v) /\ Moves
  BY SaneStack, BecomeSane, BecomeMoves

LEMMA RouteIs ==
    ASSUME NEW f, NEW w, Sane(f, w), f.type = "route"
    PROVE  /\ AsCalled(f, w) /\ Asked(f, w) /\ Route(f) /\ IsRec(f) /\ IsPrefs(f)
           /\ f.next \in Nat /\ f.next > 0
  BY DEF Sane, AsCalled

\* A route goes on.
LEMMA RouteOn ==
    ASSUME NEW f, NEW w, Sane(f, w), f.type = "route", NEW h, IsRec(h),
           \A x \in Fields \ {"approve", "at", "next", "ns", "ctx", "seen", "back"} : h[x] = f[x],
           h.approve \in {TRUE, f.approve}, h.at \in {"ask", "step", "back"}, h.next \in Nat, h.next > 0,
           IsPrefs(h), h.back \in {"none", f.back}
    PROVE  Sane(h, w)
  <1>1. AsCalled(f, w) /\ Asked(f, w) /\ Route(f)
    BY RouteIs
  <1>2. /\ h.type = "route" /\ h.prompt = f.prompt /\ h.contexts = f.contexts
        /\ h.each = f.each /\ h.child = f.child /\ h.auto = f.auto
        /\ h.steps = f.steps /\ h.json = f.json /\ h.fixes = f.fixes
        /\ h.plan = f.plan /\ h.plans = f.plans /\ h.queue = f.queue /\ h.risk = f.risk /\ h.applied = f.applied
        /\ h.decision = f.decision /\ h.verify = f.verify /\ h.todo = f.todo
    BY DEF Fields
  <1>3. h.approve \in BOOLEAN /\ h.back \in {"none", "ok", "error"}
    BY <1>1 DEF AsCalled
  <1>4. AsCalled(h, w)
    BY <1>1, <1>2, <1>3 DEF AsCalled
  <1>5. f.child \in BOOLEAN /\ ~f.child
    BY <1>1 DEF AsCalled, Route
  <1>6. Several(w.req) => h.approve
    BY <1>1, <1>5 DEF Asked
  <1>7. Asked(h, w)
    BY <1>1, <1>2, <1>5, <1>6 DEF Asked
  <1>8. Route(h)
    BY <1>1, <1>2 DEF Route
  <1>9. QED
    BY <1>2, <1>4, <1>7, <1>8 DEF Sane

LEMMA ApproveRouteSane ==
    ASSUME AllSane(stack, Actual), ApproveRoute
    PROVE  AllSane(stack', Actual') /\ Moves
  <1>1. PICK w, v, f : w = Actual /\ v = Actual' /\ f = Top
    OBVIOUS
  <1>2. Sane(f, w) /\ f.type = "route" /\ AllSane(stack, w) /\ stack # <<>>
    BY <1>1, TopSane DEF ApproveRoute
  <1>3. PICK reply \in Replies(f.approve \/ f.auto) :
        /\ CASE Verdict(reply, f.risk) = "yes" -> Become([f EXCEPT !.approve = TRUE, !.at = "step"])
             [] Verdict(reply, f.risk) = "no" -> Return(Below, "ok", FALSE)
             [] OTHER -> Fail
        /\ Agree(f.approve \/ f.auto, reply, RouteMutations(f))
    BY <1>1 DEF ApproveRoute
  <1>4. Onward(w, v)
    BY <1>1, <1>3, OnwardQuiet, AgreeOnward DEF ApproveRoute
  <1>5. CASE Verdict(reply, f.risk) = "yes"
    <2>1. PICK h : h = [f EXCEPT !.approve = TRUE, !.at = "step"]
      OBVIOUS
    <2>2. Become(h)
      BY <1>3, <1>5, <2>1
    <2>3. IsRec(f) /\ IsPrefs(f) /\ f.next \in Nat /\ f.next > 0
      BY <1>2, RouteIs
    <2>4. /\ IsRec(h) /\ \A x \in Fields \ {"approve", "at", "next", "ns", "ctx", "seen", "back"} : h[x] = f[x]
          /\ h.approve \in {TRUE, f.approve} /\ h.at = "step" /\ h.next = f.next /\ h.back = f.back
          /\ h.ns = f.ns /\ h.ctx = f.ctx /\ h.forceNs = f.forceNs /\ h.forceCtx = f.forceCtx
      BY <2>1, <2>3 DEF IsRec, Fields
    <2>5. IsPrefs(h)
      BY <2>3, <2>4 DEF IsPrefs
    <2>6. Sane(h, w)
      BY <1>2, <2>3, <2>4, <2>5, RouteOn
    <2>7. Sane(h, v)
      BY <1>4, <2>6, SaneOnward
    <2>8. QED
      BY <1>1, <1>2, <1>4, <2>2, <2>7, BecomesSane
  <1>6. CASE Verdict(reply, f.risk) # "yes"
    <2>1. Return(Below, "ok", FALSE) \/ Return(Below, "error", FALSE)
      BY <1>3, <1>6 DEF Fail
    <2>2. PICK a, how : a = FALSE /\ how \in {"ok", "error"} /\ Return(Below, how, a)
      BY <2>1
    <2>3. a \in BOOLEAN
      BY <2>2
    <2>4. QED
      BY <1>1, <1>2, <1>4, <2>2, <2>3, ReturnSane
  <1>7. QED
    BY <1>5, <1>6

LEMMA RunStepSane ==
    ASSUME AllSane(stack, Actual), RunStep, req \in Requests
    PROVE  AllSane(stack', Actual') /\ Moves
  <1>1. PICK w, v, f, r : w = Actual /\ v = Actual' /\ f = Top /\ r = Frame
    OBVIOUS
  <1>2. Sane(f, w) /\ f.type = "route" /\ AllSane(stack, w) /\ stack # <<>>
    BY <1>1, TopSane DEF RunStep
  <1>3. Onward(w, v) /\ w.req \in Requests /\ w.req = req
    BY <1>1, QuietOnward DEF RunStep, Actual
  <1>4. /\ AsCalled(f, w) /\ Asked(f, w) /\ Route(f) /\ IsRec(f) /\ IsPrefs(f)
        /\ f.next \in Nat /\ f.next > 0
    BY <1>2, RouteIs
  <1>5. PICK ps : ps = RouteOf(f)
    OBVIOUS
  <1>6. ArePrompts(ps)
    BY <1>3, <1>4, <1>5, RouteOfIs
  <1>7. PICK p : p = ps[f.next]
    OBVIOUS
  <1>8. p \in Prompts
    <2>1. f.next <= Len(ps)
      BY <1>1, <1>5 DEF RunStep
    <2>2. f.next \in 1..Len(ps)
      BY <1>4, <1>6, <2>1 DEF ArePrompts, IsSeq
    <2>3. QED
      BY <1>6, <1>7, <2>2 DEF ArePrompts
  <1>9. PICK h : h = [f EXCEPT !.at = "back", !.seen = NoDoc, !.back = "none"]
    OBVIOUS
  <1>10. PICK c : c = [r EXCEPT !.prompt = p, !.ns = f.ns, !.ctx = f.ctx,
                          !.forceNs = f.forceNs, !.forceCtx = f.forceCtx, !.contexts = f.contexts, !.approve = f.approve,
                          !.each = f.each, !.child = f.child, !.auto = f.auto,
                          !.json = FALSE]
    OBVIOUS
  <1>11. Call(h, c)
    BY <1>1, <1>5, <1>7, <1>9, <1>10 DEF RunStep
  <1>12. Sane(h, v)
    <2>1. /\ IsRec(h) /\ \A x \in Fields \ {"approve", "at", "next", "ns", "ctx", "seen", "back"} : h[x] = f[x]
          /\ h.approve \in {TRUE, f.approve} /\ h.at = "back" /\ h.next = f.next /\ h.back = "none"
          /\ h.ns = f.ns /\ h.ctx = f.ctx /\ h.forceNs = f.forceNs /\ h.forceCtx = f.forceCtx
      BY <1>4, <1>9 DEF IsRec, Fields
    <2>2. IsPrefs(h)
      BY <1>4, <2>1 DEF IsPrefs
    <2>3. Sane(h, w)
      BY <1>2, <1>4, <2>1, <2>2, RouteOn
    <2>4. QED
      BY <1>3, <2>3, SaneOnward
  <1>13. Begins(c, w)
    <2>1. /\ IsRec(r) /\ r.type = "run" /\ r.at = "start" /\ r.steps = req.steps
          /\ AtStart(r) /\ r.risk = "low" /\ r.verify = "none" /\ r.applied \in BOOLEAN /\ ~r.applied
          /\ r.queue = <<>> /\ r.todo = <<>> /\ r.back = "none"
      BY <1>1, FrameIs DEF Frame
    <2>2. /\ IsRec(c) /\ c.prompt = p /\ c.ns = f.ns /\ c.ctx = f.ctx
          /\ c.forceNs = f.forceNs /\ c.forceCtx = f.forceCtx /\ c.contexts = f.contexts
          /\ c.approve = f.approve /\ c.each = f.each /\ c.child = f.child /\ c.auto = f.auto
          /\ c.json \in BOOLEAN
      BY ZenonT(60), <1>10, <2>1 DEF IsRec, Fields
    <2>3. /\ c.type = "run" /\ c.at = "start" /\ c.steps = req.steps /\ c.risk = "low" /\ c.verify = "none"
          /\ c.queue = <<>> /\ c.todo = <<>> /\ c.back = "none" /\ c.applied = r.applied
          /\ c.plan = r.plan /\ c.decision = r.decision /\ c.next = r.next /\ c.fixes = r.fixes /\ c.plans = r.plans
      BY <1>10, <2>1 DEF IsRec, Fields
    <2>4. AtStart(c)
      BY <2>1, <2>3 DEF AtStart
    <2>5. IsPrefs(c)
      BY <1>4, <2>2 DEF IsPrefs
    <2>6. f.child \in BOOLEAN /\ ~f.child
      BY <1>4 DEF Route, AsCalled
    <2>7. Asked(c, w)
      BY <1>4, <2>2, <2>6 DEF Asked
    <2>8. QED
      BY <1>3, <1>4, <1>8, <2>1, <2>2, <2>3, <2>4, <2>5, <2>7 DEF Begins, AsCalled
  <1>14. Sane(c, v)
    BY <1>3, <1>13, BeginsSane, SaneOnward
  <1>15. QED
    BY <1>1, <1>2, <1>3, <1>11, <1>12, <1>14, CallSane

LEMMA StepReturnsSane ==
    ASSUME AllSane(stack, Actual), StepReturns
    PROVE  AllSane(stack', Actual') /\ Moves
  <1>1. PICK w, v, f : w = Actual /\ v = Actual' /\ f = Top
    OBVIOUS
  <1>2. Sane(f, w) /\ f.type = "route" /\ AllSane(stack, w) /\ stack # <<>>
    BY <1>1, TopSane DEF StepReturns
  <1>3. Onward(w, v)
    BY <1>1, QuietOnward DEF StepReturns
  <1>4. PICK h : h = [Carried(f, f.seen.ns, f.seen.ctx) EXCEPT !.next = @ + 1, !.at = "step"]
    OBVIOUS
  <1>5. Return(Below, "error", FALSE) \/ Return(Below, "ok", FALSE) \/ Become(h)
    BY <1>1, <1>4 DEF StepReturns, Fail
  <1>6. CASE Become(h)
    <2>1. IsRec(f) /\ IsPrefs(f) /\ f.next \in Nat /\ f.next > 0
      BY <1>2, RouteIs
    <2>2. PICK ns, ctx : ns = f.seen.ns /\ ctx = f.seen.ctx
      OBVIOUS
    <2>3. /\ IsRec(h) /\ \A x \in Fields \ {"approve", "at", "next", "ns", "ctx", "seen", "back"} : h[x] = f[x]
          /\ h.approve = f.approve /\ h.at = "step" /\ h.next = f.next + 1 /\ h.back = f.back
          /\ h.ns = Or(ns, f.ns) /\ h.ctx = Or(ctx, f.ctx) /\ h.forceNs = f.forceNs /\ h.forceCtx = f.forceCtx
      BY ZenonT(60), <1>4, <2>1, <2>2 DEF IsRec, Fields, Carried
    <2>4. IsPrefs(h)
      BY <2>1, <2>3 DEF IsPrefs, Or
    <2>5. h.next \in Nat /\ h.next > 0
      BY <2>1, <2>3
    <2>6. Sane(h, w)
      BY <1>2, <2>3, <2>4, <2>5, RouteOn
    <2>7. Sane(h, v)
      BY <1>3, <2>6, SaneOnward
    <2>8. QED
      BY <1>1, <1>2, <1>3, <1>6, <2>7, BecomesSane
  <1>7. CASE Return(Below, "error", FALSE) \/ Return(Below, "ok", FALSE)
    <2>1. PICK a, how : a = FALSE /\ how \in {"ok", "error"} /\ Return(Below, how, a)
      BY <1>7
    <2>2. a \in BOOLEAN
      BY <2>1
    <2>3. QED
      BY <1>1, <1>2, <1>3, <2>1, <2>2, ReturnSane
  <1>8. QED
    BY <1>5, <1>6, <1>7

LEMMA RouteEndsSane ==
    ASSUME AllSane(stack, Actual), RouteEnds
    PROVE  AllSane(stack', Actual') /\ Moves
  <1>1. PICK w, v, a : w = Actual /\ v = Actual' /\ a = TRUE
    OBVIOUS
  <1>2. AllSane(stack, w) /\ stack # <<>> /\ a \in BOOLEAN /\ Onward(w, v)
    BY <1>1, QuietOnward DEF RouteEnds, Running
  <1>3. Return(Below, "ok", a)
    BY <1>1 DEF RouteEnds
  <1>4. QED
    BY <1>1, <1>2, <1>3, ReturnSane

LEMMA FanIs ==
    ASSUME NEW f, NEW w, Sane(f, w), f.type = "fan"
    PROVE  /\ AsCalled(f, w) /\ Asked(f, w) /\ Fan(f, w) /\ IsRec(f) /\ IsPrefs(f) /\ AreSet(f.todo)
           /\ f.child \in BOOLEAN /\ ~f.child /\ f.auto \in BOOLEAN /\ ~f.auto
  BY DEF Sane, AsCalled, Fan, Asked

\* A fan-out goes on.
LEMMA FanGoesOn ==
    ASSUME NEW f, NEW w, Sane(f, w), f.type = "fan", NEW h, IsRec(h),
           \A x \in Fields \ {"todo", "at", "queue", "seen", "back", "applied"} : h[x] = f[x],
           AreSet(h.todo), h.at \in {"next", "back"}, AreIntents(h.queue),
           h.back \in {"none", f.back}, h.applied \in BOOLEAN
    PROVE  Sane(h, w)
  <1>1. AsCalled(f, w) /\ Asked(f, w) /\ Fan(f, w)
    BY FanIs
  <1>2. /\ h.type = "fan" /\ h.prompt = f.prompt /\ h.contexts = f.contexts /\ h.approve = f.approve
        /\ h.each = f.each /\ h.child = f.child /\ h.auto = f.auto
        /\ h.steps = f.steps /\ h.json = f.json /\ h.fixes = f.fixes /\ h.next = f.next
        /\ h.plan = f.plan /\ h.plans = f.plans /\ h.risk = f.risk
        /\ h.decision = f.decision /\ h.verify = f.verify
        /\ h.ns = f.ns /\ h.ctx = f.ctx /\ h.forceNs = f.forceNs /\ h.forceCtx = f.forceCtx
    BY DEF Fields
  <1>3. h.back \in {"none", "ok", "error"}
    BY <1>1 DEF AsCalled
  <1>4. IsPrefs(h)
    BY <1>1, <1>2 DEF AsCalled, IsPrefs
  <1>5. AsCalled(h, w)
    BY <1>1, <1>2, <1>3, <1>4 DEF AsCalled
  <1>6. Asked(h, w)
    BY <1>1, <1>2 DEF Asked
  <1>7. Fan(h, w)
    BY <1>1, <1>2 DEF Fan
  <1>8. QED
    BY <1>2, <1>5, <1>6, <1>7 DEF Sane

LEMMA RestSet ==
    ASSUME NEW s, AreSet(s), s # <<>>
    PROVE  AreSet(Tail(s)) /\ Head(s) # Unset
  <1>1. PICK n \in Nat : n = Len(s) /\ n > 0
    BY EmptyIs DEF AreSet, IsSeq
  <1>2. PICK b : b = Tail(s)
    OBVIOUS
  <1>3. Len(b) = n - 1 /\ IsSeq(b) /\ \A i \in 1..(n-1) : b[i] = s[i+1]
    BY <1>1, <1>2, TailIs DEF AreSet
  <1>4. \A i \in 1..(n-1) : i + 1 \in 1..n
    BY <1>1
  <1>5. AreSet(b)
    BY <1>1, <1>3, <1>4 DEF AreSet
  <1>6. Head(s) = s[1] /\ 1 \in 1..n
    BY <1>1 DEF AreSet, IsSeq
  <1>7. QED
    BY <1>1, <1>2, <1>5, <1>6 DEF AreSet

LEMMA RunContextSane ==
    ASSUME AllSane(stack, Actual), stack # <<>>, req \in Requests, NEW f, f = Top, f.type = "fan",
           f.todo # <<>>, NEW approved, approved \in BOOLEAN, RunContext(f, approved),
           Several(req) => ~approved, NEW w, w = Actual, NEW v, Onward(w, v), Sane(f, w)
    PROVE  AllSane(stack', v) /\ Moves
  <1>1. PICK r, t, c, q, auto : r = Frame /\ t = Tail(f.todo) /\ c = Head(f.todo) /\ q = <<f.plan.intent>>
                             /\ auto = (approved \/ f.auto)
    OBVIOUS
  <1>2. /\ AsCalled(f, w) /\ Asked(f, w) /\ Fan(f, w) /\ IsRec(f) /\ IsPrefs(f) /\ AreSet(f.todo)
        /\ f.child \in BOOLEAN /\ ~f.child /\ f.auto \in BOOLEAN /\ ~f.auto
    BY FanIs
  <1>3. AreSet(t) /\ c # Unset
    BY <1>1, <1>2, RestSet
  <1>4. AreIntents(q)
    <2>1. IsIntent(f.plan.intent)
      BY <1>2 DEF Fan, IsPlanned, IsExecutionPlan
    <2>2. QED
      BY <1>1, <2>1 DEF AreIntents, IsSeq
  <1>5. PICK h : h = [f EXCEPT !.todo = t, !.at = "back", !.queue = q, !.seen = NoDoc, !.back = "none"]
    OBVIOUS
  <1>6. PICK g : g = [r EXCEPT !.prompt = f.prompt, !.ns = f.ns, !.forceNs = f.forceNs,
                       !.contexts = <<>>, !.approve = approved, !.each = FALSE,
                       !.child = TRUE, !.auto = auto, !.json = FALSE]
    OBVIOUS
  <1>7. PICK d : d = [g EXCEPT !.ctx = c, !.forceCtx = TRUE]
    OBVIOUS
  <1>8. Call(h, d)
    BY <1>1, <1>5, <1>6, <1>7 DEF RunContext, InContext
  <1>9. Sane(h, v)
    <2>1. /\ IsRec(h) /\ \A x \in Fields \ {"todo", "at", "queue", "seen", "back", "applied"} : h[x] = f[x]
          /\ h.todo = t /\ h.at = "back" /\ h.queue = q /\ h.back = "none" /\ h.applied = f.applied
      BY ZenonT(60), <1>2, <1>5 DEF IsRec, Fields
    <2>2. h.applied \in BOOLEAN
      BY <1>2, <2>1 DEF AsCalled
    <2>3. Sane(h, w)
      BY <1>2, <1>3, <1>4, <2>1, <2>2, FanGoesOn
    <2>4. QED
      BY <2>3, SaneOnward
  <1>10. Begins(d, w)
    <2>1. /\ IsRec(r) /\ r.type = "run" /\ r.at = "start" /\ r.steps = req.steps
          /\ AtStart(r) /\ r.risk = "low" /\ r.verify = "none" /\ r.applied \in BOOLEAN /\ ~r.applied
          /\ r.queue = <<>> /\ r.todo = <<>> /\ r.back = "none"
      BY <1>1, FrameIs DEF Frame
    <2>2. /\ IsRec(g) /\ g.prompt = f.prompt /\ g.ns = f.ns /\ g.forceNs = f.forceNs
          /\ g.contexts = <<>> /\ g.approve = approved /\ g.each \in BOOLEAN /\ ~g.each
          /\ g.child \in BOOLEAN /\ g.child /\ g.auto = auto /\ g.json \in BOOLEAN
      BY ZenonT(60), <1>6, <2>1 DEF IsRec, Fields
    <2>3. /\ g.type = "run" /\ g.at = "start" /\ g.steps = req.steps /\ g.risk = "low" /\ g.verify = "none"
          /\ g.queue = <<>> /\ g.todo = <<>> /\ g.back = "none" /\ g.applied = r.applied
          /\ g.plan = r.plan /\ g.decision = r.decision /\ g.next = r.next /\ g.fixes = r.fixes /\ g.plans = r.plans
      BY <1>6, <2>1 DEF IsRec, Fields
    <2>4. /\ IsRec(d) /\ d.ctx = c /\ d.forceCtx \in BOOLEAN
          /\ d.prompt = g.prompt /\ d.ns = g.ns /\ d.forceNs = g.forceNs /\ d.contexts = g.contexts
          /\ d.approve = g.approve /\ d.each = g.each /\ d.child = g.child /\ d.auto = g.auto /\ d.json = g.json
      BY <1>7, <2>2 DEF IsRec, Fields
    <2>5. /\ d.type = g.type /\ d.at = g.at /\ d.steps = g.steps /\ d.risk = g.risk /\ d.verify = g.verify
          /\ d.queue = g.queue /\ d.todo = g.todo /\ d.back = g.back /\ d.applied = g.applied
          /\ d.plan = g.plan /\ d.decision = g.decision /\ d.next = g.next /\ d.fixes = g.fixes /\ d.plans = g.plans
      BY <1>7, <2>2 DEF IsRec, Fields
    <2>6. AtStart(d)
      BY <2>1, <2>3, <2>5 DEF AtStart
    <2>7. IsPrefs(d)
      BY <1>2, <1>3, <2>2, <2>4 DEF IsPrefs
    <2>8. AreSet(d.contexts) /\ Len(d.contexts) = 0
      BY <2>2, <2>4, EmptySets
    <2>9. w.req = req
      BY DEF Actual
    <2>10. auto \in BOOLEAN /\ (Several(req) => ~auto)
      BY <1>1, <1>2
    <2>11. OneClause(d.steps, d.prompt)
      BY <1>2, <2>2, <2>3, <2>4, <2>5, <2>9 DEF Fan, AsCalled
    <2>12. Asked(d, w)
      BY <2>2, <2>4, <2>8, <2>9, <2>10, <2>11 DEF Asked
    <2>13. d.prompt \in Prompts /\ d.steps = w.req.steps
      BY <1>2, <2>2, <2>3, <2>4, <2>5, <2>9 DEF AsCalled
    <2>14. /\ d.type = "run" /\ d.at = "start" /\ d.risk = "low" /\ d.verify = "none" /\ d.back = "none"
           /\ d.queue = <<>> /\ d.todo = <<>> /\ d.applied \in BOOLEAN /\ ~d.applied
      BY <2>1, <2>3, <2>5
    <2>15. /\ d.approve \in BOOLEAN /\ d.each \in BOOLEAN /\ d.child \in BOOLEAN /\ d.auto \in BOOLEAN
           /\ d.json \in BOOLEAN
      BY <2>2, <2>4, <2>10
    <2>16. QED
      BY <2>4, <2>6, <2>7, <2>8, <2>12, <2>13, <2>14, <2>15 DEF Begins
  <1>11. Sane(d, v)
    BY <1>10, BeginsSane, SaneOnward
  <1>12. QED
    BY <1>8, <1>9, <1>11, CallSane

LEMMA ReadContextSane ==
    ASSUME AllSane(stack, Actual), ReadContext, req \in Requests
    PROVE  AllSane(stack', Actual') /\ Moves
  <1>1. PICK w, v, f, a : w = Actual /\ v = Actual' /\ f = Top /\ a = FALSE
    OBVIOUS
  <1>2. Sane(f, w) /\ f.type = "fan" /\ AllSane(stack, w) /\ stack # <<>>
    BY <1>1, TopSane DEF ReadContext
  <1>3. Onward(w, v)
    BY <1>1, QuietOnward DEF ReadContext
  <1>4. RunContext(f, a) /\ f.todo # <<>> /\ a \in BOOLEAN /\ ~a
    BY <1>1 DEF ReadContext
  <1>5. QED
    BY <1>1, <1>2, <1>3, <1>4, RunContextSane

LEMMA ApproveContextSane ==
    ASSUME AllSane(stack, Actual), ApproveContext, req \in Requests
    PROVE  AllSane(stack', Actual') /\ Moves
  <1>1. PICK w, v, f : w = Actual /\ v = Actual' /\ f = Top
    OBVIOUS
  <1>2. Sane(f, w) /\ f.type = "fan" /\ AllSane(stack, w) /\ stack # <<>>
    BY <1>1, TopSane DEF ApproveContext
  <1>3. PICK reply :
        /\ CASE reply = "yes" -> RunContext(f, TRUE)
             [] reply = "no" -> Become([f EXCEPT !.todo = Tail(@), !.applied = FALSE])
             [] OTHER -> Fail
        /\ Agree(f.each \/ f.auto, reply, {Consent(f.plan, Head(f.todo))})
    BY <1>1 DEF ApproveContext
  <1>4. Onward(w, v)
    BY <1>1, <1>3, OnwardQuiet, AgreeOnward DEF ApproveContext
  <1>5. f.todo # <<>> /\ ~IsReadOnly(f.plan)
    BY <1>1 DEF ApproveContext
  <1>6. /\ AsCalled(f, w) /\ Asked(f, w) /\ Fan(f, w) /\ IsRec(f) /\ IsPrefs(f) /\ AreSet(f.todo)
    BY <1>2, FanIs
  <1>7. CASE reply = "yes"
    <2>1. PICK a : a = TRUE
      OBVIOUS
    <2>2. RunContext(f, a) /\ a \in BOOLEAN
      BY <1>3, <1>7, <2>1
    <2>3. ~Several(req)
      BY <1>1, <1>5, <1>6 DEF Fan, Actual
    <2>4. QED
      BY <1>1, <1>2, <1>4, <1>5, <2>2, <2>3, RunContextSane
  <1>8. CASE reply = "no"
    <2>1. PICK t : t = Tail(f.todo)
      OBVIOUS
    <2>2. PICK h : h = [f EXCEPT !.todo = t, !.applied = FALSE]
      OBVIOUS
    <2>3. Become(h)
      BY <1>3, <1>8, <2>1, <2>2
    <2>4. /\ IsRec(h) /\ \A x \in Fields \ {"todo", "at", "queue", "seen", "back", "applied"} : h[x] = f[x]
          /\ h.todo = t /\ h.at = f.at /\ h.queue = f.queue /\ h.back = f.back /\ h.applied \in BOOLEAN
      BY <1>6, <2>2 DEF IsRec, Fields
    <2>5. AreSet(t)
      BY <1>5, <1>6, <2>1, RestSet
    <2>6. h.at \in {"next", "back"} /\ AreIntents(h.queue)
      BY <1>6, <2>4 DEF Fan, AsCalled
    <2>7. Sane(h, w)
      BY <1>2, <2>4, <2>5, <2>6, FanGoesOn
    <2>8. Sane(h, v)
      BY <1>4, <2>7, SaneOnward
    <2>9. QED
      BY <1>1, <1>2, <1>4, <2>3, <2>8, BecomesSane
  <1>9. CASE reply # "yes" /\ reply # "no"
    <2>1. PICK a : a = FALSE
      OBVIOUS
    <2>2. a \in BOOLEAN /\ Return(Below, "error", a)
      BY <1>3, <1>9, <2>1 DEF Fail
    <2>3. QED
      BY <1>1, <1>2, <1>4, <2>2, ReturnSane
  <1>10. QED
    BY <1>7, <1>8, <1>9

LEMMA ContextReturnsSane ==
    ASSUME AllSane(stack, Actual), ContextReturns
    PROVE  AllSane(stack', Actual') /\ Moves
  <1>1. PICK w, v, f : w = Actual /\ v = Actual' /\ f = Top
    OBVIOUS
  <1>2. Sane(f, w) /\ f.type = "fan" /\ AllSane(stack, w) /\ stack # <<>>
    BY <1>1, TopSane DEF ContextReturns
  <1>3. Onward(w, v)
    BY <1>1, QuietOnward DEF ContextReturns
  <1>4. PICK h : /\ \E a \in BOOLEAN : h = [f EXCEPT !.applied = a, !.at = "next"]
                 /\ Become(h)
    <2>1. PICK a : a = (f.applied /\ ~(\/ f.back = "error"
                                       \/ f.seen = NoDoc
                                       \/ f.seen.denied
                                       \/ ~IsReadOnly(f.plan) /\ ~f.seen.applied))
      OBVIOUS
    <2>2. a \in BOOLEAN
      BY <2>1
    <2>3. Become([f EXCEPT !.applied = a, !.at = "next"])
      BY <1>1, <2>1 DEF ContextReturns
    <2>4. QED
      BY <2>2, <2>3
  <1>5. /\ AsCalled(f, w) /\ IsRec(f) /\ IsPrefs(f) /\ AreSet(f.todo)
    BY <1>2, FanIs
  <1>6. /\ IsRec(h) /\ \A x \in Fields \ {"todo", "at", "queue", "seen", "back", "applied"} : h[x] = f[x]
        /\ h.todo = f.todo /\ h.at = "next" /\ h.queue = f.queue /\ h.back = f.back /\ h.applied \in BOOLEAN
    BY <1>4, <1>5 DEF IsRec, Fields
  <1>7. AreIntents(h.queue)
    BY <1>5, <1>6 DEF AsCalled
  <1>8. Sane(h, w)
    BY <1>2, <1>5, <1>6, <1>7, FanGoesOn
  <1>9. Sane(h, v)
    BY <1>3, <1>8, SaneOnward
  <1>10. QED
    BY <1>1, <1>2, <1>3, <1>4, <1>9, BecomesSane

LEMMA FanEndsSane ==
    ASSUME AllSane(stack, Actual), FanEnds
    PROVE  AllSane(stack', Actual') /\ Moves
  <1>1. PICK w, v, f, a : w = Actual /\ v = Actual' /\ f = Top /\ a = f.applied
    OBVIOUS
  <1>2. Sane(f, w) /\ f.type = "fan" /\ AllSane(stack, w) /\ stack # <<>>
    BY <1>1, TopSane DEF FanEnds
  <1>3. Onward(w, v)
    BY <1>1, QuietOnward DEF FanEnds
  <1>4. a \in BOOLEAN /\ Return(Below, "ok", a)
    BY <1>1, <1>2, FanIs DEF FanEnds, AsCalled
  <1>5. QED
    BY <1>1, <1>2, <1>3, <1>4, ReturnSane

LEMMA ChangeSane ==
    ASSUME AllSane(stack, Actual), Change, changes \in Nat
    PROVE  AllSane(stack', Actual') /\ Moves
  <1>1. PICK w, v : w = Actual /\ v = Actual'
    OBVIOUS
  <1>2. Onward(w, v)
    BY <1>1 DEF Change, Onward, Actual, Actions
  <1>3. AllSane(stack', v)
    BY <1>1, <1>2, SaneOnward DEF Change, AllSane
  <1>4. Moves
    <2>1. Len(stack) \in Nat
      BY DEF AllSane, IsSeq
    <2>2. stack' = stack /\ outcome' = outcome
      BY DEF Change
    <2>3. QED
      BY <2>1, <2>2 DEF Moves
  <1>5. QED
    BY <1>1, <1>3, <1>4

LEMMA KillSane ==
    ASSUME Kill
    PROVE  AllSane(stack', Actual') /\ Moves
  <1>1. stack' = <<>> /\ outcome' \in Outcomes
    BY DEF Kill, Outcomes
  <1>2. AllSane(stack', Actual')
    BY <1>1 DEF AllSane, IsSeq
  <1>3. QED
    BY <1>1, <1>2 DEF Moves

-------------------------------------------------------------------------------

(***************************************************************************)
(* How each action moves the stack.                                        *)
(***************************************************************************)

\* What is known of the innermost call, a run that was judged.
LEMMA TopIs ==
    ASSUME AllSane(stack, Actual), NEW at, Running("run", at), NEW f, f = Top
    PROVE  IsStack(stack) /\ stack # <<>> /\ IsRec(f) /\ f.applied \in BOOLEAN
  <1>1. PICK w : w = Actual
    OBVIOUS
  <1>2. Sane(f, w) /\ IsStack(stack) /\ stack # <<>> /\ IsRec(f)
    BY <1>1, TopSane
  <1>3. QED
    BY <1>2 DEF Sane, AsCalled

LEMMA FinishedMoves ==
    ASSUME IsStack(stack), stack # <<>>, NEW f, IsRec(f), Finished(f)
    PROVE  Moves
  <1>1. PICK g : g = [f EXCEPT !.applied = TRUE]
    OBVIOUS
  <1>2. g.applied \in BOOLEAN /\ Finish(g, "ok")
    BY <1>1 DEF Finished, IsRec, Fields
  <1>3. QED
    BY <1>2, FinishMoves

LEMMA AfterFixMoves ==
    ASSUME IsStack(stack), stack # <<>>, NEW f, IsRec(f), AfterFix(f)
    PROVE  Moves
  <1>1. CASE Len(f.fixes) > 1
    <2>1. PICK g : g = [f EXCEPT !.fixes = Tail(f.fixes), !.next = 1, !.at = "offer"]
      OBVIOUS
    <2>2. Become(g)
      BY <1>1, <2>1 DEF AfterFix
    <2>3. QED
      BY <2>2, BecomeMoves
  <1>2. CASE ~(Len(f.fixes) > 1)
    BY <1>2, FinishedMoves DEF AfterFix
  <1>3. QED
    BY <1>1, <1>2

LEMMA ReadMoves ==
    ASSUME AllSane(stack, Actual), Read
    PROVE  Moves
  <1>1. PICK f : f = Top
    OBVIOUS
  <1>2. IsStack(stack) /\ stack # <<>> /\ IsRec(f) /\ f.applied \in BOOLEAN
    BY <1>1, TopIs DEF Read
  <1>3. Finish(f, "error") \/ Finished(f) \/ \E g : Become(g)
    BY <1>1 DEF Read
  <1>4. QED
    BY <1>2, <1>3, FinishMoves, FinishedMoves, BecomeMoves

LEMMA OfferFixMoves ==
    ASSUME AllSane(stack, Actual), OfferFix
    PROVE  Moves
  <1>1. PICK f : f = Top
    OBVIOUS
  <1>2. IsStack(stack) /\ stack # <<>> /\ IsRec(f) /\ f.applied \in BOOLEAN
    BY <1>1, TopIs DEF OfferFix
  <1>3. AfterFix(f) \/ \E g : Become(g)
    BY <1>1 DEF OfferFix
  <1>4. QED
    BY <1>2, <1>3, AfterFixMoves, BecomeMoves

LEMMA AskFixMoves ==
    ASSUME AllSane(stack, Actual), AskFix
    PROVE  Moves
  <1>1. PICK f : f = Top
    OBVIOUS
  <1>2. IsStack(stack) /\ stack # <<>> /\ IsRec(f) /\ f.applied \in BOOLEAN
    BY <1>1, TopIs DEF AskFix
  <1>3. AfterFix(f) \/ Finish(f, "error") \/ \E g : Become(g)
    BY <1>1 DEF AskFix
  <1>4. QED
    BY <1>2, <1>3, AfterFixMoves, FinishMoves, BecomeMoves

LEMMA ApplyNextMoves ==
    ASSUME IsStack(stack), stack # <<>>, Top.applied \in BOOLEAN, NEW p, NEW by, ApplyNext(p, by)
    PROVE  Moves
  <1>1. PICK f : f = Top
    OBVIOUS
  <1>2. Finish(f, "error") \/ \E g : Become(g)
    BY <1>1 DEF ApplyNext
  <1>3. QED
    BY <1>1, <1>2, FinishMoves, BecomeMoves

LEMMA ApplyFixMoves ==
    ASSUME AllSane(stack, Actual), ApplyFix
    PROVE  Moves
  BY TopIs, ApplyNextMoves DEF ApplyFix

LEMMA ApplyMoves ==
    ASSUME AllSane(stack, Actual), Apply
    PROVE  Moves
  BY TopIs, ApplyNextMoves DEF Apply

LEMMA FixAppliedMoves ==
    ASSUME AllSane(stack, Actual), FixApplied
    PROVE  Moves
  <1>1. PICK f : f = Top
    OBVIOUS
  <1>2. IsStack(stack) /\ stack # <<>> /\ IsRec(f) /\ f.applied \in BOOLEAN
    BY <1>1, TopIs DEF FixApplied
  <1>3. AfterFix(f) \/ Finish(f, "error")
    BY <1>1 DEF FixApplied
  <1>4. QED
    BY <1>2, <1>3, AfterFixMoves, FinishMoves

LEMMA ApproveMoves ==
    ASSUME AllSane(stack, Actual), Approve
    PROVE  Moves
  <1>1. PICK f : f = Top
    OBVIOUS
  <1>2. IsStack(stack) /\ stack # <<>> /\ IsRec(f) /\ f.applied \in BOOLEAN
    BY <1>1, TopIs DEF Approve
  <1>3. PICK g : g = [f EXCEPT !.decision = "denied"]
    OBVIOUS
  <1>4. g.applied \in BOOLEAN
    BY <1>2, <1>3 DEF IsRec, Fields
  <1>5. Finish(g, "ok") \/ Finish(f, "error") \/ \E h : Become(h)
    BY <1>1, <1>3 DEF Approve
  <1>6. QED
    BY <1>2, <1>4, <1>5, FinishMoves, BecomeMoves

LEMMA OpenPRMoves ==
    ASSUME AllSane(stack, Actual), OpenPR
    PROVE  Moves
  <1>1. PICK f : f = Top
    OBVIOUS
  <1>2. IsStack(stack) /\ stack # <<>> /\ IsRec(f) /\ f.applied \in BOOLEAN
    BY <1>1, TopIs DEF OpenPR
  <1>3. PICK g : g = [f EXCEPT !.decision = "pr_opened"]
    OBVIOUS
  <1>4. IsRec(g)
    BY <1>2, <1>3 DEF IsRec, Fields
  <1>5. Finished(g) \/ Finish(f, "error")
    BY <1>1, <1>3 DEF OpenPR
  <1>6. QED
    BY <1>2, <1>4, <1>5, FinishMoves, FinishedMoves

LEMMA AppliedMoves ==
    ASSUME AllSane(stack, Actual), Applied
    PROVE  Moves
  <1>1. PICK f : f = Top
    OBVIOUS
  <1>2. IsStack(stack) /\ stack # <<>> /\ IsRec(f) /\ f.applied \in BOOLEAN
    BY <1>1, TopIs DEF Applied
  <1>3. PICK g : g = [f EXCEPT !.applied = TRUE]
    OBVIOUS
  <1>4. g.applied \in BOOLEAN
    BY <1>2, <1>3 DEF IsRec, Fields
  <1>5. Finish(g, "ok") \/ Finish(g, "error") \/ \E h : Become(h)
    BY <1>1, <1>3 DEF Applied
  <1>6. QED
    BY <1>2, <1>4, <1>5, FinishMoves, BecomeMoves

LEMMA VerifyMoves ==
    ASSUME AllSane(stack, Actual), Verify
    PROVE  Moves
  <1>1. PICK f : f = Top
    OBVIOUS
  <1>2. IsStack(stack) /\ stack # <<>> /\ IsRec(f) /\ f.applied \in BOOLEAN
    BY <1>1, TopIs DEF Verify
  <1>3. PICK x, how : how \in {"ok", "error"} /\ Finish([f EXCEPT !.verify = x], how)
    BY <1>1 DEF Verify
  <1>4. PICK g : g = [f EXCEPT !.verify = x]
    OBVIOUS
  <1>5. g.applied \in BOOLEAN /\ Finish(g, how)
    BY <1>2, <1>3, <1>4 DEF IsRec, Fields
  <1>6. QED
    BY <1>2, <1>3, <1>5, FinishMoves

-------------------------------------------------------------------------------

(***************************************************************************)
(* The inductive invariant.                                                *)
(***************************************************************************)

InHistory(a) == \E i \in DOMAIN ledger : ledger[i].plan = a.plan /\ ledger[i].ctx = a.ctx
AtWork(a) ==
    /\ stack # <<>> /\ Top.type = "run" /\ Top.at \in {"apply", "verify"}
    /\ a.plan = Shown(Top.plan) /\ a.ctx = Top.ctx
\* What a prompt did to the cluster is in the history, or on its way there.
Written ==
    \A a \in Actions : OfPrompt(a) =>
        InHistory(a) \/ AtWork(a) \/ outcome.how \in {"killed", "overflow"}
\* Nothing happens in the name of a prompt that plans a refused action.
Barred == Refused(Planned) => done = <<>> /\ stack \in {<<>>, <<Frame>>}

IInv ==
    /\ req \in Requests /\ policy \in Policies /\ hour \in Hours /\ changes \in 0..MaxChanges
    /\ AllSane(stack, Actual) /\ Len(stack) <= MaxDepth
    /\ outcome \in Outcomes /\ (stack # <<>> => outcome.how = "running")
    /\ IsSeq(done) /\ \A i \in 1..Len(done) : ActionSane(done[i], Actual)
    /\ IsSeq(ledger) /\ \A i \in 1..Len(ledger) : EntrySane(ledger[i], Actual)
    /\ \A c \in agreed : IsPlan(c[1])
    /\ Written
    /\ Barred

\* The steps in between: whatever the step, the history and what the cluster
\* has seen only grow, and the fixes of a report are no prompt's actions.
NotAtWork == \A at \in {"apply", "verify"} : ~Running("run", at)
AgreedStep == \A c \in agreed' : c \in agreed \/ IsPlan(c[1])
Onto ==
    /\ req' = req /\ Onward(Actual, Actual') /\ AllSane(stack', Actual') /\ Moves
    /\ LedgerStep(Actual') /\ DoneStep(Actual') /\ AgreedStep /\ Written'

LEMMA HistoryGrows ==
    ASSUME IsSeq(ledger), ledger' = ledger \/ \E e : IsLonger(ledger', ledger, e), NEW a, InHistory(a)
    PROVE  InHistory(a)'
  <1>1. PICK l, m : l = ledger /\ m = ledger'
    OBVIOUS
  <1>2. CASE m = l
    BY <1>1, <1>2 DEF InHistory
  <1>3. CASE m # l
    <2>1. PICK e : IsLonger(m, l, e)
      BY <1>1, <1>3
    <2>2. Len(m) = Len(l) + 1 /\ IsSeq(m) /\ \A i \in 1..Len(l) : m[i] = l[i]
      BY <1>1, <2>1, AppendIs
    <2>3. DOMAIN l = 1..Len(l) /\ DOMAIN m = 1..(Len(l) + 1) /\ Len(l) \in Nat
      BY <1>1, <2>2 DEF IsSeq
    <2>4. PICK i \in DOMAIN l : l[i].plan = a.plan /\ l[i].ctx = a.ctx
      BY <1>1 DEF InHistory
    <2>5. i \in DOMAIN m /\ m[i] = l[i]
      BY <2>2, <2>3
    <2>6. \E j \in DOMAIN m : m[j].plan = a.plan /\ m[j].ctx = a.ctx
      BY <2>4, <2>5
    <2>7. QED
      BY <1>1, <2>6 DEF InHistory
  <1>4. QED
    BY <1>2, <1>3

LEMMA ActionsGrow ==
    ASSUME IsSeq(done), NEW a, done' = done \/ IsLonger(done', done, a)
    PROVE  Actions' \subseteq Actions \cup {a}
  <1>1. PICK d, e : d = done /\ e = done'
    OBVIOUS
  <1>2. CASE e = d
    BY <1>1, <1>2 DEF Actions
  <1>3. CASE e # d
    <2>1. Len(e) = Len(d) + 1 /\ IsSeq(e) /\ e[Len(d)+1] = a /\ \A i \in 1..Len(d) : e[i] = d[i]
      BY <1>1, <1>3, AppendIs
    <2>2. DOMAIN d = 1..Len(d) /\ DOMAIN e = 1..(Len(d) + 1) /\ Len(d) \in Nat
      BY <1>1, <2>1 DEF IsSeq
    <2>3. \A i \in DOMAIN e : i \in DOMAIN d \/ i = Len(d) + 1
      BY <2>2
    <2>4. \A i \in DOMAIN e : e[i] = a \/ \E j \in DOMAIN d : e[i] = d[j]
      BY <2>1, <2>2, <2>3
    <2>5. QED
      BY <1>1, <2>4 DEF Actions
  <1>4. QED
    BY <1>2, <1>3

LEMMA WrittenElsewhere ==
    ASSUME IsSeq(ledger), IsSeq(done), Written, stack # <<>>, outcome.how = "running", NotAtWork,
           ledger' = ledger \/ \E e : IsLonger(ledger', ledger, e),
           NEW a, ~OfPrompt(a), done' = done \/ IsLonger(done', done, a)
    PROVE  Written'
  <1>1. Actions' \subseteq Actions \cup {a}
    BY ActionsGrow
  <1>2. ASSUME NEW b \in Actions', OfPrompt(b)
        PROVE  InHistory(b)'
    <2>1. b \in Actions
      BY <1>1, <1>2
    <2>2. ~AtWork(b)
      BY DEF NotAtWork, AtWork, Running
    <2>3. InHistory(b)
      BY <1>2, <2>1, <2>2 DEF Written
    <2>4. QED
      BY <2>3, HistoryGrows
  <1>3. QED
    BY <1>2 DEF Written

LEMMA WrittenAtWork ==
    ASSUME IsSeq(ledger), IsSeq(done), IsStack(stack), stack # <<>>, Written, outcome.how = "running",
           NEW at, at \in {"apply", "verify"}, Running("run", at),
           NEW f, f = Top, NEW n, n = Len(stack), Ongoing(f, n),
           ledger' = ledger \/ \E e : IsLonger(ledger', ledger, e),
           NEW a, a.plan = Shown(f.plan) /\ a.ctx = f.ctx, done' = done \/ IsLonger(done', done, a)
    PROVE  Written'
  <1>1. Actions' \subseteq Actions \cup {a}
    BY ActionsGrow
  <1>2. \A b \in Actions' : OfPrompt(b) => InHistory(b) \/ (b.plan = Shown(f.plan) /\ b.ctx = f.ctx)
    BY <1>1 DEF Written, AtWork
  <1>3. CASE /\ outcome' = outcome
             /\ \E g : Became(g, n) /\ g.type = "run" /\ g.at \in {"apply", "verify"} /\ g.plan = f.plan /\ g.ctx = f.ctx
    <2>1. PICK g : Became(g, n) /\ g.type = "run" /\ g.at \in {"apply", "verify"} /\ g.plan = f.plan /\ g.ctx = f.ctx
      BY <1>3
    <2>2. PICK s : s = stack'
      OBVIOUS
    <2>3. IsSeq(s) /\ Len(s) = n /\ s[n] = g /\ n \in Nat /\ n > 0
      BY <2>1, <2>2, EmptyIs DEF Became, IsStack, IsSeq
    <2>4. s # <<>> /\ s[Len(s)] = g
      BY <2>3
    <2>5. \A b : b.plan = Shown(f.plan) /\ b.ctx = f.ctx => AtWork(b)'
      BY <2>1, <2>2, <2>4 DEF AtWork, Top
    <2>6. \A b : InHistory(b) => InHistory(b)'
      BY HistoryGrows
    <2>7. QED
      BY <1>2, <2>5, <2>6 DEF Written
  <1>4. CASE \E e : IsLonger(ledger', ledger, e) /\ e.plan = Shown(f.plan) /\ e.ctx = f.ctx
    <2>1. PICK e : IsLonger(ledger', ledger, e) /\ e.plan = Shown(f.plan) /\ e.ctx = f.ctx
      BY <1>4
    <2>2. PICK l, m : l = ledger /\ m = ledger'
      OBVIOUS
    <2>3. Len(m) = Len(l) + 1 /\ IsSeq(m) /\ m[Len(l)+1] = e /\ Len(l) \in Nat
      <3>1. IsLonger(m, l, e) /\ IsSeq(l)
        BY <2>1, <2>2
      <3>2. Len(m) = Len(l) + 1 /\ IsSeq(m) /\ m[Len(l)+1] = e
        BY <3>1, AppendIs
      <3>3. QED
        BY <3>1, <3>2 DEF IsSeq
    <2>4. Len(l) + 1 \in DOMAIN m
      BY <2>3 DEF IsSeq
    <2>5. \A b : b.plan = Shown(f.plan) /\ b.ctx = f.ctx => InHistory(b)'
      BY <2>1, <2>2, <2>3, <2>4 DEF InHistory
    <2>6. \A b : InHistory(b) => InHistory(b)'
      BY HistoryGrows
    <2>7. QED
      BY <1>2, <2>5, <2>6 DEF Written
  <1>5. QED
    BY <1>3, <1>4 DEF Ongoing

-------------------------------------------------------------------------------

(***************************************************************************)
(* Every action, seen from outside.                                        *)
(***************************************************************************)

LEMMA RestOnto ==
    ASSUME IInv, NEW type, NEW at, Running(type, at), ~(type = "run" /\ at \in {"apply", "verify"}),
           UNCHANGED <<req, env, done>>, AgreedStep, agreed \subseteq agreed',
           AllSane(stack', Actual'), Moves, LedgerStep(Actual')
    PROVE  Onto
  <1>1. PICK w, v : w = Actual /\ v = Actual'
    OBVIOUS
  <1>2. Onward(w, v) /\ req' = req
    BY <1>1, OnwardQuiet
  <1>3. NotAtWork /\ stack # <<>>
    BY DEF NotAtWork, Running
  <1>4. PICK a : a = [by |-> "none"]
    OBVIOUS
  <1>5. ~OfPrompt(a) /\ done' = done
    BY <1>4 DEF OfPrompt
  <1>6. ledger' = ledger \/ \E e : IsLonger(ledger', ledger, e)
    BY DEF LedgerStep
  <1>7. Written'
    BY <1>3, <1>5, <1>6, WrittenElsewhere DEF IInv
  <1>8. DoneStep(Actual')
    BY <1>5 DEF DoneStep
  <1>9. QED
    BY <1>1, <1>2, <1>7, <1>8 DEF Onto

LEMMA QuietOnto ==
    ASSUME IInv, NEW type, NEW at, Running(type, at), ~(type = "run" /\ at \in {"apply", "verify"}), Quiet,
           AllSane(stack', Actual'), Moves
    PROVE  Onto
  <1>1. UNCHANGED <<req, env, done>> /\ AgreedStep /\ agreed \subseteq agreed' /\ LedgerStep(Actual')
    BY DEF Quiet, AgreedStep, LedgerStep
  <1>2. QED
    BY <1>1, RestOnto

LEMMA SettledOnto ==
    ASSUME IInv, NEW at, Running("run", at), at \notin {"apply", "verify"},
           UNCHANGED <<req, env, done, agreed>>,
           AllSane(stack', Actual'), Moves, LedgerStep(Actual')
    PROVE  Onto
  <1>1. UNCHANGED <<req, env, done>> /\ AgreedStep /\ agreed \subseteq agreed'
    BY DEF AgreedStep
  <1>2. QED
    BY <1>1, RestOnto

LEMMA Shows ==
    ASSUME NEW p, IsExecutionPlan(p), p.intent.kind \in ExtractKinds \cup {"patch"}
    PROVE  IsPlan(Shown(p))
  BY ShownKeeps DEF IsPlan, IsExecutionPlan

LEMMA AgreedPlan ==
    ASSUME NEW flag, NEW reply, NEW p, NEW ctx, Agree(flag, reply, {Consent(p, ctx)}),
           IsExecutionPlan(p), p.intent.kind \in ExtractKinds \cup {"patch"}
    PROVE  AgreedStep /\ agreed \subseteq agreed'
  <1>1. IsPlan(Shown(p))
    BY Shows
  <1>2. \A c \in agreed' : c \in agreed \/ c = <<Shown(p), ctx>>
    BY DEF Agree, Consent
  <1>3. QED
    BY <1>1, <1>2, AgreeOnward DEF AgreedStep

LEMMA PlanOnto ==
    ASSUME IInv, Plan
    PROVE  Onto
  <1>1. req \in Requests /\ AllSane(stack, Actual)
    BY DEF IInv
  <1>2. CASE CheckPrompt
    BY <1>1, <1>2, CheckPromptSane, QuietOnto DEF CheckPrompt
  <1>3. CASE LocalPrompt
    BY <1>1, <1>3, LocalPromptSane, QuietOnto DEF LocalPrompt
  <1>4. CASE PlanFails
    BY <1>1, <1>4, PlanFailsSane, QuietOnto DEF PlanFails
  <1>5. CASE BuildPlan
    BY <1>1, <1>5, BuildPlanSane, QuietOnto DEF BuildPlan, Planning
  <1>6. CASE RouteBegins
    BY <1>1, <1>6, RouteBeginsSane, QuietOnto DEF RouteBegins, Planning
  <1>7. CASE FanOut
    BY <1>1, <1>7, FanOutSane, QuietOnto DEF FanOut, Planning
  <1>8. QED
    BY <1>2, <1>3, <1>4, <1>5, <1>6, <1>7 DEF Plan

LEMMA ReadOnto ==
    ASSUME IInv, Read \/ OfferFix \/ FixApplied \/ OpenPR
    PROVE  Onto
  <1>1. req \in Requests /\ AllSane(stack, Actual)
    BY DEF IInv
  <1>2. CASE Read
    BY <1>1, <1>2, ReadSane, ReadMoves, SettledOnto DEF Read
  <1>3. CASE OfferFix
    BY <1>1, <1>3, OfferFixSane, OfferFixMoves, SettledOnto DEF OfferFix
  <1>4. CASE FixApplied
    BY <1>1, <1>4, FixAppliedSane, FixAppliedMoves, SettledOnto DEF FixApplied
  <1>5. CASE OpenPR
    BY <1>1, <1>5, OpenPRSane, OpenPRMoves, SettledOnto DEF OpenPR
  <1>6. QED
    BY <1>2, <1>3, <1>4, <1>5

LEMMA AskFixOnto ==
    ASSUME IInv, AskFix
    PROVE  Onto
  <1>1. AllSane(stack, Actual) /\ AllSane(stack', Actual') /\ LedgerStep(Actual') /\ Moves
    BY AskFixSane, AskFixMoves DEF IInv
  <1>2. PICK w, f : w = Actual /\ f = Top
    OBVIOUS
  <1>3. Sane(f, w) /\ f.type = "run" /\ f.at = "askfix"
    BY <1>1, <1>2, TopSane DEF AskFix
  <1>4. PICK p : p = f.fixes[1]
    OBVIOUS
  <1>5. IsSuggestion(p)
    <2>1. Fixing(f, w)
      BY <1>3, NotOptimizeChild
    <2>2. 1 \in 1..Len(f.fixes)
      BY <2>1 DEF Fixing, AreFixes, IsSeq
    <2>3. QED
      BY <1>4, <2>1, <2>2 DEF Fixing, AreFixes
  <1>6. PICK flag, reply, ctx : Agree(flag, reply, {Consent(p, ctx)})
    BY <1>2, <1>4 DEF AskFix
  <1>7. AgreedStep /\ agreed \subseteq agreed'
    BY <1>5, <1>6, AgreedPlan DEF IsSuggestion
  <1>8. UNCHANGED <<req, env, done>> /\ Running("run", "askfix")
    BY DEF AskFix
  <1>9. QED
    BY <1>1, <1>7, <1>8, RestOnto

LEMMA ApproveOnto ==
    ASSUME IInv, Approve
    PROVE  Onto
  <1>1. AllSane(stack, Actual) /\ AllSane(stack', Actual') /\ LedgerStep(Actual') /\ Moves
    BY ApproveSane, ApproveMoves, RequestIs DEF IInv
  <1>2. PICK w, f : w = Actual /\ f = Top
    OBVIOUS
  <1>3. Sane(f, w) /\ f.type = "run" /\ f.at = "ask"
    BY <1>1, <1>2, TopSane DEF Approve
  <1>4. PICK p : p = f.plan
    OBVIOUS
  <1>5. IsExecutionPlan(p) /\ p.intent.kind \in ExtractKinds
    BY <1>3, <1>4, ChangingIs
  <1>6. PICK flag, reply, ctx : Agree(flag, reply, {Consent(p, ctx)})
    BY <1>2, <1>4 DEF Approve
  <1>7. AgreedStep /\ agreed \subseteq agreed'
    BY <1>5, <1>6, AgreedPlan
  <1>8. UNCHANGED <<req, env, done>> /\ Running("run", "ask")
    BY DEF Approve
  <1>9. QED
    BY <1>1, <1>7, <1>8, RestOnto

LEMMA ApproveRouteOnto ==
    ASSUME IInv, ApproveRoute
    PROVE  Onto
  <1>1. AllSane(stack, Actual) /\ AllSane(stack', Actual') /\ Moves
    BY ApproveRouteSane DEF IInv
  <1>2. PICK w, f : w = Actual /\ f = Top
    OBVIOUS
  <1>3. Sane(f, w) /\ f.type = "route" /\ f.at = "ask"
    BY <1>1, <1>2, TopSane DEF ApproveRoute
  <1>4. PICK flag, reply : Agree(flag, reply, RouteMutations(f))
    BY <1>2 DEF ApproveRoute
  <1>5. ASSUME NEW c \in RouteMutations(f)
        PROVE  IsPlan(Shown(c.plan))
    <2>1. ArePlanned(f.plans)
      BY <1>3, RouteIs DEF Route
    <2>2. PICK i \in DOMAIN f.plans : c.plan = f.plans[i]
      BY <1>5 DEF RouteMutations, Consent
    <2>3. IsPlanned(f.plans[i])
      BY <2>1, <2>2 DEF ArePlanned, IsSeq
    <2>4. QED
      BY <2>2, <2>3, Shows DEF IsPlanned
  <1>6. AgreedStep
    BY <1>4, <1>5 DEF Agree, AgreedStep
  <1>7. agreed \subseteq agreed'
    BY <1>4, AgreeOnward
  <1>8. UNCHANGED <<req, env, done>> /\ Running("route", "ask") /\ LedgerStep(Actual')
    BY DEF ApproveRoute, LedgerStep
  <1>9. QED
    BY <1>1, <1>6, <1>7, <1>8, RestOnto

LEMMA ApproveContextOnto ==
    ASSUME IInv, ApproveContext
    PROVE  Onto
  <1>1. AllSane(stack, Actual) /\ AllSane(stack', Actual') /\ Moves
    BY ApproveContextSane DEF IInv
  <1>2. PICK w, f : w = Actual /\ f = Top
    OBVIOUS
  <1>3. Sane(f, w) /\ f.type = "fan"
    BY <1>1, <1>2, TopSane DEF ApproveContext
  <1>4. PICK p : p = f.plan
    OBVIOUS
  <1>5. IsExecutionPlan(p) /\ p.intent.kind \in ExtractKinds
    BY <1>3, <1>4, FanIs DEF Fan, IsPlanned
  <1>6. PICK flag, reply, ctx : Agree(flag, reply, {Consent(p, ctx)})
    BY <1>2, <1>4 DEF ApproveContext
  <1>7. AgreedStep /\ agreed \subseteq agreed'
    BY <1>5, <1>6, AgreedPlan
  <1>8. UNCHANGED <<req, env, done>> /\ Running("fan", "next") /\ LedgerStep(Actual')
    BY DEF ApproveContext, LedgerStep
  <1>9. QED
    BY <1>1, <1>7, <1>8, RestOnto

LEMMA CallsOnto ==
    ASSUME IInv, RunStep \/ StepReturns \/ RouteEnds \/ ReadContext \/ ContextReturns \/ FanEnds
    PROVE  Onto
  <1>1. req \in Requests /\ AllSane(stack, Actual)
    BY DEF IInv
  <1>2. CASE RunStep
    BY <1>1, <1>2, RunStepSane, QuietOnto DEF RunStep
  <1>3. CASE StepReturns
    BY <1>1, <1>3, StepReturnsSane, QuietOnto DEF StepReturns
  <1>4. CASE RouteEnds
    BY <1>1, <1>4, RouteEndsSane, QuietOnto DEF RouteEnds
  <1>5. CASE ReadContext
    BY <1>1, <1>5, ReadContextSane, QuietOnto DEF ReadContext
  <1>6. CASE ContextReturns
    BY <1>1, <1>6, ContextReturnsSane, QuietOnto DEF ContextReturns
  <1>7. CASE FanEnds
    BY <1>1, <1>7, FanEndsSane, QuietOnto DEF FanEnds
  <1>8. QED
    BY <1>2, <1>3, <1>4, <1>5, <1>6, <1>7

LEMMA GrownOnward ==
    ASSUME IsSeq(done), NEW a, done' = done \/ IsLonger(done', done, a), UNCHANGED <<req, env, agreed>>
    PROVE  Onward(Actual, Actual')
  <1>1. PICK w, v : w = Actual /\ v = Actual'
    OBVIOUS
  <1>2. CASE done' = done
    BY <1>1, <1>2, OnwardQuiet
  <1>3. CASE IsLonger(done', done, a)
    BY <1>1, <1>3, OnwardDone
  <1>4. QED
    BY <1>1, <1>2, <1>3

LEMMA ApplyFixOnto ==
    ASSUME IInv, ApplyFix
    PROVE  Onto
  <1>1. AllSane(stack, Actual) /\ IsSeq(done) /\ IsSeq(ledger) /\ Written /\ (stack # <<>> => outcome.how = "running")
    BY DEF IInv
  <1>2. /\ AllSane(stack', Actual') /\ LedgerStep(Actual') /\ Moves
        /\ \E a : ActionSane(a, Actual') /\ ~OfPrompt(a) /\ (done' = done \/ IsLonger(done', done, a))
    BY <1>1, ApplyFixSane, ApplyFixMoves
  <1>3. PICK a : ActionSane(a, Actual') /\ ~OfPrompt(a) /\ (done' = done \/ IsLonger(done', done, a))
    BY <1>2
  <1>4. UNCHANGED <<req, env, agreed>> /\ Running("run", "fix")
    BY DEF ApplyFix, ApplyNext
  <1>5. Onward(Actual, Actual')
    BY <1>1, <1>3, <1>4, GrownOnward
  <1>6. NotAtWork /\ stack # <<>>
    BY <1>4 DEF NotAtWork, Running
  <1>7. Written'
    BY <1>1, <1>2, <1>3, <1>6, WrittenElsewhere DEF LedgerStep
  <1>8. DoneStep(Actual') /\ AgreedStep /\ req' = req
    BY <1>3, <1>4 DEF DoneStep, AgreedStep
  <1>9. QED
    BY <1>2, <1>5, <1>7, <1>8 DEF Onto

LEMMA ApplyOnto ==
    ASSUME IInv, Apply
    PROVE  Onto
  <1>1. AllSane(stack, Actual) /\ IsSeq(done) /\ IsSeq(ledger) /\ Written /\ (stack # <<>> => outcome.how = "running")
    BY DEF IInv
  <1>2. PICK f, n : f = Top /\ n = Len(stack)
    OBVIOUS
  <1>3. /\ AllSane(stack', Actual') /\ LedgerStep(Actual') /\ Moves /\ Ongoing(f, n)
        /\ \E a : ActionSane(a, Actual') /\ a.plan = Shown(f.plan) /\ a.ctx = f.ctx
                  /\ (done' = done \/ IsLonger(done', done, a))
    BY <1>1, <1>2, ApplySane, ApplyMoves
  <1>4. PICK a : ActionSane(a, Actual') /\ a.plan = Shown(f.plan) /\ a.ctx = f.ctx
                 /\ (done' = done \/ IsLonger(done', done, a))
    BY <1>3
  <1>5. UNCHANGED <<req, env, agreed>> /\ Running("run", "apply")
    BY DEF Apply, ApplyNext
  <1>6. Onward(Actual, Actual')
    BY <1>1, <1>4, <1>5, GrownOnward
  <1>7. IsStack(stack) /\ stack # <<>>
    BY <1>1, <1>5, SaneStack DEF Running
  <1>8. Written'
    BY <1>1, <1>2, <1>3, <1>4, <1>5, <1>7, WrittenAtWork DEF LedgerStep
  <1>9. DoneStep(Actual') /\ AgreedStep /\ req' = req
    BY <1>4, <1>5 DEF DoneStep, AgreedStep
  <1>10. QED
    BY <1>3, <1>6, <1>8, <1>9 DEF Onto

LEMMA OngoingOnto ==
    ASSUME IInv, NEW at, at \in {"apply", "verify"}, Running("run", at), UNCHANGED <<req, env, done, agreed>>,
           AllSane(stack', Actual'), LedgerStep(Actual'), Moves, Ongoing(Top, Len(stack))
    PROVE  Onto
  <1>1. AllSane(stack, Actual) /\ IsSeq(done) /\ IsSeq(ledger) /\ Written /\ (stack # <<>> => outcome.how = "running")
    BY DEF IInv
  <1>2. PICK f, n : f = Top /\ n = Len(stack)
    OBVIOUS
  <1>3. IsStack(stack) /\ stack # <<>> /\ Ongoing(f, n)
    BY <1>1, <1>2, SaneStack DEF Running
  <1>4. PICK a : a = [plan |-> Shown(f.plan), ctx |-> f.ctx]
    OBVIOUS
  <1>5. a.plan = Shown(f.plan) /\ a.ctx = f.ctx /\ done' = done
    BY <1>4
  <1>6. Written'
    BY <1>1, <1>2, <1>3, <1>5, WrittenAtWork DEF LedgerStep
  <1>7. PICK w, v : w = Actual /\ v = Actual'
    OBVIOUS
  <1>8. Onward(w, v)
    BY <1>7, OnwardQuiet
  <1>9. DoneStep(Actual') /\ AgreedStep /\ req' = req
    BY DEF DoneStep, AgreedStep
  <1>10. QED
    BY <1>6, <1>7, <1>8, <1>9 DEF Onto

LEMMA AppliedOnto ==
    ASSUME IInv, Applied
    PROVE  Onto
  <1>1. UNCHANGED <<req, env, done, agreed>> /\ Running("run", "apply") /\ AllSane(stack, Actual)
    BY DEF Applied, IInv
  <1>2. AllSane(stack', Actual') /\ LedgerStep(Actual') /\ Moves /\ Ongoing(Top, Len(stack))
    BY <1>1, AppliedSane, AppliedMoves
  <1>3. QED
    BY <1>1, <1>2, OngoingOnto

LEMMA VerifyOnto ==
    ASSUME IInv, Verify
    PROVE  Onto
  <1>1. UNCHANGED <<req, env, done, agreed>> /\ Running("run", "verify") /\ AllSane(stack, Actual)
    BY DEF Verify, IInv
  <1>2. AllSane(stack', Actual') /\ LedgerStep(Actual') /\ Moves /\ Ongoing(Top, Len(stack))
    BY <1>1, VerifySane, VerifyMoves
  <1>3. QED
    BY <1>1, <1>2, OngoingOnto

LEMMA ChangeOnto ==
    ASSUME IInv, Change
    PROVE  Onto
  <1>1. AllSane(stack', Actual') /\ Moves
    BY ChangeSane, PipelineAssumption DEF IInv
  <1>2. Onward(Actual, Actual')
    <2>1. changes \in Nat
      BY PipelineAssumption DEF IInv
    <2>2. QED
      BY <2>1 DEF Change, Onward, Actual, Actions
  <1>3. LedgerStep(Actual') /\ DoneStep(Actual') /\ AgreedStep /\ req' = req
    BY DEF Change, LedgerStep, DoneStep, AgreedStep
  <1>4. Written'
    BY DEF IInv, Change, Written, Actions, InHistory, AtWork, Top
  <1>5. QED
    BY <1>1, <1>2, <1>3, <1>4 DEF Onto

LEMMA KillOnto ==
    ASSUME IInv, Kill
    PROVE  Onto
  <1>1. AllSane(stack', Actual') /\ Moves
    BY KillSane
  <1>2. Onward(Actual, Actual')
    <2>1. PICK w, v : w = Actual /\ v = Actual'
      OBVIOUS
    <2>2. QED
      BY <2>1, QuietOnward DEF Kill
  <1>3. LedgerStep(Actual') /\ DoneStep(Actual') /\ AgreedStep /\ req' = req
    BY DEF Kill, Quiet, LedgerStep, DoneStep, AgreedStep
  <1>4. Written'
    BY DEF Kill, Written
  <1>5. QED
    BY <1>1, <1>2, <1>3, <1>4 DEF Onto

LEMMA StepOnto ==
    ASSUME IInv, Next
    PROVE  Onto
  BY PlanOnto, ReadOnto, AskFixOnto, ApplyFixOnto, ApproveOnto, ApplyOnto, AppliedOnto, VerifyOnto,
     ApproveRouteOnto, ApproveContextOnto, CallsOnto, ChangeOnto, KillOnto
     DEF Next, Step

-------------------------------------------------------------------------------

(***************************************************************************)
(* What stays: the environment, the history, what was done and what was    *)
(* refused.                                                                *)
(***************************************************************************)

LEMMA EnvKept ==
    ASSUME Next, policy \in Policies, hour \in Hours, changes \in 0..MaxChanges
    PROVE  policy' \in Policies /\ hour' \in Hours /\ changes' \in 0..MaxChanges
  <1>1. CASE Change
    BY <1>1, PipelineAssumption DEF Change
  <1>2. CASE Kill \/ Plan
    <2>1. env' = env
      BY <1>2 DEF Kill, Plan, CheckPrompt, LocalPrompt, PlanFails, BuildPlan, RouteBegins, FanOut, Quiet
    <2>2. QED
      BY <2>1 DEF env
  <1>3. CASE Read \/ OfferFix \/ AskFix \/ ApplyFix \/ FixApplied
    <2>1. env' = env
      BY <1>3 DEF Read, OfferFix, AskFix, ApplyFix, FixApplied, ApplyNext
    <2>2. QED
      BY <2>1 DEF env
  <1>4. CASE Approve \/ OpenPR \/ Apply \/ Applied \/ Verify
    <2>1. env' = env
      BY <1>4 DEF Approve, OpenPR, Apply, Applied, Verify, ApplyNext
    <2>2. QED
      BY <2>1 DEF env
  <1>5. CASE ApproveRoute \/ RunStep \/ StepReturns \/ RouteEnds
    <2>1. env' = env
      BY <1>5 DEF ApproveRoute, RunStep, StepReturns, RouteEnds, Quiet
    <2>2. QED
      BY <2>1 DEF env
  <1>6. CASE ReadContext \/ ApproveContext \/ ContextReturns \/ FanEnds
    <2>1. env' = env
      BY <1>6 DEF ReadContext, ApproveContext, ContextReturns, FanEnds, Quiet
    <2>2. QED
      BY <2>1 DEF env
  <1>7. QED
    BY <1>1, <1>2, <1>3, <1>4, <1>5, <1>6 DEF Next, Step

LEMMA EntryOn ==
    ASSUME NEW e, NEW w, EntrySane(e, w), NEW v, Onward(w, v)
    PROVE  EntrySane(e, v)
  BY DEF EntrySane, Onward

LEMMA ActionOn ==
    ASSUME NEW a, NEW w, ActionSane(a, w), NEW v, Onward(w, v)
    PROVE  ActionSane(a, v)
  BY DEF ActionSane, Onward, OrgOf

LEMMA LedgerKept ==
    ASSUME IsSeq(ledger), NEW w, \A i \in 1..Len(ledger) : EntrySane(ledger[i], w), NEW v, Onward(w, v),
           LedgerStep(v)
    PROVE  IsSeq(ledger') /\ \A i \in 1..Len(ledger') : EntrySane(ledger'[i], v)
  <1>1. PICK l, m : l = ledger /\ m = ledger'
    OBVIOUS
  <1>2. \A i \in 1..Len(l) : EntrySane(l[i], v)
    BY <1>1, EntryOn
  <1>3. CASE m = l
    BY <1>1, <1>2, <1>3
  <1>4. CASE m # l
    <2>1. PICK e : IsLonger(m, l, e) /\ EntrySane(e, v)
      BY <1>1, <1>4 DEF LedgerStep
    <2>2. IsSeq(l)
      BY <1>1
    <2>3. Len(m) = Len(l) + 1 /\ IsSeq(m) /\ m[Len(l)+1] = e /\ \A i \in 1..Len(l) : m[i] = l[i]
      BY <2>1, <2>2, AppendIs
    <2>4. \A i \in 1..Len(m) : i = Len(l) + 1 \/ i \in 1..Len(l)
      BY <2>2, <2>3 DEF IsSeq
    <2>5. \A i \in 1..Len(m) : EntrySane(m[i], v)
      BY <1>2, <2>1, <2>3, <2>4
    <2>6. QED
      BY <1>1, <2>3, <2>5
  <1>5. QED
    BY <1>3, <1>4

LEMMA DoneKept ==
    ASSUME IsSeq(done), NEW w, \A i \in 1..Len(done) : ActionSane(done[i], w), NEW v, Onward(w, v),
           DoneStep(v)
    PROVE  IsSeq(done') /\ \A i \in 1..Len(done') : ActionSane(done'[i], v)
  <1>1. PICK l, m : l = done /\ m = done'
    OBVIOUS
  <1>2. \A i \in 1..Len(l) : ActionSane(l[i], v)
    BY <1>1, ActionOn
  <1>3. CASE m = l
    BY <1>1, <1>2, <1>3
  <1>4. CASE m # l
    <2>1. PICK e : IsLonger(m, l, e) /\ ActionSane(e, v)
      BY <1>1, <1>4 DEF DoneStep
    <2>2. IsSeq(l)
      BY <1>1
    <2>3. Len(m) = Len(l) + 1 /\ IsSeq(m) /\ m[Len(l)+1] = e /\ \A i \in 1..Len(l) : m[i] = l[i]
      BY <2>1, <2>2, AppendIs
    <2>4. \A i \in 1..Len(m) : i = Len(l) + 1 \/ i \in 1..Len(l)
      BY <2>2, <2>3 DEF IsSeq
    <2>5. \A i \in 1..Len(m) : ActionSane(m[i], v)
      BY <1>2, <2>1, <2>3, <2>4
    <2>6. QED
      BY <1>1, <2>3, <2>5
  <1>5. QED
    BY <1>3, <1>4

\* The only call: what returns from it ends the invocation.
LEMMA OnlyCall ==
    ASSUME stack = <<Frame>>, IsStack(stack)
    PROVE  /\ Len(stack) = 1 /\ Top = Frame /\ Below = <<>> /\ Model
           /\ Frame.type = "run" /\ Frame.at = "start" /\ Lower(stack, Below, 0) /\ Len(Below) = 0
           /\ \A n : Consumed(n) = Below
  <1>1. Len(stack) = 1 /\ Top = Frame /\ stack # <<>>
    BY DEF Top
  <1>2. Lower(stack, Below, 0) /\ Len(Below) = 0
    BY <1>1, BelowLower
  <1>3. Below = <<>>
    BY <1>2, EmptyIs DEF Lower
  <1>4. Frame.type = "run" /\ Frame.at = "start"
    BY FrameIs DEF Frame
  <1>5. QED
    BY <1>1, <1>2, <1>3, <1>4 DEF Model, Consumed

LEMMA OnlyReturns ==
    ASSUME stack = <<Frame>>, IsStack(stack), NEW doc, NEW how, NEW applied,
           Return(Below, how, applied) \/ Return(Observed(Below, doc), how, applied)
    PROVE  stack' = <<>>
  <1>1. Lower(stack, Below, 0) /\ Len(Below) = 0 /\ Below = <<>>
    BY OnlyCall
  <1>2. PICK b, o : b = Below /\ o = Observed(b, doc)
    OBVIOUS
  <1>3. Lower(stack, o, 0) /\ Len(o) = 0
    BY <1>1, <1>2, ObservedLower
  <1>4. o = <<>>
    BY <1>3, EmptyIs DEF Lower
  <1>5. QED
    BY <1>1, <1>2, <1>4 DEF Return

LEMMA PlannedRoute ==
    ASSUME req \in Requests, NEW f, f = Frame, Model, IsRoute(f), NEW steps, steps = Preflight(f, Extracted(RouteOf(f))),
           NEW plans, plans = [i \in DOMAIN steps |-> steps[i].plan]
    PROVE  Planned = plans
  <1>1. f.prompt = req.prompt /\ f.steps = req.steps
    BY FrameIs DEF Frame
  <1>2. PICK ps : ps = RouteOf(f)
    OBVIOUS
  <1>3. ps = StepsOf(req) /\ Len(ps) > 1
    BY <1>1, <1>2 DEF RouteOf, StepsOf, IsRoute
  <1>4. PICK raws : raws = [i \in DOMAIN ps |-> Answer[ps[i]]]
    OBVIOUS
  <1>5. Extracted(ps) = raws
    BY <1>4 DEF Extracted
  <1>6. steps = Preflight(f, raws)
    BY <1>2, <1>5
  <1>7. Intended[req] = Preflight(FrameOf(req), raws)
    BY <1>3, <1>4 DEF Intended
  <1>8. Intended[req] = steps
    BY <1>6, <1>7 DEF Frame
  <1>9. QED
    BY <1>8 DEF Planned

LEMMA PlannedAlone ==
    ASSUME req \in Requests, NEW f, f = Frame, Model, ~IsRoute(f), NEW g, g = WithPlan(f, Extracted(<<f.prompt>>)[1])
    PROVE  DOMAIN Planned = {1} /\ Planned[1] = g.plan
  <1>1. f.prompt = req.prompt /\ f.steps = req.steps
    BY FrameIs DEF Frame
  <1>2. ~(Len(StepsOf(req)) > 1)
    BY <1>1 DEF RouteOf, StepsOf, IsRoute
  <1>3. PICK p, raw : p = req.prompt /\ raw = Answer[p]
    OBVIOUS
  <1>4. Extracted(<<p>>)[1] = raw
    <2>1. PICK ps : ps = <<p>>
      OBVIOUS
    <2>2. 1 \in DOMAIN ps /\ ps[1] = p
      BY <2>1
    <2>3. Extracted(ps) = [i \in DOMAIN ps |-> Answer[ps[i]]]
      BY DEF Extracted
    <2>4. QED
      BY <1>3, <2>1, <2>2, <2>3
  <1>5. g = WithPlan(FrameOf(req), raw)
    BY <1>1, <1>3, <1>4 DEF Frame
  <1>6. Intended[req] = OneStep(g)
    BY <1>2, <1>3, <1>5 DEF Intended
  <1>7. PICK s : s = OneStep(g)
    OBVIOUS
  <1>8. DOMAIN s = {1} /\ s[1].plan = g.plan
    BY <1>7 DEF OneStep
  <1>9. QED
    BY <1>6, <1>7, <1>8 DEF Planned

LEMMA RefusedReturns ==
    ASSUME IInv, stack = <<Frame>>, Refused(Planned), Plan
    PROVE  stack' = <<>>
  <1>1. IsStack(stack) /\ req \in Requests
    BY SaneStack DEF IInv
  <1>2. PICK f, b : f = Frame /\ b = Below
    OBVIOUS
  <1>3. /\ Len(stack) = 1 /\ Top = f /\ b = <<>> /\ Model /\ \A n : Consumed(n) = b
    BY <1>1, <1>2, OnlyCall
  <1>4. CASE CheckPrompt
    <2>1. PICK d, a, how : Return(Observed(b, d), how, a)
      BY <1>2, <1>4 DEF CheckPrompt, Report
    <2>2. QED
      BY <1>1, <1>2, <2>1, OnlyReturns
  <1>5. CASE LocalPrompt
    <2>1. \/ Return(b, "error", FALSE)
          \/ \E d : Return(Observed(b, d), "ok", d.applied)
      BY <1>2, <1>5 DEF LocalPrompt, Report, Fail
    <2>2. QED
      BY <1>1, <1>2, <2>1, OnlyReturns
  <1>6. CASE PlanFails
    <2>1. Return(b, "error", FALSE)
      BY <1>2, <1>6 DEF PlanFails, Fail
    <2>2. QED
      BY <1>1, <1>2, <2>1, OnlyReturns
  <1>7. CASE BuildPlan \/ FanOut
    <2>1. PICK g : g = WithPlan(f, Extracted(<<f.prompt>>)[1])
      OBVIOUS
    <2>2. ~IsRoute(f) /\ (Judged(g) \/ BeginFan(g))
      BY <1>3, <1>7, <2>1 DEF BuildPlan, FanOut
    <2>3. EvaluatePlan(g.plan) = "denied"
      BY <1>1, <1>2, <1>3, <2>1, <2>2, PlannedAlone DEF Refused
    <2>4. Risk(g.plan, g.ctx) = "denied"
      BY <2>3, DeniedDenies
    <2>5. PICK d : Return(Observed(Consumed(1), d), "ok", FALSE)
      BY <2>2, <2>4 DEF Judged, BeginFan
    <2>6. Return(Observed(b, d), "ok", FALSE)
      BY <1>3, <2>5
    <2>7. QED
      BY <1>1, <1>2, <2>6, OnlyReturns
  <1>8. CASE RouteBegins
    <2>1. PICK steps : steps = Preflight(f, Extracted(RouteOf(f)))
      OBVIOUS
    <2>2. PICK plans, risks : plans = [i \in DOMAIN steps |-> steps[i].plan]
                              /\ risks = {Risk(plans[i], steps[i].ctx) : i \in DOMAIN plans}
      OBVIOUS
    <2>3. IsRoute(f) /\ BeginRoute(steps)
      BY <1>3, <1>8, <2>1 DEF RouteBegins
    <2>4. Planned = plans
      BY <1>1, <1>2, <1>3, <2>1, <2>2, <2>3, PlannedRoute
    <2>5. PICK i \in DOMAIN plans : EvaluatePlan(plans[i]) = "denied"
      BY <2>4 DEF Refused
    <2>6. Risk(plans[i], steps[i].ctx) = "denied"
      BY <2>5, DeniedDenies
    <2>7. "denied" \in risks
      BY <2>2, <2>6
    <2>8. Return(Consumed(Len(plans)), "error", FALSE)
      BY <2>2, <2>3, <2>7 DEF BeginRoute
    <2>9. Return(b, "error", FALSE)
      BY <1>3, <2>8
    <2>10. QED
      BY <1>1, <1>2, <2>9, OnlyReturns
  <1>9. QED
    BY <1>4, <1>5, <1>6, <1>7, <1>8 DEF Plan

LEMMA NothingRuns ==
    ASSUME stack = <<>>
    PROVE  ~Next
  <1>1. \A type, at : ~Running(type, at)
    BY DEF Running
  <1>2. ~Plan
    BY <1>1 DEF Plan, CheckPrompt, LocalPrompt, PlanFails, BuildPlan, RouteBegins, FanOut, Planning
  <1>3. ~(Read \/ OfferFix \/ AskFix \/ ApplyFix \/ FixApplied)
    BY <1>1 DEF Read, OfferFix, AskFix, ApplyFix, FixApplied
  <1>4. ~(Approve \/ OpenPR \/ Apply \/ Applied \/ Verify)
    BY <1>1 DEF Approve, OpenPR, Apply, Applied, Verify
  <1>5. ~(ApproveRoute \/ RunStep \/ StepReturns \/ RouteEnds)
    BY <1>1 DEF ApproveRoute, RunStep, StepReturns, RouteEnds
  <1>6. ~(ReadContext \/ ApproveContext \/ ContextReturns \/ FanEnds)
    BY <1>1 DEF ReadContext, ApproveContext, ContextReturns, FanEnds
  <1>7. ~Change /\ ~Kill
    BY DEF Change, Kill
  <1>8. QED
    BY <1>2, <1>3, <1>4, <1>5, <1>6, <1>7 DEF Next, Step

LEMMA OnlyPlans ==
    ASSUME stack = <<Frame>>, IsStack(stack), Next
    PROVE  Plan \/ Change \/ Kill
  <1>1. Top = Frame /\ Frame.type = "run" /\ Frame.at = "start"
    BY OnlyCall
  <1>2. \A type, at : Running(type, at) => type = "run" /\ at = "start"
    BY <1>1 DEF Running
  <1>3. ~(Read \/ OfferFix \/ AskFix \/ ApplyFix \/ FixApplied)
    BY <1>2 DEF Read, OfferFix, AskFix, ApplyFix, FixApplied
  <1>4. ~(Approve \/ OpenPR \/ Apply \/ Applied \/ Verify)
    BY <1>2 DEF Approve, OpenPR, Apply, Applied, Verify
  <1>5. ~(ApproveRoute \/ RunStep \/ StepReturns \/ RouteEnds)
    BY <1>2 DEF ApproveRoute, RunStep, StepReturns, RouteEnds
  <1>6. ~(ReadContext \/ ApproveContext \/ ContextReturns \/ FanEnds)
    BY <1>2 DEF ReadContext, ApproveContext, ContextReturns, FanEnds
  <1>7. QED
    BY <1>3, <1>4, <1>5, <1>6 DEF Next, Step

LEMMA BarredKept ==
    ASSUME IInv, Next, req' = req
    PROVE  Barred'
  <1>1. Planned' = Planned /\ Frame' = Frame /\ (Refused(Planned))' = Refused(Planned)
    BY DEF Planned, Frame, Refused
  <1>2. SUFFICES ASSUME Refused(Planned)
                 PROVE  done' = <<>> /\ stack' \in {<<>>, <<Frame>>}
    BY <1>1 DEF Barred
  <1>3. done = <<>> /\ stack \in {<<>>, <<Frame>>}
    BY <1>2 DEF IInv, Barred
  <1>4. stack = <<Frame>>
    BY <1>3, NothingRuns
  <1>5. IsStack(stack)
    BY SaneStack DEF IInv
  <1>6. CASE Plan
    <2>1. done' = done
      BY <1>6 DEF Plan, CheckPrompt, LocalPrompt, PlanFails, BuildPlan, RouteBegins, FanOut, Quiet
    <2>2. QED
      BY <1>2, <1>3, <1>4, <1>6, <2>1, RefusedReturns
  <1>7. CASE Change
    BY <1>3, <1>7 DEF Change
  <1>8. CASE Kill
    BY <1>3, <1>8 DEF Kill, Quiet
  <1>9. QED
    BY <1>4, <1>5, <1>6, <1>7, <1>8, OnlyPlans

-------------------------------------------------------------------------------

(***************************************************************************)
(* Preparing an intent again: a normaliser that has made an intent its     *)
(* own, or has left it alone, leaves it alone the second time.             *)
(***************************************************************************)

\* Two intents that ask for the same: they may differ in their contexts, and an
\* autoscaler by KEDA may spell out that its target is the object of its name.
Target(in) == [target |-> in.name]
Alter(b, a) ==
    IsIntent(b) /\ b.kind = a.kind /\ b.name = a.name /\ b.ns = a.ns /\ b.object = a.object
Same(b, a) == Alter(b, a) /\ b.params = a.params
Twin(b, a) ==
    Alter(b, a) /\ (b.params = a.params \/ (a.kind = "keda" /\ b.params = a.params ++ Target(a)))

IsFun(p) == p = [k \in DOMAIN p |-> p[k]]

LEMMA PlusIs ==
    ASSUME NEW p, NEW q
    PROVE  /\ IsFun(p ++ q) /\ DOMAIN (p ++ q) = DOMAIN p \cup DOMAIN q
           /\ \A k \in DOMAIN p : (p ++ q)[k] = p[k]
           /\ \A k \in DOMAIN q \ DOMAIN p : (p ++ q)[k] = q[k]
  <1>1. PICK r : r = p ++ q
    OBVIOUS
  <1>2. r = [k \in DOMAIN p \cup DOMAIN q |-> IF k \in DOMAIN p THEN p[k] ELSE q[k]]
    BY <1>1 DEF ++
  <1>3. IsFun(r) /\ DOMAIN r = DOMAIN p \cup DOMAIN q
    BY <1>2 DEF IsFun
  <1>4. /\ \A k \in DOMAIN p : r[k] = p[k]
        /\ \A k \in DOMAIN q \ DOMAIN p : r[k] = q[k]
    BY <1>2
  <1>5. QED
    BY <1>1, <1>3, <1>4

LEMMA SameFun ==
    ASSUME NEW p, NEW q, IsFun(p), IsFun(q), DOMAIN p = DOMAIN q, \A k \in DOMAIN p : p[k] = q[k]
    PROVE  p = q
  BY DEF IsFun

LEMMA PlusAbsorbs ==
    ASSUME NEW p, IsFun(p), NEW q, DOMAIN q \subseteq DOMAIN p
    PROVE  p ++ q = p
  <1>1. PICK r : r = p ++ q
    OBVIOUS
  <1>2. IsFun(r) /\ DOMAIN r = DOMAIN p /\ \A k \in DOMAIN p : r[k] = p[k]
    BY <1>1, PlusIs
  <1>3. r = p
    BY <1>2, SameFun
  <1>4. QED
    BY <1>1, <1>3

LEMMA PlusTwice ==
    ASSUME NEW p, NEW q
    PROVE  (p ++ q) ++ q = p ++ q
  <1>1. PICK r : r = p ++ q
    OBVIOUS
  <1>2. IsFun(r) /\ DOMAIN q \subseteq DOMAIN r
    BY <1>1, PlusIs
  <1>3. r ++ q = r
    BY <1>2, PlusAbsorbs
  <1>4. QED
    BY <1>1, <1>3

LEMMA SameIntent ==
    ASSUME NEW b, NEW a, IsIntent(b), IsIntent(a), b.kind = a.kind, b.name = a.name, b.ns = a.ns,
           b.object = a.object, b.ctx = a.ctx, b.params = a.params
    PROVE  b = a
  BY DEF IsIntent

LEMMA IntentFun ==
    ASSUME NEW a, IsIntent(a)
    PROVE  IsFun(a.params)
  BY DEF IsIntent, IsFun

LEMMA FilledSame ==
    ASSUME NEW a, IsIntent(a), NEW object, NEW name, NEW params,
           Or(a.object, object) = a.object, Or(a.name, name) = a.name, DOMAIN params \subseteq DOMAIN a.params
    PROVE  Filled(a, a.kind, object, name, params) = a
  <1>1. PICK f : f = Filled(a, a.kind, object, name, params)
    OBVIOUS
  <1>2. /\ IsIntent(f) /\ f.kind = a.kind /\ f.ns = a.ns /\ f.ctx = a.ctx
        /\ f.object = a.object /\ f.name = a.name /\ f.params = a.params ++ params
    BY <1>1, FilledIs
  <1>3. a.params ++ params = a.params
    BY IntentFun, PlusAbsorbs
  <1>4. f = a
    BY <1>2, <1>3, SameIntent
  <1>5. QED
    BY <1>1, <1>4

LEMMA OrTwice ==
    ASSUME NEW a, NEW b
    PROVE  Or(Or(a, b), b) = Or(a, b)
  BY DEF Or

(***************************************************************************)
(* A mutation that was prepared for a prompt is not changed by preparing   *)
(* it again for it.                                                        *)
(***************************************************************************)
LEMMA TektonTwice ==
    ASSUME NEW prompt, NEW y, IsIntent(y), NEW a, a = NormalizeTekton(y, prompt), a.kind = "tekton",
           NEW b, Same(b, a)
    PROVE  NormalizeTekton(b, prompt) = b
  <1>1. PICK known : known = [task |-> "ci"] ++ If("repo_url" \in DOMAIN prompt.infers,
                                      [repo_url |-> prompt.infers["repo_url"]])
    OBVIOUS
  <1>2. CASE ~LooksLike(prompt, "tekton")
    BY <1>2 DEF NormalizeTekton, Claims
  <1>3. CASE LooksLike(prompt, "tekton")
    <2>1. Claims(y, prompt, "tekton", {"deploy", "workflow", "unknown", "get"})
      BY <1>3, TektonNormal DEF Normal, Claims
    <2>2. a = Filled(y, "tekton", "PipelineRun", "new-run", known)
      BY <1>1, <2>1 DEF NormalizeTekton
    <2>3. /\ a.object = Or(y.object, "PipelineRun") /\ a.name = Or(y.name, "new-run")
          /\ a.params = y.params ++ known
      BY <2>2, FilledIs
    <2>4. DOMAIN known \subseteq DOMAIN a.params
      <3>1. PICK p : p = y.params
        OBVIOUS
      <3>2. DOMAIN (p ++ known) = DOMAIN p \cup DOMAIN known
        BY PlusIs
      <3>3. QED
        BY <2>3, <3>1, <3>2
    <2>5. IsIntent(b) /\ b.kind = "tekton" /\ b.object = a.object /\ b.name = a.name /\ b.params = a.params
      BY DEF Same, Alter
    <2>6. Filled(b, "tekton", "PipelineRun", "new-run", known) = b
      BY <2>3, <2>4, <2>5, OrTwice, FilledSame
    <2>7. QED
      BY <1>1, <2>5, <2>6 DEF NormalizeTekton
  <1>4. QED
    BY <1>2, <1>3

LEMMA CrossplaneTwice ==
    ASSUME NEW prompt, NEW y, IsIntent(y), NEW a, a = NormalizeCrossplane(y, prompt), a.kind = "crossplane",
           NEW b, Same(b, a)
    PROVE  NormalizeCrossplane(b, prompt) = b
  <1>1. PICK named, from : /\ named = IF "redis" \in prompt.words THEN "redis"
                              ELSE IF "bucket" \in prompt.words THEN "bucket" ELSE "postgres"
                           /\ from = {"deploy", "install", "unknown", "get"}
    OBVIOUS
  <1>2. PICK u : u = Param(y, "resource", named)
    OBVIOUS
  <1>3. PICK object : object = Claim[IF u \in DOMAIN Claim THEN u ELSE "postgres"]
    OBVIOUS
  <1>4. PICK known : known = [resource |-> u]
    OBVIOUS
  <1>5. CASE ~LooksLike(prompt, "crossplane")
    BY <1>5 DEF NormalizeCrossplane, Claims
  <1>6. CASE LooksLike(prompt, "crossplane")
    <2>1. Claims(y, prompt, "crossplane", from)
      BY <1>1, <1>6, CrossplaneNormal DEF Normal, Claims
    <2>2. a = Filled(y, "crossplane", object, "new-claim", known)
      BY <1>1, <1>2, <1>3, <1>4, <2>1 DEF NormalizeCrossplane
    <2>3. /\ a.object = Or(y.object, object) /\ a.name = Or(y.name, "new-claim")
          /\ a.params = y.params ++ known
      BY <2>2, FilledIs
    <2>4. DOMAIN known = {"resource"} /\ known["resource"] = u
      BY <1>4
    <2>5. "resource" \in DOMAIN a.params /\ a.params["resource"] = u
      <3>1. PICK p : p = y.params
        OBVIOUS
      <3>2. PICK q : q = p ++ known
        OBVIOUS
      <3>3. /\ DOMAIN q = DOMAIN p \cup DOMAIN known
            /\ \A k \in DOMAIN p : q[k] = p[k]
            /\ \A k \in DOMAIN known \ DOMAIN p : q[k] = known[k]
        BY ZenonT(60), <3>2, PlusIs
      <3>4. "resource" \in DOMAIN p => p["resource"] = u
        BY <1>2, <3>1 DEF Param
      <3>5. "resource" \in DOMAIN q /\ q["resource"] = u
        BY <2>4, <3>3, <3>4
      <3>6. QED
        BY <2>3, <3>1, <3>2, <3>5
    <2>6. IsIntent(b) /\ b.kind = "crossplane" /\ b.object = a.object /\ b.name = a.name /\ b.params = a.params
      BY DEF Same, Alter
    <2>7. Param(b, "resource", named) = u
      BY <2>5, <2>6 DEF Param
    <2>8. Filled(b, "crossplane", object, "new-claim", known) = b
      BY <2>3, <2>4, <2>5, <2>6, OrTwice, FilledSame
    <2>9. Claims(b, prompt, "crossplane", from)
      BY <1>6, <2>6 DEF Claims
    <2>10. QED
      BY <1>1, <1>3, <1>4, <2>7, <2>8, <2>9 DEF NormalizeCrossplane
  <1>7. QED
    BY <1>5, <1>6

LEMMA WorkflowTwice ==
    ASSUME NEW prompt, NEW y, IsIntent(y), NEW a, a = NormalizeWorkflow(y, prompt), a.kind = "workflow",
           NEW b, Same(b, a)
    PROVE  NormalizeWorkflow(b, prompt) = b
  <1>1. PICK known : known = If("train" \in prompt.words, [task |-> "train"])
                             ++ If("model" \in DOMAIN prompt.infers, [model |-> prompt.infers["model"]])
    OBVIOUS
  <1>2. CASE ~LooksLike(prompt, "workflow")
    BY <1>2 DEF NormalizeWorkflow, Claims
  <1>3. CASE LooksLike(prompt, "workflow")
    <2>1. Claims(y, prompt, "workflow", {"deploy", "unknown"})
      BY <1>3, WorkflowNormal DEF Normal, Claims
    <2>2. PICK f : f = Filled(y, "workflow", "Workflow", Unset, known)
      OBVIOUS
    <2>3. /\ IsIntent(f) /\ f.kind = "workflow" /\ f.object = Or(y.object, "Workflow")
          /\ f.name = Or(y.name, Unset) /\ f.params = y.params ++ known
      BY <2>2, FilledIs
    <2>4. PICK name : name = Param(f, "task", "run") \o "-" \o f.params["model"]
      OBVIOUS
    <2>5. a = [f EXCEPT !.name = IF "model" \in DOMAIN f.params THEN Or(f.name, name) ELSE f.name]
      BY <1>1, <2>1, <2>2, <2>3, <2>4 DEF NormalizeWorkflow, IsIntent
    <2>6. /\ a.params = f.params /\ a.object = f.object
          /\ a.name = IF "model" \in DOMAIN f.params THEN Or(f.name, name) ELSE f.name
      BY <2>3, <2>5, SetName
    <2>7. DOMAIN known \subseteq DOMAIN a.params
      <3>1. PICK p : p = y.params
        OBVIOUS
      <3>2. DOMAIN (p ++ known) = DOMAIN p \cup DOMAIN known
        BY PlusIs
      <3>3. QED
        BY <2>3, <2>6, <3>1, <3>2
    <2>8. IsIntent(b) /\ b.kind = "workflow" /\ b.object = a.object /\ b.name = a.name /\ b.params = a.params
      BY DEF Same, Alter
    <2>9. Or(b.object, "Workflow") = b.object
      BY <2>3, <2>6, <2>8, OrTwice
    <2>10. Or(b.name, Unset) = b.name
      BY DEF Or
    <2>11. Filled(b, "workflow", "Workflow", Unset, known) = b
      BY <2>7, <2>8, <2>9, <2>10, FilledSame
    <2>12. Param(b, "task", "run") \o "-" \o b.params["model"] = name
      BY <2>4, <2>6, <2>8 DEF Param
    <2>13. (IF "model" \in DOMAIN b.params THEN Or(b.name, name) ELSE b.name) = b.name
      BY <2>6, <2>8, OrTwice
    <2>14. Claims(b, prompt, "workflow", {"deploy", "unknown"})
      BY <1>3, <2>8 DEF Claims
    <2>15. NormalizeWorkflow(b, prompt)
             = [b EXCEPT !.name = IF "model" \in DOMAIN b.params THEN Or(b.name, name) ELSE b.name]
      BY <1>1, <2>8, <2>11, <2>12, <2>14 DEF NormalizeWorkflow, IsIntent
    <2>16. [b EXCEPT !.name = b.name] = b
      BY <2>8 DEF IsIntent
    <2>17. QED
      BY <2>13, <2>15, <2>16
  <1>4. QED
    BY <1>2, <1>3

LEMMA HPATwice ==
    ASSUME NEW prompt, NEW y, IsIntent(y), NEW a, a = NormalizeHPA(y, prompt), a.kind = "hpa",
           NEW b, Same(b, a)
    PROVE  NormalizeHPA(b, prompt) = b
  <1>1. PICK from : from = {"scale", "deploy", "unknown", "get", "optimize"}
    OBVIOUS
  <1>2. PICK t : t = Param(y, "target", y.name)
    OBVIOUS
  <1>3. PICK known : known = If(t # Unset, [target |-> t, hpaName |-> t \o "-hpa"])
    OBVIOUS
  <1>4. CASE ~LooksLike(prompt, "hpa")
    BY <1>4 DEF NormalizeHPA, Claims
  <1>5. CASE LooksLike(prompt, "hpa")
    <2>1. Claims(y, prompt, "hpa", from)
      BY <1>1, <1>5, HPANormal DEF Normal, Claims
    <2>2. PICK z : z = [y EXCEPT !.object = IF @ \in {"Deployment", "HPA"} THEN Unset ELSE @]
      OBVIOUS
    <2>3. /\ IsIntent(z) /\ z.name = y.name /\ z.params = y.params
          /\ z.object = IF y.object \in {"Deployment", "HPA"} THEN Unset ELSE y.object
      BY <2>2, SetObject DEF IsIntent
    <2>4. a = Filled(z, "hpa", "HorizontalPodAutoscaler", Unset, known)
      BY <1>1, <1>2, <1>3, <2>1, <2>2 DEF NormalizeHPA
    <2>5. /\ a.object = Or(z.object, "HorizontalPodAutoscaler") /\ a.name = Or(y.name, Unset)
          /\ a.params = y.params ++ known
      BY <2>3, <2>4, FilledIs
    <2>6. a.object \notin {"Deployment", "HPA"} /\ Or(a.object, "HorizontalPodAutoscaler") = a.object
      BY <2>3, <2>5 DEF Or, Unset
    <2>7. a.name = y.name
      BY <2>5 DEF Or
    <2>8. Param(a, "target", a.name) = t /\ DOMAIN known \subseteq DOMAIN a.params
      <3>1. PICK p : p = y.params
        OBVIOUS
      <3>2. PICK q : q = p ++ known
        OBVIOUS
      <3>3. /\ DOMAIN q = DOMAIN p \cup DOMAIN known
            /\ \A k \in DOMAIN p : q[k] = p[k]
            /\ \A k \in DOMAIN known \ DOMAIN p : q[k] = known[k]
        BY ZenonT(60), <3>2, PlusIs
      <3>4. t = IF "target" \in DOMAIN p THEN p["target"] ELSE y.name
        BY <1>2, <3>1 DEF Param
      <3>5. CASE t # Unset
        <4>1. DOMAIN known = {"target", "hpaName"} /\ known["target"] = t
          BY <1>3, <3>5 DEF If
        <4>2. "target" \in DOMAIN q /\ q["target"] = t
          BY <3>3, <3>4, <4>1
        <4>3. QED
          BY <2>5, <3>1, <3>2, <3>3, <4>2 DEF Param
      <3>6. CASE t = Unset
        <4>1. DOMAIN known = {}
          BY <1>3, <3>6 DEF If, None
        <4>2. "target" \in DOMAIN q <=> "target" \in DOMAIN p
          BY <3>3, <4>1
        <4>3. (IF "target" \in DOMAIN q THEN q["target"] ELSE y.name) = t
          BY <3>3, <3>4, <4>2
        <4>4. QED
          BY <2>5, <2>7, <3>2, <3>1, <3>3, <4>1, <4>3 DEF Param
      <3>7. QED
        BY <3>5, <3>6
    <2>9. IsIntent(b) /\ b.kind = "hpa" /\ b.object = a.object /\ b.name = a.name /\ b.params = a.params
      BY DEF Same, Alter
    <2>10. Param(b, "target", b.name) = t
      BY <2>8, <2>9 DEF Param
    <2>11. [b EXCEPT !.object = IF @ \in {"Deployment", "HPA"} THEN Unset ELSE @] = b
      BY <2>6, <2>9 DEF IsIntent
    <2>12. Or(b.name, Unset) = b.name
      BY DEF Or
    <2>13. Filled(b, "hpa", "HorizontalPodAutoscaler", Unset, known) = b
      BY <2>6, <2>8, <2>9, <2>12, FilledSame
    <2>14. Claims(b, prompt, "hpa", from)
      BY <1>5, <2>9 DEF Claims
    <2>15. QED
      BY <1>1, <1>3, <2>10, <2>11, <2>13, <2>14 DEF NormalizeHPA
  <1>6. QED
    BY <1>4, <1>5

LEMMA KEDATwice ==
    ASSUME NEW prompt, NEW y, IsIntent(y), NEW a, a = NormalizeKEDA(y, prompt), a.kind = "keda",
           NEW b, Same(b, a)
    PROVE  Twin(NormalizeKEDA(b, prompt), a) /\ NormalizeKEDA(b, prompt).ctx = b.ctx
  <1>1. PICK from, known :
            /\ from = {"scale", "deploy", "unknown", "get"}
            /\ known = [trigger |-> IF {"redis", "queue"} \cap prompt.words # {} THEN "redis"
                                    ELSE IF {"cron", "idle"} \cap prompt.words # {} THEN "cron" ELSE "cpu"]
                       ++ If("to-zero" \in prompt.words, [minReplicas |-> 0])
    OBVIOUS
  <1>2. CASE ~LooksLike(prompt, "keda")
    <2>1. NormalizeKEDA(b, prompt) = b
      BY <1>2 DEF NormalizeKEDA, Claims
    <2>2. QED
      BY <2>1 DEF Same, Twin
  <1>3. CASE LooksLike(prompt, "keda")
    <2>1. Claims(y, prompt, "keda", from)
      BY <1>1, <1>3, KEDANormal DEF Normal, Claims
    <2>2. PICK more : more = If(y.name # Unset, [target |-> y.name])
      OBVIOUS
    <2>3. PICK added : added = known ++ more
      OBVIOUS
    <2>4. a = Filled(y, "keda", "ScaledObject", "new-scaler", added)
      BY <1>1, <2>1, <2>2, <2>3 DEF NormalizeKEDA
    <2>5. /\ a.object = Or(y.object, "ScaledObject") /\ a.name = Or(y.name, "new-scaler")
          /\ a.params = y.params ++ added
      BY <2>4, FilledIs
    <2>6. DOMAIN known \subseteq DOMAIN a.params
      <3>1. PICK p : p = y.params
        OBVIOUS
      <3>2. DOMAIN (p ++ added) = DOMAIN p \cup DOMAIN added
        BY PlusIs
      <3>3. DOMAIN added = DOMAIN known \cup DOMAIN more
        BY <2>3, PlusIs
      <3>4. QED
        BY <2>5, <3>1, <3>2, <3>3
    <2>7. IsIntent(b) /\ b.kind = "keda" /\ b.object = a.object /\ b.name = a.name /\ b.params = a.params
      BY DEF Same, Alter
    <2>8. a.name # Unset
      BY <2>5 DEF Or, Unset
    <2>9. PICK t : t = [target |-> a.name]
      OBVIOUS
    <2>10. PICK again : again = known ++ t
      OBVIOUS
    <2>11. PICK v : v = Filled(b, "keda", "ScaledObject", "new-scaler", again)
      OBVIOUS
    <2>12. Claims(b, prompt, "keda", from)
      BY <1>3, <2>7 DEF Claims
    <2>13. v = NormalizeKEDA(b, prompt)
      BY <1>1, <2>7, <2>8, <2>9, <2>10, <2>11, <2>12 DEF NormalizeKEDA, If
    <2>14. /\ IsIntent(v) /\ v.kind = "keda" /\ v.ns = b.ns /\ v.ctx = b.ctx
           /\ v.object = Or(b.object, "ScaledObject") /\ v.name = Or(b.name, "new-scaler")
           /\ v.params = b.params ++ again
      BY <2>7, <2>11, FilledIs
    <2>15. v.object = a.object /\ v.name = a.name
      BY <2>5, <2>7, <2>14, OrTwice
    <2>16. v.params = a.params ++ t
      <3>1. PICK p : p = a.params
        OBVIOUS
      <3>2. DOMAIN known \subseteq DOMAIN p
        BY <2>6, <3>1
      <3>3. PICK q, r : q = p ++ again /\ r = p ++ t
        OBVIOUS
      <3>4. /\ IsFun(q) /\ DOMAIN q = DOMAIN p \cup DOMAIN again
            /\ \A k \in DOMAIN p : q[k] = p[k]
            /\ \A k \in DOMAIN again \ DOMAIN p : q[k] = again[k]
        BY ZenonT(60), <3>3, PlusIs
      <3>5. /\ IsFun(r) /\ DOMAIN r = DOMAIN p \cup DOMAIN t
            /\ \A k \in DOMAIN p : r[k] = p[k]
            /\ \A k \in DOMAIN t \ DOMAIN p : r[k] = t[k]
        BY ZenonT(60), <3>3, PlusIs
      <3>6. /\ DOMAIN again = DOMAIN known \cup DOMAIN t
            /\ \A k \in DOMAIN t \ DOMAIN known : again[k] = t[k]
        BY ZenonT(60), <2>10, PlusIs
      <3>7. q = r
        <4>1. DOMAIN q = DOMAIN r
          BY <3>2, <3>4, <3>5, <3>6
        <4>2. \A k \in DOMAIN q : q[k] = r[k]
          BY <3>2, <3>4, <3>5, <3>6
        <4>3. QED
          BY <3>4, <3>5, <4>1, <4>2, SameFun
      <3>8. QED
        BY <2>7, <2>14, <3>1, <3>3, <3>7
    <2>17. Twin(v, a)
      BY <2>7, <2>9, <2>14, <2>15, <2>16 DEF Twin, Alter, Target, Same
    <2>18. QED
      BY <2>13, <2>14, <2>17
  <1>4. QED
    BY <1>2, <1>3

\* For a second look, what matters of the parameters is which of them are set:
\* their values may have been spelled out in between, and so may the object.
LEMMA GitOpsTwice ==
    ASSUME NEW prompt, NEW y, IsIntent(y), NEW a, a = NormalizeGitOps(y, prompt), a.kind = "gitops",
           NEW b, IsIntent(b), b.kind = "gitops", b.name = a.name, b.object = a.object \/ b.object # Unset,
           DOMAIN b.params = DOMAIN a.params
    PROVE  NormalizeGitOps(b, prompt) = b
  <1>1. PICK from, action, named :
            /\ from = {"get", "describe", "explain", "rollback", "unknown", "deploy"}
            /\ action = CASE "promote" \in prompt.words -> "promote"
                          [] "promote" \notin prompt.words /\ "rollback" \in prompt.words -> "rollback"
                          [] OTHER -> IF LooksLikeGitOpsMutate(prompt) THEN "sync" ELSE "status"
            /\ named = IF "flux" \in prompt.words THEN "flux"
                       ELSE IF "argocd" \in prompt.words THEN "argocd" ELSE "auto"
    OBVIOUS
  <1>2. CASE ~LooksLike(prompt, "gitops")
    BY <1>2 DEF NormalizeGitOps, Claims
  <1>3. CASE LooksLike(prompt, "gitops")
    <2>1. Claims(y, prompt, "gitops", from)
      BY <1>1, <1>3, GitOpsNormal DEF Normal, Claims
    <2>2. PICK engine, object, known :
            /\ engine = Param(y, "engine", named)
            /\ object = IF engine = "flux" THEN "Kustomization" ELSE "Application"
            /\ known = [action |-> action, engine |-> engine]
      OBVIOUS
    <2>3. a = Filled(y, "gitops", object, Unset, known)
      BY <1>1, <2>1, <2>2 DEF NormalizeGitOps
    <2>4. a.object = Or(y.object, object) /\ a.params = y.params ++ known
      BY <2>3, FilledIs
    <2>5. {"action", "engine"} \subseteq DOMAIN a.params
      <3>1. PICK p : p = y.params
        OBVIOUS
      <3>2. DOMAIN (p ++ known) = DOMAIN p \cup DOMAIN known
        BY PlusIs
      <3>3. DOMAIN known = {"action", "engine"}
        BY <2>2
      <3>4. QED
        BY <2>4, <3>1, <3>2, <3>3
    <2>6. a.object # Unset
      BY <2>2, <2>4 DEF Or, Unset
    <2>7. PICK e, o, k :
            /\ e = Param(b, "engine", named)
            /\ o = IF e = "flux" THEN "Kustomization" ELSE "Application"
            /\ k = [action |-> action, engine |-> e]
      OBVIOUS
    <2>8. DOMAIN k \subseteq DOMAIN b.params
      BY <2>5, <2>7
    <2>9. Or(b.object, o) = b.object /\ Or(b.name, Unset) = b.name
      BY <2>6 DEF Or
    <2>10. Filled(b, "gitops", o, Unset, k) = b
      BY <2>8, <2>9, FilledSame
    <2>11. Claims(b, prompt, "gitops", from)
      BY <1>3 DEF Claims
    <2>12. QED
      BY <1>1, <2>7, <2>10, <2>11 DEF NormalizeGitOps
  <1>4. QED
    BY <1>2, <1>3

\* A mutation that was prepared for a prompt is prepared alike when it comes
\* back with the same prompt, whatever context it comes back from.
LEMMA VerbTwice ==
    ASSUME NEW raw, IsIntent(raw), NEW prompt, NEW a, a = NormalizeVerb(raw, prompt), a.kind \in Mutating,
           NEW b, Same(b, a), NEW v, v = NormalizeVerb(b, prompt)
    PROVE  Twin(v, a) /\ v.ctx = b.ctx
  <1>1. IsIntent(b) /\ b.kind = a.kind
    BY DEF Same, Alter
  <1>2. v = b => Twin(v, a) /\ v.ctx = b.ctx
    BY DEF Same, Twin
  <1>3. CASE a.kind = "deploy"
    BY <1>1, <1>2, <1>3, DeploySettles, DeployAgain
  <1>4. CASE a.kind = "upgrade"
    BY <1>1, <1>2, <1>4, UpgradeSettles, UpgradeAgain
  <1>5. CASE a.kind = "scale"
    BY <1>1, <1>2, <1>5, ScaleSettles, ScaleAgain
  <1>6. CASE a.kind = "rollback"
    BY <1>1, <1>2, <1>6, RollbackSettles, RollbackAgain
  <1>7. CASE a.kind = "delete"
    BY <1>1, <1>2, <1>7, DeleteSettles, DeleteAgain
  <1>8. CASE a.kind = "install"
    <2>1. v = NormalizeInstall(b, prompt)
      BY <1>1, <1>8, InstallSettles, InstallAgain
    <2>2. QED
      BY <1>1, <1>2, <1>8, <2>1 DEF NormalizeInstall
  <1>9. CASE a.kind = "workflow"
    <2>1. v = NormalizeWorkflow(b, prompt)
      BY <1>1, <1>9, WorkflowSettles, WorkflowAgain
    <2>2. PICK y : IsIntent(y) /\ a = NormalizeWorkflow(y, prompt)
      BY <1>9, WorkflowSettles
    <2>3. QED
      BY <1>2, <1>9, <2>1, <2>2, WorkflowTwice
  <1>10. CASE a.kind = "tekton"
    <2>1. v = NormalizeTekton(b, prompt)
      BY <1>1, <1>10, TektonSettles, TektonAgain
    <2>2. PICK y : IsIntent(y) /\ a = NormalizeTekton(y, prompt)
      BY <1>10, TektonSettles
    <2>3. QED
      BY <1>2, <1>10, <2>1, <2>2, TektonTwice
  <1>11. CASE a.kind = "hpa"
    <2>1. v = NormalizeHPA(b, prompt)
      BY <1>1, <1>11, HPASettles, HPAAgain
    <2>2. PICK y : IsIntent(y) /\ a = NormalizeHPA(y, prompt)
      BY <1>11, HPASettles
    <2>3. QED
      BY <1>2, <1>11, <2>1, <2>2, HPATwice
  <1>12. CASE a.kind = "crossplane"
    <2>1. v = NormalizeCrossplane(b, prompt)
      BY <1>1, <1>12, CrossplaneSettles, CrossplaneAgain
    <2>2. PICK y : IsIntent(y) /\ a = NormalizeCrossplane(y, prompt)
      BY <1>12, CrossplaneSettles
    <2>3. QED
      BY <1>2, <1>12, <2>1, <2>2, CrossplaneTwice
  <1>13. CASE a.kind = "keda"
    <2>1. v = NormalizeKEDA(b, prompt)
      BY <1>1, <1>13, KEDASettles, KEDAAgain
    <2>2. PICK y : IsIntent(y) /\ a = NormalizeKEDA(y, prompt)
      BY <1>13, KEDASettles
    <2>3. QED
      BY <1>13, <2>1, <2>2, KEDATwice
  <1>14. QED
    BY <1>3, <1>4, <1>5, <1>6, <1>7, <1>8, <1>9, <1>10, <1>11, <1>12, <1>13 DEF Mutating

LEMMA GitOpsVerbTwice ==
    ASSUME NEW raw, IsIntent(raw), NEW prompt, NEW a, a = NormalizeVerb(raw, prompt), a.kind = "gitops",
           NEW b, IsIntent(b), b.kind = "gitops", b.name = a.name, b.object = a.object \/ b.object # Unset,
           DOMAIN b.params = DOMAIN a.params
    PROVE  NormalizeVerb(b, prompt) = b
  <1>1. ~LooksLike(prompt, "learn") /\ ~LooksLike(prompt, "drift")
    BY GitOpsSettles
  <1>2. NormalizeVerb(b, prompt) = NormalizeGitOps(b, prompt)
    BY <1>1, GitOpsAgain
  <1>3. PICK y : IsIntent(y) /\ a = NormalizeGitOps(y, prompt)
    BY GitOpsSettles
  <1>4. QED
    BY <1>2, <1>3, GitOpsTwice

LEMMA ScopedAgain ==
    ASSUME NEW a, IsIntent(a), a.kind \in ExtractKinds, a.ns # Unset, a.ctx # Unset,
           NEW prompt, NEW prefs, prefs.forceNs => a.ns = prefs.ns,
           NEW b, b = ApplyScope(ParseStructured(a), prompt, prefs)
    PROVE  Same(b, a) /\ b.ctx = (IF prefs.forceCtx THEN prefs.ctx ELSE a.ctx)
  <1>1. /\ IsIntent(b) /\ b.kind = a.kind /\ b.name = a.name /\ b.object = a.object /\ b.params = a.params
        /\ b.ns = (IF prefs.forceNs THEN prefs.ns
                   ELSE Or(a.ns, Or(prompt.ns, Or(prefs.ns, "default"))))
        /\ b.ctx = (IF prefs.forceCtx THEN prefs.ctx ELSE Or(a.ctx, Or(prompt.ctx, prefs.ctx)))
    BY Scoped
  <1>2. QED
    BY <1>1 DEF Same, Alter, Or

\* A route prepares its steps without the scope of roast, everyone else with it.
Scopes == {ScopedKinds, ScopedKinds \cup {"roast"}}

LEMMA FirstPrepared ==
    ASSUME NEW raw, IsIntent(raw), NEW prompt, NEW prefs, IsPrefs(prefs),
           NEW kinds, kinds \in Scopes, NEW a, a = Prepared(raw, prompt, prefs, kinds)
    PROVE  /\ IsIntent(a) /\ a.kind \in ExtractKinds /\ a.ctx # Unset
           /\ prefs.forceNs => a.ns = prefs.ns
           /\ prefs.forceCtx => a.ctx = prefs.ctx
  <1>1. kinds \in {ScopedKinds, ScopedKinds \cup {"roast"}}
    BY DEF Scopes
  <1>2. IsIntent(a) /\ a.kind \in ExtractKinds /\ (prefs.forceCtx => a.ctx = prefs.ctx)
    BY ZenonT(60), <1>1, PreparedIs
  <1>3. a.ctx # Unset /\ (prefs.forceNs => a.ns = prefs.ns)
    BY <1>1, PreparedPlace
  <1>4. QED
    BY <1>2, <1>3

\* Prepared again, an intent stays in its context unless it is sent elsewhere.
Located(v, prefs, a) == v.ctx = (IF prefs.forceCtx THEN prefs.ctx ELSE a.ctx)

\* What preparing an intent again with preferences that may send it to another
\* context makes of it.
LEMMA PreparedAgain ==
    ASSUME NEW raw, IsIntent(raw), NEW prompt, NEW prefs, IsPrefs(prefs),
           NEW kinds, kinds \in Scopes, NEW a, a = Prepared(raw, prompt, prefs, kinds), a.kind \in Mutating,
           NEW other, IsPrefs(other), other.forceNs = prefs.forceNs, prefs.forceNs => other.ns = prefs.ns,
           NEW v, v = Prepared(a, prompt, other, ScopedKinds \cup {"roast"})
    PROVE  /\ IsIntent(a) /\ Twin(v, a)
           /\ Located(v, other, a)
  <1>1. PICK in : in = ApplyScope(ParseStructured(raw), prompt, prefs)
    OBVIOUS
  <1>2. IsIntent(in)
    BY <1>1, Scoped
  <1>3. kinds \in {ScopedKinds, ScopedKinds \cup {"roast"}}
    BY DEF Scopes
  <1>4. /\ IsIntent(a) /\ a.kind \in ExtractKinds /\ a.ctx # Unset
        /\ prefs.forceNs => a.ns = prefs.ns
    BY FirstPrepared
  <1>5. a = NormalizeVerb(in, prompt) /\ a.ns # Unset
    BY <1>1, <1>3, PreparedMutation DEF IsPrefs, Or, Unset
  <1>6. PICK b : b = ApplyScope(ParseStructured(a), prompt, other)
    OBVIOUS
  <1>7. Same(b, a) /\ b.ctx = (IF other.forceCtx THEN other.ctx ELSE a.ctx)
    BY <1>4, <1>5, <1>6, ScopedAgain
  <1>8. PICK w : w = NormalizeVerb(b, prompt)
    OBVIOUS
  <1>9. Twin(w, a) /\ w.ctx = b.ctx
    BY <1>2, <1>5, <1>7, <1>8, VerbTwice
  <1>10. v = ApplyReportScope(w, prompt, other, ScopedKinds \cup {"roast"})
    BY <1>6, <1>8 DEF Prepared
  <1>11. w.kind \notin ScopedKinds \cup {"roast"}
    BY <1>9 DEF Twin, Alter, Mutating, ScopedKinds
  <1>12. v = w
    BY <1>10, <1>11 DEF ApplyReportScope
  <1>13. QED
    BY <1>4, <1>7, <1>9, <1>12 DEF Located

\* A plan may name the object of a GitOps intent, and change what it does.
Restated(b, a) ==
    /\ IsIntent(b) /\ b.kind = a.kind /\ b.name = a.name /\ b.ns = a.ns /\ b.ctx = a.ctx
    /\ b.object = a.object \/ b.object # Unset
    /\ DOMAIN b.params = DOMAIN a.params

LEMMA GitOpsPreparedAgain ==
    ASSUME NEW raw, IsIntent(raw), NEW prompt, NEW prefs, IsPrefs(prefs),
           NEW kinds, kinds \in Scopes, NEW a, a = Prepared(raw, prompt, prefs, kinds), a.kind = "gitops",
           NEW b, Restated(b, a),
           NEW other, IsPrefs(other), other.forceNs = prefs.forceNs, prefs.forceNs => other.ns = prefs.ns,
           NEW v, v = Prepared(b, prompt, other, ScopedKinds \cup {"roast"})
    PROVE  /\ Same(v, b)
           /\ Located(v, other, a)
  <1>1. PICK in : in = ApplyScope(ParseStructured(raw), prompt, prefs)
    OBVIOUS
  <1>2. IsIntent(in)
    BY <1>1, Scoped
  <1>3. kinds \in {ScopedKinds, ScopedKinds \cup {"roast"}}
    BY DEF Scopes
  <1>4. /\ IsIntent(a) /\ a.ctx # Unset
        /\ prefs.forceNs => a.ns = prefs.ns
    BY FirstPrepared
  <1>5. a = NormalizeVerb(in, prompt) /\ a.ns # Unset
    BY <1>1, <1>3, PreparedMutation DEF IsPrefs, Or, Unset
  <1>6. /\ IsIntent(b) /\ b.kind = "gitops" /\ b.name = a.name /\ b.ns = a.ns /\ b.ctx = a.ctx
        /\ b.object = a.object \/ b.object # Unset
        /\ DOMAIN b.params = DOMAIN a.params
    BY DEF Restated
  <1>7. PICK c : c = ApplyScope(ParseStructured(b), prompt, other)
    OBVIOUS
  <1>8. b.kind \in ExtractKinds
    BY <1>6 DEF ExtractKinds
  <1>9. Same(c, b) /\ c.ctx = (IF other.forceCtx THEN other.ctx ELSE a.ctx)
    BY <1>4, <1>5, <1>6, <1>7, <1>8, ScopedAgain
  <1>10. NormalizeVerb(c, prompt) = c
    BY <1>2, <1>5, <1>6, <1>9, GitOpsVerbTwice DEF Same, Alter
  <1>11. v = ApplyReportScope(c, prompt, other, ScopedKinds \cup {"roast"})
    BY <1>7, <1>10 DEF Prepared
  <1>12. c.kind \notin ScopedKinds \cup {"roast"}
    BY <1>6, <1>9 DEF Same, Alter, ScopedKinds
  <1>13. v = c
    BY <1>11, <1>12 DEF ApplyReportScope
  <1>14. QED
    BY <1>9, <1>13 DEF Located

-------------------------------------------------------------------------------

(***************************************************************************)
(* Planning it again: what is shown and agreed to is what a step of a      *)
(* route, or a context of a fan-out, carries out.                          *)
(***************************************************************************)

LEMMA MutatesIs ==
    ASSUME NEW in, NEW actions
    PROVE  /\ Mutates(in, actions) # NoPlan /\ Mutates(in, actions).approval = TRUE
           /\ Mutates(in, actions).actions = actions /\ Mutates(in, actions).intent = in
  <1>1. PICK p : p = [intent |-> in, approval |-> TRUE, actions |-> actions]
    OBVIOUS
  <1>2. "intent" \in DOMAIN p /\ "intent" \notin DOMAIN [error |-> "none"]
    BY <1>1
  <1>3. p # NoPlan
    BY <1>2 DEF NoPlan
  <1>4. p.approval = TRUE /\ p.actions = actions /\ p.intent = in
    BY <1>1
  <1>5. p = Mutates(in, actions)
    BY <1>1 DEF Mutates
  <1>6. QED
    BY <1>3, <1>4, <1>5

\* The mutations of two intents, the same but for the contexts that Helm's name.
SameActions(t, s) ==
    /\ DOMAIN t = DOMAIN s
    /\ \A i \in DOMAIN s : [t[i] EXCEPT !.context = Unset] = [s[i] EXCEPT !.context = Unset]
BuiltAlike(v, a) ==
    \E s, t : /\ Build(a) = Mutates(a, s) /\ Build(v) = Mutates(v, t)
             /\ SameActions(t, s) /\ (v.ctx = a.ctx => t = s)

LEMMA ScaleAlike ==
    ASSUME NEW a, a.kind = "scale", NEW v, Same(v, a), Build(a) # NoPlan
    PROVE  BuiltAlike(v, a)
  <1>1. /\ v.kind = "scale" /\ v.name = a.name /\ v.ns = a.ns /\ v.object = a.object /\ v.params = a.params
    BY DEF Same, Alter
  <1>2. Build(a) = buildScale(a, Or(a.ns, "default")) /\ Build(v) = buildScale(v, Or(a.ns, "default"))
    BY <1>1 DEF Build
  <1>3. \E s : Build(a) = Mutates(a, s) /\ Build(v) = Mutates(v, s)
    BY <1>1, <1>2 DEF buildScale, Given, Has, Param
  <1>4. QED
    BY <1>3 DEF BuiltAlike, SameActions

LEMMA RollbackAlike ==
    ASSUME NEW a, a.kind = "rollback", NEW v, Same(v, a), Build(a) # NoPlan
    PROVE  BuiltAlike(v, a)
  <1>1. /\ v.kind = "rollback" /\ v.name = a.name /\ v.ns = a.ns /\ v.object = a.object /\ v.params = a.params
    BY DEF Same, Alter
  <1>2. Build(a) = buildRollback(a, Or(a.ns, "default")) /\ Build(v) = buildRollback(v, Or(a.ns, "default"))
    BY <1>1 DEF Build
  <1>3. \E s : Build(a) = Mutates(a, s) /\ Build(v) = Mutates(v, s)
    BY <1>1, <1>2 DEF buildRollback, Given, Has, Param
  <1>4. QED
    BY <1>3 DEF BuiltAlike, SameActions

LEMMA DeleteAlike ==
    ASSUME NEW a, a.kind = "delete", NEW v, Same(v, a), Build(a) # NoPlan
    PROVE  BuiltAlike(v, a)
  <1>1. /\ v.kind = "delete" /\ v.name = a.name /\ v.ns = a.ns /\ v.object = a.object /\ v.params = a.params
    BY DEF Same, Alter
  <1>2. Build(a) = buildDelete(a, Or(a.ns, "default")) /\ Build(v) = buildDelete(v, Or(a.ns, "default"))
    BY <1>1 DEF Build
  <1>3. \E s : Build(a) = Mutates(a, s) /\ Build(v) = Mutates(v, s)
    BY <1>1, <1>2 DEF buildDelete, Given, Has, Param
  <1>4. QED
    BY <1>3 DEF BuiltAlike, SameActions

LEMMA WorkflowAlike ==
    ASSUME NEW a, a.kind = "workflow", NEW v, Same(v, a), Build(a) # NoPlan
    PROVE  BuiltAlike(v, a)
  <1>1. /\ v.kind = "workflow" /\ v.name = a.name /\ v.ns = a.ns /\ v.object = a.object /\ v.params = a.params
    BY DEF Same, Alter
  <1>2. Build(a) = buildWorkflow(a, Or(a.ns, "default")) /\ Build(v) = buildWorkflow(v, Or(a.ns, "default"))
    BY <1>1 DEF Build
  <1>3. \E s : Build(a) = Mutates(a, s) /\ Build(v) = Mutates(v, s)
    BY <1>1, <1>2 DEF buildWorkflow, Given, Has, Param
  <1>4. QED
    BY <1>3 DEF BuiltAlike, SameActions

LEMMA TektonAlike ==
    ASSUME NEW a, a.kind = "tekton", NEW v, Same(v, a), Build(a) # NoPlan
    PROVE  BuiltAlike(v, a)
  <1>1. /\ v.kind = "tekton" /\ v.name = a.name /\ v.ns = a.ns /\ v.object = a.object /\ v.params = a.params
    BY DEF Same, Alter
  <1>2. Build(a) = buildTekton(a, Or(a.ns, "default")) /\ Build(v) = buildTekton(v, Or(a.ns, "default"))
    BY <1>1 DEF Build
  <1>3. \E s : Build(a) = Mutates(a, s) /\ Build(v) = Mutates(v, s)
    BY <1>1, <1>2 DEF buildTekton, Given, Has, Param
  <1>4. QED
    BY <1>3 DEF BuiltAlike, SameActions

LEMMA HPAAlike ==
    ASSUME NEW a, a.kind = "hpa", NEW v, Same(v, a), Build(a) # NoPlan
    PROVE  BuiltAlike(v, a)
  <1>1. /\ v.kind = "hpa" /\ v.name = a.name /\ v.ns = a.ns /\ v.object = a.object /\ v.params = a.params
    BY DEF Same, Alter
  <1>2. Build(a) = buildHPA(a, Or(a.ns, "default")) /\ Build(v) = buildHPA(v, Or(a.ns, "default"))
    BY <1>1 DEF Build
  <1>3. \E s : Build(a) = Mutates(a, s) /\ Build(v) = Mutates(v, s)
    BY <1>1, <1>2 DEF buildHPA, Given, Has, Param
  <1>4. QED
    BY <1>3 DEF BuiltAlike, SameActions

LEMMA CrossplaneAlike ==
    ASSUME NEW a, a.kind = "crossplane", NEW v, Same(v, a), Build(a) # NoPlan
    PROVE  BuiltAlike(v, a)
  <1>1. /\ v.kind = "crossplane" /\ v.name = a.name /\ v.ns = a.ns /\ v.object = a.object /\ v.params = a.params
    BY DEF Same, Alter
  <1>2. Build(a) = buildCrossplane(a, Or(a.ns, "default")) /\ Build(v) = buildCrossplane(v, Or(a.ns, "default"))
    BY <1>1 DEF Build
  <1>3. \E s : Build(a) = Mutates(a, s) /\ Build(v) = Mutates(v, s)
    BY <1>1, <1>2 DEF buildCrossplane, Given, Has, Param
  <1>4. QED
    BY <1>3 DEF BuiltAlike, SameActions

LEMMA DeployAlike ==
    ASSUME NEW a, a.kind = "deploy", NEW v, Same(v, a), Build(a) # NoPlan
    PROVE  BuiltAlike(v, a)
  <1>1. /\ v.kind = "deploy" /\ v.name = a.name /\ v.ns = a.ns /\ v.object = a.object /\ v.params = a.params
    BY DEF Same, Alter
  <1>2. Build(a) = buildDeploy(a, Or(a.ns, "default")) /\ Build(v) = buildDeploy(v, Or(a.ns, "default"))
    BY <1>1 DEF Build
  <1>3. \E s : Build(a) = Mutates(a, s) /\ Build(v) = Mutates(v, s)
    BY <1>1, <1>2 DEF buildDeploy, Given, Has, Param
  <1>4. QED
    BY <1>3 DEF BuiltAlike, SameActions

LEMMA TargetIs ==
    ASSUME NEW a, NEW v, v.params = a.params ++ Target(a)
    PROVE  /\ \A key, d : key # "target" => Param(v, key, d) = Param(a, key, d)
           /\ \A d : Param(v, "target", d) = Param(a, "target", a.name)
  <1>1. PICK p, t, q : p = a.params /\ t = Target(a) /\ q = v.params
    OBVIOUS
  <1>2. DOMAIN t = {"target"} /\ t["target"] = a.name
    BY <1>1 DEF Target
  <1>3. q = [k \in DOMAIN p \cup DOMAIN t |-> IF k \in DOMAIN p THEN p[k] ELSE t[k]]
    BY <1>1 DEF ++
  <1>4. DOMAIN q = DOMAIN p \cup {"target"}
    BY <1>2, <1>3
  <1>5. /\ \A k \in DOMAIN p : q[k] = p[k]
        /\ "target" \notin DOMAIN p => q["target"] = a.name
    BY <1>2, <1>3
  <1>6. QED
    BY <1>1, <1>4, <1>5 DEF Param

LEMMA KEDAAlike ==
    ASSUME NEW a, a.kind = "keda", NEW v, Twin(v, a), Build(a) # NoPlan
    PROVE  BuiltAlike(v, a)
  <1>1. /\ v.kind = "keda" /\ v.name = a.name /\ v.ns = a.ns
        /\ v.params = a.params \/ v.params = a.params ++ Target(a)
    BY DEF Twin, Alter
  <1>2. Build(a) = buildKEDA(a, Or(a.ns, "default")) /\ Build(v) = buildKEDA(v, Or(a.ns, "default"))
    BY <1>1 DEF Build
  <1>3. /\ Param(v, "target", v.name) = Param(a, "target", a.name)
        /\ Param(v, "trigger", "cpu") = Param(a, "trigger", "cpu")
        /\ \A d : Param(v, "scaledObject", d) = Param(a, "scaledObject", d)
    <2>1. CASE v.params = a.params
      BY <1>1, <2>1 DEF Param
    <2>2. CASE v.params = a.params ++ Target(a)
      <3>1. /\ \A key, d : key # "target" => Param(v, key, d) = Param(a, key, d)
            /\ \A d : Param(v, "target", d) = Param(a, "target", a.name)
        BY <2>2, TargetIs
      <3>2. QED
        BY <3>1
    <2>3. QED
      BY <1>1, <2>1, <2>2
  <1>4. \E s : Build(a) = Mutates(a, s) /\ Build(v) = Mutates(v, s)
    BY <1>1, <1>2, <1>3 DEF buildKEDA, Given
  <1>5. QED
    BY <1>4 DEF BuiltAlike, SameActions

LEMMA HelmActAlike ==
    ASSUME NEW op, NEW object, NEW name, NEW ns, NEW here, NEW there
    PROVE  [HelmAct(op, object, name, ns, here) EXCEPT !.context = Unset]
             = [HelmAct(op, object, name, ns, there) EXCEPT !.context = Unset]
  BY DEF HelmAct, Act

LEMMA InstallAlike ==
    ASSUME NEW a, a.kind = "install", NEW v, Same(v, a), Build(a) # NoPlan
    PROVE  BuiltAlike(v, a)
  <1>1. /\ v.kind = "install" /\ v.name = a.name /\ v.ns = a.ns /\ v.object = a.object /\ v.params = a.params
    BY DEF Same, Alter
  <1>2. PICK ns, release : ns = Or(a.ns, "default") /\ release = Param(a, "release", a.name)
    OBVIOUS
  <1>3. PICK r, c, d : /\ r = helmRepoAction(a)
                       /\ c = HelmAct("helm-install", "HelmRelease", release, ns, a.ctx)
                       /\ d = HelmAct("helm-install", "HelmRelease", release, ns, v.ctx)
    OBVIOUS
  <1>4. PICK u : u = [r EXCEPT !.op = "helm-repo-update"]
    OBVIOUS
  <1>5. helmRepoAction(v) = r /\ Param(v, "release", v.name) = release
    BY <1>1, <1>2, <1>3 DEF helmRepoAction, Param
  <1>6. Build(a) = buildInstall(a, ns) /\ Build(v) = buildInstall(v, ns)
    BY <1>1, <1>2 DEF Build
  <1>7. Build(a) = Mutates(a, <<r, c>>) /\ Build(v) = Mutates(v, <<r, d>>)
    BY <1>1, <1>2, <1>3, <1>4, <1>5, <1>6 DEF buildInstall, Given, Has, resolveHelmChart
  <1>8. [d EXCEPT !.context = Unset] = [c EXCEPT !.context = Unset]
    BY <1>3, HelmActAlike
  <1>9. PICK s, t : s = <<r, c>> /\ t = <<r, d>>
    OBVIOUS
  <1>10. SameActions(t, s)
    <2>1. DOMAIN s = 1..2 /\ DOMAIN t = 1..2
      BY <1>9
    <2>2. s[2] = c /\ t[2] = d /\ \A i \in 1..1 : t[i] = s[i]
      BY <1>9
    <2>3. \A i \in 1..2 : i \in 1..1 \/ i = 2
      OBVIOUS
    <2>4. ASSUME NEW i \in 1..2 PROVE [t[i] EXCEPT !.context = Unset] = [s[i] EXCEPT !.context = Unset]
      BY <1>8, <2>2, <2>3
    <2>5. QED
      BY <2>1, <2>4 DEF SameActions
  <1>11. v.ctx = a.ctx => t = s
    BY <1>3, <1>9
  <1>12. QED
    BY <1>7, <1>9, <1>10, <1>11 DEF BuiltAlike

LEMMA UpgradeAlike ==
    ASSUME NEW a, a.kind = "upgrade", NEW v, Same(v, a), Build(a) # NoPlan
    PROVE  BuiltAlike(v, a)
  <1>1. /\ v.kind = "upgrade" /\ v.name = a.name /\ v.ns = a.ns /\ v.object = a.object /\ v.params = a.params
    BY DEF Same, Alter
  <1>2. PICK ns, release : ns = Or(a.ns, "default") /\ release = Param(a, "release", a.name)
    OBVIOUS
  <1>3. PICK r, c, d : /\ r = helmRepoAction(a)
                       /\ c = HelmAct("helm-upgrade", "HelmRelease", release, ns, a.ctx)
                       /\ d = HelmAct("helm-upgrade", "HelmRelease", release, ns, v.ctx)
    OBVIOUS
  <1>4. PICK u : u = [r EXCEPT !.op = "helm-repo-update"]
    OBVIOUS
  <1>5. helmRepoAction(v) = r /\ Param(v, "release", v.name) = release
    BY <1>1, <1>2, <1>3 DEF helmRepoAction, Param
  <1>6. Build(a) = buildUpgrade(a, ns) /\ Build(v) = buildUpgrade(v, ns)
    BY <1>1, <1>2 DEF Build
  <1>7. Build(a) = Mutates(a, <<r, u, c>>) /\ Build(v) = Mutates(v, <<r, u, d>>)
    BY <1>1, <1>2, <1>3, <1>4, <1>5, <1>6 DEF buildUpgrade, Given, Has, resolveHelmChart
  <1>8. [d EXCEPT !.context = Unset] = [c EXCEPT !.context = Unset]
    BY <1>3, HelmActAlike
  <1>9. PICK s, t : s = <<r, u, c>> /\ t = <<r, u, d>>
    OBVIOUS
  <1>10. SameActions(t, s)
    <2>1. DOMAIN s = 1..3 /\ DOMAIN t = 1..3
      BY <1>9
    <2>2. s[3] = c /\ t[3] = d /\ \A i \in 1..2 : t[i] = s[i]
      BY <1>9
    <2>3. \A i \in 1..3 : i \in 1..2 \/ i = 3
      OBVIOUS
    <2>4. ASSUME NEW i \in 1..3 PROVE [t[i] EXCEPT !.context = Unset] = [s[i] EXCEPT !.context = Unset]
      BY <1>8, <2>2, <2>3
    <2>5. QED
      BY <2>1, <2>4 DEF SameActions
  <1>11. v.ctx = a.ctx => t = s
    BY <1>3, <1>9
  <1>12. QED
    BY <1>7, <1>9, <1>10, <1>11 DEF BuiltAlike

LEMMA BuildTwin ==
    ASSUME NEW a, a.kind \in Mutating, NEW v, Twin(v, a), Build(a) # NoPlan
    PROVE  BuiltAlike(v, a)
  <1>1. CASE a.kind = "keda"
    BY <1>1, KEDAAlike
  <1>2. CASE a.kind # "keda"
    <2>1. Same(v, a)
      BY <1>2 DEF Twin, Same
    <2>2. QED
      BY <1>2, <2>1, ScaleAlike, RollbackAlike, DeleteAlike, WorkflowAlike, TektonAlike, HPAAlike,
         CrossplaneAlike, DeployAlike, InstallAlike, UpgradeAlike DEF Mutating
  <1>3. QED
    BY <1>1, <1>2

\* The intent of a plan says sync for reconcile.
Synced(v, a) ==
    /\ IsIntent(v) /\ v.kind = "gitops" /\ v.name = a.name /\ v.ns = a.ns
    /\ Param(v, "engine", "auto") = Param(a, "engine", "auto")
    /\ LET before == Param(a, "action", "status")
       IN  Param(v, "action", "status") \in {before, IF before = "reconcile" THEN "sync" ELSE before}

LEMMA GitOpsAlike ==
    ASSUME NEW a, a.kind = "gitops", NEW v, Synced(v, a), Build(a) # NoPlan, Build(a).approval
    PROVE  \E x, y, s : Build(a) = Mutates(x, s) /\ Build(v) = Mutates(y, s)
  <1>1. PICK action, engine, kind, next :
            /\ action = Param(a, "action", "status") /\ engine = Param(a, "engine", "auto")
            /\ kind = (IF engine = "flux" THEN "Kustomization" ELSE "Application")
            /\ next = Param(v, "action", "status")
    OBVIOUS
  <1>2. PICK ns : ns = Or(a.ns, "default")
    OBVIOUS
  <1>3. PICK s : s = <<Act("gitops-sync", "gitops", kind, a.name, ns)>>
    OBVIOUS
  <1>4. Build(a) = buildGitOps(a, ns) /\ Build(v) = buildGitOps(v, ns)
    BY <1>2 DEF Build, Synced
  <1>5. action \notin {"status", "health", "show", "list"}
    <2>1. SUFFICES ASSUME action \in {"status", "health", "show", "list"} PROVE Build(a).approval = FALSE
      OBVIOUS
    <2>2. \E x, act : Build(a) = Reads(x, act)
      BY <1>1, <1>4, <2>1 DEF buildGitOps
    <2>3. QED
      BY <2>2 DEF Reads
  <1>6. action \in {"sync", "promote", "rollback", "reconcile"} /\ a.name # Unset /\ engine # "auto"
    BY <1>1, <1>4, <1>5 DEF buildGitOps, Given
  <1>7. \E x : Build(a) = Mutates(x, s)
    BY <1>1, <1>3, <1>4, <1>6 DEF buildGitOps, Given
  <1>8. next \in {"sync", "promote", "rollback", "reconcile"} /\ v.name = a.name /\ Param(v, "engine", "auto") = engine
    BY <1>1, <1>6 DEF Synced
  <1>9. \E y : Build(v) = Mutates(y, s)
    BY <1>1, <1>3, <1>4, <1>6, <1>8 DEF buildGitOps, Given
  <1>10. QED
    BY <1>7, <1>9

\* A plan to sync: its intent says sync for reconcile, and names its object.
SyncObject(a) == IF Param(a, "engine", "auto") = "flux" THEN "Kustomization" ELSE "Application"
SyncParams(a) ==
    [k \in DOMAIN a.params |->
        IF k = "action" /\ a.params[k] = "reconcile" THEN "sync" ELSE a.params[k]]

LEMMA SyncIs ==
    ASSUME NEW a, IsIntent(a), a.kind = "gitops", NEW p, p = Build(a), p # NoPlan, p.approval,
           NEW x, x = p.intent
    PROVE  /\ Synced(x, a) /\ x.ctx = a.ctx /\ x.object # Unset /\ DOMAIN x.params = DOMAIN a.params
           /\ x.object = SyncObject(a) /\ x.params = SyncParams(a)
  <1>1. PICK action, kind, ns :
            /\ action = Param(a, "action", "status") /\ ns = Or(a.ns, "default")
            /\ kind = (IF Param(a, "engine", "auto") = "flux" THEN "Kustomization" ELSE "Application")
    OBVIOUS
  <1>2. p = buildGitOps(a, ns)
    BY <1>1 DEF Build
  <1>3. PICK w, q : /\ w = [a EXCEPT !.object = kind]
                    /\ q = [a.params EXCEPT !["action"] = IF @ = "reconcile" THEN "sync" ELSE @]
    OBVIOUS
  <1>4. /\ IsIntent(w) /\ w.kind = "gitops" /\ w.name = a.name /\ w.ns = a.ns /\ w.ctx = a.ctx
        /\ w.object = kind /\ w.params = a.params
    BY <1>3, SetObject
  <1>5. /\ q = [k \in DOMAIN q |-> q[k]] /\ DOMAIN q = DOMAIN a.params
        /\ \A k \in DOMAIN q : k # "action" => q[k] = a.params[k]
        /\ "action" \in DOMAIN q =>
             q["action"] = IF a.params["action"] = "reconcile" THEN "sync" ELSE a.params["action"]
    BY <1>3 DEF IsIntent
  <1>6. PICK y : y = [w EXCEPT !.params = q]
    OBVIOUS
  <1>7. /\ IsIntent(y) /\ y.kind = "gitops" /\ y.name = a.name /\ y.ns = a.ns /\ y.ctx = a.ctx
        /\ y.object = kind /\ y.params = q
    BY <1>4, <1>5, <1>6, SetParams
  <1>8. [a EXCEPT !.object = kind, !.params["action"] = IF @ = "reconcile" THEN "sync" ELSE @] = y
    BY <1>3, <1>6 DEF IsIntent
  <1>9. action \notin {"status", "health", "show", "list"}
    <2>1. SUFFICES ASSUME action \in {"status", "health", "show", "list"} PROVE p.approval = FALSE
      OBVIOUS
    <2>2. \E z, act : p = Reads(z, act)
      BY <1>1, <1>2, <2>1 DEF buildGitOps
    <2>3. QED
      BY <2>2 DEF Reads
  <1>10. \E acts : p = Mutates(y, acts)
    BY <1>1, <1>2, <1>8, <1>9 DEF buildGitOps, Given
  <1>11. x = y
    <2>1. PICK acts : p = Mutates(y, acts)
      BY <1>10
    <2>2. Mutates(y, acts).intent = y
      BY MutatesIs
    <2>3. QED
      BY <2>1, <2>2
  <1>12. Param(y, "engine", "auto") = Param(a, "engine", "auto")
    BY <1>5, <1>7 DEF Param
  <1>13. Param(y, "action", "status") = IF action = "reconcile" THEN "sync" ELSE action
    BY <1>1, <1>5, <1>7 DEF Param
  <1>14. kind = SyncObject(a)
    BY <1>1 DEF SyncObject
  <1>15. q = SyncParams(a)
    BY <1>5 DEF SyncParams
  <1>16. QED
    BY <1>1, <1>5, <1>7, <1>11, <1>12, <1>13, <1>14, <1>15 DEF Synced, Unset

LEMMA ShownAlike ==
    ASSUME NEW p, NEW q, IsExecutionPlan(p), IsExecutionPlan(q), SameActions(q.actions, p.actions)
    PROVE  Shown(q).actions = Shown(p).actions
  <1>1. PICK s, t : s = Shown(p) /\ t = Shown(q)
    OBVIOUS
  <1>2. PICK x, y : x = s.actions /\ y = t.actions
    OBVIOUS
  <1>3. x = [i \in DOMAIN p.actions |-> [p.actions[i] EXCEPT !.context = Unset]]
    BY <1>1, <1>2, ShownIs
  <1>4. y = [i \in DOMAIN q.actions |-> [q.actions[i] EXCEPT !.context = Unset]]
    BY <1>1, <1>2, ShownIs
  <1>5. x = y
    BY <1>3, <1>4 DEF SameActions
  <1>6. QED
    BY <1>1, <1>2, <1>5

LEMMA SameSelf ==
    ASSUME NEW p
    PROVE  SameInStep(p, p)
  BY DEF SameInStep

\* What is not planned as a mutation is not planned as one again, either.
LEMMA ReadAgain ==
    ASSUME NEW raw, IsIntent(raw), NEW prompt, ~({"optimize", "hpa"} \subseteq prompt.says),
           NEW prefs, IsPrefs(prefs), NEW kinds, kinds \in Scopes,
           NEW a, a = Prepared(raw, prompt, prefs, kinds), a.kind \notin Mutating \cup {"gitops"},
           NEW x, IsIntent(x), x.kind = a.kind, NEW other, IsPrefs(other),
           NEW v, v = Prepared(x, prompt, other, ScopedKinds \cup {"roast"})
    PROVE  Build(v) # NoPlan => ~Build(v).approval
  <1>1. PICK in, y : in = ApplyScope(ParseStructured(raw), prompt, prefs) /\ y = NormalizeVerb(in, prompt)
    OBVIOUS
  <1>2. IsIntent(in)
    BY <1>1, Scoped
  <1>3. Kept(y, in, prompt)
    BY <1>1, <1>2, VerbKeeps
  <1>4. a = ApplyReportScope(y, prompt, prefs, kinds)
    BY <1>1 DEF Prepared
  <1>5. IsIntent(a) /\ a.kind = y.kind
    BY <1>3, <1>4, ReportScoped DEF Kept, IsPrefs
  <1>6. a.kind \in ExtractKinds
    BY FirstPrepared
  <1>7. PICK b, z : b = ApplyScope(ParseStructured(x), prompt, other) /\ z = NormalizeVerb(b, prompt)
    OBVIOUS
  <1>8. IsIntent(b) /\ b.kind = a.kind
    BY <1>6, <1>7, Scoped
  <1>9. z.kind \notin Mutating \cup {"gitops"}
    BY <1>1, <1>2, <1>5, <1>7, <1>8, ReadsAgain
  <1>10. Kept(z, b, prompt)
    BY <1>7, <1>8, VerbKeeps
  <1>11. v = ApplyReportScope(z, prompt, other, ScopedKinds \cup {"roast"})
    BY <1>7 DEF Prepared
  <1>12. IsIntent(v) /\ v.kind = z.kind
    BY <1>10, <1>11, ReportScoped DEF Kept, IsPrefs
  <1>13. QED
    BY <1>9, <1>12, BuildBuilt DEF Built

LEMMA ReadAlike ==
    ASSUME NEW raw, IsIntent(raw), NEW prompt, ~({"optimize", "hpa"} \subseteq prompt.says),
           NEW prefs, IsPrefs(prefs), NEW kinds, kinds \in Scopes,
           NEW a, a = Prepared(raw, prompt, prefs, kinds), a.kind \notin Mutating \cup {"gitops"},
           NEW v, v = Prepared(a, prompt, prefs, ScopedKinds \cup {"roast"})
    PROVE  SameInStep(Build(a), Build(v))
  <1>1. IsIntent(a)
    BY FirstPrepared
  <1>2. PICK x : x = a
    OBVIOUS
  <1>3. IsIntent(x) /\ x.kind = a.kind /\ v = Prepared(x, prompt, prefs, ScopedKinds \cup {"roast"})
    BY <1>1, <1>2
  <1>4. Build(v) # NoPlan => ~Build(v).approval
    BY <1>3, ReadAgain
  <1>5. Build(a) # NoPlan => ~Build(a).approval
    BY <1>1, BuildBuilt DEF Built
  <1>6. QED
    BY <1>4, <1>5 DEF SameInStep

LEMMA TwinHere ==
    ASSUME NEW raw, IsIntent(raw), NEW prompt, NEW prefs, IsPrefs(prefs),
           NEW kinds, kinds \in Scopes, NEW a, a = Prepared(raw, prompt, prefs, kinds), a.kind \in Mutating,
           NEW v, v = Prepared(a, prompt, prefs, ScopedKinds \cup {"roast"})
    PROVE  Twin(v, a) /\ v.ctx = a.ctx
  <1>1. Twin(v, a)
    BY PreparedAgain
  <1>2. Located(v, prefs, a)
    BY PreparedAgain
  <1>3. prefs.forceCtx => a.ctx = prefs.ctx
    BY FirstPrepared
  <1>4. QED
    BY <1>1, <1>2, <1>3 DEF Located

LEMMA GitOpsHere ==
    ASSUME NEW raw, IsIntent(raw), NEW prompt, NEW prefs, IsPrefs(prefs),
           NEW kinds, kinds \in Scopes, NEW a, a = Prepared(raw, prompt, prefs, kinds), a.kind = "gitops",
           NEW v, v = Prepared(a, prompt, prefs, ScopedKinds \cup {"roast"})
    PROVE  v = a
  <1>1. /\ IsIntent(a)
        /\ prefs.forceCtx => a.ctx = prefs.ctx
    BY FirstPrepared
  <1>2. Restated(a, a)
    BY <1>1 DEF Restated
  <1>3. Same(v, a)
    <2>1. PICK b : b = a
      OBVIOUS
    <2>2. Restated(b, a) /\ v = Prepared(b, prompt, prefs, ScopedKinds \cup {"roast"})
      BY <1>2, <2>1
    <2>3. Same(v, b)
      BY <2>2, GitOpsPreparedAgain
    <2>4. QED
      BY <2>1, <2>3
  <1>4. Located(v, prefs, a)
    BY <1>2, GitOpsPreparedAgain
  <1>5. v.ctx = a.ctx
    BY <1>1, <1>4 DEF Located
  <1>6. QED
    BY <1>1, <1>3, <1>5, SameIntent DEF Same, Alter

LEMMA TwinPlanned ==
    ASSUME NEW a, IsIntent(a), a.kind \in Mutating, NEW v, Twin(v, a), Build(a) # NoPlan
    PROVE  /\ Build(a).approval /\ Build(a).intent = a
           /\ v.ctx = a.ctx => SameInStep(Build(a), Build(v))
           /\ SameMutation(Build(a), Build(v))
  <1>1. PICK s, t : /\ Build(a) = Mutates(a, s) /\ Build(v) = Mutates(v, t)
                    /\ SameActions(t, s) /\ (v.ctx = a.ctx => t = s)
    BY BuildTwin DEF BuiltAlike
  <1>2. PICK p, q : p = Build(a) /\ q = Build(v)
    OBVIOUS
  <1>3. p = Mutates(a, s) /\ q = Mutates(v, t)
    BY <1>1, <1>2
  <1>4. p # NoPlan /\ p.approval = TRUE /\ p.actions = s /\ p.intent = a
    <2>1. /\ Mutates(a, s) # NoPlan /\ Mutates(a, s).approval = TRUE
          /\ Mutates(a, s).actions = s /\ Mutates(a, s).intent = a
      BY MutatesIs
    <2>2. QED
      BY <1>3, <2>1
  <1>5. q # NoPlan /\ q.approval = TRUE /\ q.actions = t
    <2>1. /\ Mutates(v, t) # NoPlan /\ Mutates(v, t).approval = TRUE
          /\ Mutates(v, t).actions = t /\ Mutates(v, t).intent = v
      BY MutatesIs
    <2>2. QED
      BY <1>3, <2>1
  <1>6. IsExecutionPlan(p)
    BY <1>2, <1>4, BuildBuilt DEF Built
  <1>7. IsExecutionPlan(q)
    BY <1>2, <1>5, BuildBuilt DEF Built, Twin, Alter
  <1>8. Shown(q).actions = Shown(p).actions
    BY <1>1, <1>4, <1>5, <1>6, <1>7, ShownAlike
  <1>9. v.ctx = a.ctx => SameInStep(p, q)
    BY <1>1, <1>4, <1>5 DEF SameInStep
  <1>10. SameMutation(p, q)
    BY <1>5, <1>8 DEF SameMutation
  <1>11. QED
    BY <1>2, <1>4, <1>9, <1>10

LEMMA SyncPlanned ==
    ASSUME NEW a, IsIntent(a), a.kind = "gitops", NEW v, Synced(v, a), Build(a) # NoPlan, Build(a).approval
    PROVE  SameMutation(Build(a), Build(v))
  <1>1. PICK x, y, s : Build(a) = Mutates(x, s) /\ Build(v) = Mutates(y, s)
    BY GitOpsAlike
  <1>2. PICK p, q : p = Build(a) /\ q = Build(v)
    OBVIOUS
  <1>3. p = Mutates(x, s) /\ q = Mutates(y, s)
    BY <1>1, <1>2
  <1>4. p # NoPlan /\ p.actions = s
    <2>1. /\ Mutates(x, s) # NoPlan /\ Mutates(x, s).approval = TRUE
          /\ Mutates(x, s).actions = s /\ Mutates(x, s).intent = x
      BY MutatesIs
    <2>2. QED
      BY <1>3, <2>1
  <1>5. q # NoPlan /\ q.approval = TRUE /\ q.actions = s
    <2>1. /\ Mutates(y, s) # NoPlan /\ Mutates(y, s).approval = TRUE
          /\ Mutates(y, s).actions = s /\ Mutates(y, s).intent = y
      BY MutatesIs
    <2>2. QED
      BY <1>3, <2>1
  <1>6. IsExecutionPlan(p)
    BY <1>2, <1>4, BuildBuilt DEF Built
  <1>7. IsExecutionPlan(q)
    BY <1>2, <1>5, BuildBuilt DEF Built, Synced
  <1>8. SameActions(q.actions, p.actions)
    BY <1>4, <1>5 DEF SameActions
  <1>9. Shown(q).actions = Shown(p).actions
    BY <1>6, <1>7, <1>8, ShownAlike
  <1>10. QED
    BY <1>2, <1>5, <1>9 DEF SameMutation

LEMMA ElsewhereIs ==
    ASSUME NEW s, IsSample(s), NEW e, e = Elsewhere(s)
    PROVE  /\ e.prompt = s.prompt /\ IsPrefs(e.prefs)
           /\ e.prefs.ns = s.prefs.ns /\ e.prefs.forceNs = s.prefs.forceNs
  <1>1. PICK q : q = InContext(s.prefs, "elsewhere")
    OBVIOUS
  <1>2. /\ q.ns = s.prefs.ns /\ q.forceNs = s.prefs.forceNs
        /\ q.ctx = "elsewhere" /\ q.forceCtx = TRUE
    BY <1>1 DEF InContext, IsSample
  <1>3. e.prompt = s.prompt /\ e.prefs = q
    BY <1>1 DEF Elsewhere, IsSample
  <1>4. IsPrefs(q)
    BY <1>2 DEF IsSample, IsPrefs, Unset
  <1>5. QED
    BY <1>2, <1>3, <1>4

\* An intent prepared for a prompt, in a step of a route and in a context of a fan-out.
Agrees(p, step, there, prompt) ==
    /\ ~({"optimize", "hpa"} \subseteq prompt.says) => SameInStep(p, step)
    /\ p # NoPlan /\ p.approval => SameMutation(p, there)

LEMMA PlannedAgain ==
    ASSUME NEW raw, IsIntent(raw), NEW prompt, NEW prefs, IsPrefs(prefs),
           NEW other, IsPrefs(other), other.forceNs = prefs.forceNs, other.ns = prefs.ns,
           NEW kinds, kinds \in Scopes, NEW a, a = Prepared(raw, prompt, prefs, kinds), NEW p, p = Build(a),
           NEW v, v = Prepared(a, prompt, prefs, ScopedKinds \cup {"roast"}),
           NEW w, w = Prepared(p.intent, prompt, other, ScopedKinds \cup {"roast"})
    PROVE  Agrees(p, Build(v), Build(w), prompt)
  <1>1. /\ IsIntent(a) /\ a.kind \in ExtractKinds
        /\ prefs.forceCtx => a.ctx = prefs.ctx
    BY FirstPrepared
  <1>2. CASE p = NoPlan /\ a.kind \in Mutating \cup {"gitops"}
    BY <1>2 DEF Agrees, SameInStep
  <1>3. CASE p # NoPlan /\ a.kind \in Mutating
    <2>1. Twin(v, a) /\ v.ctx = a.ctx
      <3>1. a.kind \in Mutating
        BY <1>3
      <3>2. Twin(v, a)
        BY <3>1, TwinHere
      <3>3. v.ctx = a.ctx
        BY <3>1, TwinHere
      <3>4. QED
        BY <3>2, <3>3
    <2>2. p.approval /\ p.intent = a /\ SameInStep(p, Build(v))
      BY <1>1, <1>3, <2>1, TwinPlanned
    <2>3. Twin(w, a)
      BY <1>3, <2>2, PreparedAgain
    <2>4. SameMutation(p, Build(w))
      BY <1>1, <1>3, <2>3, TwinPlanned
    <2>5. QED
      BY <2>2, <2>4 DEF Agrees
  <1>4. CASE p # NoPlan /\ a.kind = "gitops"
    <2>1. a.kind = "gitops"
      BY <1>4
    <2>2. v = a
      BY <2>1, GitOpsHere
    <2>3. SameInStep(p, Build(v))
      BY <2>2, SameSelf
    <2>4. ASSUME p.approval PROVE SameMutation(p, Build(w))
      <3>1. PICK x : x = p.intent
        OBVIOUS
      <3>2. Synced(x, a) /\ x.ctx = a.ctx /\ x.object # Unset /\ DOMAIN x.params = DOMAIN a.params
        BY <1>1, <1>4, <2>4, <3>1, SyncIs
      <3>3. w = Prepared(x, prompt, other, ScopedKinds \cup {"roast"})
        BY <3>1
      <3>4. Same(w, x)
        <4>1. Restated(x, a)
          BY <1>4, <3>2 DEF Synced, Restated
        <4>2. QED
          BY <2>1, <3>3, <4>1, GitOpsPreparedAgain
      <3>5. Synced(w, a)
        BY <3>2, <3>4 DEF Synced, Same, Alter, Param
      <3>6. QED
        BY <1>1, <1>4, <2>4, <3>5, SyncPlanned
    <2>5. QED
      BY <2>3, <2>4 DEF Agrees
  <1>5. CASE a.kind \notin Mutating \cup {"gitops"}
    <2>1. ASSUME ~({"optimize", "hpa"} \subseteq prompt.says) PROVE SameInStep(p, Build(v))
      BY <1>5, <2>1, ReadAlike
    <2>2. p # NoPlan => ~p.approval
      BY <1>1, <1>5, BuildBuilt DEF Built
    <2>3. QED
      BY <2>1, <2>2 DEF Agrees
  <1>6. QED
    BY <1>2, <1>3, <1>4, <1>5

\* For every sample that is an intent, a prompt and preferences, the plan that
\* was shown is the one that a step of a route and a context of a fan-out carry
\* out (pipeline.go's plannedIntentProvider, and the calls of RunWith).
THEOREM ReplayedTheSame == ReplayedAlike
  <1>1. SUFFICES ASSUME NEW s \in Samples
                 PROVE  /\ ~({"optimize", "hpa"} \subseteq s.prompt.says) =>
                               SameInStep(Build(First(s)), Replayed(First(s), s))
                        /\ SameInContext(Build(First(s)), s)
    BY DEF ReplayedAlike
  <1>2. IsSample(s)
    BY PipelineAssumption
  <1>3. PICK e, p, a : e = Elsewhere(s) /\ a = First(s) /\ p = Build(a)
    OBVIOUS
  <1>4. PICK raw, prompt, prefs, other :
            raw = s.raw /\ prompt = s.prompt /\ prefs = s.prefs /\ other = e.prefs
    OBVIOUS
  <1>5. IsIntent(raw) /\ IsPrefs(prefs)
    BY <1>2, <1>4 DEF IsSample
  <1>6. /\ e.prompt = prompt /\ IsPrefs(other)
        /\ other.ns = prefs.ns /\ other.forceNs = prefs.forceNs
    BY <1>2, <1>3, <1>4, ElsewhereIs
  <1>7. PICK kinds : kinds \in Scopes /\ a = Prepared(raw, prompt, prefs, kinds)
    BY <1>3, <1>4 DEF First, Scopes
  <1>8. PICK v, w : /\ v = Prepared(a, prompt, prefs, ScopedKinds \cup {"roast"})
                    /\ w = Prepared(p.intent, prompt, other, ScopedKinds \cup {"roast"})
    OBVIOUS
  <1>9. Agrees(p, Build(v), Build(w), prompt)
    BY <1>3, <1>5, <1>6, <1>7, <1>8, PlannedAgain
  <1>10. Replayed(First(s), s) = Build(v) /\ Replayed(p.intent, e) = Build(w)
    BY <1>3, <1>4, <1>6, <1>8 DEF Replayed
  <1>11. QED
    BY <1>3, <1>4, <1>9, <1>10 DEF Agrees, SameInContext

-------------------------------------------------------------------------------

(***************************************************************************)
(* The theorems.                                                           *)
(***************************************************************************)

LEMMA InitInv ==
    ASSUME Init
    PROVE  IInv
  <1>1. /\ req \in Requests /\ policy \in Policies /\ hour \in Hours /\ changes = 0
        /\ stack = <<Frame>> /\ done = <<>> /\ ledger = <<>> /\ agreed = {}
        /\ outcome = [how |-> "running", applied |-> FALSE]
    BY DEF Init
  <1>2. MaxChanges \in Nat /\ MaxDepth \in Nat /\ MaxDepth > 0
    BY PipelineAssumption
  <1>3. PICK w, f : w = Actual /\ f = Frame
    OBVIOUS
  <1>4. Begins(f, w)
    BY <1>1, <1>3, FrameBegins DEF Frame, Actual
  <1>5. Sane(f, w)
    BY <1>4, BeginsSane
  <1>6. PICK s : s = <<f>>
    OBVIOUS
  <1>7. IsSeq(s) /\ Len(s) = 1 /\ s[1] = f
    BY <1>6 DEF IsSeq
  <1>8. AllSane(s, w) /\ Len(s) <= MaxDepth
    BY <1>2, <1>5, <1>7 DEF AllSane
  <1>9. IsSeq(done) /\ Len(done) = 0 /\ IsSeq(ledger) /\ Len(ledger) = 0
    BY <1>1, EmptySets
  <1>10. outcome \in Outcomes /\ outcome.how = "running"
    BY <1>1 DEF Outcomes
  <1>11. Written
    BY <1>1 DEF Written, Actions
  <1>12. Barred
    BY <1>1 DEF Barred
  <1>13. changes \in 0..MaxChanges
    BY <1>1, <1>2
  <1>14. (\A i \in 1..Len(done) : ActionSane(done[i], Actual)) /\ (\A i \in 1..Len(ledger) : EntrySane(ledger[i], Actual))
    BY <1>9
  <1>15. AllSane(stack, Actual) /\ Len(stack) <= MaxDepth
    BY <1>1, <1>3, <1>6, <1>8
  <1>16. QED
    BY <1>1, <1>9, <1>10, <1>11, <1>12, <1>13, <1>14, <1>15 DEF IInv

LEMMA NextInv ==
    ASSUME IInv, Next
    PROVE  IInv'
  <1>1. Onto
    BY StepOnto
  <1>2. policy' \in Policies /\ hour' \in Hours /\ changes' \in 0..MaxChanges /\ req' \in Requests
    BY <1>1, EnvKept DEF IInv, Onto
  <1>3. PICK w, v : w = Actual /\ v = Actual'
    OBVIOUS
  <1>4. IsSeq(ledger') /\ \A i \in 1..Len(ledger') : EntrySane(ledger'[i], v)
    BY <1>1, <1>3, LedgerKept DEF IInv, Onto
  <1>5. IsSeq(done') /\ \A i \in 1..Len(done') : ActionSane(done'[i], v)
    BY <1>1, <1>3, DoneKept DEF IInv, Onto
  <1>6. \A c \in agreed' : IsPlan(c[1])
    BY <1>1 DEF IInv, Onto, AgreedStep
  <1>7. stack # <<>>
    BY NothingRuns
  <1>8. outcome' \in Outcomes /\ (stack' # <<>> => outcome'.how = "running")
    BY <1>1, <1>7 DEF IInv, Onto, Moves
  <1>9. Len(stack') <= MaxDepth
    <2>1. Len(stack) \in Nat /\ MaxDepth \in Nat /\ Len(stack) <= MaxDepth
      BY PipelineAssumption DEF IInv, AllSane, IsSeq
    <2>2. Len(stack') \in Nat /\ (stack' = <<>> => Len(stack') = 0)
      BY <1>1 DEF Onto, AllSane, IsSeq
    <2>3. stack' = <<>> \/ Len(stack') <= Len(stack) \/ (Len(stack) < MaxDepth /\ Len(stack') = Len(stack) + 1)
      BY <1>1 DEF Onto, Moves
    <2>4. QED
      BY <2>1, <2>2, <2>3
  <1>10. AllSane(stack', v) /\ Written' /\ Barred'
    BY <1>1, <1>3, BarredKept DEF Onto
  <1>11. QED
    BY <1>2, <1>3, <1>4, <1>5, <1>6, <1>8, <1>9, <1>10 DEF IInv

LEMMA StutterInv ==
    ASSUME IInv, UNCHANGED vars
    PROVE  IInv'
  <1>1. UNCHANGED <<req, stack, policy, hour, changes, outcome, ledger, done, agreed>>
    BY DEF vars, env
  <1>2. Actual' = Actual /\ Written' = Written /\ Barred' = Barred
    BY <1>1 DEF Actual, Actions, Written, InHistory, AtWork, Top, Barred, Refused, Planned, Frame
  <1>3. QED
    BY <1>1, <1>2 DEF IInv

\* In every reachable state each call in progress is one that its code could
\* have left there, what was done was judged and agreed to, and it is in the
\* history or the innermost call is about to write it there.
THEOREM Inductive == Spec => []IInv
  <1>1. Init => IInv
    BY InitInv
  <1>2. IInv /\ [Next]_vars => IInv'
    BY NextInv, StutterInv
  <1>3. QED
    BY <1>1, <1>2, PTL DEF Spec

LEMMA EveryAction ==
    ASSUME IInv, NEW a \in Actions
    PROVE  ActionSane(a, Actual)
  BY DEF IInv, Actions, IsSeq

LEMMA IsSound == PlansSound
  BY SampleSound, PipelineAssumption DEF PlansSound, IsSample

LEMMA InvPolicy ==
    ASSUME IInv
    PROVE  PolicyObeyed
  <1>1. DeniedNeverRuns
    <2>1. \A a \in Actions : EvaluatePlan(a.plan) # "denied"
      BY EveryAction DEF ActionSane
    <2>2. Refused(Planned) => Actions = {}
      BY DEF IInv, Barred, Actions
    <2>3. QED
      BY <2>1, <2>2 DEF DeniedNeverRuns
  <1>2. PolicyBinds
    BY EveryAction DEF PolicyBinds, ActionSane, OrgOf, loadOrgPolicy, Actual
  <1>3. QED
    BY <1>1, <1>2, IsSound, ReplayedTheSame DEF PolicyObeyed

\* Whatever the model answers and the flags say, nothing that the CLI denies
\* happens, nor what the organisation denies while its policy and the clock
\* stand still; what the planner takes for a read mutates nothing, and the plan
\* that was judged is the one that steps and contexts carry out.
THEOREM PolicyIsObeyed == Spec => []PolicyObeyed
  BY Inductive, InvPolicy, PTL

LEMMA InvTypes ==
    ASSUME IInv
    PROVE  TypeOK
  <1>1. PICK w, s : w = Actual /\ s = stack
    OBVIOUS
  <1>2. AllSane(s, w)
    BY <1>1 DEF IInv
  <1>3. ASSUME NEW i \in DOMAIN s
        PROVE  IsFrame(s[i])
    <2>1. PICK f : f = s[i]
      OBVIOUS
    <2>2. Sane(f, w)
      BY <1>2, <2>1 DEF AllSane, IsSeq
    <2>3. AsCalled(f, w) /\ f.type \in {"run", "route", "fan"}
      BY <2>2 DEF Sane
    <2>4. f.at \in {"start", "read", "offer", "askfix", "fix", "ask", "pr", "apply", "verify",
                 "step", "back", "next"}
      BY <2>2 DEF Sane, Run, Route, Fan
    <2>5. IsPlan(f.plan)
      BY <2>2 DEF Sane, Run, Route, Fan, AtStart, Settled, IsPlanned, IsPlan, IsExecutionPlan
    <2>6. \A k \in DOMAIN f.fixes : IsPlan(f.fixes[k])
      <3>1. f.fixes = <<>> \/ AreFixes(f.fixes)
        BY <2>2 DEF Sane, Run, Route, Fan, AtStart, Changing, Fixing
      <3>2. AreFixes(f.fixes)
        BY <3>1, EmptySets
      <3>3. QED
        BY <3>2 DEF AreFixes, IsSeq, IsSuggestion, IsPlan, IsExecutionPlan
    <2>7. \A k \in DOMAIN f.plans : IsPlan(f.plans[k])
      <3>1. f.plans = <<>> \/ ArePlanned(f.plans)
        BY <2>2 DEF Sane, Run, Route, Fan, AtStart, Settled
      <3>2. ArePlanned(f.plans)
        BY <3>1, EmptySets
      <3>3. QED
        BY <3>2 DEF ArePlanned, IsSeq, IsPlanned, IsPlan, IsExecutionPlan
    <2>8. f.decision \in {"planned", "approved", "denied", "applied", "pr_opened"}
      BY <2>2 DEF Sane, Run, Route, Fan, AtStart, Reading, Changing
    <2>9. QED
      BY <2>1, <2>3, <2>4, <2>5, <2>6, <2>7, <2>8 DEF IsFrame, AsCalled, IsPrefs
  <1>4. (\A i \in DOMAIN ledger : IsPlan(ledger[i].plan)) /\ (\A i \in DOMAIN done : IsPlan(done[i].plan))
    BY DEF IInv, EntrySane, ActionSane, IsSeq
  <1>5. QED
    BY <1>1, <1>3, <1>4 DEF IInv, TypeOK, Outcomes

\* What each variable holds; routes, fan-outs and runs nest up to the bound.
THEOREM TypesHold == Spec => []TypeOK
  BY Inductive, InvTypes, PTL

LEMMA InvRecords ==
    ASSUME IInv
    PROVE  RecordTruthful /\ ActionsRecorded
  <1>1. PICK w : w = Actual
    OBVIOUS
  <1> w.actions = Actions /\ w.req = req
    BY <1>1 DEF Actual
  <1>2. RecordTruthful
    <2>1. SUFFICES ASSUME NEW i \in DOMAIN ledger, NEW e, e = ledger[i]
                   PROVE  /\ e.decision = "pr_opened" => \A a \in Actions : OfPrompt(a) => a.plan # e.plan
                          /\ e.applied /\ e.decision # "pr_opened" /\ e.plan.approval => Complete(e.plan, e.ctx)
      BY DEF RecordTruthful
    <2>2. EntrySane(e, w)
      BY <1>1, <2>1 DEF IInv, IsSeq
    <2>3. \A a \in Actions : OfPrompt(a) => ~req.pr
      BY <1>1, EveryAction DEF ActionSane
    <2>4. QED
      BY <1>1, <2>2, <2>3 DEF EntrySane, Complete
  <1>3. ActionsRecorded
    <2>1. SUFFICES ASSUME outcome.how \in {"ok", "error"}, NEW a \in Actions, OfPrompt(a)
                   PROVE  InHistory(a)
      BY DEF ActionsRecorded, InHistory
    <2>2. stack = <<>>
      BY <2>1 DEF IInv
    <2>3. QED
      BY <2>1, <2>2 DEF IInv, Written, AtWork
  <1>4. QED
    BY <1>2, <1>3

\* History tells what happened: an entry that says applied has all its actions
\* in the cluster, one of a pull request has none, and what an invocation did
\* before it ended, however it ended, is in the history.
THEOREM RecordsHold == Spec => []RecordsTruthful
  <1>1. IInv => RecordsTruthful
    BY InvTypes, InvRecords DEF RecordsTruthful
  <1>2. QED
    BY <1>1, Inductive, PTL

LEMMA InvConsent ==
    ASSUME IInv
    PROVE  OptimizeAsks /\ PlainApproveNeverFansOut
  BY EveryAction DEF OptimizeAsks, PlainApproveNeverFansOut, ActionSane, AgreedTo, Several, Actual

\* What optimize suggests is applied only after a yes to it, and a plain
\* --approve changes no more than one context without a yes.
THEOREM OptimizeAlwaysAsks == Spec => [](OptimizeAsks /\ PlainApproveNeverFansOut)
  BY Inductive, InvConsent, PTL
===============================================================================
