------------------------------ MODULE MCPipeline ------------------------------
(***************************************************************************)
(* Instances of Pipeline: prompts that mutate, read, are refused, are      *)
(* chained and fan out, under three organisations; and the samples of      *)
(* intents and prompts on which the planner is examined.                   *)
(***************************************************************************)
EXTENDS Pipeline

Intent(kind, object, name, params) ==
    [kind |-> kind, name |-> name, ns |-> Unset, object |-> object, ctx |-> Unset, params |-> params]
Plain == [says |-> {}, words |-> {}, name |-> Unset, infers |-> <<>>, ns |-> Unset, ctx |-> Unset]

\* The model takes "why is api down in edge on c2" for a get, and the install
\* of redis for a deployment; the prompt puts both right.
MCAnswer ==
    [deploy   |-> Intent("deploy", "Deployment", "nginx", <<>>),
     install  |-> Intent("deploy", "Deployment", "redis", <<>>),
     train    |-> Intent("workflow", "Workflow", "job", [model |-> "yolov8"]),
     delete   |-> Intent("delete", "Pod", "api", <<>>),
     sts      |-> Intent("delete", "StatefulSet", "db", <<>>),
     all      |-> Intent("delete", "Pod", "*", <<>>),
     why      |-> Intent("get", Unset, Unset, <<>>),
     optimize |-> Intent("optimize", Unset, Unset, <<>>),
     cleanup  |-> Intent("cleanup", Unset, Unset, <<>>),
     watch    |-> Intent("get", "Pod", Unset, <<>>)]

MCWords ==
    [p \in DOMAIN MCAnswer |->
        CASE p = "install"  -> [Plain EXCEPT !.says = {"install"}]
          [] p = "why"      -> [Plain EXCEPT !.says = {"why"}, !.name = "api",
                                             !.ns = "edge", !.ctx = "c2"]
          [] p = "cleanup"  -> [Plain EXCEPT !.says = {"cleanup"}, !.words = {"cluster"}]
          [] OTHER          -> Plain]

Chains ==
    [harden   |-> <<"why", "deploy">>,
     rollout  |-> <<"install", "train">>,
     refused  |-> <<"deploy", "sts">>,
     unbuilt  |-> <<"deploy", "all">>,
     trim     |-> <<"optimize", "deploy">>,
     replace  |-> <<"delete", "deploy">>,
     observe  |-> <<"deploy", "watch">>,
     slip     |-> <<"why", "watch", "deploy">>]

MCPrompts == DOMAIN MCAnswer \cup DOMAIN Chains \cup {"wipe"}
MCGate == [p \in MCPrompts |->
    IF p = "wipe" THEN "wipe" ELSE IF p = "watch" THEN "local" ELSE "model"]
MCClauses == [p \in MCPrompts |-> IF p \in DOMAIN Chains THEN Chains[p] ELSE <<p>>]
ForPrompts(f) == [p \in MCPrompts |-> IF p \in DOMAIN f THEN f[p] ELSE f["why"]]
AllAnswers == ForPrompts(MCAnswer)
AllWords == ForPrompts(MCWords)

Suggestion(kind, op, object, params) ==
    Mutates([Intent(kind, object, "api", params) EXCEPT !.ns = "edge"],
            <<Act(op, Unset, object, "api", "edge")>>)
MCFixes ==
    [why      |-> <<Suggestion("patch", "update", "Deployment", [patch |-> "why"])>>,
     optimize |-> <<Suggestion("patch", "update", "Deployment", [patch |-> "optimize"])>>,
     cleanup  |-> <<Suggestion("delete", "delete", "Service", <<>>),
                    Suggestion("delete", "delete", "ConfigMap", [confirm_orphans |-> TRUE])>>]

\* An organisation that freezes deletes and leaves high risk to others, and
\* one with a change window for c2 at hour 1 and a namespace of its own.
Org == [denyNamespaces |-> {}, allowNamespaces |-> {}, denyIntents |-> {"delete"},
        maxRisk |-> "high", windows |-> {}, approveByRole |-> {<<"dev", "medium">>}]
Windowed == [Org EXCEPT !.denyIntents = {}, !.approveByRole = {}, !.denyNamespaces = {"system"},
                        !.windows = {[contexts |-> {"c2"}, hours |-> {1}]}]

MCPolicies == {NoPolicy, Torn, Org, Windowed}

Command(prompt) ==
    [prompt |-> prompt, ns |-> Unset, ctx |-> "c1", forceNs |-> FALSE, forceCtx |-> FALSE,
     contexts |-> <<>>, approve |-> FALSE, each |-> FALSE,
     steps |-> <<>>, json |-> FALSE, tty |-> TRUE, pr |-> FALSE, wait |-> FALSE]

OneContext ==
    {[Command(p) EXCEPT !.approve = a] : p \in MCPrompts, a \in BOOLEAN}
Waiting == {[Command(p) EXCEPT !.wait = TRUE] : p \in {"deploy", "train", "rollout"}}
TwoContexts ==
    {[Command(p) EXCEPT !.contexts = <<"c1", "c2">>, !.forceCtx = f, !.approve = a, !.each = e, !.tty = t] :
        p \in {"install", "why", "sts"}, f \in BOOLEAN, a \in BOOLEAN, e \in BOOLEAN, t \in BOOLEAN}
    \cup {[Command(p) EXCEPT !.contexts = <<"c1", "c2">>, !.each = e] : p \in {"harden", "rollout"}, e \in BOOLEAN}
PullRequests == {[Command(p) EXCEPT !.pr = TRUE] : p \in {"deploy", "why", "rollout"}}
Scripted == {[Command(p) EXCEPT !.json = TRUE, !.tty = FALSE] : p \in {"deploy", "why", "cleanup"}}
Forced == {[Command("delete") EXCEPT !.ctx = "c3", !.forceCtx = TRUE],
           [Command("deploy") EXCEPT !.ns = "system", !.forceNs = TRUE],
           [Command("harden") EXCEPT !.ns = "prod", !.forceNs = TRUE, !.forceCtx = TRUE]}

AllRequests == OneContext \cup Waiting \cup TwoContexts \cup PullRequests \cup Scripted \cup Forced
Recipe == {[Command("why") EXCEPT !.steps = <<"why", "optimize", "cleanup">>]}

(***************************************************************************)
(* Samples: every kind the model may answer, with and without a name, in   *)
(* prompts of up to two topics, with what the parameters must be for the   *)
(* plan to be built.                                                       *)
(***************************************************************************)
Topics ==
    {"install", "workflow", "tekton", "keda", "hpa", "istio", "crossplane", "gitops",
     "performance", "why", "timeline", "impact", "audit", "cleanup", "search", "learn",
     "drift", "trace", "dashboard", "optimize", "roast", "score", "architecture",
     "graph", "investigate"}
Kinds == ExtractKinds \cup {"patch"}
Full == [replicas |-> 3, version |-> "v2", model |-> "yolov8", query |-> "db"]
Bare == [tail |-> 10]

Free == [ns |-> Unset, ctx |-> "c1", forceNs |-> FALSE, forceCtx |-> FALSE]
MCSamples ==
    [raw    : {Intent(k, Unset, "redis", Full) : k \in Kinds} \cup {Intent(k, Unset, Unset, Bare) : k \in Kinds},
     prompt : {[Plain EXCEPT !.says = {t, u}, !.words = w, !.name = "api"] :
                    t \in Topics, u \in Topics,
                    w \in {{}, {"promote", "flux"}, {"cluster", "sync", "argocd"}}},
     prefs  : {Free, [Free EXCEPT !.ns = "prod", !.forceNs = TRUE]}]
NoSamples == {}
=============================================================================
