------------------------------- MODULE Pipeline -------------------------------
(***************************************************************************)
(* One invocation of the CLI (internal/pipeline): prompt -> plan -> safety *)
(* -> approval -> actions -> verification -> history.  RunWith calls       *)
(* itself: a prompt of several clauses becomes a route that runs RunWith   *)
(* for each step, a request for several contexts fans out into one RunWith *)
(* per context.  `stack' is that recursion, one frame for each RunWith,    *)
(* route and fan-out in progress.  Meanwhile the organisation's policy may *)
(* be pulled, change windows open and close, and the process be killed.    *)
(***************************************************************************)
EXTENDS Safety, FiniteSets

CONSTANTS
    Prompts,        \* what can be asked, whole prompts and clauses
    Gate,           \* "wipe", "local" (roast, session, remember, watch) or "model"
    Clauses,        \* the steps SplitRoutePrompt or a recipe makes of a prompt
    Words,          \* what a prompt says (see Intents)
    Answer,         \* the intent the model extracts from a prompt
    Fixes,          \* the plans a read-only intent's report suggests, by kind
    Samples,        \* intents and prompts whose plans are examined, see PlansSound
    Requests,       \* the command lines
    Mismatched,     \* contexts require_alias_match refuses to mutate
    Policies, Role, Hours,
    Torn,           \* the policy cache exists and cannot be parsed
    NoDoc,
    MaxRouteSteps,  \* of internal/intent
    MaxDepth,       \* bound: frames the goroutine's stack has room for
    MaxChanges      \* bound: how often policy or clock change

IsRequest(r) ==
    /\ r.prompt \in Prompts /\ r.steps \in Seq(Prompts)
    /\ {r.approve, r.each, r.json, r.tty, r.pr, r.wait} \subseteq BOOLEAN
    /\ IsPrefs(r)
    /\ r.contexts \in Seq({r.contexts[k] : k \in DOMAIN r.contexts} \ {Unset})

\* What a report suggests names no context of its own: suggestions are not of Helm.
IsSuggestion(p) ==
    /\ IsExecutionPlan(p) /\ p.intent.kind \in ExtractKinds \cup {"patch"}
    /\ \A i \in DOMAIN p.actions : p.actions[i].context = Unset

IsSample(s) ==
    /\ s = [raw |-> s.raw, prompt |-> s.prompt, prefs |-> s.prefs]
    /\ s.prefs = [ns |-> s.prefs.ns, ctx |-> s.prefs.ctx,
                  forceNs |-> s.prefs.forceNs, forceCtx |-> s.prefs.forceCtx]
    /\ IsIntent(s.raw) /\ IsPrefs(s.prefs)

ASSUME PipelineAssumption ==
    /\ Clauses \in [Prompts -> Seq(Prompts)]
    /\ \A p \in Prompts : IsIntent(Answer[p])
    /\ \A kind \in DOMAIN Fixes :
        Fixes[kind] \in Seq({p \in {Fixes[kind][i] : i \in DOMAIN Fixes[kind]} : IsSuggestion(p)})
    /\ \A s \in Samples : IsSample(s)
    /\ \A r \in Requests : IsRequest(r)
    /\ MaxDepth \in Nat \ {0} /\ MaxChanges \in Nat

VARIABLES
    req,            \* the command line
    stack,          \* RunWith, route and fan-out calls in progress, innermost last
    policy, hour, changes,
    outcome,        \* how the invocation ended
    ledger,         \* the history file
    done,           \* history: the actions the cluster has seen, in order
    agreed          \* history: plan and context of every yes of the user

env  == <<policy, hour, changes>>
vars == <<req, stack, env, outcome, ledger, done, agreed>>

FrameOf(r) ==
    [type |-> "run", at |-> "start", prompt |-> r.prompt, ns |-> r.ns, ctx |-> r.ctx,
          forceNs |-> r.forceNs, forceCtx |-> r.forceCtx,
          contexts |-> r.contexts, approve |-> r.approve, each |-> r.each,
          child |-> FALSE, auto |-> FALSE, steps |-> r.steps, json |-> r.json,
          plan |-> NoPlan, risk |-> "low", fixes |-> <<>>, next |-> 1,
          applied |-> FALSE, decision |-> "planned", verify |-> "none",
          queue |-> <<>>, todo |-> <<>>, plans |-> <<>>, seen |-> NoDoc, back |-> "none"]
Frame == FrameOf(req)

Init ==
    /\ req \in Requests
    /\ stack = <<Frame>>
    /\ policy \in Policies
    /\ hour \in Hours
    /\ changes = 0
    /\ outcome = [how |-> "running", applied |-> FALSE]
    /\ ledger = <<>>
    /\ done = <<>>
    /\ agreed = {}

Top == stack[Len(stack)]
Below == SubSeq(stack, 1, Len(stack) - 1)
Running(type, at) == stack # <<>> /\ Top.type = type /\ Top.at = at
Become(frame) == stack' = Append(Below, frame) /\ UNCHANGED outcome

\* A cache that cannot be read is taken for no enrolment at all.
loadOrgPolicy == IF policy = Torn THEN NoPolicy ELSE policy

Risk_ParentsContext(plan, ctx) ==
    EvaluatePlanWithOrg(plan, loadOrgPolicy, req.ctx, hour)
Risk(plan, ctx) == EvaluatePlanWithOrg(plan, loadOrgPolicy, ctx, hour)

(***************************************************************************)
(* OnResult reaches every enclosing route, up to the nearest fan-out.      *)
(***************************************************************************)
Observed(frames, doc) ==
    [i \in DOMAIN frames |->
        IF \A j \in (i+1)..Len(frames) : frames[j].type # "fan"
        THEN [frames[i] EXCEPT !.seen = doc] ELSE frames[i]]

Return(frames, how, applied) ==
    IF frames = <<>>
    THEN stack' = <<>> /\ outcome' = [how |-> how, applied |-> applied]
    ELSE stack' = [frames EXCEPT ![Len(frames)].back = how] /\ UNCHANGED outcome

Fail == Return(Below, "error", FALSE)
Report(doc) == Return(Observed(Below, doc), "ok", doc.applied)

Doc(plan, ctx, denied, applied) ==
    [denied |-> denied, applied |-> applied, ctx |-> ctx,
     ns |-> IF plan = NoPlan THEN Unset ELSE planNamespace(plan)]

\* Running out of stack is fatal in Go: no deferred function runs.
Call(frame, callee) ==
    IF Len(stack) < MaxDepth
    THEN stack' = Below \o <<frame, callee>> /\ UNCHANGED outcome
    ELSE stack' = <<>> /\ outcome' = [how |-> "overflow", applied |-> FALSE]

Quiet == UNCHANGED <<req, env, ledger, done, agreed>>

(***************************************************************************)
(* The provider: the model for the outermost call; inside a route or a     *)
(* fan-out the intents that were prepared, handed out in order.            *)
(***************************************************************************)
Model == Len(stack) = 1
Extracted(prompts) ==
    IF Model THEN [i \in DOMAIN prompts |-> Answer[prompts[i]]]
             ELSE SubSeq(Below[Len(Below)].queue, 1, Len(prompts))
Exhausted(n) == ~Model /\ Len(Below[Len(Below)].queue) < n
Consumed(n) ==
    IF Model THEN Below
    ELSE [Below EXCEPT ![Len(Below)].queue = SubSeq(@, n + 1, Len(@))]

(***************************************************************************)
(* Approval.  The flag, or the consent a fan-out has already collected,    *)
(* answers; otherwise the user does, and a role matrix may overrule.       *)
(***************************************************************************)
Replies(flag) ==
    IF flag THEN {"yes"} ELSE IF req.tty THEN {"yes", "no", "error"} ELSE {"no"}

Verdict(reply, risk) ==
    IF reply = "yes" /\ ~RoleMayApprove(loadOrgPolicy, Role, risk) THEN "no" ELSE reply

\* What a plan shows of itself: the contexts it names are told apart as the
\* contexts of its actions, and a target left out is the object of that name.
Shown(plan) ==
    [plan EXCEPT !.intent.ctx = Unset,
                 !.intent.params = @ ++ [target |-> plan.intent.name],
                 !.actions = [i \in DOMAIN @ |-> [@[i] EXCEPT !.context = Unset]]]

Agree(flag, reply, consents) ==
    agreed' = IF ~flag /\ reply = "yes"
              THEN agreed \cup {<<Shown(c.plan), c.ctx>> : c \in consents}
              ELSE agreed
Consent(plan, ctx) == [plan |-> plan, ctx |-> ctx]

(***************************************************************************)
(* RunWith up to the plan.                                                 *)
(***************************************************************************)
RouteOf(f) == IF f.steps # <<>> THEN f.steps ELSE Clauses[f.prompt]
IsRoute(f) == Len(RouteOf(f)) > 1

CheckPrompt ==
    /\ Running("run", "start")
    /\ Gate[Top.prompt] = "wipe"
    /\ Report(Doc(NoPlan, Unset, TRUE, FALSE))
    /\ Quiet

\* Roast, session, remember and watch prompts end here, and ask no provider.
LocalPrompt ==
    /\ Running("run", "start")
    /\ Gate[Top.prompt] = "local"
    /\ \/ Fail
       \/ \E denied \in BOOLEAN : Report(Doc(NoPlan, Top.ctx, denied, ~denied))
    /\ Quiet

\* A model, planner or connection error, or a route that is too long.
PlanFails ==
    /\ Running("run", "start")
    /\ Gate[Top.prompt] = "model"
    /\ Fail
    /\ Quiet

Planning(n) ==
    /\ Running("run", "start")
    /\ Gate[Top.prompt] = "model"
    /\ Len(RouteOf(Top)) <= MaxRouteSteps
    /\ ~Exhausted(n)

IsReadOnly(plan) == ~plan.approval /\ plan.intent.kind \in ReadKinds \cup {"gitops"}

FansOut(f) == Len(f.contexts) > 1

Prefs(f) == [ns |-> f.ns, ctx |-> f.ctx, forceNs |-> f.forceNs, forceCtx |-> f.forceCtx]

\* The run goes on in the namespace and the context its intent ended up with.
WithIntent(f, in) == [f EXCEPT !.ns = in.ns, !.ctx = Or(in.ctx, @), !.plan = Build(in)]
WithPlan(f, raw) ==
    WithIntent(f, Prepared(raw, Words[f.prompt], Prefs(f), ScopedKinds \cup {"roast"}))

Judged(f) ==
    LET risk == Risk(f.plan, f.ctx)
        left == Consumed(1)
    IN  /\ f.plan # NoPlan
        /\ IF risk = "denied" \/ (f.plan.approval /\ f.ctx \in Mismatched)
           THEN Return(Observed(left, Doc(f.plan, f.ctx, TRUE, FALSE)), "ok", FALSE)
           ELSE /\ stack' = Append(left, [f EXCEPT !.risk = risk,
                                 !.at = IF IsReadOnly(f.plan) THEN "read" ELSE "ask"])
                /\ UNCHANGED outcome

BuildPlan ==
    /\ Planning(1)
    /\ ~IsRoute(Top)
    /\ ~FansOut(Top)
    /\ Judged(WithPlan(Top, Extracted(<<Top.prompt>>)[1]))
    /\ Quiet

(***************************************************************************)
(* The deferred function of RunWith: history entry, result, return.        *)
(***************************************************************************)
Recorded_Approved(f) ==
    [plan |-> Shown(f.plan), ctx |-> f.ctx, applied |-> f.applied \/ f.decision = "approved",
     verify |-> f.verify, decision |-> f.decision]
Recorded(f) ==
    [plan |-> Shown(f.plan), ctx |-> f.ctx, applied |-> f.applied, verify |-> f.verify,
     decision |-> IF f.verify = "failed" THEN "verify_failed"
                  ELSE IF f.decision = "planned" /\ f.applied /\ f.plan.approval
                  THEN "applied" ELSE f.decision]

Finish(f, how) ==
    /\ ledger' = Append(ledger, Recorded(f))
    /\ Return(Observed(Below, Doc(f.plan, f.ctx, FALSE, f.applied)), how, f.applied)

Finished(f) == Finish([f EXCEPT !.applied = TRUE], "ok")

(***************************************************************************)
(* Read-only plans run at once.  Some offer to fix what they report: each  *)
(* branch of the switch says which of the fixes, whether --approve counts  *)
(* as consent, whether the report is verified before the offer (pretrust)  *)
(* and whether the cluster is verified after the fix.                      *)
(***************************************************************************)
ReportOnly  == [offers |-> "none",  flag |-> FALSE, pretrust |-> FALSE, verifies |-> FALSE]
Optimize    == [offers |-> "first", flag |-> FALSE, pretrust |-> FALSE, verifies |-> TRUE]
Explain     == [offers |-> "first", flag |-> TRUE,  pretrust |-> FALSE, verifies |-> FALSE]
Investigate == [offers |-> "first", flag |-> TRUE,  pretrust |-> TRUE,  verifies |-> TRUE]
Why         == [offers |-> "first", flag |-> TRUE,  pretrust |-> TRUE,  verifies |-> TRUE]
Audit       == [offers |-> "first", flag |-> TRUE,  pretrust |-> FALSE, verifies |-> FALSE]
Drift       == [offers |-> "all",   flag |-> TRUE,  pretrust |-> FALSE, verifies |-> FALSE]
Cleanup     == [offers |-> "all",   flag |-> TRUE,  pretrust |-> FALSE, verifies |-> FALSE]

Branch(plan) ==
    CASE plan.intent.kind = "optimize"    -> Optimize
      [] plan.intent.kind = "explain"     -> Explain
      [] plan.intent.kind = "investigate" -> Investigate
      [] plan.intent.kind = "why"         -> Why
      [] plan.intent.kind = "audit"       -> Audit
      [] plan.intent.kind = "drift"       -> Drift
      [] plan.intent.kind = "cleanup"     -> Cleanup
      [] OTHER                             -> ReportOnly

Suggestions(plan) ==
    IF plan.intent.kind \in DOMAIN Fixes THEN Fixes[plan.intent.kind] ELSE <<>>

Offered(f) ==
    IF f.json \/ (f.child /\ f.plan.intent.kind = "optimize") THEN <<>>
    ELSE CASE Branch(f.plan).offers = "all" -> Suggestions(f.plan)
           [] Branch(f.plan).offers = "first" /\ Suggestions(f.plan) # <<>> ->
                    <<Head(Suggestions(f.plan))>>
           [] OTHER -> <<>>

\* The report fails, finds nothing to fix, or has fixes to offer.
Read ==
    /\ Running("run", "read")
    /\ \/ Finish(Top, "error")
       \/ Finished(Top)
       \/ /\ Offered(Top) # <<>>
          /\ Become([Top EXCEPT !.fixes = Offered(Top), !.at = "offer"])
          /\ UNCHANGED ledger
    /\ UNCHANGED <<req, env, done, agreed>>

\* On to the next fix, or done with the last one.
AfterFix(f) ==
    IF Len(f.fixes) > 1
    THEN /\ Become([f EXCEPT !.fixes = Tail(@), !.next = 1, !.at = "offer"])
         /\ UNCHANGED ledger
    ELSE Finished(f)

OfferFix ==
    /\ Running("run", "offer")
    /\ LET risk == Risk(Top.fixes[1], Top.ctx)
       IN  \/ /\ risk = "denied" \/ Branch(Top.plan).pretrust   \* withheld
              /\ AfterFix(Top)
           \/ /\ risk # "denied"
              /\ Become([Top EXCEPT !.risk = IF Param(Top.fixes[1].intent, "confirm_orphans", FALSE) THEN "high" ELSE risk,
                                    !.at = "askfix"])
              /\ UNCHANGED ledger
    /\ UNCHANGED <<req, env, done, agreed>>

AskFix ==
    /\ Running("run", "askfix")
    /\ LET flag == (Branch(Top.plan).flag /\ Top.approve) \/ Top.auto
       IN  \E reply \in Replies(flag) :
            /\ CASE Verdict(reply, Top.risk) = "yes" ->
                        Become([Top EXCEPT !.at = "fix"]) /\ UNCHANGED ledger
                 [] Verdict(reply, Top.risk) = "no" -> AfterFix(Top)
                 [] OTHER -> Finish(Top, "error")
            /\ Agree(flag, reply, {Consent(Top.fixes[1], Top.ctx)})
    /\ UNCHANGED <<req, env, done>>

(***************************************************************************)
(* Runner.Apply: the actions in order, up to the first that fails.  A call *)
(* that fails may have reached the cluster.                                *)
(***************************************************************************)
StepNumber == IF stack[1].type = "route" THEN stack[1].next ELSE 1
Action(plan, ctx, n, by) ==
    [plan |-> Shown(plan), ctx |-> Or(plan.actions[n].context, ctx), n |-> n,
     by |-> by, step |-> StepNumber]

ApplyNext(plan, by) ==
    /\ Top.next <= Len(plan.actions)
    /\ \/ /\ done' = Append(done, Action(plan, Top.ctx, Top.next, by))
          /\ Become([Top EXCEPT !.next = @ + 1])
          /\ UNCHANGED ledger
       \/ /\ done' \in {done, Append(done, Action(plan, Top.ctx, Top.next, by))}
          /\ Finish(Top, "error")
    /\ UNCHANGED <<req, env, agreed>>

ApplyFix == Running("run", "fix") /\ ApplyNext(Top.fixes[1], Top.plan.intent.kind)

FixApplied ==
    /\ Running("run", "fix")
    /\ Top.next > Len(Top.fixes[1].actions)
    /\ AfterFix(Top) \/ (Branch(Top.plan).verifies /\ Finish(Top, "error"))
    /\ UNCHANGED <<req, env, done, agreed>>

(***************************************************************************)
(* Mutating plans: approval, then a pull request or the actions, then the  *)
(* wait and the verification.                                              *)
(***************************************************************************)
Approve ==
    /\ Running("run", "ask")
    /\ LET flag == Top.approve \/ Top.auto
       IN  \E reply \in Replies(flag) :
            /\ CASE Verdict(reply, Top.risk) = "yes" ->
                        /\ Become([Top EXCEPT !.decision = "approved",
                                              !.at = IF req.pr THEN "pr" ELSE "apply"])
                        /\ UNCHANGED ledger
                 [] Verdict(reply, Top.risk) = "no" ->
                        Finish([Top EXCEPT !.decision = "denied"], "ok")
                 [] OTHER -> Finish(Top, "error")
            /\ Agree(flag, reply, {Consent(Top.plan, Top.ctx)})
    /\ UNCHANGED <<req, env, done>>

OpenPR ==
    /\ Running("run", "pr")
    /\ Finish(Top, "error") \/ Finished([Top EXCEPT !.decision = "pr_opened"])
    /\ UNCHANGED <<req, env, done, agreed>>

Apply == Running("run", "apply") /\ ApplyNext(Top.plan, "prompt")

\* Plans that do not go through the runner or Helm, and are not verified.
OtherBackends == {"argo", "tekton", "keda", "crossplane", "gitops"}

Applied ==
    /\ Running("run", "apply")
    /\ Top.next > Len(Top.plan.actions)
    /\ LET f == [Top EXCEPT !.applied = TRUE]
       IN  IF \E i \in DOMAIN f.plan.actions : f.plan.actions[i].backend \in OtherBackends
           THEN Finish(f, "ok") \/ (req.wait /\ Finish(f, "error"))
           ELSE /\ Become([f EXCEPT !.decision = "applied", !.at = "verify"])
                /\ UNCHANGED ledger
    /\ UNCHANGED <<req, env, done, agreed>>

\* After --wait a rollout that is still pending counts as failed.
Verify ==
    /\ Running("run", "verify")
    /\ \E found \in {"ok", "pending", "failed", "skipped"} :
        LET verify == IF req.wait /\ found = "pending" THEN "failed" ELSE found
        IN  Finish([Top EXCEPT !.verify = verify], IF verify = "failed" THEN "error" ELSE "ok")
    /\ UNCHANGED <<req, env, done, agreed>>

(***************************************************************************)
(* A route: every step is planned and judged before the first one runs,    *)
(* one consent covers them all, the first step that does not apply ends    *)
(* the route.  RunWith has become the route's frame.                       *)
(***************************************************************************)
Carried(scope, ns, ctx) == [scope EXCEPT !.ns = Or(ns, @), !.ctx = Or(ctx, @)]

StepOf(in, prefs) == [in |-> in, ctx |-> prefs.ctx, plan |-> Build(in),
                      after |-> Carried(prefs, in.ns, in.ctx)]

\* Each step is prepared in the scope that the steps before it leave.
Preflight(f, raws) ==
    LET prepared(prefs, i) ==
            StepOf(Prepared(raws[i], Words[RouteOf(f)[i]], prefs, ScopedKinds), prefs)
        step[i \in DOMAIN raws] ==
            prepared(IF i = 1 THEN Prefs(f) ELSE step[i - 1].after, i)
    IN  step

Highest(risks) == CHOOSE r \in risks : \A s \in risks : RiskRank[s] <= RiskRank[r]

\* A step that is denied fails the route, a context under an alias ends it.
BeginRoute(steps) ==
    LET plans   == [i \in DOMAIN steps |-> steps[i].plan]
        mutates == \E i \in DOMAIN plans : plans[i].approval
        risks   == {Risk(plans[i], steps[i].ctx) : i \in DOMAIN plans}
        refused == mutates /\ Top.ctx \in Mismatched
    IN  /\ \A i \in DOMAIN plans : plans[i] # NoPlan
        /\ CASE "denied" \in risks -> Return(Consumed(Len(plans)), "error", FALSE)
             [] "denied" \notin risks /\ refused -> Return(Consumed(Len(plans)), "ok", FALSE)
             [] OTHER ->
                /\ stack' = Append(Consumed(Len(plans)),
                        [Top EXCEPT !.type = "route", !.plans = plans,
                                    !.queue = [i \in DOMAIN steps |-> steps[i].in],
                                    !.risk = Highest(risks), !.applied = TRUE,
                                    !.at = IF mutates THEN "ask" ELSE "step"])
                /\ UNCHANGED outcome

RouteBegins ==
    /\ Planning(Len(RouteOf(Top)))
    /\ IsRoute(Top)
    /\ BeginRoute(Preflight(Top, Extracted(RouteOf(Top))))
    /\ Quiet

RouteMutations(f) ==
    {Consent(f.plans[i], Or(f.plans[i].intent.ctx, f.ctx)) :
        i \in {j \in DOMAIN f.plans : f.plans[j].approval}}

ApproveRoute ==
    /\ Running("route", "ask")
    /\ \E reply \in Replies(Top.approve \/ Top.auto) :
        /\ CASE Verdict(reply, Top.risk) = "yes" ->
                    Become([Top EXCEPT !.approve = TRUE, !.at = "step"])
             [] Verdict(reply, Top.risk) = "no" -> Return(Below, "ok", FALSE)
             [] OTHER -> Fail
        /\ Agree(Top.approve \/ Top.auto, reply, RouteMutations(Top))
    /\ UNCHANGED <<req, env, ledger, done>>

RunStep ==
    /\ Running("route", "step")
    /\ Top.next <= Len(RouteOf(Top))
    /\ Call([Top EXCEPT !.at = "back", !.seen = NoDoc, !.back = "none"],
            [Frame EXCEPT !.prompt = RouteOf(Top)[Top.next], !.ns = Top.ns, !.ctx = Top.ctx,
                          !.forceNs = Top.forceNs, !.forceCtx = Top.forceCtx, !.contexts = Top.contexts, !.approve = Top.approve,
                          !.each = Top.each, !.child = Top.child, !.auto = Top.auto,
                          !.json = FALSE])
    /\ Quiet

StepReturns ==
    /\ Running("route", "back")
    /\ CASE Top.back = "error" \/ Top.seen = NoDoc -> Fail
         [] Top.back = "ok" /\ Top.seen # NoDoc /\ (Top.seen.denied \/ ~Top.seen.applied) ->
                Return(Below, "ok", FALSE)
         [] OTHER -> Become([Carried(Top, Top.seen.ns, Top.seen.ctx) EXCEPT
                                !.next = @ + 1, !.at = "step"])
    /\ Quiet

RouteEnds_OffByOne ==
    /\ Running("route", "step")
    /\ Top.next > Len(RouteOf(Top)) + 1
    /\ Return(Below, "ok", TRUE)
    /\ Quiet

RouteEnds ==
    /\ Running("route", "step")
    /\ Top.next > Len(RouteOf(Top))
    /\ Return(Below, "ok", TRUE)
    /\ Quiet

(***************************************************************************)
(* A fan-out: one intent, one RunWith for each context; a mutation is      *)
(* approved context by context, and an error in one does not stop the      *)
(* others.                                                                 *)
(***************************************************************************)
NotPerCluster == {"performance", "trace", "dashboard"}

FanRefused(f, plan, risk) ==
    IF IsReadOnly(plan) THEN plan.intent.kind \in NotPerCluster
    ELSE \/ (f.approve /\ ~f.each)
         \/ (~f.approve /\ ~f.each /\ ~req.tty /\ ~f.auto)
         \/ ~RoleMayApprove(loadOrgPolicy, Role, risk)

BeginFan(f) ==
    LET risk == Risk(f.plan, f.ctx)
        left == Consumed(1)
    IN  /\ f.plan # NoPlan
        /\ IF risk = "denied" \/ FanRefused(f, f.plan, risk)
           THEN Return(Observed(left, Doc(f.plan, IF risk = "denied" THEN f.ctx ELSE Unset,
                                          TRUE, FALSE)), "ok", FALSE)
           ELSE /\ stack' = Append(left, [f EXCEPT !.type = "fan", !.at = "next",
                                              !.todo = f.contexts, !.applied = TRUE])
                /\ UNCHANGED outcome

FanOut ==
    /\ Planning(1)
    /\ ~IsRoute(Top)
    /\ FansOut(Top)
    /\ BeginFan(WithPlan(Top, Extracted(<<Top.prompt>>)[1]))
    /\ Quiet

\* The context of a child is settled, whatever its intent says.
InContext_NotForced(f, ctx) == [f EXCEPT !.ctx = ctx]
InContext(f, ctx) == [f EXCEPT !.ctx = ctx, !.forceCtx = TRUE]

RunContext(f, approved) ==
    Call([f EXCEPT !.todo = Tail(@), !.at = "back", !.queue = <<f.plan.intent>>,
                   !.seen = NoDoc, !.back = "none"],
         InContext([Frame EXCEPT !.prompt = f.prompt, !.ns = f.ns, !.forceNs = f.forceNs,
                       !.contexts = <<>>, !.approve = approved, !.each = FALSE,
                       !.child = TRUE, !.auto = approved \/ f.auto, !.json = FALSE],
                   Head(f.todo)))

ReadContext ==
    /\ Running("fan", "next")
    /\ Top.todo # <<>>
    /\ IsReadOnly(Top.plan)
    /\ RunContext(Top, FALSE)
    /\ Quiet

ApproveContext ==
    /\ Running("fan", "next")
    /\ Top.todo # <<>>
    /\ ~IsReadOnly(Top.plan)
    /\ \E reply \in Replies(Top.each \/ Top.auto) :
        /\ CASE reply = "yes" -> RunContext(Top, TRUE)
             [] reply = "no" -> Become([Top EXCEPT !.todo = Tail(@), !.applied = FALSE])
             [] OTHER -> Fail
        /\ Agree(Top.each \/ Top.auto, reply, {Consent(Top.plan, Head(Top.todo))})
    /\ UNCHANGED <<req, env, ledger, done>>

ContextReturns ==
    /\ Running("fan", "back")
    /\ LET failed == \/ Top.back = "error"
                     \/ Top.seen = NoDoc
                     \/ Top.seen.denied
                     \/ ~IsReadOnly(Top.plan) /\ ~Top.seen.applied
       IN  Become([Top EXCEPT !.applied = @ /\ ~failed, !.at = "next"])
    /\ Quiet

FanEnds ==
    /\ Running("fan", "next")
    /\ Top.todo = <<>>
    /\ Return(Below, "ok", Top.applied)
    /\ Quiet

(***************************************************************************)
(* The environment: `kprompt team' pulls another policy, the hour changes, *)
(* the process is killed between two steps.                                *)
(***************************************************************************)
Change ==
    /\ stack # <<>>
    /\ changes < MaxChanges
    /\ changes' = changes + 1
    /\ policy' \in Policies
    /\ hour' \in Hours
    /\ UNCHANGED <<req, stack, outcome, ledger, done, agreed>>

Kill ==
    /\ stack # <<>>
    /\ stack' = <<>>
    /\ outcome' = [how |-> "killed", applied |-> FALSE]
    /\ Quiet

Plan ==
    \/ CheckPrompt \/ LocalPrompt \/ PlanFails \/ BuildPlan \/ RouteBegins \/ FanOut

Step ==
    \/ Plan
    \/ Read \/ OfferFix \/ AskFix \/ ApplyFix \/ FixApplied
    \/ Approve \/ OpenPR \/ Apply \/ Applied \/ Verify
    \/ ApproveRoute \/ RunStep \/ StepReturns \/ RouteEnds
    \/ ReadContext \/ ApproveContext \/ ContextReturns \/ FanEnds

Next == Step \/ Change \/ Kill

Spec == Init /\ [][Next]_vars

\* One goroutine, whose calls return: the LLM client has a timeout, the API
\* client an error.  That it goes on also says that the user answers.
FairSpec == Spec /\ WF_vars(Step)

(***************************************************************************)
(* Correctness.                                                            *)
(***************************************************************************)
IsPlan(p) == p # NoPlan => p.intent.kind \in ExtractKinds \cup {"patch"} /\ p.approval \in BOOLEAN

IsFrame(f) ==
    /\ f.type \in {"run", "route", "fan"}
    /\ f.at \in {"start", "read", "offer", "askfix", "fix", "ask", "pr", "apply", "verify",
                 "step", "back", "next"}
    /\ f.prompt \in Prompts /\ f.ctx # Unset
    /\ {f.approve, f.each, f.child, f.auto, f.json, f.applied} \subseteq BOOLEAN
    /\ IsPlan(f.plan) /\ f.risk \in Risks /\ f.next \in Nat
    /\ \A i \in DOMAIN f.fixes : IsPlan(f.fixes[i])
    /\ \A i \in DOMAIN f.plans : IsPlan(f.plans[i])
    /\ f.decision \in {"planned", "approved", "denied", "applied", "pr_opened"}
    /\ f.verify \in {"none", "ok", "pending", "failed", "skipped"}
    /\ f.back \in {"none", "ok", "error"}

\* What each variable holds; the calls in progress nest up to the bound.
TypeOK ==
    /\ req \in Requests
    /\ Len(stack) <= MaxDepth /\ \A i \in DOMAIN stack : IsFrame(stack[i])
    /\ policy \in Policies /\ hour \in Hours /\ changes \in 0..MaxChanges
    /\ outcome \in [how : {"running", "ok", "error", "overflow", "killed"}, applied : BOOLEAN]
    /\ \A i \in DOMAIN ledger : IsPlan(ledger[i].plan)
    /\ \A i \in DOMAIN done : IsPlan(done[i].plan)
    /\ \A c \in agreed : IsPlan(c[1])

\* What a request sets out to do: the plans of its steps, each with the
\* context it is for.  A clause handled locally plans nothing.
StepsOf(r) == IF r.steps # <<>> THEN r.steps ELSE Clauses[r.prompt]
OneStep(f) == <<[plan |-> f.plan, after |-> Prefs(f)]>>
Intended == [r \in Requests |->
    IF Len(StepsOf(r)) > 1
    THEN Preflight(FrameOf(r), [i \in DOMAIN StepsOf(r) |-> Answer[StepsOf(r)[i]]])
    ELSE OneStep(WithPlan(FrameOf(r), Answer[r.prompt]))]

Steps == StepsOf(req)
Planned == [i \in DOMAIN Intended[req] |-> Intended[req][i].plan]
Mutations(plans) ==
    {i \in DOMAIN plans : Gate[Steps[i]] = "model" /\ plans[i] # NoPlan /\ plans[i].approval}
Targets(step) == IF Len(req.contexts) > 1 THEN {req.contexts[k] : k \in DOMAIN req.contexts}
                 ELSE {step.after.ctx}

\* A clause of a route that is handled locally leaves the intent prepared for
\* it to the step after it (route.go:257).  What steps are meant to do is said
\* of the routes without such a clause before another step.
InStep == \A i \in DOMAIN Steps : i < Len(Steps) => Gate[Steps[i]] # "local"

Actions == {done[i] : i \in DOMAIN done}
OfPrompt(a) == a.by = "prompt"      \* and not the fix a report suggested
Complete(shown, ctx) ==
    \A n \in DOMAIN shown.actions :
        \E a \in Actions : OfPrompt(a) /\ a.plan = shown /\ a.ctx = ctx /\ a.n = n

AgreedTo(a) == <<a.plan, a.ctx>> \in agreed

Consented(a) ==
    \/ AgreedTo(a)
    \/ (req.approve /\ Len(req.contexts) <= 1)
    \/ (req.each /\ Len(req.contexts) > 1 /\ OfPrompt(a))

\* No action reaches a cluster without consent for its plan in that context:
\* a yes of the user, --approve for one context, --approve-each-context for
\* several.  The fixes of a read-only prompt are held to it, too, unless the
\* prompt is a step of a route: the consent to the steps is passed on as the
\* flag, and there covers fixes that nobody has seen.
OnlyConsented ==
    InStep => \A a \in Actions : OfPrompt(a) \/ Len(Steps) <= 1 => Consented(a)

\* What optimize suggests is applied only after the user's own yes, whatever
\* flags the command line had and whatever route the prompt is a step of.
OptimizeAsks == \A a \in Actions : a.by = "optimize" => AgreedTo(a)

\* --approve alone never mutates several contexts (ADR-0012), neither in a
\* route nor through the consent a fan-out passes to its children.
PlainApproveNeverFansOut ==
    req.approve /\ ~req.each /\ Len(req.contexts) > 1 =>
        \A a \in Actions : AgreedTo(a)

Refused(plans) == \E i \in DOMAIN plans : plans[i] # NoPlan /\ EvaluatePlan(plans[i]) = "denied"

\* The CLI's own denials stand whatever the organisation, the flags and the
\* user say: no step of a prompt that plans a refused action reaches a cluster,
\* not even the steps of the route that come before it.
DeniedNeverRuns ==
    /\ \A a \in Actions : EvaluatePlan(a.plan) # "denied"
    /\ Refused(Planned) => Actions = {}

\* While policy and clock stand still, no action is one the organisation
\* denies in the context it reaches: a fan-out judges the plan once for the
\* prompt's context, and again in each child.
PolicyBinds ==
    changes = 0 =>
        \A a \in Actions :
            EvaluatePlanWithOrg(a.plan, loadOrgPolicy, a.ctx, hour) # "denied"

\* A history entry that says applied tells the truth: its mutation was carried
\* out in full, or was opened as a pull request and left the cluster alone.
RecordTruthful ==
    \A i \in DOMAIN ledger :
        LET e == ledger[i]
        IN  /\ e.decision = "pr_opened" => \A a \in Actions : OfPrompt(a) => a.plan # e.plan
            /\ e.applied /\ e.decision # "pr_opened" /\ e.plan.approval
                    => Complete(e.plan, e.ctx)

\* Unless the process dies, whatever it planned and did to a cluster, down to
\* the first action of a plan that then failed, is in the history.
ActionsRecorded ==
    outcome.how \in {"ok", "error"} =>
        \A a \in Actions : OfPrompt(a) =>
            \E i \in DOMAIN ledger : ledger[i].plan = a.plan /\ ledger[i].ctx = a.ctx

AllDone(plans, steps) ==
    \A i \in Mutations(plans) : \A ctx \in Targets(steps[i]) : Complete(Shown(plans[i]), ctx)

\* A result that says applied covers every mutation of every step in every
\* context, through pull requests or through the cluster.
ResultTruthful ==
    outcome.how = "ok" /\ outcome.applied /\ InStep /\ ~req.pr =>
        AllDone(Planned, Intended[req])

DoneInOrder(plans) ==
    \A i \in DOMAIN done : OfPrompt(done[i]) =>
        /\ done[i].step \in Mutations(plans) /\ done[i].plan = Shown(plans[done[i].step])
        /\ \A s \in Mutations(plans) : s < done[i].step =>
               \A n \in DOMAIN plans[s].actions :
                   \E j \in 1..(i-1) : OfPrompt(done[j]) /\ done[j].step = s /\ done[j].n = n

\* The steps of a route happen in order, and as they were shown: an action of
\* one step is part of the plan that was prepared for it, and finds every
\* mutation of the steps before it complete.
RouteInOrder == InStep => DoneInOrder(Planned)

\* The invocation ends with an answer, unless it is killed: the recursion of
\* routes and fan-outs is bounded by the clauses of the prompt.
RunEnds == <>(outcome.how \in {"ok", "error", "killed"})

\* A recipe is the same route as the chain of its steps (docs/recipes.md), so
\* it never nests deeper than the chain.
RecipesEnd == outcome.how # "overflow"

(***************************************************************************)
(* What is prepared for a sample: an intent of the model, the prompt it    *)
(* came with, and the preferences of the command line.                     *)
(***************************************************************************)
First(s)  == Prepared(s.raw, s.prompt, s.prefs, ScopedKinds)
Replayed(in, s) == Build(Prepared(in, s.prompt, s.prefs, ScopedKinds \cup {"roast"}))
Elsewhere(s) == [s EXCEPT !.prefs = InContext(@, "elsewhere")]

SameInStep(plan, step) ==
    plan # NoPlan /\ (plan.approval \/ (step # NoPlan /\ step.approval)) =>
        step # NoPlan /\ step.approval = plan.approval /\ step.actions = plan.actions

SameMutation(plan, other) ==
    other # NoPlan /\ other.approval /\ Shown(other).actions = Shown(plan).actions
SameInContext(plan, s) ==
    plan # NoPlan /\ plan.approval => SameMutation(plan, Replayed(plan.intent, Elsewhere(s)))

\* Steps and contexts run what was shown: an intent that was prepared once and
\* is prepared again in a step of a route, or as the intent of a plan in a
\* context of a fan-out, gives the same mutation and no other.  Not so for a
\* prompt that optimises and autoscales: prepared once it only reads, prepared
\* again it creates the autoscaler, and that step asks for itself, unless the
\* route was agreed to for the sake of another step.
ReplayedAlike ==
    \A s \in Samples :
        /\ ~({"optimize", "hpa"} \subseteq s.prompt.says) =>
               SameInStep(Build(First(s)), Replayed(First(s), s))
        /\ SameInContext(Build(First(s)), s)

MutatingTopics == {"install", "workflow", "tekton", "keda", "hpa", "crossplane", "gitops"}

PlanSound(s, plan, risk) ==
    /\ s.raw.kind = "deny" => risk = "denied"
    /\ ~plan.approval =>
            /\ risk \in {"low", "denied"}
            /\ IsReadOnly(plan) \/ risk = "denied"
    /\ plan.approval =>
            /\ RiskRank[risk] > RiskRank["low"]
            /\ s.raw.kind \in Mutating \cup {"gitops"} \/ s.prompt.says \cap MutatingTopics # {}
            /\ \A i \in DOMAIN plan.actions :
                /\ plan.actions[i].ns \in {Unset, planNamespace(plan)}
                /\ s.prefs.forceNs => plan.actions[i].ns \in {Unset, s.prefs.ns}

\* Planner, safety policy and pipeline agree on what a mutation is, each by a
\* list of its own: a plan asks for approval iff its risk is not low, and a
\* plan that does not is one RunWith takes for a read.  Only a mutation that
\* the model extracted or the prompt speaks of is planned; all its actions lie
\* in the namespace the organisation's policy is asked about, and in the one
\* the command line forces; and a denial stays one.
PlansSound ==
    \A s \in Samples :
        Build(First(s)) # NoPlan => PlanSound(s, Build(First(s)), EvaluatePlan(Build(First(s))))

\* What happens to a cluster is what was shown and agreed to, through flags,
\* answers, routes, offered fixes and fan-outs: nothing without consent or out
\* of turn, and all of it when the result says so (pipeline.go:1446, route.go:54).
AsAgreed ==
    /\ OnlyConsented /\ OptimizeAsks /\ PlainApproveNeverFansOut /\ RouteInOrder /\ ResultTruthful

\* Nothing happens that the CLI or the organisation denies, nothing that they
\* take for a read changes anything, and what was judged is what a step or a
\* context carries out (pipeline.go:268, planner.go:18, route.go:185).
PolicyObeyed == DeniedNeverRuns /\ PolicyBinds /\ PlansSound /\ ReplayedAlike

\* History tells what happened, also when a step failed (pipeline.go:349).
RecordsTruthful == TypeOK /\ RecordTruthful /\ ActionsRecorded
=============================================================================
