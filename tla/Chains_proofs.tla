----------------------------- MODULE Chains_proofs -----------------------------
(***************************************************************************)
(* What is done is what was agreed to: AsAgreed of Pipeline, for any       *)
(* prompt whose clauses split no further, and any answers of the model,    *)
(* contexts, flags and policies.  It is an invariant of its own (Course)   *)
(* on top of the one of Pipeline_proofs: each call that may change         *)
(* something carries out a step of the request, in a stack of one of a few *)
(* shapes (Shape), and every action leads from one of them to another or   *)
(* ends the invocation.  What is prepared on the way is what was shown,    *)
(* since preparing an intent again changes nothing that is shown.          *)
(***************************************************************************)
EXTENDS Pipeline_proofs

(***************************************************************************)
(* What is shown again: a step of a route, or a context of a fan-out, is   *)
(* shown as the plan that was agreed to.                                   *)
(***************************************************************************)

LEMMA ShownHas ==
    ASSUME NEW p, IsExecutionPlan(p), NEW s, s = Shown(p), NEW m, m = [target |-> p.intent.name]
    PROVE  /\ s.approval = p.approval /\ s.intent.kind = p.intent.kind /\ s.intent.ns = p.intent.ns
           /\ s.intent.name = p.intent.name /\ s.intent.object = p.intent.object
           /\ s.intent.params = p.intent.params ++ m
           /\ s = [intent |-> s.intent, approval |-> s.approval, actions |-> s.actions]
  BY ZenonT(60), ShownIs

\* Prepared and planned again, a mutation is shown as it was the first time.
LEMMA SameShown ==
    ASSUME NEW p, IsExecutionPlan(p), NEW q, IsExecutionPlan(q), q.approval = p.approval,
           q.intent.kind = p.intent.kind, q.intent.name = p.intent.name, q.intent.ns = p.intent.ns,
           q.intent.object = p.intent.object,
           \/ q.intent.params = p.intent.params
           \/ q.intent.params = p.intent.params ++ [target |-> p.intent.name],
           Shown(q).actions = Shown(p).actions
    PROVE  Shown(q) = Shown(p)
  <1>1. PICK s, t : s = Shown(p) /\ t = Shown(q)
    OBVIOUS
  <1>2. PICK m : m = [target |-> p.intent.name]
    OBVIOUS
  <1>3. /\ s.approval = p.approval /\ s.intent.kind = p.intent.kind /\ s.intent.ns = p.intent.ns
        /\ s.intent.name = p.intent.name /\ s.intent.object = p.intent.object
        /\ s.intent.params = p.intent.params ++ m
        /\ s = [intent |-> s.intent, approval |-> s.approval, actions |-> s.actions]
    BY <1>1, <1>2, ShownHas
  <1>4. /\ t.approval = q.approval /\ t.intent.kind = q.intent.kind /\ t.intent.ns = q.intent.ns
        /\ t.intent.name = q.intent.name /\ t.intent.object = q.intent.object
        /\ t.intent.params = q.intent.params ++ m
        /\ t = [intent |-> t.intent, approval |-> t.approval, actions |-> t.actions]
    <2>1. PICK n : n = [target |-> q.intent.name]
      OBVIOUS
    <2>2. /\ t.approval = q.approval /\ t.intent.kind = q.intent.kind /\ t.intent.ns = q.intent.ns
          /\ t.intent.name = q.intent.name /\ t.intent.object = q.intent.object
          /\ t.intent.params = q.intent.params ++ n
          /\ t = [intent |-> t.intent, approval |-> t.approval, actions |-> t.actions]
      BY <1>1, <2>1, ShownHas
    <2>3. n = m
      BY <1>2, <2>1
    <2>4. QED
      BY <2>2, <2>3
  <1>5. t.intent.params = s.intent.params
    BY <1>2, <1>3, <1>4, PlusTwice
  <1>6. PICK x, y : x = p.intent /\ y = q.intent
    OBVIOUS
  <1>7. IsIntent(x) /\ IsIntent(y)
    BY <1>6 DEF IsExecutionPlan
  <1>8. /\ s.intent = [x EXCEPT !.ctx = Unset, !.params = @ ++ [target |-> x.name]]
        /\ t.intent = [y EXCEPT !.ctx = Unset, !.params = @ ++ [target |-> y.name]]
    BY <1>1, <1>6 DEF Shown, IsExecutionPlan
  <1>9. PICK c, d : c = s.intent /\ d = t.intent
    OBVIOUS
  <1>10. /\ c = [kind |-> c.kind, name |-> c.name, ns |-> c.ns, object |-> c.object, ctx |-> Unset, params |-> c.params]
         /\ d = [kind |-> d.kind, name |-> d.name, ns |-> d.ns, object |-> d.object, ctx |-> Unset, params |-> d.params]
    BY <1>7, <1>8, <1>9 DEF IsIntent
  <1>11. c = d
    BY <1>3, <1>4, <1>5, <1>9, <1>10
  <1>12. QED
    BY <1>1, <1>3, <1>4, <1>9, <1>11

LEMMA TwinShown ==
    ASSUME NEW a, IsIntent(a), a.kind \in Mutating, NEW v, Twin(v, a), Build(a) # NoPlan
    PROVE  Build(v) # NoPlan /\ Build(v).approval /\ Shown(Build(v)) = Shown(Build(a))
  <1>1. PICK s, t : /\ Build(a) = Mutates(a, s) /\ Build(v) = Mutates(v, t)
                    /\ SameActions(t, s) /\ (v.ctx = a.ctx => t = s)
    BY BuildTwin DEF BuiltAlike
  <1>2. PICK p, q : p = Build(a) /\ q = Build(v)
    OBVIOUS
  <1>3. p = Mutates(a, s) /\ q = Mutates(v, t)
    BY <1>1, <1>2
  <1>4. p # NoPlan /\ p.approval = TRUE /\ p.intent = a
    BY <1>3, MutatesIs
  <1>5. q # NoPlan /\ q.approval = TRUE /\ q.intent = v
    BY <1>3, MutatesIs
  <1>6. IsExecutionPlan(p)
    BY <1>2, <1>4, BuildBuilt DEF Built
  <1>7. IsExecutionPlan(q)
    BY <1>2, <1>5, BuildBuilt DEF Built, Twin, Alter
  <1>8. Shown(q).actions = Shown(p).actions
    BY <1>2, TwinPlanned DEF SameMutation
  <1>9. Shown(q) = Shown(p)
    BY <1>4, <1>5, <1>6, <1>7, <1>8, SameShown DEF Twin, Alter, Target
  <1>10. QED
    BY <1>2, <1>5, <1>9

LEMMA SyncShown ==
    ASSUME NEW a, IsIntent(a), a.kind = "gitops", NEW p, p = Build(a), p # NoPlan, p.approval,
           NEW x, x = a \/ x = p.intent, NEW v, Same(v, x)
    PROVE  Build(v) # NoPlan /\ Build(v).approval /\ Shown(Build(v)) = Shown(p)
  <1>1. PICK q, y, z : q = Build(v) /\ y = p.intent /\ z = q.intent
    OBVIOUS
  <1>2. /\ Synced(y, a) /\ y.object = SyncObject(a) /\ y.params = SyncParams(a)
    BY <1>1, SyncIs
  <1>3. IsIntent(v) /\ v.kind = "gitops" /\ v.name = a.name /\ v.ns = a.ns /\ v.params = x.params
    BY <1>1, <1>2 DEF Same, Alter, Synced
  <1>4. x.params = a.params \/ x.params = SyncParams(a)
    BY <1>1, <1>2
  <1>5. SyncParams(v) = SyncParams(a)
    BY <1>3, <1>4 DEF SyncParams
  <1>6. DOMAIN v.params = DOMAIN a.params /\ \A k \in DOMAIN a.params : k # "action" => v.params[k] = a.params[k]
    BY <1>3, <1>4 DEF SyncParams
  <1>7. Param(v, "engine", "auto") = Param(a, "engine", "auto")
    BY <1>6 DEF Param
  <1>8. /\ "action" \in DOMAIN a.params =>
              v.params["action"] \in {a.params["action"],
                                     IF a.params["action"] = "reconcile" THEN "sync" ELSE a.params["action"]}
    BY <1>3, <1>4 DEF SyncParams
  <1>9. Synced(v, a)
    <2>1. CASE x = y
      BY <1>2, <2>1 DEF Synced, Same, Alter, Param
    <2>2. CASE x = a
      BY <2>2 DEF Synced, Same, Alter, Param
    <2>3. QED
      BY <1>1, <2>1, <2>2
  <1>10. SameMutation(p, q)
    BY <1>1, <1>9, SyncPlanned
  <1>11. q # NoPlan /\ q.approval /\ Shown(q).actions = Shown(p).actions
    BY <1>10 DEF SameMutation
  <1>12. IsExecutionPlan(p) /\ IsExecutionPlan(q)
    BY <1>1, <1>3, <1>11, BuildBuilt DEF Built
  <1>13. q.approval = p.approval
    BY <1>11, <1>12 DEF IsExecutionPlan
  <1>14. /\ Synced(z, v) /\ z.object = SyncObject(v) /\ z.params = SyncParams(v)
    BY <1>1, <1>3, <1>11, SyncIs
  <1>15. SyncObject(v) = SyncObject(a)
    BY <1>7 DEF SyncObject
  <1>16. /\ z.kind = y.kind /\ z.name = y.name /\ z.ns = y.ns /\ z.object = y.object /\ z.params = y.params
    BY <1>2, <1>3, <1>5, <1>14, <1>15 DEF Synced
  <1>17. Shown(q) = Shown(p)
    BY <1>1, <1>11, <1>12, <1>13, <1>16, SameShown
  <1>18. QED
    BY <1>1, <1>11, <1>17

\* The intent of a plan, and the one that it was made of.
Origin(x, p, a) == x = a \/ x = p.intent

LEMMA ShownAgain ==
    ASSUME NEW raw, IsIntent(raw), NEW prompt, NEW prefs, IsPrefs(prefs),
           NEW kinds, kinds \in Scopes, NEW a, a = Prepared(raw, prompt, prefs, kinds),
           NEW p, p = Build(a), p # NoPlan, p.approval, NEW x, Origin(x, p, a),
           NEW other, IsPrefs(other), other.forceNs = prefs.forceNs, prefs.forceNs => other.ns = prefs.ns,
           NEW w, w = Prepared(x, prompt, other, ScopedKinds \cup {"roast"})
    PROVE  /\ Build(w) # NoPlan /\ Build(w).approval /\ Shown(Build(w)) = Shown(p)
           /\ IsIntent(x) /\ w.ctx = (IF other.forceCtx THEN other.ctx ELSE a.ctx)
  <1>1. IsIntent(a)
    BY FirstPrepared
  <1>2. Built(p, a)
    BY <1>1, BuildBuilt
  <1>3. CASE a.kind \in Mutating
    <2>1. a.kind \in Mutating
      BY <1>3
    <2>2. PICK s : p = Mutates(a, s)
      <3>1. Same(a, a)
        BY <1>1 DEF Same, Alter
      <3>2. Twin(a, a)
        BY <3>1 DEF Same, Twin
      <3>3. QED
        BY <2>1, <3>2, BuildTwin DEF BuiltAlike
    <2>3. x = a
      <3>1. p.intent = a
        BY <2>2 DEF Mutates
      <3>2. QED
        BY <3>1 DEF Origin
    <2>4. w = Prepared(a, prompt, other, ScopedKinds \cup {"roast"})
      BY <2>3
    <2>5. Twin(w, a) /\ Located(w, other, a)
      BY <2>1, <2>4, PreparedAgain
    <2>6. Build(w) # NoPlan /\ Build(w).approval /\ Shown(Build(w)) = Shown(Build(a))
      BY <1>1, <2>1, <2>5, TwinShown
    <2>7. QED
      BY <1>1, <2>3, <2>5, <2>6 DEF Located
  <1>4. CASE a.kind = "gitops"
    <2>1. a.kind = "gitops"
      BY <1>4
    <2>2. PICK y : y = p.intent
      OBVIOUS
    <2>3. Synced(y, a) /\ y.ctx = a.ctx /\ y.object # Unset /\ DOMAIN y.params = DOMAIN a.params
      BY <1>1, <2>1, <2>2, SyncIs
    <2>4. Restated(x, a)
      BY <1>1, <2>1, <2>2, <2>3 DEF Synced, Restated, Origin
    <2>5. Same(w, x) /\ Located(w, other, a)
      BY <2>1, <2>4, GitOpsPreparedAgain
    <2>6. Build(w) # NoPlan /\ Build(w).approval /\ Shown(Build(w)) = Shown(p)
      BY <1>1, <2>1, <2>5, SyncShown DEF Origin
    <2>7. QED
      BY <2>4, <2>5, <2>6 DEF Restated, Located
  <1>5. QED
    BY <1>2, <1>3, <1>4 DEF Built

LEMMA ReadStays ==
    ASSUME NEW raw, IsIntent(raw), NEW prompt, ~({"optimize", "hpa"} \subseteq prompt.says),
           NEW prefs, IsPrefs(prefs), NEW kinds, kinds \in Scopes,
           NEW a, a = Prepared(raw, prompt, prefs, kinds),
           NEW p, p = Build(a), p # NoPlan, ~p.approval, NEW x, Origin(x, p, a),
           NEW other, IsPrefs(other), other.forceNs = prefs.forceNs, prefs.forceNs => other.ns = prefs.ns,
           NEW w, w = Prepared(x, prompt, other, ScopedKinds \cup {"roast"})
    PROVE  Build(w) # NoPlan => ~Build(w).approval
  <1>1. IsIntent(a)
    BY FirstPrepared
  <1>2. Built(p, a)
    BY <1>1, BuildBuilt
  <1>3. CASE a.kind = "gitops"
    <2>1. a.kind = "gitops"
      BY <1>3
    <2>2. PICK ns : ns = Or(a.ns, "default")
      OBVIOUS
    <2>3. p = buildGitOps(a, ns)
      BY <2>1, <2>2 DEF Build
    <2>4. Param(a, "action", "status") \in {"status", "health", "show", "list"}
      BY <2>3 DEF buildGitOps, Given, Mutates
    <2>5. \E act : p = Reads(a, act)
      BY <2>3, <2>4 DEF buildGitOps
    <2>6. x = a
      BY <2>5 DEF Reads, Origin
    <2>7. Restated(x, a)
      BY <1>1, <2>6 DEF Restated
    <2>8. Same(w, x) /\ Located(w, other, a)
      BY <2>1, <2>7, GitOpsPreparedAgain
    <2>9. Param(w, "action", "status") = Param(a, "action", "status") /\ w.kind = "gitops"
      BY <2>1, <2>6, <2>8 DEF Same, Alter, Param
    <2>10. Build(w) = buildGitOps(w, Or(w.ns, "default"))
      BY <2>9 DEF Build
    <2>11. \E y, act : Build(w) = Reads(y, act)
      BY <2>4, <2>9, <2>10 DEF buildGitOps
    <2>12. QED
      BY <2>11 DEF Reads
  <1>4. CASE a.kind \notin Mutating \cup {"gitops"}
    <2>1. IsIntent(x) /\ x.kind = a.kind
      BY <1>1, <1>2 DEF Origin, Built, IsExecutionPlan
    <2>2. QED
      BY <1>4, <2>1, ReadAgain
  <1>5. CASE a.kind \in Mutating
    BY <1>2, <1>5 DEF Built, ReadKinds, Mutating
  <1>6. QED
    BY <1>3, <1>4, <1>5

-------------------------------------------------------------------------------

(***************************************************************************)
(* What every call in progress is there for (Course): the step of the      *)
(* request it carries out, in which context, with whose consent, and how   *)
(* much of it has been done.  It holds of the prompts whose clauses split  *)
(* no further (Flat), in a world as of Sane.                               *)
(***************************************************************************)
Flat ==
    /\ req.steps = <<>>
    /\ Steps = <<req.prompt>> \/ (Len(Steps) > 1 /\ Gate[req.prompt] # "local")
    /\ \A i \in DOMAIN Steps :
        /\ Clauses[Steps[i]] = <<Steps[i]>>
        /\ Len(Steps) > 1 \/ Len(req.contexts) > 1 => ~({"optimize", "hpa"} \subseteq Words[Steps[i]].says)

Goal(i, w) == Intended[w.req][i].plan
Site(i, w) == Intended[w.req][i].after.ctx
Size(w) == Len(StepsOf(w.req))
Single(w) == Len(w.req.contexts) <= 1
\* A step that is to mutate, and how much of it was done in a context.
Due(i, w) == Gate[StepsOf(w.req)[i]] = "model" /\ Goal(i, w) # NoPlan /\ Goal(i, w).approval
Did(i, ctx, n, w) ==
    \E a \in w.actions : OfPrompt(a) /\ a.step = i /\ a.plan = Shown(Goal(i, w)) /\ a.ctx = ctx /\ a.n = n
Through(i, ctx, w) ==
    ~w.req.pr /\ Due(i, w) => \A n \in DOMAIN Goal(i, w).actions : Did(i, ctx, n, w)
Whole(i, w) ==
    IF Single(w) THEN Through(i, Site(i, w), w)
    ELSE \A k \in DOMAIN w.req.contexts : Through(i, w.req.contexts[k], w)

\* The same mutation as far as it is shown, or a read for a read.
Meets(p, q) == q # NoPlan /\ q.approval = p.approval /\ (p.approval => Shown(p) = Shown(q))

\* The flag stands for a consent to the step, or, if it only reads, to a fix.
Licensed(i, ctx, w) ==
    IF Goal(i, w) # NoPlan /\ Goal(i, w).approval
    THEN \/ <<Shown(Goal(i, w)), ctx>> \in w.agreed
         \/ w.req.approve /\ Single(w)
         \/ w.req.each /\ ~Single(w)
    ELSE Size(w) <= 1 => w.req.approve /\ Single(w)

Conduct(f, i, ctx, w) ==
    /\ f.type = "run" /\ f.prompt = StepsOf(w.req)[i]
    /\ f.approve \/ f.auto => Licensed(i, ctx, w)
    /\ f.at # "start" => /\ Gate[f.prompt] = "model" /\ Meets(f.plan, Goal(i, w))
                         /\ f.plan.approval => f.ctx = ctx
    /\ f.at = "apply" => \A n \in 1..(f.next - 1) : Did(i, ctx, n, w)
    /\ f.at = "verify" => \A n \in DOMAIN f.plan.actions : Did(i, ctx, n, w)

\* What the command line forces stays.
Keeps(f, r) ==
    /\ f.forceNs = r.forceNs /\ f.forceCtx = r.forceCtx
    /\ (r.forceNs => f.ns = r.ns) /\ (r.forceCtx => f.ctx = r.ctx)

\* The plan of a fan-out was prepared in the namespace it is in.
PlannedBy(f) ==
    \E raw, prefs :
        /\ IsIntent(raw) /\ IsPrefs(prefs) /\ prefs.forceNs = f.forceNs /\ (prefs.forceNs => f.ns = prefs.ns)
        /\ f.plan = Build(Prepared(raw, Words[f.prompt], prefs, ScopedKinds \cup {"roast"}))

\* How many contexts a fan-out has taken on.
Taken(f) == Len(f.contexts) - Len(f.todo)
Ended(f) == f.back # "error" /\ f.seen # NoDoc /\ (f.back = "ok" => f.seen.applied)
Fanning(f, i, w) ==
    /\ f.type = "fan" /\ ~Single(w) /\ Gate[f.prompt] = "model" /\ Meets(f.plan, Goal(i, w)) /\ PlannedBy(f)
    /\ f.plan.approval \/ IsReadOnly(f.plan)
    /\ Len(f.todo) <= Len(f.contexts)
    /\ \A j \in 1..Len(f.todo) : f.todo[j] = f.contexts[Taken(f) + j]
    /\ f.at = "next" /\ f.applied => \A k \in 1..Taken(f) : Through(i, f.contexts[k], w)
    /\ f.at = "back" => /\ Taken(f) > 0
                        /\ f.applied => \A k \in 1..(Taken(f) - 1) : Through(i, f.contexts[k], w)
                        /\ Ended(f) => Through(i, f.contexts[Taken(f)], w)

\* A run under a forced namespace is in that one, and in no other.
Homed(f, r) == f.at # "start" /\ r.forceNs => planNamespace(f.plan) \in {Unset, r.ns}

Tasked(f, i, w) ==
    /\ i \in 1..Size(w) /\ ~f.child /\ f.prompt = StepsOf(w.req)[i] /\ f.contexts = w.req.contexts
    /\ f.each = w.req.each /\ Keeps(f, w.req)
    /\ \/ f.type = "run" /\ (IF Single(w) THEN Conduct(f, i, Site(i, w), w) /\ Homed(f, w.req) ELSE f.at = "start")
       \/ Fanning(f, i, w)

Child(f, g, i, w) ==
    /\ f.child /\ Conduct(f, i, g.contexts[Taken(g)], w)
    /\ f.at = "start" => /\ g.queue = <<g.plan.intent>> /\ f.forceNs = g.forceNs /\ (f.forceNs => f.ns = g.ns)
                         /\ f.forceCtx /\ f.ctx = g.contexts[Taken(g)]

\* A route hands out the intents of its steps from the i-th on.
Lined(q, i, w) ==
    \A j \in i..Size(w) : j - i + 1 <= Len(q) /\ q[j - i + 1] = Intended[w.req][j].in

OnRoute(f, w) ==
    /\ f.type = "route" /\ f.prompt = w.req.prompt /\ f.contexts = w.req.contexts
    /\ f.each = w.req.each /\ Keeps(f, w.req)
    /\ f.plans = [i \in 1..Size(w) |-> Goal(i, w)] /\ (\A i \in 1..Size(w) : Goal(i, w) # NoPlan)
    /\ f.next <= Size(w) + 1 /\ (f.next > 1 => Single(w))
    /\ Single(w) /\ f.approve => \A i \in 1..Size(w) : Licensed(i, Site(i, w), w)
    /\ \A i \in 1..(f.next - 1) : Whole(i, w)
    /\ f.at \in {"ask", "step"} => Lined(f.queue, f.next, w)
    /\ f.at = "ask" => f.next = 1
    /\ f.at = "back" => f.next <= Size(w)
    /\ f.at = "back" /\ Ended(f) =>
        /\ Single(w) /\ Whole(f.next, w) /\ Lined(f.queue, f.next + 1, w)
        /\ Keeps(Carried(f, f.seen.ns, f.seen.ctx), w.req)

Waits(f) == f.at = "back" /\ f.seen = NoDoc
TaskAt(s, b, i, w) ==
    /\ Tasked(s[b+1], i, w)
    /\ \/ Len(s) = b + 1
       \/ Len(s) = b + 2 /\ s[b+1].type = "fan" /\ Waits(s[b+1]) /\ Child(s[b+2], s[b+1], i, w)

Shape(s, w) ==
    \/ Size(w) = 1 /\ TaskAt(s, 0, 1, w) /\ (s[1].at = "start" => s[1] = FrameOf(w.req))
    \/ Size(w) > 1 /\ Len(s) = 1 /\ s[1] = FrameOf(w.req)
    \/ Size(w) > 1 /\ Len(s) = 1 /\ OnRoute(s[1], w)
    \/ /\ Size(w) > 1 /\ OnRoute(s[1], w) /\ Waits(s[1]) /\ TaskAt(s, 1, s[1].next, w)
       /\ Lined(s[1].queue, IF s[2].at = "start" THEN s[1].next ELSE s[1].next + 1, w)

Course ==
    /\ \A a \in Actions : OfPrompt(a) \/ Len(Steps) <= 1 => Consented(a)
    /\ DoneInOrder(Planned)
    /\ stack # <<>> => Shape(stack, Actual)
    /\ outcome.how = "ok" /\ outcome.applied => \A i \in 1..Len(Steps) : Whole(i, Actual)
OnCourse == Flat /\ InStep => Course

-------------------------------------------------------------------------------

(***************************************************************************)
(* What each way of going on makes of the stack, in full.                  *)
(***************************************************************************)

\* What a step makes of the stack, in full.
Replaced(s, t, f) ==
    IsSeq(t) /\ Len(t) = Len(s) /\ t[Len(s)] = f /\ \A i \in 1..(Len(s) - 1) : t[i] = s[i]
Dropped(s, t, p) ==
    /\ IsSeq(t) /\ Len(s) > 1 /\ Len(t) = Len(s) - 1 /\ t[Len(s) - 1] = p
    /\ \A i \in 1..(Len(s) - 2) : t[i] = s[i]
Pushed(s, t, f, g) ==
    /\ IsSeq(t) /\ Len(t) = Len(s) + 1 /\ t[Len(s)] = f /\ t[Len(s) + 1] = g
    /\ \A i \in 1..(Len(s) - 1) : t[i] = s[i]
Drawn(g, k) == [g EXCEPT !.queue = SubSeq(@, k + 1, Len(@))]
Closes(how, applied) == stack' = <<>> /\ outcome' = [how |-> how, applied |-> applied]
Continues(t, b, m, how) ==
    /\ outcome' = outcome /\ IsSeq(t) /\ Len(t) = m /\ t[m] = [b[m] EXCEPT !.back = how]
    /\ \A i \in 1..(m - 1) : t[i] = b[i]

LEMMA BelowForm ==
    ASSUME IsStack(stack), stack # <<>>, NEW n, n = Len(stack), NEW b, b = Below
    PROVE  n \in Nat /\ n > 0 /\ IsSeq(b) /\ Len(b) = n - 1 /\ \A i \in 1..(n - 1) : b[i] = stack[i]
  <1>1. n \in Nat /\ n > 0
    BY EmptyIs DEF IsStack, IsSeq
  <1>2. QED
    BY <1>1, BelowIs DEF Below, IsStack

LEMMA ObservedForm ==
    ASSUME NEW b, IsSeq(b), NEW m, m = Len(b), NEW doc, NEW o, o = Observed(b, doc)
    PROVE  /\ IsSeq(o) /\ Len(o) = m
           /\ m > 0 => o[m] = [b[m] EXCEPT !.seen = doc]
           /\ m > 0 /\ b[m].type = "fan" => \A i \in 1..(m - 1) : o[i] = b[i]
  <1>1. m \in Nat /\ DOMAIN b = 1..m
    BY DEF IsSeq
  <1>2. o = [i \in 1..m |-> IF \A j \in (i+1)..m : b[j].type # "fan" THEN [b[i] EXCEPT !.seen = doc] ELSE b[i]]
    BY <1>1 DEF Observed
  <1>3. IsSeq(o) /\ Len(o) = m
    <2>1. o = [i \in 1..m |-> o[i]]
      BY <1>2
    <2>2. QED
      BY <1>1, <2>1, FunctionIsSeq
  <1>4. ASSUME m > 0
        PROVE  o[m] = [b[m] EXCEPT !.seen = doc]
    <2>1. m \in 1..m /\ (m+1)..m = {}
      BY <1>1, <1>4
    <2>2. QED
      BY <1>2, <2>1
  <1>5. ASSUME m > 0, b[m].type = "fan", NEW i \in 1..(m - 1)
        PROVE  o[i] = b[i]
    <2>1. i \in 1..m /\ m \in (i+1)..m
      BY <1>1, <1>5
    <2>2. QED
      BY <1>2, <1>5, <2>1
  <1>6. QED
    BY <1>3, <1>4, <1>5

LEMMA ConsumedForm ==
    ASSUME IsStack(stack), stack # <<>>, NEW n, n = Len(stack), NEW k, NEW c, c = Consumed(k)
    PROVE  /\ IsSeq(c) /\ Len(c) = n - 1 /\ (n > 1 => c[n-1] = Drawn(stack[n-1], k))
           /\ \A i \in 1..(n - 2) : c[i] = stack[i]
  <1>1. PICK b : b = Below
    OBVIOUS
  <1>2. n \in Nat /\ n > 0 /\ IsSeq(b) /\ Len(b) = n - 1 /\ \A i \in 1..(n - 1) : b[i] = stack[i]
    BY <1>1, BelowForm
  <1>3. CASE n = 1
    BY <1>1, <1>2, <1>3 DEF Consumed, Model
  <1>4. CASE n > 1
    <2>1. n - 1 \in Nat /\ n - 1 > 0 /\ n - 1 \in 1..(n - 1) /\ ~Model
      BY <1>2, <1>4 DEF Model
    <2>2. PICK h, m : h = Drawn(b[n-1], k) /\ m = n - 1
      OBVIOUS
    <2>3. c = [b EXCEPT ![m] = h]
      BY <1>1, <1>2, <2>1, <2>2 DEF Consumed, Drawn
    <2>4. OnlyLast(b, c, m, h)
      BY <1>2, <2>1, <2>2, <2>3 DEF OnlyLast, IsSeq
    <2>5. Len(c) = m /\ IsSeq(c) /\ c[m] = h /\ \A i \in 1..(m-1) : c[i] = b[i]
      BY <1>2, <2>1, <2>2, <2>4, LastIs
    <2>6. QED
      BY <1>2, <2>1, <2>2, <2>5
  <1>5. QED
    BY <1>2, <1>3, <1>4

LEMMA ReturnForm ==
    ASSUME NEW b, IsSeq(b), NEW m, m = Len(b), NEW how, NEW applied, Return(b, how, applied)
    PROVE  (m = 0 => Closes(how, applied)) /\ (m > 0 => Continues(stack', b, m, how))
  <1>1. m \in Nat /\ ((b = <<>>) <=> (m = 0))
    BY EmptyIs DEF IsSeq
  <1>2. CASE m = 0
    BY <1>1, <1>2 DEF Return, Closes
  <1>3. CASE m > 0
    <2>1. PICK t, h : t = stack' /\ h = [b[m] EXCEPT !.back = how]
      OBVIOUS
    <2>2. t = [b EXCEPT ![m] = h] /\ outcome' = outcome
      BY <1>1, <1>3, <2>1 DEF Return
    <2>3. OnlyLast(b, t, m, h)
      BY <1>1, <2>2 DEF OnlyLast, IsSeq
    <2>4. Len(t) = m /\ IsSeq(t) /\ t[m] = h /\ \A i \in 1..(m-1) : t[i] = b[i]
      BY <1>1, <1>3, <2>3, LastIs
    <2>5. QED
      BY <1>1, <1>3, <2>1, <2>2, <2>4 DEF Continues
  <1>4. QED
    BY <1>1, <1>2, <1>3

\* The innermost call returns: to nobody, or to the call p that made it.
Back(p) == Dropped(stack, stack', p) /\ outcome' = outcome
Nested == Len(stack) = 2 \/ (Len(stack) = 3 /\ stack[2].type = "fan")
Caller == stack[Len(stack) - 1]

LEMMA BelowReturns ==
    ASSUME IsStack(stack), stack # <<>>, NEW how, NEW applied, Return(Below, how, applied)
    PROVE  /\ Len(stack) = 1 => Closes(how, applied)
           /\ Nested => Back([Caller EXCEPT !.back = how])
  <1>1. PICK b, n : b = Below /\ n = Len(stack)
    OBVIOUS
  <1>2. n \in Nat /\ n > 0 /\ IsSeq(b) /\ Len(b) = n - 1 /\ \A i \in 1..(n - 1) : b[i] = stack[i]
    BY <1>1, BelowForm
  <1>3. PICK m : m = n - 1
    OBVIOUS
  <1>4. (m = 0 => Closes(how, applied)) /\ (m > 0 => Continues(stack', b, m, how))
    <2>1. IsSeq(b) /\ m = Len(b) /\ Return(b, how, applied)
      BY <1>1, <1>2, <1>3
    <2>2. QED
      BY <2>1, ReturnForm
  <1>5. CASE n = 1
    BY <1>1, <1>3, <1>4, <1>5 DEF Nested
  <1>6. CASE n > 1
    <2>1. m > 0 /\ m \in 1..(n-1) /\ b[m] = stack[n-1]
      BY <1>2, <1>3, <1>6
    <2>2. Dropped(stack, stack', [stack[n-1] EXCEPT !.back = how])
      BY <1>1, <1>2, <1>3, <1>4, <1>6, <2>1 DEF Dropped, Continues
    <2>3. QED
      BY <1>1, <1>4, <1>6, <2>1, <2>2 DEF Back, Caller, Continues
  <1>7. QED
    BY <1>2, <1>5, <1>6

\* What it returns is observed, and intents may have been taken before.
LEMMA ObservedReturns ==
    ASSUME IsStack(stack), stack # <<>>, NEW how, NEW applied, NEW doc, NEW b, Return(Observed(b, doc), how, applied),
           NEW g, IsSeq(b), Len(b) = Len(stack) - 1, Len(stack) > 1 => b[Len(stack) - 1] = g,
           \A i \in 1..(Len(stack) - 2) : b[i] = stack[i], Len(stack) > 1 => g.type = Caller.type
    PROVE  /\ Len(stack) = 1 => Closes(how, applied)
           /\ Nested => Back([g EXCEPT !.seen = doc, !.back = how])
  <1>1. PICK n, o, m : n = Len(stack) /\ o = Observed(b, doc) /\ m = n - 1
    OBVIOUS
  <1>2. n \in Nat /\ n > 0 /\ m = Len(b)
    BY <1>1, BelowForm
  <1>3. /\ IsSeq(o) /\ Len(o) = m
        /\ m > 0 => o[m] = [b[m] EXCEPT !.seen = doc]
        /\ m > 0 /\ b[m].type = "fan" => \A i \in 1..(m - 1) : o[i] = b[i]
    BY <1>1, <1>2, ObservedForm
  <1>4. (m = 0 => Closes(how, applied)) /\ (m > 0 => Continues(stack', o, m, how))
    <2>1. IsSeq(o) /\ m = Len(o) /\ Return(o, how, applied)
      BY <1>1, <1>3
    <2>2. QED
      BY <2>1, ReturnForm
  <1>5. ASSUME Nested
        PROVE  Back([g EXCEPT !.seen = doc, !.back = how])
    <2>1. n > 1 /\ m > 0 /\ b[m] = g /\ (n = 2 \/ g.type = "fan")
      <3>1. n = 2 \/ (n = 3 /\ stack[2].type = "fan")
        BY <1>1, <1>5 DEF Nested
      <3>2. n > 1 /\ m = n - 1 /\ b[n - 1] = g /\ g.type = stack[n - 1].type
        BY <1>1, <1>2, <3>1 DEF Caller
      <3>3. QED
        BY <1>1, <3>1, <3>2
    <2>2. \A i \in 1..(m - 1) : o[i] = stack[i]
      BY <1>1, <1>2, <1>3, <2>1
    <2>3. stack'[m] = [g EXCEPT !.seen = doc, !.back = how]
      BY <1>3, <1>4, <2>1 DEF Continues
    <2>4. QED
      BY <1>1, <1>2, <1>4, <2>1, <2>2, <2>3 DEF Back, Dropped, Continues
  <1>6. QED
    BY <1>1, <1>2, <1>4, <1>5

LEMMA DidOn ==
    ASSUME NEW w, NEW v, Onward(w, v)
    PROVE  /\ v.req = w.req
           /\ \A i, ctx, n : Did(i, ctx, n, w) => Did(i, ctx, n, v)
           /\ \A i, ctx : Through(i, ctx, w) => Through(i, ctx, v)
           /\ \A i : Whole(i, w) => Whole(i, v)
           /\ \A i, ctx : Licensed(i, ctx, w) => Licensed(i, ctx, v)
           /\ \A q, i : Lined(q, i, w) => Lined(q, i, v)
           /\ Size(v) = Size(w) /\ Single(v) = Single(w) /\ \A i : Goal(i, v) = Goal(i, w) /\ Site(i, v) = Site(i, w)
  <1>1. v.req = w.req /\ w.actions \subseteq v.actions /\ w.agreed \subseteq v.agreed
    BY DEF Onward
  <1>2. Size(v) = Size(w) /\ Single(v) = Single(w) /\ \A i : Goal(i, v) = Goal(i, w) /\ Site(i, v) = Site(i, w)
    BY <1>1 DEF Size, Single, Goal, Site
  <1>3. \A i, ctx, n : Did(i, ctx, n, w) => Did(i, ctx, n, v)
    BY <1>1, <1>2 DEF Did
  <1>4. \A i, ctx : Through(i, ctx, w) => Through(i, ctx, v)
    BY <1>1, <1>2, <1>3 DEF Through, Due
  <1>5. \A i : Whole(i, w) => Whole(i, v)
    BY <1>1, <1>2, <1>4 DEF Whole
  <1>6. \A i, ctx : Licensed(i, ctx, w) => Licensed(i, ctx, v)
    BY <1>1, <1>2 DEF Licensed
  <1>7. \A q, i : Lined(q, i, w) => Lined(q, i, v)
    BY <1>1, <1>2 DEF Lined
  <1>8. QED
    BY <1>1, <1>2, <1>3, <1>4, <1>5, <1>6, <1>7

LEMMA ConductOn ==
    ASSUME NEW w, NEW v, Onward(w, v), NEW f, NEW i, NEW ctx, Conduct(f, i, ctx, w)
    PROVE  Conduct(f, i, ctx, v)
  BY DidOn DEF Conduct

\* What stays of a fan-out and of a route while they wait for the calls they
\* made, and what they hear from them.
LEMMA FanHears ==
    ASSUME NEW w, NEW v, Onward(w, v), NEW f, NEW i, Fanning(f, i, w), f.at = "back", NEW p, Alike(f, p),
           Ended(p) => Through(i, f.contexts[Taken(f)], v)
    PROVE  Fanning(p, i, v)
  <1>1. /\ p.type = f.type /\ p.at = f.at /\ p.prompt = f.prompt /\ p.ns = f.ns /\ p.forceNs = f.forceNs
        /\ p.contexts = f.contexts /\ p.todo = f.todo /\ p.plan = f.plan /\ p.applied = f.applied
    BY DEF Alike, Fields
  <1>2. PlannedBy(p) /\ Taken(p) = Taken(f)
    BY <1>1 DEF PlannedBy, Taken, Fanning
  <1>3. QED
    BY <1>1, <1>2, DidOn DEF Fanning

LEMMA TaskHears ==
    ASSUME NEW w, NEW v, Onward(w, v), NEW f, NEW i, Tasked(f, i, w), f.type = "fan", f.at = "back",
           NEW p, Alike(f, p), Ended(p) => Through(i, f.contexts[Taken(f)], v)
    PROVE  Tasked(p, i, v)
  <1>1. /\ p.child = f.child /\ p.prompt = f.prompt /\ p.contexts = f.contexts /\ p.each = f.each
        /\ p.forceNs = f.forceNs /\ p.forceCtx = f.forceCtx /\ p.ns = f.ns /\ p.ctx = f.ctx
    BY DEF Alike, Fields
  <1>2. Fanning(f, i, w)
    BY DEF Tasked
  <1>3. Fanning(p, i, v)
    BY <1>2, FanHears
  <1>4. QED
    BY <1>1, <1>3, DidOn DEF Tasked, Keeps

Heard(p, w) ==
    /\ Single(w) /\ Whole(p.next, w) /\ Lined(p.queue, p.next + 1, w)
    /\ Keeps(Carried(p, p.seen.ns, p.seen.ctx), w.req)

LEMMA RouteHears ==
    ASSUME NEW w, NEW v, Onward(w, v), NEW f, OnRoute(f, w), f.at = "back", NEW p, Alike(f, p),
           Ended(p) => Heard(p, v)
    PROVE  OnRoute(p, v)
  <1>1. /\ p.type = f.type /\ p.at = f.at /\ p.prompt = f.prompt /\ p.contexts = f.contexts /\ p.each = f.each
        /\ p.forceNs = f.forceNs /\ p.forceCtx = f.forceCtx /\ p.ns = f.ns /\ p.ctx = f.ctx
        /\ p.plans = f.plans /\ p.next = f.next /\ p.approve = f.approve
    BY DEF Alike, Fields
  <1>2. Keeps(p, w.req)
    BY <1>1 DEF Keeps, OnRoute
  <1>3. QED
    BY <1>1, <1>2, DidOn DEF OnRoute, Heard

LEMMA WaitsOn ==
    ASSUME NEW w, NEW v, Onward(w, v), NEW f, OnRoute(f, w), IsRec(f), Waits(f)
    PROVE  OnRoute(f, v)
  <1>1. Alike(f, f) /\ ~Ended(f) /\ f.at = "back"
    BY DEF Alike, Ended, Waits
  <1>2. QED
    BY <1>1, RouteHears

LEMMA FanWaitsOn ==
    ASSUME NEW w, NEW v, Onward(w, v), NEW f, NEW i, Tasked(f, i, w), f.type = "fan", IsRec(f), Waits(f)
    PROVE  Tasked(f, i, v)
  <1>1. Alike(f, f) /\ ~Ended(f) /\ f.at = "back"
    BY DEF Alike, Ended, Waits
  <1>2. QED
    BY <1>1, TaskHears

\* Where the innermost call stands: b calls of a route are below the call that
\* carries out its i-th step, which is it, or has fanned out into it.
Base(s, b, i, w) ==
    \/ b = 0 /\ i = 1 /\ Size(w) = 1 /\ (s[1].at = "start" => s[1] = FrameOf(w.req))
    \/ /\ b = 1 /\ i = s[1].next /\ Size(w) > 1 /\ OnRoute(s[1], w) /\ Waits(s[1])
       /\ Lined(s[1].queue, IF s[2].at = "start" THEN i ELSE i + 1, w)
Serves(s, b, i, w) == Base(s, b, i, w) /\ TaskAt(s, b, i, w)
Where(s, b, i, w) == IF Len(s) = b + 1 THEN Site(i, w) ELSE s[b+1].contexts[Taken(s[b+1])]
Apart(s, w) == Size(w) > 1 /\ Len(s) = 1 /\ (s[1] = FrameOf(w.req) \/ OnRoute(s[1], w))

LEMMA ServesShape ==
    ASSUME NEW w, NEW s
    PROVE  Shape(s, w) <=> (Apart(s, w) \/ \E b, i : Serves(s, b, i, w))
  BY DEF Shape, Serves, Base, Apart

\* What is known of the innermost call when it is a run.
LEMMA ServesPlace ==
    ASSUME NEW w, NEW s, NEW b, NEW i, Serves(s, b, i, w)
    PROVE  /\ b \in 0..1 /\ Len(s) \in {b + 1, b + 2} /\ i \in 1..Size(w)
           /\ Len(s) = 3 => s[2].type = "fan"
  <1>1. b \in 0..1 /\ Tasked(s[b+1], i, w) /\ Len(s) \in {b + 1, b + 2}
    BY DEF Serves, Base, TaskAt
  <1>2. i \in 1..Size(w)
    BY <1>1 DEF Tasked
  <1>3. Len(s) = b + 1 \/ (Len(s) = b + 2 /\ s[b+1].type = "fan")
    BY DEF Serves, TaskAt
  <1>4. ASSUME Len(s) = 3
        PROVE  s[2].type = "fan"
    <2>1. b = 1
      BY <1>1, <1>3, <1>4
    <2>2. QED
      BY <1>3, <1>4, <2>1
  <1>5. QED
    BY <1>1, <1>2, <1>4

LEMMA ServesStep ==
    ASSUME NEW w, NEW s, NEW b, NEW i, Serves(s, b, i, w)
    PROVE  /\ (IF s[1].type = "route" THEN s[1].next ELSE 1) = i
           /\ \A j \in 1..(i - 1) : Whole(j, w)
  <1>1. b \in 0..1 /\ Tasked(s[b+1], i, w)
    BY DEF Serves, Base, TaskAt
  <1>2. CASE b = 0
    BY <1>1, <1>2 DEF Serves, Base, Tasked, Fanning
  <1>3. CASE b = 1
    BY <1>3 DEF Serves, Base, OnRoute
  <1>4. QED
    BY <1>1, <1>2, <1>3

LEMMA ServesRun ==
    ASSUME NEW w, NEW s, NEW b, NEW i, Serves(s, b, i, w), NEW f, f = s[Len(s)], f.type = "run"
    PROVE  /\ f.at # "start" \/ Len(s) = b + 2 => Conduct(f, i, Where(s, b, i, w), w)
           /\ f.at # "start" /\ Len(s) = b + 1 => Single(w)
  <1>1. b \in 0..1 /\ Tasked(s[b+1], i, w) /\ Len(s) \in {b + 1, b + 2}
    BY DEF Serves, Base, TaskAt
  <1>2. CASE Len(s) = b + 1
    BY <1>1, <1>2 DEF Tasked, Fanning, Where
  <1>3. CASE Len(s) = b + 2
    BY <1>1, <1>3 DEF Serves, TaskAt, Child, Where
  <1>4. QED
    BY <1>1, <1>2, <1>3

\* A step ends the invocation as it should, or leaves calls of the right shape.
Lands(v) ==
    \/ stack' # <<>> /\ outcome' = outcome /\ Shape(stack', v)
    \/ /\ stack' = <<>>
       /\ outcome'.how = "ok" /\ outcome'.applied => \A j \in 1..Size(v) : Whole(j, v)

SameCall(f, g) ==
    /\ g.type = "run" /\ g.at # "start" /\ g.child = f.child /\ g.prompt = f.prompt /\ g.contexts = f.contexts
    /\ g.each = f.each /\ g.ns = f.ns /\ g.ctx = f.ctx /\ g.forceNs = f.forceNs /\ g.forceCtx = f.forceCtx
    /\ g.plan = f.plan

LEMMA BecomeForm ==
    ASSUME IsStack(stack), stack # <<>>, NEW g, Become(g)
    PROVE  Replaced(stack, stack', g) /\ outcome' = outcome
  <1>1. PICK b, n : b = Below /\ n = Len(stack)
    OBVIOUS
  <1>2. n \in Nat /\ n > 0 /\ IsSeq(b) /\ Len(b) = n - 1 /\ \A i \in 1..(n - 1) : b[i] = stack[i]
    BY <1>1, BelowForm
  <1>3. PICK t : t = stack'
    OBVIOUS
  <1>4. IsLonger(t, b, g) /\ outcome' = outcome
    BY <1>1, <1>3 DEF Become, IsLonger
  <1>5. Len(t) = Len(b) + 1 /\ IsSeq(t) /\ t[Len(b)+1] = g /\ \A i \in 1..Len(b) : t[i] = b[i]
    BY <1>2, <1>4, AppendIs
  <1>6. QED
    BY <1>1, <1>2, <1>3, <1>4, <1>5 DEF Replaced

LEMMA WorkStays ==
    ASSUME IsStack(stack), stack # <<>>, NEW w, NEW v, Onward(w, v), NEW b, NEW i, Serves(stack, b, i, w),
           NEW f, f = Top, f.type = "run", f.at # "start", NEW g, Become(g), SameCall(f, g),
           Conduct(g, i, Where(stack, b, i, w), v)
    PROVE  Lands(v)
  <1>1. PICK s, t, n : s = stack /\ t = stack' /\ n = Len(stack)
    OBVIOUS
  <1>2. IsStack(s) /\ n = Len(s) /\ f = s[n] /\ Serves(s, b, i, w) /\ n \in Nat /\ n > 0
    BY <1>1, EmptyIs DEF Top, IsStack, IsSeq
  <1>3. b \in 0..1 /\ n \in {b + 1, b + 2} /\ i \in 1..Size(w) /\ (n = b + 1 => Single(w))
    <2>1. f.type = "run" /\ f.at # "start"
      OBVIOUS
    <2>2. QED
      BY <1>2, <2>1, ServesPlace, ServesRun
  <1>4. IsSeq(t) /\ Len(t) = n /\ t[n] = g /\ (\A j \in 1..(n - 1) : t[j] = s[j]) /\ outcome' = outcome
    BY <1>1, BecomeForm DEF Replaced
  <1>5. Conduct(g, i, Where(s, b, i, w), v)
    BY <1>1
  <1>6. TaskAt(t, b, i, v)
    <2>1. CASE n = b + 1
      <3>1. Tasked(f, i, w) /\ t[b+1] = g /\ Len(t) = b + 1
        BY <1>2, <1>3, <1>4, <2>1 DEF Serves, TaskAt
      <3>2. Conduct(g, i, Site(i, v), v)
        BY <1>2, <1>5, <2>1, DidOn DEF Where
      <3>3. Tasked(g, i, v)
        BY <1>3, <2>1, <3>1, <3>2, DidOn DEF Tasked, SameCall, Keeps, Homed, Fanning
      <3>4. QED
        BY <3>1, <3>3 DEF TaskAt
    <2>2. CASE n = b + 2
      <3>1. PICK h : h = s[b+1]
        OBVIOUS
      <3>2. /\ Tasked(h, i, w) /\ h.type = "fan" /\ Waits(h) /\ Child(f, h, i, w) /\ t[b+1] = h /\ t[b+2] = g
            /\ Len(t) = b + 2
        BY <1>2, <1>3, <1>4, <2>2, <3>1 DEF Serves, TaskAt
      <3>3. IsRec(h)
        BY <1>2, <1>3, <2>2, <3>1 DEF IsStack
      <3>4. Tasked(h, i, v)
        BY <3>2, <3>3, FanWaitsOn
      <3>5. Child(g, h, i, v)
        <4>1. Conduct(g, i, h.contexts[Taken(h)], v)
          BY <1>2, <1>3, <1>5, <2>2, <3>1 DEF Where
        <4>2. QED
          BY <3>2, <4>1 DEF Child, SameCall
      <3>6. QED
        BY <3>2, <3>4, <3>5 DEF TaskAt
    <2>3. QED
      BY <1>3, <2>1, <2>2
  <1>7. Base(t, b, i, v)
    <2>1. CASE b = 0
      <3>1. t[1].at # "start"
        BY <1>2, <1>3, <1>4, <2>1 DEF SameCall, Serves, TaskAt, Waits
      <3>2. QED
        BY <1>2, <2>1, <3>1, DidOn DEF Serves, Base
    <2>2. CASE b = 1
      <3>1. n > 1 /\ t[1] = s[1] /\ IsRec(s[1]) /\ (s[2].at = "start" <=> t[2].at = "start")
        <4>1. n > 1 /\ t[1] = s[1] /\ IsRec(s[1])
          BY <1>2, <1>3, <1>4, <2>2 DEF IsStack
        <4>2. CASE n = 2
          BY <1>2, <1>4, <4>1, <4>2 DEF SameCall
        <4>3. CASE n = 3
          BY <1>2, <1>4, <4>1, <4>3
        <4>4. QED
          BY <1>3, <2>2, <4>1, <4>2, <4>3
      <3>2. OnRoute(s[1], w) /\ Waits(s[1]) /\ i = s[1].next /\ Size(w) > 1
            /\ Lined(s[1].queue, IF s[2].at = "start" THEN i ELSE i + 1, w)
        BY <1>2, <2>2 DEF Serves, Base
      <3>3. OnRoute(s[1], v)
        BY <3>1, <3>2, WaitsOn
      <3>4. QED
        BY <2>2, <3>1, <3>2, <3>3, DidOn DEF Base
    <2>3. QED
      BY <1>3, <2>1, <2>2
  <1>8. Shape(t, v)
    BY <1>6, <1>7, ServesShape DEF Serves
  <1>9. t # <<>>
    BY <1>2, <1>4, EmptyIs
  <1>10. QED
    BY <1>1, <1>4, <1>8, <1>9 DEF Lands

\* The innermost call returns, with or without having carried out its step.
LEMMA CallEnds ==
    ASSUME IsStack(stack), stack # <<>>, NEW w, NEW v, Onward(w, v), NEW b, NEW i, Serves(stack, b, i, w),
           NEW how, NEW applied, NEW p,
           Len(stack) = 1 => Closes(how, applied), Nested => Back(p),
           Len(stack) > 1 => Alike(Caller, p),
           Len(stack) = 1 /\ how = "ok" /\ applied => Whole(1, v),
           Len(stack) > 1 /\ Len(stack) = b + 1 /\ Ended(p) => Heard(p, v),
           Len(stack) = b + 2 /\ Ended(p) => Through(i, Where(stack, b, i, w), v)
    PROVE  Lands(v)
  <1>1. PICK s, t, n, f : s = stack /\ t = stack' /\ n = Len(stack) /\ f = Top
    OBVIOUS
  <1>2. IsStack(s) /\ n = Len(s) /\ f = s[n] /\ Serves(s, b, i, w) /\ n \in Nat /\ n > 0
    BY <1>1, EmptyIs DEF Top, IsStack, IsSeq
  <1>3. b \in 0..1 /\ n \in {b + 1, b + 2} /\ i \in 1..Size(w) /\ (n = 3 => s[2].type = "fan")
    BY <1>2, ServesPlace
  <1>4. CASE n = 1
    <2>1. b = 0
      BY <1>3, <1>4
    <2>2. Size(v) = 1
      BY <1>2, <2>1, DidOn DEF Serves, Base
    <2>3. QED
      BY <1>1, <1>4, <2>2 DEF Closes, Lands
  <1>5. CASE n > 1
    <2>1. Nested
      BY <1>1, <1>3, <1>5 DEF Nested
    <2>2. /\ IsSeq(t) /\ Len(t) = n - 1 /\ t[n-1] = p /\ (\A j \in 1..(n - 2) : t[j] = s[j])
          /\ outcome' = outcome /\ Alike(s[n-1], p)
      BY <1>1, <1>5, <2>1 DEF Back, Dropped, Caller
    <2>3. CASE n = b + 1
      <3>1. b = 1 /\ n = 2 /\ t[1] = p
        BY <1>3, <1>5, <2>2, <2>3
      <3>2. OnRoute(s[1], w) /\ s[1].at = "back" /\ Size(w) > 1
        BY <1>2, <3>1 DEF Serves, Base, Waits
      <3>3. OnRoute(p, v)
        <4>1. Ended(p) => Heard(p, v)
          BY <1>1, <2>3, <3>1
        <4>2. QED
          BY <2>2, <3>1, <3>2, <4>1, RouteHears
      <3>4. Apart(t, v)
        BY <2>2, <3>1, <3>2, <3>3, DidOn DEF Apart
      <3>5. QED
        BY SMTT(60), <1>1, <2>2, <3>1, <3>4, ServesShape, EmptyIs DEF Lands
    <2>4. CASE n = b + 2
      <3>1. PICK h : h = s[b+1]
        OBVIOUS
      <3>2. Tasked(h, i, w) /\ h.type = "fan" /\ Waits(h) /\ t[b+1] = p /\ Len(t) = b + 1 /\ Alike(h, p)
        BY <1>2, <1>3, <2>2, <2>4, <3>1 DEF Serves, TaskAt
      <3>3. Ended(p) => Through(i, h.contexts[Taken(h)], v)
        <4>1. Where(s, b, i, w) = h.contexts[Taken(h)]
          BY <1>2, <1>3, <2>4, <3>1 DEF Where
        <4>2. QED
          BY <1>1, <2>4, <4>1
      <3>4. Tasked(p, i, v) /\ p.at = "back"
        <4>1. h.at = "back" /\ p.at = h.at
          BY <3>2 DEF Waits, Alike, Fields
        <4>2. QED
          BY <3>2, <3>3, <4>1, TaskHears
      <3>5. Base(t, b, i, v)
        <4>1. CASE b = 0
          BY <1>2, <3>2, <3>4, <4>1, DidOn DEF Serves, Base
        <4>2. CASE b = 1
          <5>1. t[1] = s[1] /\ IsRec(s[1]) /\ t[2] = p
            BY <1>2, <2>2, <2>4, <3>2, <4>2 DEF IsStack
          <5>2. OnRoute(s[1], w) /\ Waits(s[1]) /\ i = s[1].next /\ Size(w) > 1 /\ Lined(s[1].queue, i + 1, w)
            BY <1>2, <3>1, <3>2, <4>2 DEF Serves, Base, Waits
          <5>3. OnRoute(s[1], v)
            BY <5>1, <5>2, WaitsOn
          <5>4. QED
            BY <3>4, <4>2, <5>1, <5>2, <5>3, DidOn DEF Base
        <4>3. QED
          BY <1>3, <4>1, <4>2
      <3>6. Shape(t, v)
        BY <3>2, <3>4, <3>5, ServesShape DEF Serves, TaskAt
      <3>7. t # <<>>
        BY <1>5, <2>2, EmptyIs, <1>2
      <3>8. QED
        BY <1>1, <2>2, <3>6, <3>7 DEF Lands
    <2>5. QED
      BY <1>3, <2>3, <2>4
  <1>6. QED
    BY <1>2, <1>4, <1>5

LEMMA CarriedKeeps ==
    ASSUME NEW f, IsRec(f), NEW r, Keeps(f, r), NEW ns, NEW ctx,
           r.forceNs => ns \in {Unset, r.ns}, r.forceCtx => ctx \in {Unset, r.ctx}
    PROVE  Keeps(Carried(f, ns, ctx), r)
  <1>1. PICK g : g = Carried(f, ns, ctx)
    OBVIOUS
  <1>2. g.forceNs = f.forceNs /\ g.forceCtx = f.forceCtx /\ g.ns = Or(ns, f.ns) /\ g.ctx = Or(ctx, f.ctx)
    BY <1>1 DEF Carried, IsRec, Fields
  <1>3. Keeps(g, r)
    BY <1>2 DEF Keeps, Or
  <1>4. QED
    BY <1>1, <1>3

\* The innermost run is at work on step i.
AtStep(w, b, i, f) ==
    IsStack(stack) /\ stack # <<>> /\ Serves(stack, b, i, w) /\ f = Top /\ f.type = "run" /\ f.at # "start"

LEMMA WorkEnds ==
    ASSUME NEW w, NEW v, Onward(w, v), NEW b, NEW i, NEW f, AtStep(w, b, i, f), f.plan # NoPlan,
           NEW g, g.plan = f.plan, g.ctx = f.ctx, NEW how, how \in {"ok", "error"}, Finish(g, how),
           how = "ok" /\ g.applied => Through(i, Where(stack, b, i, w), v)
    PROVE  Lands(v)
  <1>1. PICK s, n, c, doc, lower, p :
            /\ s = stack /\ n = Len(stack) /\ c = Caller /\ doc = Doc(f.plan, f.ctx, FALSE, g.applied)
            /\ lower = Below /\ p = [c EXCEPT !.seen = doc, !.back = how]
    OBVIOUS
  <1>2. IsStack(s) /\ n = Len(s) /\ f = s[n] /\ Serves(s, b, i, w) /\ n \in Nat /\ n > 0
    BY <1>1, EmptyIs DEF Top, IsStack, IsSeq, AtStep
  <1>3. b \in 0..1 /\ n \in {b + 1, b + 2} /\ i \in 1..Size(w) /\ (n = b + 1 => Single(w))
    <2>1. f.type = "run" /\ f.at # "start"
      BY DEF AtStep
    <2>2. QED
      BY <1>2, <2>1, ServesPlace, ServesRun
  <1>4. IsSeq(lower) /\ Len(lower) = n - 1 /\ \A j \in 1..(n - 1) : lower[j] = s[j]
    BY <1>1, BelowForm DEF AtStep
  <1>5. Return(Observed(lower, doc), how, g.applied)
    BY <1>1 DEF Finish
  <1>6. (n = 1 => Closes(how, g.applied)) /\ (Nested => Back(p))
    <2>1. (n > 1 => lower[n - 1] = c) /\ (n > 1 => c.type = Caller.type) /\ \A j \in 1..(n - 2) : lower[j] = s[j]
      BY <1>1, <1>2, <1>4 DEF Caller
    <2>2. IsStack(stack) /\ stack # <<>>
      BY DEF AtStep
    <2>3. QED
      BY <1>1, <1>4, <1>5, <2>1, <2>2, ObservedReturns
  <1>7. n > 1 => /\ IsRec(c) /\ Alike(c, p) /\ p.seen = doc /\ p.back = how /\ p.queue = c.queue /\ IsRec(p)
                 /\ p.next = c.next /\ p.forceNs = c.forceNs /\ p.forceCtx = c.forceCtx /\ p.ns = c.ns /\ p.ctx = c.ctx
    <2>1. ASSUME n > 1
          PROVE  IsRec(c)
      BY <1>1, <1>2, <2>1 DEF IsStack, Caller
    <2>2. QED
      BY <1>1, <2>1 DEF Alike, IsRec, Fields
  <1>8. doc.applied = g.applied /\ doc.ctx = f.ctx /\ doc.ns = planNamespace(f.plan)
    BY <1>1 DEF Doc
  <1>9. n = b + 1 /\ how = "ok" /\ g.applied => Whole(i, v)
    <2>1. ASSUME n = b + 1, how = "ok", g.applied
          PROVE  Whole(i, v)
      <3>1. Through(i, Site(i, v), v) /\ Single(v)
        BY <1>1, <1>2, <1>3, <2>1, DidOn DEF Where
      <3>2. QED
        BY <3>1 DEF Whole
    <2>2. QED
      BY <2>1
  <1>10. ASSUME n > 1, n = b + 1, Ended(p)
         PROVE  Heard(p, v)
    <2>1. how = "ok" /\ g.applied /\ b = 1 /\ n = 2 /\ c = s[1] /\ f = s[2]
      <3>1. b = 1 /\ n = 2
        BY <1>2, <1>3, <1>10
      <3>2. how = "ok" /\ g.applied
        BY <1>7, <1>8, <1>10 DEF Ended
      <3>3. c = s[1] /\ f = s[2]
        BY <1>1, <1>2, <3>1 DEF Caller
      <3>4. QED
        BY <3>1, <3>2, <3>3
    <2>2. OnRoute(c, w) /\ i = c.next /\ Lined(c.queue, i + 1, w)
      BY <1>2, <2>1 DEF Serves, Base, AtStep
    <2>3. Tasked(f, i, w)
      BY <1>2, <2>1 DEF Serves, TaskAt
    <2>4. Keeps(p, v.req)
      BY <1>7, <2>1, <2>2, DidOn DEF OnRoute, Keeps
    <2>5. Keeps(Carried(p, doc.ns, doc.ctx), v.req)
      <3>1. v.req.forceNs => doc.ns \in {Unset, v.req.ns}
        BY <1>3, <1>8, <1>10, <2>3, DidOn DEF Tasked, Homed, AtStep, Fanning
      <3>2. v.req.forceCtx => doc.ctx \in {Unset, v.req.ctx}
        BY <1>8, <2>3, DidOn DEF Tasked, Keeps
      <3>3. QED
        BY <1>7, <1>10, <2>4, <3>1, <3>2, CarriedKeeps
    <2>6. QED
      BY <1>3, <1>7, <1>9, <1>10, <2>1, <2>2, <2>5, DidOn DEF Heard
  <1>11. QED
    <2>1. n = 1 /\ how = "ok" /\ g.applied => Whole(1, v)
      <3>1. n = 1 => b = 0 /\ i = 1
        BY <1>2, <1>3 DEF Serves, Base
      <3>2. QED
        BY <1>9, <3>1
    <2>2. n = b + 2 /\ Ended(p) => Through(i, Where(stack, b, i, w), v)
      BY <1>3, <1>7, <1>8 DEF Ended
    <2>3. Serves(stack, b, i, w) /\ IsStack(stack) /\ stack # <<>>
      BY DEF AtStep
    <2>4. QED
      BY ZenonT(60), <1>1, <1>6, <1>7, <1>10, <2>1, <2>2, <2>3, CallEnds

-------------------------------------------------------------------------------

(***************************************************************************)
(* Runs at work: what they do to the cluster is what their step is to do.  *)
(***************************************************************************)

\* What the runs of a prompt do to the cluster: each action has the consent it
\* needs, and finds the steps before its own done.
Rightly(a, w) ==
    /\ OfPrompt(a) \/ Size(w) <= 1 =>
        \/ <<a.plan, a.ctx>> \in w.agreed
        \/ w.req.approve /\ Single(w)
        \/ w.req.each /\ ~Single(w) /\ OfPrompt(a)
    /\ OfPrompt(a) => /\ a.step \in 1..Size(w) /\ Due(a.step, w) /\ a.plan = Shown(Goal(a.step, w))
                      /\ ~w.req.pr /\ \A j \in 1..(a.step - 1) : Whole(j, w)
DoneWell(w) == done' = done \/ \E a : IsLonger(done', done, a) /\ Rightly(a, w)

LEMMA AtWorkIs ==
    ASSUME IInv, Shape(stack, Actual), NEW at, Running("run", at), at # "start",
           NEW w, w = Actual, NEW f, f = Top
    PROVE  \E b, i : /\ AtStep(w, b, i, f) /\ Sane(f, w) /\ IsRec(f) /\ f.at = at
                     /\ Conduct(f, i, Where(stack, b, i, w), w)
  <1>1. PICK n : n = Len(stack)
    OBVIOUS
  <1>2. /\ n \in Nat /\ n > 0 /\ Sane(f, w) /\ f.type = "run" /\ f.at = at
        /\ IsStack(stack) /\ stack # <<>> /\ IsRec(f)
    BY <1>1, TopSane DEF IInv
  <1>3. f = stack[n]
    BY <1>1 DEF Top
  <1>4. Apart(stack, w) \/ \E b, i : Serves(stack, b, i, w)
    BY ServesShape
  <1>5. ~Apart(stack, w)
    <2>1. FrameOf(w.req).at = "start"
      BY FrameIs
    <2>2. QED
      BY <1>1, <1>2, <1>3, <2>1 DEF Apart, OnRoute
  <1>6. PICK b, i : Serves(stack, b, i, w)
    BY <1>4, <1>5
  <1>7. Conduct(f, i, Where(stack, b, i, w), w)
    <2>1. f.type = "run" /\ f.at # "start" /\ f = stack[Len(stack)]
      BY <1>1, <1>2, <1>3
    <2>2. QED
      BY <1>6, <2>1, ServesRun
  <1>8. QED
    BY <1>2, <1>6, <1>7 DEF AtStep

\* A run that only reads goes on, or ends.
LEMMA ReadsOn ==
    ASSUME NEW w, NEW v, Onward(w, v), NEW b, NEW i, NEW f, AtStep(w, b, i, f),
           Conduct(f, i, Where(stack, b, i, w), w), NEW g, SameCall(f, g), g.approve = f.approve, g.auto = f.auto,
           g.at \notin {"apply", "verify"}, Become(g)
    PROVE  Lands(v)
  <1>1. PICK ctx : ctx = Where(stack, b, i, w)
    OBVIOUS
  <1>2. Conduct(g, i, ctx, v)
    BY <1>1, DidOn DEF Conduct, SameCall, AtStep
  <1>3. /\ IsStack(stack) /\ stack # <<>> /\ Serves(stack, b, i, w) /\ f = Top /\ f.type = "run" /\ f.at # "start"
        /\ Conduct(g, i, Where(stack, b, i, w), v)
    BY <1>1, <1>2 DEF AtStep
  <1>4. QED
    BY <1>3, WorkStays

LEMMA ReadsEnd ==
    ASSUME NEW w, NEW v, Onward(w, v), NEW b, NEW i, NEW f, AtStep(w, b, i, f), f.plan # NoPlan,
           Conduct(f, i, Where(stack, b, i, w), w), ~f.plan.approval,
           NEW g, g.plan = f.plan, g.ctx = f.ctx, NEW how, how \in {"ok", "error"}, Finish(g, how)
    PROVE  Lands(v)
  <1>1. PICK ctx : ctx = Where(stack, b, i, w)
    OBVIOUS
  <1>2. ~Goal(i, w).approval
    BY DEF Conduct, AtStep, Meets
  <1>3. Through(i, ctx, v)
    BY <1>2, DidOn DEF Through, Due
  <1>4. how = "ok" /\ g.applied => Through(i, Where(stack, b, i, w), v)
    BY <1>1, <1>3
  <1>5. QED
    BY <1>4, WorkEnds

\* The runs that only read, and the fixes they offer.
LEMMA ReadingIs ==
    ASSUME NEW f, NEW w, Sane(f, w), f.type = "run", f.at \in {"read", "offer", "askfix", "fix"}
    PROVE  ~f.plan.approval /\ f.plan # NoPlan
  BY DEF Sane, Run, Reading, Settled, IsPlanned, IsReadOnly, AtStart, Changing

LEMMA AfterFixLands ==
    ASSUME NEW w, NEW v, Onward(w, v), NEW b, NEW i, NEW f, AtStep(w, b, i, f), IsRec(f), f.plan # NoPlan,
           Conduct(f, i, Where(stack, b, i, w), w), ~f.plan.approval, AfterFix(f)
    PROVE  Lands(v)
  <1>1. CASE Len(f.fixes) > 1
    <2>1. PICK g : g = [f EXCEPT !.fixes = Tail(@), !.next = 1, !.at = "offer"]
      OBVIOUS
    <2>2. Become(g)
      BY <1>1, <2>1 DEF AfterFix
    <2>3. SameCall(f, g) /\ g.approve = f.approve /\ g.auto = f.auto /\ g.at = "offer"
      BY <2>1 DEF SameCall, IsRec, Fields, AtStep
    <2>4. QED
      BY <2>2, <2>3, ReadsOn
  <1>2. CASE ~(Len(f.fixes) > 1)
    <2>1. PICK g : g = [f EXCEPT !.applied = TRUE]
      OBVIOUS
    <2>2. Finish(g, "ok") /\ g.plan = f.plan /\ g.ctx = f.ctx
      BY <1>2, <2>1 DEF AfterFix, Finished, IsRec, Fields
    <2>3. QED
      BY <2>2, ReadsEnd
  <1>3. QED
    BY <1>1, <1>2

LEMMA ReadLands ==
    ASSUME IInv, Shape(stack, Actual), Read, NEW v, v = Actual', Onward(Actual, v)
    PROVE  Lands(v) /\ DoneWell(Actual)
  <1>1. PICK w, f : w = Actual /\ f = Top
    OBVIOUS
  <1>2. Running("run", "read") /\ done' = done
    BY DEF Read
  <1>3. PICK b, i : /\ AtStep(w, b, i, f) /\ Sane(f, w) /\ IsRec(f) /\ f.at = "read"
                    /\ Conduct(f, i, Where(stack, b, i, w), w)
    BY <1>1, <1>2, AtWorkIs
  <1>4. ~f.plan.approval /\ f.plan # NoPlan
    BY <1>3, ReadingIs DEF AtStep
  <1>5. CASE Finish(f, "error")
    BY <1>1, <1>2, <1>3, <1>4, <1>5, ReadsEnd DEF DoneWell
  <1>6. CASE Finished(f)
    <2>1. PICK g : g = [f EXCEPT !.applied = TRUE]
      OBVIOUS
    <2>2. Finish(g, "ok") /\ g.plan = f.plan /\ g.ctx = f.ctx
      BY <1>3, <1>6, <2>1 DEF Finished, IsRec, Fields
    <2>3. QED
      BY <1>1, <1>2, <1>3, <1>4, <2>2, ReadsEnd DEF DoneWell
  <1>7. CASE Become([f EXCEPT !.fixes = Offered(f), !.at = "offer"])
    <2>1. PICK g : g = [f EXCEPT !.fixes = Offered(f), !.at = "offer"]
      OBVIOUS
    <2>2. SameCall(f, g) /\ g.approve = f.approve /\ g.auto = f.auto /\ g.at = "offer"
      BY <1>3, <2>1 DEF SameCall, IsRec, Fields, AtStep
    <2>3. QED
      BY <1>1, <1>2, <1>3, <1>7, <2>1, <2>2, ReadsOn DEF DoneWell
  <1>8. QED
    BY <1>1, <1>5, <1>6, <1>7 DEF Read

LEMMA OfferFixLands ==
    ASSUME IInv, Shape(stack, Actual), OfferFix, NEW v, v = Actual', Onward(Actual, v)
    PROVE  Lands(v) /\ DoneWell(Actual)
  <1>1. PICK w, f : w = Actual /\ f = Top
    OBVIOUS
  <1>2. Running("run", "offer") /\ done' = done
    BY DEF OfferFix
  <1>3. PICK b, i : /\ AtStep(w, b, i, f) /\ Sane(f, w) /\ IsRec(f) /\ f.at = "offer"
                    /\ Conduct(f, i, Where(stack, b, i, w), w)
    BY <1>1, <1>2, AtWorkIs
  <1>4. ~f.plan.approval /\ f.plan # NoPlan
    BY <1>3, ReadingIs DEF AtStep
  <1>5. CASE AfterFix(f)
    BY <1>1, <1>2, <1>3, <1>4, <1>5, AfterFixLands DEF DoneWell
  <1>6. CASE \E risk : Become([f EXCEPT !.risk = risk, !.at = "askfix"])
    <2>1. PICK risk : Become([f EXCEPT !.risk = risk, !.at = "askfix"])
      BY <1>6
    <2>2. PICK g : g = [f EXCEPT !.risk = risk, !.at = "askfix"]
      OBVIOUS
    <2>3. SameCall(f, g) /\ g.approve = f.approve /\ g.auto = f.auto /\ g.at = "askfix"
      BY <1>3, <2>2 DEF SameCall, IsRec, Fields, AtStep
    <2>4. QED
      BY <1>1, <1>2, <1>3, <2>1, <2>2, <2>3, ReadsOn DEF DoneWell
  <1>7. QED
    BY <1>1, <1>5, <1>6 DEF OfferFix

LEMMA AskFixLands ==
    ASSUME IInv, Shape(stack, Actual), AskFix, NEW v, v = Actual', Onward(Actual, v)
    PROVE  Lands(v) /\ DoneWell(Actual)
  <1>1. PICK w, f : w = Actual /\ f = Top
    OBVIOUS
  <1>2. Running("run", "askfix") /\ done' = done
    BY DEF AskFix
  <1>3. PICK b, i : /\ AtStep(w, b, i, f) /\ Sane(f, w) /\ IsRec(f) /\ f.at = "askfix"
                    /\ Conduct(f, i, Where(stack, b, i, w), w)
    BY <1>1, <1>2, AtWorkIs
  <1>4. ~f.plan.approval /\ f.plan # NoPlan
    BY <1>3, ReadingIs DEF AtStep
  <1>5. CASE AfterFix(f)
    BY <1>1, <1>2, <1>3, <1>4, <1>5, AfterFixLands DEF DoneWell
  <1>6. CASE Become([f EXCEPT !.at = "fix"])
    <2>1. PICK g : g = [f EXCEPT !.at = "fix"]
      OBVIOUS
    <2>2. SameCall(f, g) /\ g.approve = f.approve /\ g.auto = f.auto /\ g.at = "fix"
      BY <1>3, <2>1 DEF SameCall, IsRec, Fields, AtStep
    <2>3. QED
      BY <1>1, <1>2, <1>3, <1>6, <2>1, <2>2, ReadsOn DEF DoneWell
  <1>7. CASE Finish(f, "error")
    BY <1>1, <1>2, <1>3, <1>4, <1>7, ReadsEnd DEF DoneWell
  <1>8. QED
    <2>1. PICK reply : CASE Verdict(reply, Top.risk) = "yes" ->
                                Become([Top EXCEPT !.at = "fix"]) /\ UNCHANGED ledger
                         [] Verdict(reply, Top.risk) = "no" -> AfterFix(Top)
                         [] OTHER -> Finish(Top, "error")
      BY DEF AskFix
    <2>2. QED
      BY <1>1, <1>5, <1>6, <1>7, <2>1

LEMMA FixAppliedLands ==
    ASSUME IInv, Shape(stack, Actual), FixApplied, NEW v, v = Actual', Onward(Actual, v)
    PROVE  Lands(v) /\ DoneWell(Actual)
  <1>1. PICK w, f : w = Actual /\ f = Top
    OBVIOUS
  <1>2. Running("run", "fix") /\ done' = done
    BY DEF FixApplied
  <1>3. PICK b, i : /\ AtStep(w, b, i, f) /\ Sane(f, w) /\ IsRec(f) /\ f.at = "fix"
                    /\ Conduct(f, i, Where(stack, b, i, w), w)
    BY <1>1, <1>2, AtWorkIs
  <1>4. ~f.plan.approval /\ f.plan # NoPlan
    BY <1>3, ReadingIs DEF AtStep
  <1>5. CASE AfterFix(f)
    BY <1>1, <1>2, <1>3, <1>4, <1>5, AfterFixLands DEF DoneWell
  <1>6. CASE Finish(f, "error")
    BY <1>1, <1>2, <1>3, <1>4, <1>6, ReadsEnd DEF DoneWell
  <1>7. QED
    BY <1>1, <1>5, <1>6 DEF FixApplied

\* A fix needs the consent that Fixing speaks of; a flag is licensed.
LEMMA FixRightly ==
    ASSUME NEW w, NEW f, Sane(f, w), f.type = "run", f.at = "fix", NEW i, NEW ctx, Conduct(f, i, ctx, w),
           ~f.plan.approval, NEW n \in 1..Len(f.fixes[1].actions),
           NEW a, a = Action(f.fixes[1], f.ctx, n, f.plan.intent.kind)
    PROVE  Rightly(a, w)
  <1>1. ~OfPrompt(a)
    BY FixAction
  <1>2. AreFixes(f.fixes) /\ Len(f.fixes) > 0 /\ (FixFlag(f) \/ Knows(w, f.fixes[1], f.ctx))
    BY DEF Sane, Run, Fixing, AtStart, Changing
  <1>3. PICK p : p = f.fixes[1]
    OBVIOUS
  <1>4. IsSuggestion(p)
    <2>1. 1 \in 1..Len(f.fixes)
      BY <1>2 DEF AreFixes, IsSeq
    <2>2. QED
      BY <1>2, <1>3, <2>1 DEF AreFixes
  <1>5. a.plan = Shown(p) /\ a.ctx = f.ctx
    <2>1. p.actions[n].context = Unset
      BY <1>3, <1>4 DEF IsSuggestion, IsExecutionPlan
    <2>2. QED
      BY <1>3, <2>1 DEF Action, Or
  <1>6. CASE Knows(w, f.fixes[1], f.ctx)
    BY <1>1, <1>3, <1>5, <1>6 DEF Knows, Rightly
  <1>7. CASE FixFlag(f)
    <2>1. Licensed(i, ctx, w) /\ ~(Goal(i, w) # NoPlan /\ Goal(i, w).approval)
      BY <1>7 DEF FixFlag, Conduct, Meets
    <2>2. Size(w) <= 1 => w.req.approve /\ Single(w)
      BY <2>1 DEF Licensed
    <2>3. QED
      BY <1>1, <2>2 DEF Rightly
  <1>8. QED
    BY <1>2, <1>6, <1>7

LEMMA ApplyFixLands ==
    ASSUME IInv, Shape(stack, Actual), ApplyFix, NEW v, v = Actual', Onward(Actual, v)
    PROVE  Lands(v) /\ DoneWell(Actual)
  <1>1. PICK w, f : w = Actual /\ f = Top
    OBVIOUS
  <1>2. Running("run", "fix") /\ ApplyNext(f.fixes[1], f.plan.intent.kind)
    BY <1>1 DEF ApplyFix
  <1>3. PICK b, i : /\ AtStep(w, b, i, f) /\ Sane(f, w) /\ IsRec(f) /\ f.at = "fix"
                    /\ Conduct(f, i, Where(stack, b, i, w), w)
    BY <1>1, <1>2, AtWorkIs
  <1>4. ~f.plan.approval /\ f.plan # NoPlan
    BY <1>3, ReadingIs DEF AtStep
  <1>5. PICK n, a : n = f.next /\ a = Action(f.fixes[1], f.ctx, n, f.plan.intent.kind)
    OBVIOUS
  <1>6. n \in 1..Len(f.fixes[1].actions)
    <2>1. n <= Len(f.fixes[1].actions)
      BY <1>1, <1>2, <1>5 DEF ApplyNext
    <2>2. AreFixes(f.fixes) /\ Len(f.fixes) > 0 /\ n \in Nat /\ n > 0
      BY <1>3, <1>5, NotOptimizeChild DEF Fixing, AtStep
    <2>3. IsSuggestion(f.fixes[1])
      <3>1. 1 \in 1..Len(f.fixes)
        BY <2>2 DEF AreFixes, IsSeq
      <3>2. QED
        BY <2>2, <3>1 DEF AreFixes
    <2>4. QED
      BY <2>1, <2>2, <2>3 DEF IsSuggestion, IsExecutionPlan
  <1>7. Rightly(a, w)
    BY <1>3, <1>4, <1>5, <1>6, FixRightly DEF AtStep
  <1>8. DoneWell(w)
    <2>1. done' = done \/ IsLonger(done', done, a)
      BY <1>1, <1>2, <1>5 DEF ApplyNext, IsLonger
    <2>2. QED
      BY <1>7, <2>1 DEF DoneWell
  <1>9. CASE Become([f EXCEPT !.next = @ + 1])
    <2>1. PICK g : g = [f EXCEPT !.next = @ + 1]
      OBVIOUS
    <2>2. SameCall(f, g) /\ g.approve = f.approve /\ g.auto = f.auto /\ g.at = "fix"
      BY <1>3, <2>1 DEF SameCall, IsRec, Fields, AtStep
    <2>3. QED
      BY <1>1, <1>3, <1>8, <1>9, <2>1, <2>2, ReadsOn
  <1>10. CASE Finish(f, "error")
    BY <1>1, <1>3, <1>4, <1>8, <1>10, ReadsEnd
  <1>11. QED
    BY <1>1, <1>2, <1>9, <1>10 DEF ApplyNext

\* The runs that mutate: what one has done is what its step was to do.
LEMMA ChangeIs ==
    ASSUME NEW w, NEW b, NEW i, NEW f, AtStep(w, b, i, f), Sane(f, w), f.at \in {"ask", "pr", "apply", "verify"},
           NEW ctx, Conduct(f, i, ctx, w)
    PROVE  /\ f.plan.approval /\ f.plan # NoPlan /\ Goal(i, w) # NoPlan /\ Goal(i, w).approval
           /\ Shown(f.plan) = Shown(Goal(i, w)) /\ Due(i, w) /\ f.ctx = ctx
  <1>1. f.plan.approval /\ f.plan # NoPlan /\ IsExecutionPlan(f.plan)
    BY ChangingIs DEF AtStep, Changing, Settled, IsPlanned
  <1>2. Gate[f.prompt] = "model" /\ Meets(f.plan, Goal(i, w)) /\ f.ctx = ctx /\ f.prompt = StepsOf(w.req)[i]
    BY <1>1 DEF Conduct, AtStep
  <1>3. Goal(i, w) # NoPlan /\ Goal(i, w).approval /\ Shown(f.plan) = Shown(Goal(i, w)) /\ Due(i, w)
    BY <1>1, <1>2 DEF Meets, Due
  <1>4. QED
    BY <1>1, <1>2, <1>3

LEMMA ChangeActions ==
    ASSUME NEW w, NEW b, NEW i, NEW f, AtStep(w, b, i, f), Sane(f, w), f.at \in {"ask", "pr", "apply", "verify"},
           NEW ctx, Conduct(f, i, ctx, w)
    PROVE  /\ DOMAIN f.plan.actions = DOMAIN Goal(i, w).actions
           /\ DOMAIN f.plan.actions = 1..Len(f.plan.actions) /\ Len(f.plan.actions) \in Nat
  <1>1. Shown(f.plan) = Shown(Goal(i, w))
    BY ChangeIs
  <1>2. IsExecutionPlan(f.plan)
    BY ChangingIs DEF AtStep
  <1>3. DOMAIN Shown(f.plan).actions = DOMAIN f.plan.actions
    BY <1>2, ShownKeeps
  <1>4. DOMAIN Shown(Goal(i, w)).actions = DOMAIN Goal(i, w).actions
    BY DEF Shown
  <1>5. QED
    BY <1>1, <1>2, <1>3, <1>4 DEF IsExecutionPlan

LEMMA ChangesOn ==
    ASSUME NEW w, NEW v, Onward(w, v), NEW b, NEW i, NEW f, AtStep(w, b, i, f),
           NEW ctx, ctx = Where(stack, b, i, w), Conduct(f, i, ctx, w),
           NEW g, SameCall(f, g), g.approve = f.approve, g.auto = f.auto, Become(g),
           g.at = "apply" => \A n \in 1..(g.next - 1) : Did(i, ctx, n, v),
           g.at = "verify" => \A n \in DOMAIN f.plan.actions : Did(i, ctx, n, v)
    PROVE  Lands(v)
  <1>1. Conduct(g, i, ctx, v)
    BY DidOn DEF Conduct, SameCall, AtStep
  <1>2. /\ IsStack(stack) /\ stack # <<>> /\ Serves(stack, b, i, w) /\ f = Top /\ f.type = "run" /\ f.at # "start"
        /\ Conduct(g, i, Where(stack, b, i, w), v)
    BY <1>1 DEF AtStep
  <1>3. QED
    BY <1>2, WorkStays

LEMMA ApproveLands ==
    ASSUME IInv, Shape(stack, Actual), Approve, NEW v, v = Actual', Onward(Actual, v)
    PROVE  Lands(v) /\ DoneWell(Actual)
  <1>1. PICK w, f : w = Actual /\ f = Top
    OBVIOUS
  <1>2. Running("run", "ask") /\ done' = done
    BY DEF Approve
  <1>3. PICK b, i : /\ AtStep(w, b, i, f) /\ Sane(f, w) /\ IsRec(f) /\ f.at = "ask"
                    /\ Conduct(f, i, Where(stack, b, i, w), w)
    BY <1>1, <1>2, AtWorkIs
  <1>4. f.plan # NoPlan /\ ~f.applied /\ f.next = 1
    <2>1. Changing(f, w) /\ Settled(f, w)
      BY <1>3, ChangingIs DEF AtStep
    <2>2. QED
      BY <1>3, <2>1 DEF Changing, Settled, IsPlanned
  <1>5. CASE Become([f EXCEPT !.decision = "approved", !.at = IF req.pr THEN "pr" ELSE "apply"])
    <2>1. PICK g : g = [f EXCEPT !.decision = "approved", !.at = IF req.pr THEN "pr" ELSE "apply"]
      OBVIOUS
    <2>2. SameCall(f, g) /\ g.approve = f.approve /\ g.auto = f.auto /\ g.at \in {"pr", "apply"} /\ g.next = 1
      BY <1>3, <1>4, <2>1 DEF SameCall, IsRec, Fields, AtStep
    <2>3. PICK ctx : ctx = Where(stack, b, i, w)
      OBVIOUS
    <2>4. (g.at = "apply" => \A n \in 1..(g.next - 1) : Did(i, ctx, n, v))
          /\ (g.at = "verify" => \A n \in DOMAIN f.plan.actions : Did(i, ctx, n, v))
      BY <2>2
    <2>5. Conduct(f, i, ctx, w) /\ Become(g)
      BY <1>3, <1>5, <2>1, <2>3
    <2>6. QED
      BY <1>1, <1>2, <1>3, <2>2, <2>3, <2>4, <2>5, ChangesOn DEF DoneWell
  <1>6. CASE Finish([f EXCEPT !.decision = "denied"], "ok")
    <2>1. PICK g : g = [f EXCEPT !.decision = "denied"]
      OBVIOUS
    <2>2. Finish(g, "ok") /\ "ok" \in {"ok", "error"} /\ g.plan = f.plan /\ g.ctx = f.ctx /\ ~g.applied
      BY <1>3, <1>4, <1>6, <2>1 DEF IsRec, Fields
    <2>3. QED
      BY <1>1, <1>2, <1>3, <1>4, <2>2, WorkEnds DEF DoneWell
  <1>7. CASE Finish(f, "error")
    <2>1. PICK how : how = "error"
      OBVIOUS
    <2>2. Finish(f, how) /\ how \in {"ok", "error"} /\ how # "ok"
      BY <1>7, <2>1
    <2>3. QED
      BY <1>1, <1>2, <1>3, <1>4, <2>2, WorkEnds DEF DoneWell
  <1>8. QED
    <2>1. PICK reply : CASE Verdict(reply, Top.risk) = "yes" ->
                                /\ Become([Top EXCEPT !.decision = "approved",
                                                      !.at = IF req.pr THEN "pr" ELSE "apply"])
                                /\ UNCHANGED ledger
                         [] Verdict(reply, Top.risk) = "no" ->
                                Finish([Top EXCEPT !.decision = "denied"], "ok")
                         [] OTHER -> Finish(Top, "error")
      BY DEF Approve
    <2>2. QED
      BY <1>1, <1>5, <1>6, <1>7, <2>1

LEMMA OpenPRLands ==
    ASSUME IInv, Shape(stack, Actual), OpenPR, NEW v, v = Actual', Onward(Actual, v)
    PROVE  Lands(v) /\ DoneWell(Actual)
  <1>1. PICK w, f : w = Actual /\ f = Top
    OBVIOUS
  <1>2. Running("run", "pr") /\ done' = done
    BY DEF OpenPR
  <1>3. PICK b, i : /\ AtStep(w, b, i, f) /\ Sane(f, w) /\ IsRec(f) /\ f.at = "pr"
                    /\ Conduct(f, i, Where(stack, b, i, w), w)
    BY <1>1, <1>2, AtWorkIs
  <1>4. f.plan # NoPlan /\ w.req.pr
    <2>1. Changing(f, w) /\ Settled(f, w)
      BY <1>3, ChangingIs DEF AtStep
    <2>2. QED
      BY <1>3, <2>1 DEF Changing, Settled, IsPlanned
  <1>5. Through(i, Where(stack, b, i, w), v)
    BY <1>1, <1>4, DidOn DEF Through
  <1>6. PICK g, how : Finish(g, how) /\ how \in {"ok", "error"} /\ g.plan = f.plan /\ g.ctx = f.ctx
    <2>1. CASE Finish(f, "error")
      BY <2>1
    <2>2. CASE Finished([f EXCEPT !.decision = "pr_opened"])
      <3>1. PICK g : g = [[f EXCEPT !.decision = "pr_opened"] EXCEPT !.applied = TRUE]
        OBVIOUS
      <3>2. Finish(g, "ok") /\ g.plan = f.plan /\ g.ctx = f.ctx
        BY <1>3, <2>2, <3>1 DEF Finished, IsRec, Fields
      <3>3. QED
        BY <3>2
    <2>3. QED
      BY <1>1, <2>1, <2>2 DEF OpenPR
  <1>7. QED
    BY <1>1, <1>2, <1>3, <1>4, <1>5, <1>6, WorkEnds DEF DoneWell

LEMMA ApplyRightly ==
    ASSUME IInv, NEW w, w = Actual, NEW b, NEW i, NEW f, AtStep(w, b, i, f), Sane(f, w), f.at = "apply",
           NEW ctx, Conduct(f, i, ctx, w), NEW n \in DOMAIN f.plan.actions,
           NEW a, a = Action(f.plan, f.ctx, n, "prompt")
    PROVE  /\ Rightly(a, w)
           /\ OfPrompt(a) /\ a.step = i /\ a.plan = Shown(Goal(i, w)) /\ a.ctx = ctx /\ a.n = n
  <1>1. /\ f.plan.approval /\ f.plan # NoPlan /\ Goal(i, w) # NoPlan /\ Goal(i, w).approval
        /\ Shown(f.plan) = Shown(Goal(i, w)) /\ Due(i, w) /\ f.ctx = ctx
    <2>1. f.at \in {"ask", "pr", "apply", "verify"}
      OBVIOUS
    <2>2. QED
      BY <2>1, ChangeIs
  <1>2. Settled(f, w) /\ Changing(f, w)
    BY ChangingIs DEF AtStep
  <1>3. Serves(stack, b, i, w)
    BY DEF AtStep
  <1>4. StepNumber = i /\ i \in 1..Size(w) /\ \A j \in 1..(i - 1) : Whole(j, w)
    BY <1>3, ServesStep, ServesPlace DEF StepNumber
  <1>5. OfPrompt(a) /\ a.step = i /\ a.plan = Shown(f.plan) /\ a.ctx = f.ctx /\ a.n = n
    <2>1. f.plan.actions[n].context \in {Unset, f.ctx}
      BY <1>1, <1>2 DEF Settled
    <2>2. QED
      BY <1>4, <2>1 DEF Action, Or, OfPrompt
  <1>6. ~w.req.pr /\ (RunFlag(f) \/ Knows(w, f.plan, f.ctx))
    BY <1>2 DEF Changing
  <1>7. \/ <<a.plan, a.ctx>> \in w.agreed
        \/ w.req.approve /\ Single(w)
        \/ w.req.each /\ ~Single(w) /\ OfPrompt(a)
    <2>1. CASE Knows(w, f.plan, f.ctx)
      BY <1>5, <2>1 DEF Knows
    <2>2. CASE RunFlag(f)
      <3>1. Licensed(i, ctx, w)
        BY <2>2 DEF RunFlag, Conduct
      <3>2. QED
        BY <1>1, <1>5, <3>1 DEF Licensed
    <2>3. QED
      BY <1>6, <2>1, <2>2
  <1>8. QED
    BY <1>1, <1>4, <1>5, <1>6, <1>7 DEF Rightly

LEMMA ApplyLands ==
    ASSUME IInv, Shape(stack, Actual), Apply, NEW v, v = Actual', Onward(Actual, v)
    PROVE  Lands(v) /\ DoneWell(Actual)
  <1>1. PICK w, f : w = Actual /\ f = Top
    OBVIOUS
  <1>2. Running("run", "apply") /\ ApplyNext(f.plan, "prompt")
    BY <1>1 DEF Apply
  <1>3. PICK b, i : /\ AtStep(w, b, i, f) /\ Sane(f, w) /\ IsRec(f) /\ f.at = "apply"
                    /\ Conduct(f, i, Where(stack, b, i, w), w)
    BY <1>1, <1>2, AtWorkIs
  <1>4. PICK ctx, n, a : ctx = Where(stack, b, i, w) /\ n = f.next /\ a = Action(f.plan, f.ctx, n, "prompt")
    OBVIOUS
  <1>5. Conduct(f, i, ctx, w)
    BY <1>3, <1>4
  <1>6. n \in DOMAIN f.plan.actions /\ n \in Nat /\ n > 0 /\ f.plan # NoPlan
    <2>1. n <= Len(f.plan.actions)
      BY <1>1, <1>2, <1>4 DEF ApplyNext
    <2>2. n \in Nat /\ n > 0
      BY <1>3, <1>4, ChangingIs DEF AtStep
    <2>3. f.plan # NoPlan /\ DOMAIN f.plan.actions = 1..Len(f.plan.actions) /\ Len(f.plan.actions) \in Nat
      <3>1. f.at \in {"ask", "pr", "apply", "verify"}
        BY <1>3
      <3>2. QED
        BY <1>3, <1>5, <3>1, ChangeIs, ChangeActions
    <2>4. QED
      BY <2>1, <2>2, <2>3
  <1>7. /\ Rightly(a, w)
        /\ OfPrompt(a) /\ a.step = i /\ a.plan = Shown(Goal(i, w)) /\ a.ctx = ctx /\ a.n = n
    BY <1>1, <1>3, <1>4, <1>5, <1>6, ApplyRightly
  <1>8. DoneWell(w)
    <2>1. done' = done \/ IsLonger(done', done, a)
      BY <1>1, <1>2, <1>4 DEF ApplyNext, IsLonger
    <2>2. QED
      BY <1>7, <2>1 DEF DoneWell
  <1>9. CASE done' = Append(done, a) /\ Become([f EXCEPT !.next = @ + 1])
    <2>1. PICK g : g = [f EXCEPT !.next = @ + 1]
      OBVIOUS
    <2>2. SameCall(f, g) /\ g.approve = f.approve /\ g.auto = f.auto /\ g.at = "apply" /\ g.next = n + 1
      BY <1>3, <1>4, <2>1 DEF SameCall, IsRec, Fields, AtStep
    <2>3. a \in v.actions
      <3>1. IsSeq(done) /\ IsLonger(done', done, a) /\ UNCHANGED <<req, env, agreed>>
        BY <1>2, <1>9 DEF IInv, IsLonger, ApplyNext
      <3>2. v.actions = w.actions \cup {a}
        BY <1>1, <3>1, OnwardDone
      <3>3. QED
        BY <3>2
    <2>4. Did(i, ctx, n, v)
      BY <1>1, <1>7, <2>3, DidOn DEF Did
    <2>5. \A m \in 1..(n - 1) : Did(i, ctx, m, w)
      BY <1>3, <1>4, <1>5 DEF Conduct
    <2>6. \A m \in 1..(g.next - 1) : Did(i, ctx, m, v)
      BY <1>1, <1>6, <2>2, <2>4, <2>5, DidOn
    <2>7. QED
      BY <1>1, <1>3, <1>4, <1>5, <1>8, <1>9, <2>1, <2>2, <2>6, ChangesOn
  <1>10. CASE Finish(f, "error")
    <2>1. PICK how : how = "error"
      OBVIOUS
    <2>2. Finish(f, how) /\ how \in {"ok", "error"} /\ how # "ok"
      BY <1>10, <2>1
    <2>3. QED
      BY <1>1, <1>3, <1>6, <1>8, <2>2, WorkEnds
  <1>11. QED
    BY <1>1, <1>2, <1>4, <1>9, <1>10 DEF ApplyNext

\* A run whose actions are all done has been through with its step.
LEMMA DoneThrough ==
    ASSUME NEW w, NEW v, Onward(w, v), NEW b, NEW i, NEW f, AtStep(w, b, i, f), Sane(f, w),
           f.at \in {"ask", "pr", "apply", "verify"}, NEW ctx, Conduct(f, i, ctx, w),
           \A n \in DOMAIN f.plan.actions : Did(i, ctx, n, w)
    PROVE  Through(i, ctx, v) /\ \A n \in DOMAIN f.plan.actions : Did(i, ctx, n, v)
  <1>1. DOMAIN f.plan.actions = DOMAIN Goal(i, w).actions
    BY ChangeActions
  <1>2. QED
    BY <1>1, DidOn DEF Through

LEMMA AppliedLands ==
    ASSUME IInv, Shape(stack, Actual), Applied, NEW v, v = Actual', Onward(Actual, v)
    PROVE  Lands(v) /\ DoneWell(Actual)
  <1>1. PICK w, f : w = Actual /\ f = Top
    OBVIOUS
  <1>2. Running("run", "apply") /\ done' = done /\ f.next > Len(f.plan.actions)
    BY <1>1 DEF Applied
  <1>3. PICK b, i : /\ AtStep(w, b, i, f) /\ Sane(f, w) /\ IsRec(f) /\ f.at = "apply"
                    /\ Conduct(f, i, Where(stack, b, i, w), w)
    BY <1>1, <1>2, AtWorkIs
  <1>4. PICK ctx : ctx = Where(stack, b, i, w)
    OBVIOUS
  <1>5. Conduct(f, i, ctx, w)
    BY <1>3, <1>4
  <1>6. f.plan # NoPlan /\ DOMAIN f.plan.actions = 1..Len(f.plan.actions) /\ Len(f.plan.actions) \in Nat
    <2>1. f.at \in {"ask", "pr", "apply", "verify"}
      BY <1>3
    <2>2. QED
      BY <1>3, <1>5, <2>1, ChangeIs, ChangeActions
  <1>7. \A n \in DOMAIN f.plan.actions : Did(i, ctx, n, w)
    <2>1. f.next \in Nat
      BY <1>3, ChangingIs DEF AtStep
    <2>2. \A n \in 1..(f.next - 1) : Did(i, ctx, n, w)
      BY <1>3, <1>5 DEF Conduct
    <2>3. QED
      BY <1>2, <1>6, <2>1, <2>2
  <1>8. Through(i, ctx, v) /\ \A n \in DOMAIN f.plan.actions : Did(i, ctx, n, v)
    BY <1>1, <1>3, <1>5, <1>7, DoneThrough
  <1>9. PICK e : e = [f EXCEPT !.applied = TRUE]
    OBVIOUS
  <1>10. e.plan = f.plan /\ e.ctx = f.ctx /\ IsRec(e) /\ \A x \in Fields \ {"applied"} : e[x] = f[x]
    BY <1>3, <1>9 DEF IsRec, Fields
  <1>11. ASSUME NEW how, how \in {"ok", "error"}, Finish(e, how)
         PROVE  Lands(v)
    BY <1>1, <1>3, <1>4, <1>6, <1>8, <1>10, <1>11, WorkEnds
  <1>12. CASE Become([e EXCEPT !.decision = "applied", !.at = "verify"])
    <2>1. PICK g : g = [e EXCEPT !.decision = "applied", !.at = "verify"]
      OBVIOUS
    <2>2. SameCall(f, g) /\ g.approve = f.approve /\ g.auto = f.auto /\ g.at = "verify"
      BY <1>3, <1>10, <2>1 DEF SameCall, IsRec, Fields, AtStep
    <2>3. Become(g)
      BY <1>12, <2>1
    <2>4. Lands(v)
      BY <1>1, <1>3, <1>4, <1>5, <1>8, <2>2, <2>3, ChangesOn
    <2>5. QED
      BY <1>1, <1>2, <2>4 DEF DoneWell
  <1>13. Lands(v)
    <2>1. \/ Finish(e, "ok") \/ Finish(e, "error")
          \/ Become([e EXCEPT !.decision = "applied", !.at = "verify"])
      BY <1>1, <1>9 DEF Applied
    <2>2. QED
      BY <1>11, <1>12, <2>1
  <1>14. QED
    BY <1>1, <1>2, <1>13 DEF DoneWell

LEMMA VerifyLands ==
    ASSUME IInv, Shape(stack, Actual), Verify, NEW v, v = Actual', Onward(Actual, v)
    PROVE  Lands(v) /\ DoneWell(Actual)
  <1>1. PICK w, f : w = Actual /\ f = Top
    OBVIOUS
  <1>2. Running("run", "verify") /\ done' = done
    BY <1>1 DEF Verify
  <1>3. PICK b, i : /\ AtStep(w, b, i, f) /\ Sane(f, w) /\ IsRec(f) /\ f.at = "verify"
                    /\ Conduct(f, i, Where(stack, b, i, w), w)
    BY <1>1, <1>2, AtWorkIs
  <1>4. PICK ctx : ctx = Where(stack, b, i, w)
    OBVIOUS
  <1>5. Conduct(f, i, ctx, w) /\ \A n \in DOMAIN f.plan.actions : Did(i, ctx, n, w)
    BY <1>3, <1>4 DEF Conduct
  <1>6. f.plan # NoPlan
    BY <1>3, ChangingIs DEF AtStep, Settled, IsPlanned
  <1>7. Through(i, ctx, v)
    BY <1>1, <1>3, <1>5, DoneThrough
  <1>8. PICK verify, how : how \in {"ok", "error"} /\ Finish([f EXCEPT !.verify = verify], how)
    BY <1>1 DEF Verify
  <1>9. PICK g : g = [f EXCEPT !.verify = verify]
    OBVIOUS
  <1>10. Finish(g, how) /\ how \in {"ok", "error"} /\ g.plan = f.plan /\ g.ctx = f.ctx
    BY <1>3, <1>8, <1>9 DEF IsRec, Fields
  <1>11. QED
    BY <1>1, <1>2, <1>3, <1>4, <1>6, <1>7, <1>10, WorkEnds DEF DoneWell

-------------------------------------------------------------------------------

(***************************************************************************)
(* A plan prepared under a forced namespace speaks of that one or of none. *)
(***************************************************************************)
Near(p, ns) ==
    p.intent.ns \in {Unset, ns} /\ \A i \in DOMAIN p.actions : p.actions[i].ns \in {Unset, ns}

LEMMA ReadsNear ==
    ASSUME NEW ns, NEW x, x.ns \in {Unset, ns}, NEW a, a.ns \in {Unset, ns}
    PROVE  Near(Reads(x, a), ns)
  <1>1. PICK s : s = <<a>>
    OBVIOUS
  <1>2. DOMAIN s = {1} /\ s[1] = a
    BY <1>1
  <1>3. Reads(x, a).intent = x /\ Reads(x, a).actions = s
    BY <1>1 DEF Reads
  <1>4. QED
    BY <1>2, <1>3 DEF Near

LEMMA DiagnosisNear ==
    ASSUME NEW in, NEW ns, in.ns \in {Unset, ns}, NEW objects, NEW default, Diagnosis(in, ns, objects, default) # NoPlan
    PROVE  Near(Diagnosis(in, ns, objects, default), ns)
  BY ActIs, ReadsNear DEF Diagnosis, Given

LEMMA TimelineNear ==
    ASSUME NEW in, IsIntent(in), NEW ns, in.ns = ns, buildTimeline(in, ns) # NoPlan
    PROVE  Near(buildTimeline(in, ns), ns)
  <1>1. PICK x, y : x = in.params ++ [window |-> 60] /\ y = [in EXCEPT !.params = x]
    OBVIOUS
  <1>2. y.ns = ns
    BY <1>1, PlusIsFunction, SetParams
  <1>3. buildTimeline(in, ns) = Diagnosis(y, ns, {"Pod", "Deployment"}, "Deployment")
    BY <1>1 DEF buildTimeline, buildExplain
  <1>4. QED
    BY <1>2, <1>3, DiagnosisNear

LEMMA GetNear ==
    ASSUME NEW in, IsIntent(in), NEW ns, buildGet(in, ns) # NoPlan
    PROVE  Near(buildGet(in, ns), ns)
  <1> DEFINE object == Or(in.object, "Pod")
             where == IF object \in ClusterKinds THEN Unset ELSE ns
  <1>1. PICK o, w, y, x, a :
            /\ o = object /\ w = where /\ y = [in EXCEPT !.object = o] /\ x = [in EXCEPT !.object = o, !.ns = w]
            /\ a = Act("get", "kubernetes", o, in.name, w)
    OBVIOUS
  <1>2. buildGet(in, ns) = Reads(x, a)
    BY <1>1 DEF buildGet, Given
  <1>3. IsIntent(y)
    BY <1>1, SetObject
  <1>4. x = [y EXCEPT !.ns = w]
    BY <1>1 DEF IsIntent
  <1>5. x.ns = w
    BY <1>3, <1>4, SetNs
  <1>6. a.ns = w /\ w \in {Unset, ns}
    BY <1>1, ActIs
  <1>7. QED
    BY <1>2, <1>5, <1>6, ReadsNear

LEMMA WithinNear ==
    ASSUME NEW in, NEW default, NEW ns, NEW x, IsIntent(x), x.ns \in {Unset, ns}, NEW a, a.ns \in {Unset, ns},
           Within(in, default, Reads(x, a)) # NoPlan
    PROVE  Near(Within(in, default, Reads(x, a)), ns)
  <1>1. PICK p, r :
            /\ p = [intent |-> x, approval |-> FALSE, actions |-> <<a>>]
            /\ r = [p EXCEPT !.intent.params = @ ++ [window |-> default]]
    OBVIOUS
  <1>2. Within(in, default, Reads(x, a)) = r
    BY <1>1 DEF Within, Given, Reads
  <1>3. r.intent.ns = x.ns /\ r.actions = <<a>>
    BY <1>1 DEF IsIntent
  <1>4. DOMAIN r.actions = {1} /\ r.actions[1] = a
    BY <1>3
  <1>5. QED
    BY <1>2, <1>3, <1>4 DEF Near

LEMMA ScopeNear ==
    ASSUME NEW in, IsIntent(in)
    PROVE  IsIntent(Scope(in)) /\ Scope(in).ns \in {Unset, in.ns}
  BY ScopeIs, SetNs DEF Scope

LEMMA ScanNear ==
    ASSUME NEW y, IsIntent(y), NEW backend, NEW object
    PROVE  \E x, a : /\ Scan(y, backend, object) = Reads(x, a) /\ IsIntent(x)
                     /\ x.ns \in {Unset, y.ns} /\ a.ns \in {Unset, y.ns}
  <1>1. PICK c, o, x, a :
            /\ c = Scope(y) /\ o = Or(c.object, object) /\ x = [c EXCEPT !.object = o]
            /\ a = Act(y.kind, backend, Or(y.object, object), Unset, c.ns)
    OBVIOUS
  <1>2. IsIntent(c) /\ c.ns \in {Unset, y.ns}
    BY <1>1, ScopeNear
  <1>3. IsIntent(x) /\ x.ns = c.ns
    BY <1>1, <1>2, SetObject
  <1>4. a.ns = c.ns
    BY <1>1, ActIs
  <1>5. Scan(y, backend, object) = Reads(x, a)
    BY <1>1 DEF Scan
  <1>6. QED
    BY <1>2, <1>3, <1>4, <1>5

LEMMA ReportNear ==
    ASSUME NEW y, IsIntent(y), NEW backend, NEW object
    PROVE  Near(Scan(y, backend, object), y.ns)
  BY ScanNear, ReadsNear

LEMMA OptimizeNear ==
    ASSUME NEW in, IsIntent(in), buildOptimize(in) # NoPlan
    PROVE  Near(buildOptimize(in), in.ns)
  <1>1. PICK x, a : /\ Scan(in, "optimize", "Cluster") = Reads(x, a) /\ IsIntent(x)
                    /\ x.ns \in {Unset, in.ns} /\ a.ns \in {Unset, in.ns}
    BY ScanNear
  <1>2. QED
    BY <1>1, WithinNear DEF buildOptimize

LEMMA SearchNear ==
    ASSUME NEW in, IsIntent(in), buildSearch(in) # NoPlan
    PROVE  Near(buildSearch(in), in.ns)
  <1>1. PICK o, y : /\ o = IF in.object \in {"Cluster", "Namespace"} THEN Unset ELSE in.object
                    /\ y = [in EXCEPT !.object = o]
    OBVIOUS
  <1>2. IsIntent(y) /\ y.ns = in.ns
    BY <1>1, SetObject
  <1>3. buildSearch(in) = Scan(y, "search", "Deployment")
    BY <1>1 DEF buildSearch, Given
  <1>4. QED
    BY <1>2, <1>3, ReportNear

LEMMA DriftNear ==
    ASSUME NEW in, IsIntent(in)
    PROVE  Near(buildDrift(in), in.ns)
  <1> DEFINE object == IF in.name = Unset THEN Or(in.object, Place(in)) ELSE in.object
  <1>1. PICK o, c, x, a : /\ o = object /\ c = Scope(in) /\ x = [c EXCEPT !.object = o]
                          /\ a = Act("drift", "drift", Or(o, "Cluster"), in.name, c.ns)
    OBVIOUS
  <1>2. IsIntent(c) /\ c.ns \in {Unset, in.ns}
    BY <1>1, ScopeNear
  <1>3. x.ns = c.ns /\ a.ns = c.ns
    BY <1>1, <1>2, SetObject, ActIs
  <1>4. buildDrift(in) = Reads(x, a)
    BY <1>1 DEF buildDrift
  <1>5. QED
    BY <1>2, <1>3, <1>4, ReadsNear

LEMMA ObjectNear ==
    ASSUME NEW in, IsIntent(in)
    PROVE  Near(buildIstio(in), in.ns) /\ Near(buildLearn(in), in.ns)
  <1>1. PICK o, x, a : /\ o = Or(in.object, "VirtualService") /\ x = [in EXCEPT !.object = o]
                       /\ a = Act("istio-traffic", "istio", "VirtualService", in.name, in.ns)
    OBVIOUS
  <1>2. buildIstio(in) = Reads(x, a) /\ x.ns = in.ns /\ a.ns = in.ns
    BY <1>1, SetObject, ActIs DEF buildIstio
  <1>3. PICK o2, y, b : /\ o2 = Or(in.object, "Cluster") /\ y = [in EXCEPT !.object = o2]
                        /\ b = Act("learn", "learn", o2, Unset, Unset)
    OBVIOUS
  <1>4. buildLearn(in) = Reads(y, b) /\ y.ns = in.ns /\ b.ns = Unset
    BY <1>3, SetObject, ActIs DEF buildLearn
  <1>5. QED
    BY <1>2, <1>4, ReadsNear

LEMMA QueryNear ==
    ASSUME NEW in, IsIntent(in), NEW ns, in.ns = ns
    PROVE  /\ buildPerformance(in, ns) # NoPlan => Near(buildPerformance(in, ns), ns)
           /\ buildTrace(in) # NoPlan => Near(buildTrace(in), ns)
           /\ Near(buildDashboard(in), ns)
  <1>1. PICK a : a = Act("prom-query", "prometheus", "Deployment", in.name, ns)
    OBVIOUS
  <1>2. buildPerformance(in, ns) # NoPlan => Near(buildPerformance(in, ns), ns)
    BY <1>1, ActIs, WithinNear DEF buildPerformance, Given
  <1>3. buildTrace(in) # NoPlan => Near(buildTrace(in), ns)
    BY ActIs, WithinNear DEF buildTrace, Given
  <1>4. Near(buildDashboard(in), ns)
    BY ActIs, ReadsNear DEF buildDashboard
  <1>5. QED
    BY <1>2, <1>3, <1>4

LEMMA BuildNear ==
    ASSUME NEW in, IsIntent(in), NEW ns, in.ns = ns, ns # Unset, NEW p, p = Build(in), p # NoPlan, ~p.approval
    PROVE  Near(p, ns)
  <1>1. Or(in.ns, "default") = ns
    BY DEF Or
  <1>2. in.kind \in ReadKinds \cup {"gitops", "deny"}
    BY BuildBuilt DEF Built
  <1>3. CASE in.kind \in {"explain", "investigate", "why", "describe"}
    <2>1. p = buildExplain(in, ns)
      BY <1>1, <1>3 DEF Build
    <2>2. QED
      BY <2>1, DiagnosisNear DEF buildExplain
  <1>4. CASE in.kind = "get"
    <2>1. p = buildGet(in, ns)
      BY <1>1, <1>4 DEF Build
    <2>2. QED
      BY <2>1, GetNear
  <1>5. CASE in.kind = "timeline"
    <2>1. p = buildTimeline(in, ns)
      BY <1>1, <1>5 DEF Build
    <2>2. QED
      BY <2>1, TimelineNear
  <1>6. CASE in.kind = "impact"
    <2>1. p = buildImpact(in, ns)
      BY <1>1, <1>6 DEF Build
    <2>2. QED
      BY <2>1, DiagnosisNear DEF buildImpact
  <1>7. CASE in.kind = "logs"
    <2>1. p = buildLogs(in, ns)
      BY <1>1, <1>7 DEF Build
    <2>2. QED
      BY <2>1, DiagnosisNear DEF buildLogs, buildExplain, Given
  <1>8. CASE in.kind = "istio"
    <2>1. p = buildIstio(in)
      BY <1>1, <1>8 DEF Build
    <2>2. QED
      BY <2>1, ObjectNear
  <1>9. CASE in.kind = "learn"
    <2>1. p = buildLearn(in)
      BY <1>1, <1>9 DEF Build
    <2>2. QED
      BY <2>1, ObjectNear
  <1>10. CASE in.kind = "performance"
    <2>1. p = buildPerformance(in, ns)
      BY <1>1, <1>10 DEF Build
    <2>2. QED
      BY <2>1, QueryNear
  <1>11. CASE in.kind = "trace"
    <2>1. p = buildTrace(in)
      BY <1>1, <1>11 DEF Build
    <2>2. QED
      BY <2>1, QueryNear
  <1>12. CASE in.kind = "dashboard"
    <2>1. p = buildDashboard(in)
      BY <1>1, <1>12 DEF Build
    <2>2. QED
      BY <2>1, QueryNear
  <1>13. CASE in.kind = "optimize"
    <2>1. p = buildOptimize(in)
      BY <1>1, <1>13 DEF Build
    <2>2. QED
      BY <2>1, OptimizeNear
  <1>14. CASE in.kind = "roast"
    <2>1. p = buildRoast(in)
      BY <1>1, <1>14 DEF Build
    <2>2. QED
      BY <2>1, ReportNear DEF buildRoast
  <1>15. CASE in.kind = "graph"
    <2>1. p = buildGraph(in)
      BY <1>1, <1>15 DEF Build
    <2>2. QED
      BY <2>1, ReportNear DEF buildGraph
  <1>16. CASE in.kind = "audit"
    <2>1. p = buildAudit(in)
      BY <1>1, <1>16 DEF Build
    <2>2. QED
      BY <2>1, ReportNear DEF buildAudit
  <1>17. CASE in.kind = "cleanup"
    <2>1. p = buildCleanup(in)
      BY <1>1, <1>17 DEF Build
    <2>2. QED
      BY <2>1, ReportNear DEF buildCleanup
  <1>18. CASE in.kind = "search"
    <2>1. p = buildSearch(in)
      BY <1>1, <1>18 DEF Build
    <2>2. QED
      BY <2>1, SearchNear
  <1>19. CASE in.kind = "score"
    <2>1. p = buildScore(in)
      BY <1>1, <1>19 DEF Build
    <2>2. QED
      BY <2>1, ReportNear DEF buildScore
  <1>20. CASE in.kind = "architecture"
    <2>1. p = buildArchitecture(in)
      BY <1>1, <1>20 DEF Build
    <2>2. QED
      BY <2>1, ReportNear DEF buildArchitecture
  <1>21. CASE in.kind = "drift"
    <2>1. p = buildDrift(in)
      BY <1>1, <1>21 DEF Build
    <2>2. QED
      BY <2>1, DriftNear
  <1>22. CASE in.kind = "gitops"
    <2>1. p = buildGitOps(in, ns)
      BY <1>1, <1>22 DEF Build
    <2>2. PICK kind, a : p = Reads(in, Act("gitops-status", "gitops", kind, in.name, ns))
      BY <2>1 DEF buildGitOps, Given, Mutates
    <2>3. QED
      BY <2>2, ActIs, ReadsNear
  <1>23. CASE in.kind = "deny"
    <2>1. p = [intent |-> in, approval |-> FALSE, actions |-> <<>>]
      BY <1>23 DEF Build
    <2>2. p.intent.ns = ns /\ DOMAIN p.actions = {}
      BY <2>1
    <2>3. QED
      BY <2>2 DEF Near
  <1>24. QED
    BY <1>2, <1>3, <1>4, <1>5, <1>6, <1>7, <1>8, <1>9, <1>10, <1>11, <1>12, <1>13, <1>14, <1>15, <1>16, <1>17, <1>18, <1>19, <1>20, <1>21, <1>22, <1>23 DEF ReadKinds

LEMMA HomeIs ==
    ASSUME NEW p, IsExecutionPlan(p), NEW ns, Near(p, ns)
    PROVE  planNamespace(p) \in {Unset, ns}
  <1>1. PICK named : named = {i \in DOMAIN p.actions : p.actions[i].ns # Unset}
    OBVIOUS
  <1>2. named \in SUBSET Nat
    BY <1>1 DEF IsExecutionPlan
  <1>3. CASE p.intent.ns # Unset
    BY <1>3 DEF Near, planNamespace
  <1>4. CASE p.intent.ns = Unset /\ named = {}
    BY <1>1, <1>4 DEF planNamespace
  <1>5. CASE p.intent.ns = Unset /\ named # {}
    <2>1. PICK k : k = CHOOSE i \in named : \A j \in named : i <= j
      OBVIOUS
    <2>2. k \in named
      BY <1>2, <1>5, <2>1, Smallest
    <2>3. planNamespace(p) = p.actions[k].ns
      BY <1>1, <1>5, <2>1 DEF planNamespace
    <2>4. QED
      BY <1>1, <2>2, <2>3 DEF Near
  <1>6. QED
    BY <1>3, <1>4, <1>5

LEMMA BuildHome ==
    ASSUME NEW in, IsIntent(in), NEW ns, in.ns = ns, ns # Unset, NEW p, p = Build(in), p # NoPlan
    PROVE  planNamespace(p) \in {Unset, ns}
  <1>1. Built(p, in)
    BY BuildBuilt
  <1>2. CASE p.approval
    BY <1>1, <1>2 DEF Built, planNamespace
  <1>3. CASE ~p.approval
    BY <1>1, <1>3, BuildNear, HomeIs DEF Built
  <1>4. QED
    BY <1>2, <1>3

\* A step of a route, as the preflight prepared it for a request r.
Readied(s, prompt, r) ==
    \E raw, p :
        /\ IsIntent(raw) /\ IsPrefs(p) /\ Keeps(p, r)
        /\ s.in = Prepared(raw, prompt, p, ScopedKinds) /\ IsIntent(s.in)
        /\ s.plan = Build(s.in) /\ s.after.ctx = s.in.ctx

LEMMA ScopesKeep ==
    ASSUME NEW r, NEW f, IsPrefs(f), Keeps(f, r), NEW raws, IsSeq(raws), \A i \in 1..Len(raws) : IsIntent(raws[i]),
           NEW steps, steps = Preflight(f, raws)
    PROVE  \A i \in 1..Len(raws) : Keeps(ScopeOf(f, steps, i), r)
  <1> DEFINE Good(i) == Keeps(ScopeOf(f, steps, i), r)
  <1> HIDE DEF Good
  <1>1. PICK n \in Nat : n = Len(raws)
    BY DEF IsSeq
  <1>2. PICK b : b = {i \in 1..n : ~Good(i)}
    OBVIOUS
  <1>3. ASSUME b # {} PROVE FALSE
    <2>0. b \in SUBSET Nat /\ b # {}
      BY <1>2, <1>3
    <2>1. PICK m \in b : \A y \in b : m <= y
      BY <2>0, Smallest
    <2>2. m \in 1..n /\ ~Good(m)
      BY <1>2, <2>1
    <2>3. m # 1
      <3>1. Keeps(Prefs(f), r)
        BY PrefsScope DEF Keeps
      <3>2. QED
        BY <2>2, <3>1 DEF Good, ScopeOf
    <2>4. m - 1 \in 1..n /\ m - 1 \notin b
      BY <1>1, <2>1, <2>2, <2>3
    <2>5. Good(m - 1)
      BY <1>2, <2>4
    <2>6. PICK k, p, s, raw, prompt :
            /\ k = m - 1 /\ p = ScopeOf(f, steps, k) /\ s = steps[k] /\ raw = raws[k] /\ prompt = Words[RouteOf(f)[k]]
      OBVIOUS
    <2>7. /\ IsScope(p) /\ s.in = Prepared(raw, prompt, p, ScopedKinds) /\ s.after = Carried(p, s.in.ns, s.in.ctx)
          /\ IsIntent(raw) /\ Keeps(p, r)
      <3>1. k \in 1..Len(raws)
        BY <1>1, <2>4, <2>6
      <3>2. QED
        BY <2>5, <2>6, <3>1, PreflightSound DEF Good
    <2>8. PICK in : in = s.in
      OBVIOUS
    <2>9. (p.forceNs => in.ns = p.ns) /\ (p.forceCtx => in.ctx = p.ctx)
      <3>1. PICK kinds : kinds = ScopedKinds
        OBVIOUS
      <3>2. in = Prepared(raw, prompt, p, kinds) /\ kinds \in Scopes /\ IsPrefs(p)
        BY <2>7, <2>8, <3>1 DEF Scopes, IsScope
      <3>3. QED
        BY <2>7, <3>2, FirstPrepared
    <2>10. PICK q : q = Carried(p, in.ns, in.ctx)
      OBVIOUS
    <2>11. q.forceNs = p.forceNs /\ q.forceCtx = p.forceCtx /\ q.ns = Or(in.ns, p.ns) /\ q.ctx = Or(in.ctx, p.ctx)
      BY <2>7, <2>10, CarriedScope
    <2>12. Keeps(q, r)
      BY <2>7, <2>9, <2>11 DEF Keeps, Or
    <2>13. ScopeOf(f, steps, m) = q
      BY <2>3, <2>6, <2>7, <2>8, <2>10 DEF ScopeOf
    <2>14. QED
      BY <2>2, <2>12, <2>13 DEF Good
  <1>4. QED
    BY <1>1, <1>2, <1>3 DEF Good

LEMMA StepsOfIs ==
    ASSUME NEW r \in Requests, NEW ps, ps = StepsOf(r)
    PROVE  ArePrompts(ps) /\ DOMAIN ps = 1..Len(ps) /\ Len(ps) \in Nat
  <1>1. r.steps \in Seq(Prompts) /\ Clauses[r.prompt] \in Seq(Prompts)
    BY RequestIs, PipelineAssumption
  <1>2. ps \in Seq(Prompts)
    BY <1>1 DEF StepsOf
  <1>3. IsSeq(ps)
    BY <1>2, SeqIsSeq
  <1>4. QED
    BY <1>2, <1>3 DEF ArePrompts, IsSeq

\* What a request sets out to do in several steps is what the preflight of its
\* outermost call prepares.
LEMMA IntendedRoute ==
    ASSUME NEW r \in Requests, NEW n, n = Len(StepsOf(r)), n > 1, NEW steps, steps = Intended[r]
    PROVE  /\ \E raws : AreIntents(raws) /\ Len(raws) = n /\ steps = Preflight(FrameOf(r), raws)
                        /\ raws = [i \in DOMAIN StepsOf(r) |-> Answer[StepsOf(r)[i]]]
           /\ \A i \in 1..n : Readied(steps[i], Words[StepsOf(r)[i]], r)
  <1>1. PICK f, ps : f = FrameOf(r) /\ ps = StepsOf(r)
    OBVIOUS
  <1>2. ArePrompts(ps) /\ DOMAIN ps = 1..n /\ n \in Nat
    BY <1>1, StepsOfIs
  <1>3. PICK raws : raws = [i \in DOMAIN ps |-> Answer[ps[i]]]
    OBVIOUS
  <1>4. AreIntents(raws) /\ Len(raws) = n
    <2>1. raws = [i \in 1..n |-> raws[i]]
      BY <1>2, <1>3
    <2>2. IsSeq(raws) /\ Len(raws) = n
      BY <1>2, <2>1, FunctionIsSeq
    <2>3. \A i \in 1..n : IsIntent(raws[i])
      BY <1>1, <1>2, <1>3, PipelineAssumption DEF ArePrompts
    <2>4. QED
      BY <2>2, <2>3 DEF AreIntents
  <1>5. steps = Preflight(f, raws)
    BY <1>1, <1>3 DEF Intended
  <1>6. RouteOf(f) = ps /\ IsPrefs(f) /\ Keeps(f, r)
    BY <1>1, FrameIs, RequestIs DEF RouteOf, StepsOf, Keeps, IsPrefs
  <1>7. ASSUME NEW i \in 1..n
        PROVE  Readied(steps[i], Words[ps[i]], r)
    <2>1. PICK p, s, raw : p = ScopeOf(f, steps, i) /\ s = steps[i] /\ raw = raws[i]
      OBVIOUS
    <2>2. /\ IsScope(p) /\ s.in = Prepared(raw, Words[ps[i]], p, ScopedKinds) /\ IsIntent(s.in)
          /\ s.plan = Build(s.in) /\ s.after = Carried(p, s.in.ns, s.in.ctx) /\ IsIntent(raw)
      BY <1>4, <1>5, <1>6, <2>1, PreflightSound DEF AreIntents
    <2>3. Keeps(p, r)
      BY <1>4, <1>5, <1>6, <2>1, ScopesKeep DEF AreIntents
    <2>4. s.after.ctx = s.in.ctx
      <3>1. PICK in, q, kinds : in = s.in /\ q = Carried(p, in.ns, in.ctx) /\ kinds = ScopedKinds
        OBVIOUS
      <3>2. q.ctx = Or(in.ctx, p.ctx)
        BY <2>2, <3>1, CarriedScope
      <3>3. in.ctx # Unset
        <4>1. in = Prepared(raw, Words[ps[i]], p, kinds) /\ kinds \in Scopes /\ IsPrefs(p)
          BY <2>2, <3>1 DEF Scopes, IsScope
        <4>2. QED
          BY <2>2, <4>1, FirstPrepared
      <3>4. QED
        BY <2>2, <3>1, <3>2, <3>3 DEF Or
    <2>5. QED
      BY <2>1, <2>2, <2>3, <2>4 DEF Readied, IsScope
  <1>8. QED
    BY <1>1, <1>3, <1>4, <1>5, <1>7

\* A prompt that does not both optimise and autoscale.
Plain(prompt) == ~({"optimize", "hpa"} \subseteq prompt.says)

\* What the provider hands to a step or to a context f: the intent a that was
\* prepared for it, or the one of the plan p that was made of it.
Handed(x, p, a, f) ==
    /\ IsRec(f) /\ IsPrefs(f) /\ Plain(Words[f.prompt]) /\ p # NoPlan
    /\ \E raw, prefs, kinds :
        /\ IsIntent(raw) /\ IsPrefs(prefs) /\ kinds \in Scopes /\ a = Prepared(raw, Words[f.prompt], prefs, kinds)
        /\ p = Build(a) /\ Origin(x, p, a)
        /\ f.forceNs = prefs.forceNs /\ (prefs.forceNs => f.ns = prefs.ns)

LEMMA PlansAgain ==
    ASSUME NEW f, NEW x, NEW p, NEW a, Handed(x, p, a, f),
           NEW g, g = WithPlan(f, x), NEW q, q = g.plan, q # NoPlan
    PROVE  /\ IsIntent(x) /\ Meets(q, p)
           /\ p.approval /\ f.forceCtx => g.ctx = f.ctx
           /\ p.approval /\ ~f.forceCtx => g.ctx = a.ctx
  <1>1. PICK prompt : prompt = Words[f.prompt]
    OBVIOUS
  <1>2. PICK raw, prefs, kinds :
            /\ IsIntent(raw) /\ IsPrefs(prefs) /\ kinds \in Scopes /\ a = Prepared(raw, prompt, prefs, kinds)
            /\ p = Build(a) /\ Origin(x, p, a)
            /\ f.forceNs = prefs.forceNs /\ (prefs.forceNs => f.ns = prefs.ns)
            /\ IsRec(f) /\ IsPrefs(f) /\ Plain(prompt) /\ p # NoPlan
    BY <1>1 DEF Handed
  <1>3. PICK other, w, all : other = Prefs(f) /\ all = ScopedKinds \cup {"roast"} /\ w = Prepared(x, prompt, other, all)
    OBVIOUS
  <1>4. /\ IsPrefs(other) /\ other.forceNs = prefs.forceNs /\ (prefs.forceNs => other.ns = prefs.ns)
        /\ other.forceCtx = f.forceCtx /\ other.ctx = f.ctx
    BY <1>2, <1>3, PrefsScope DEF IsScope
  <1>5. IsIntent(a) /\ Built(p, a)
    <2>1. IsIntent(a)
      BY <1>2, FirstPrepared
    <2>2. QED
      BY <1>2, <2>1, BuildBuilt
  <1>6. IsIntent(x) /\ IsExecutionPlan(p)
    BY <1>2, <1>5 DEF Origin, Built, IsExecutionPlan
  <1>7. /\ g.plan = Build(w) /\ g.ctx = w.ctx /\ Built(g.plan, w)
    BY <1>1, <1>2, <1>3, <1>6, WithPlanIs
  <1>8. g.plan.approval \in BOOLEAN /\ p.approval \in BOOLEAN
    BY <1>6, <1>7 DEF Built, IsExecutionPlan
  <1>9. CASE p.approval
    <2>1. /\ Build(w).approval /\ Shown(Build(w)) = Shown(p)
          /\ w.ctx = (IF other.forceCtx THEN other.ctx ELSE a.ctx)
      BY <1>2, <1>3, <1>4, <1>9, ShownAgain
    <2>2. QED
      BY <1>2, <1>4, <1>6, <1>7, <1>8, <1>9, <2>1 DEF Meets
  <1>10. CASE ~p.approval
    <2>1. ~Build(w).approval
      BY ZenonT(60), <1>2, <1>3, <1>4, <1>7, <1>10, ReadStays DEF Plain
    <2>2. QED
      BY <1>2, <1>6, <1>7, <1>8, <1>10, <2>1 DEF Meets
  <1>11. QED
    BY <1>8, <1>9, <1>10

LEMMA MeetsOn ==
    ASSUME NEW h, NEW p, NEW q, Meets(h, p), Meets(p, q)
    PROVE  Meets(h, q)
  BY DEF Meets

\* Where the command line forces a place, the plan is in it, and so is the run.
LEMMA PlansHome ==
    ASSUME NEW f, IsRec(f), IsPrefs(f), NEW raw, IsIntent(raw), NEW g, g = WithPlan(f, raw), g.plan # NoPlan
    PROVE  /\ f.forceNs => g.ns = f.ns /\ planNamespace(g.plan) \in {Unset, f.ns}
           /\ f.forceCtx => g.ctx = f.ctx
           /\ \A h : h.plan = g.plan /\ h.prompt = f.prompt /\ h.forceNs = f.forceNs /\ h.ns = g.ns => PlannedBy(h)
  <1>1. PICK prompt, prefs, kinds, in :
            /\ prompt = Words[f.prompt] /\ prefs = Prefs(f) /\ kinds = ScopedKinds \cup {"roast"}
            /\ in = Prepared(raw, prompt, prefs, kinds)
    OBVIOUS
  <1>2. IsPrefs(prefs) /\ prefs.ns = f.ns /\ prefs.ctx = f.ctx /\ prefs.forceNs = f.forceNs /\ prefs.forceCtx = f.forceCtx
    BY <1>1, PrefsScope DEF IsScope
  <1>3. g.ns = in.ns /\ g.ctx = in.ctx /\ g.plan = Build(in) /\ IsIntent(in)
    BY <1>1, WithPlanIs
  <1>4. (prefs.forceNs => in.ns = prefs.ns) /\ (prefs.forceCtx => in.ctx = prefs.ctx)
    <2>1. kinds \in Scopes
      BY <1>1 DEF Scopes
    <2>2. QED
      BY <1>1, <1>2, <2>1, FirstPrepared
  <1>5. f.forceNs => planNamespace(g.plan) \in {Unset, f.ns}
    <2>1. ASSUME f.forceNs
          PROVE  planNamespace(g.plan) \in {Unset, f.ns}
      <3>1. in.ns = f.ns /\ f.ns # Unset
        BY <1>2, <1>4, <2>1 DEF IsPrefs
      <3>2. QED
        BY <1>3, <3>1, BuildHome
    <2>2. QED
      BY <2>1
  <1>6. ASSUME NEW h, h.plan = g.plan, h.prompt = f.prompt, h.forceNs = f.forceNs, h.ns = g.ns
        PROVE  PlannedBy(h)
    <2>1. h.plan = Build(Prepared(raw, Words[h.prompt], prefs, ScopedKinds \cup {"roast"}))
      BY <1>1, <1>3, <1>6
    <2>2. prefs.forceNs = h.forceNs /\ (prefs.forceNs => h.ns = prefs.ns)
      BY <1>2, <1>3, <1>4, <1>6
    <2>3. QED
      BY <1>2, <2>1, <2>2 DEF PlannedBy
  <1>7. QED
    BY <1>2, <1>3, <1>4, <1>5, <1>6

\* A call that is to plan, and the step that it is to carry out.
AtPlan(w, b, i, f) ==
    IsStack(stack) /\ stack # <<>> /\ Serves(stack, b, i, w) /\ f = Top /\ f.type = "run" /\ f.at = "start"
    /\ Sane(f, w)

LEMMA FirstExtracted ==
    ASSUME IsStack(stack), NEW n, n = Len(stack), n \in Nat, n > 1, NEW q, q = stack[n-1].queue, IsSeq(q),
           NEW p, ~Exhausted(1), NEW raw, raw = Extracted(<<p>>)[1]
    PROVE  raw = q[1] /\ Len(q) >= 1
  <1>1. PICK b, m : b = Below /\ m = n - 1
    OBVIOUS
  <1>2. Len(b) = m /\ b[m] = stack[m] /\ m \in Nat /\ n # 1
    BY SMTT(60), <1>1, EmptyIs, BelowForm DEF IsStack
  <1>3. ~Model
    BY <1>2 DEF Model
  <1>4. ~(Len(q) < 1) /\ Len(q) \in Nat
    BY <1>1, <1>2, <1>3 DEF Exhausted, IsSeq
  <1>5. PICK ps, k : ps = <<p>> /\ k = 1
    OBVIOUS
  <1>6. Len(ps) = k
    BY <1>5
  <1>7. Extracted(ps) = SubSeq(q, 1, k)
    BY <1>1, <1>2, <1>3, <1>6 DEF Extracted
  <1>8. PICK e : e = SubSeq(q, 1, k)
    OBVIOUS
  <1>9. e[1] = q[1]
    <2>1. k \in Nat /\ k <= Len(q) /\ 1 \in 1..k
      BY <1>4, <1>5
    <2>2. QED
      BY <1>8, <2>1, FirstIs
  <1>10. QED
    BY <1>4, <1>5, <1>7, <1>8, <1>9

LEMMA IntendedAlone ==
    ASSUME NEW r \in Requests, ~(Len(StepsOf(r)) > 1), NEW g, g = WithPlan(FrameOf(r), Answer[r.prompt])
    PROVE  Intended[r][1].plan = g.plan /\ Intended[r][1].after.ctx = g.ctx
  <1>1. PICK s : s = OneStep(g)
    OBVIOUS
  <1>2. Intended[r] = s
    BY <1>1 DEF Intended
  <1>3. s[1] = [plan |-> g.plan, after |-> Prefs(g)]
    BY <1>1 DEF OneStep
  <1>4. QED
    BY <1>2, <1>3 DEF Prefs

LEMMA PlansAlone ==
    ASSUME IInv, Len(stack) = 1, NEW w, w = Actual, NEW b, NEW i, NEW f, AtPlan(w, b, i, f),
           NEW raw, raw = Extracted(<<f.prompt>>)[1], NEW g, g = WithPlan(f, raw)
    PROVE  i = 1 /\ g.plan = Goal(i, w) /\ g.ctx = Site(i, w)
  <1>1. PICK r : r = req /\ r \in Requests
    BY DEF IInv
  <1>2. b = 0 /\ i = 1 /\ Size(w) = 1 /\ f = FrameOf(r)
    <2>1. w.req = r
      BY <1>1 DEF Actual
    <2>2. Base(stack, b, i, w) /\ Len(stack) \in {b + 1, b + 2} /\ b \in 0..1
      BY ServesPlace DEF AtPlan, Serves
    <2>3. f = stack[1] /\ f.at = "start"
      BY DEF AtPlan, Top
    <2>4. QED
      BY <2>1, <2>2, <2>3 DEF Base
  <1>3. f.prompt = r.prompt
    BY <1>2, FrameIs
  <1>4. PICK p, ps : p = f.prompt /\ ps = <<p>>
    OBVIOUS
  <1>5. raw = Answer[r.prompt]
    <2>1. 1 \in DOMAIN ps /\ ps[1] = p
      BY <1>4
    <2>2. Extracted(ps) = [k \in DOMAIN ps |-> Answer[ps[k]]]
      BY DEF Extracted, Model
    <2>3. QED
      BY <1>3, <1>4, <2>1, <2>2
  <1>6. g = WithPlan(FrameOf(r), Answer[r.prompt])
    BY <1>2, <1>5
  <1>7. ~(Len(StepsOf(r)) > 1) /\ w.req = r
    <2>1. w.req = r
      BY <1>1 DEF Actual
    <2>2. Len(StepsOf(r)) = 1
      BY <1>2, <2>1 DEF Size
    <2>3. QED
      BY <2>1, <2>2
  <1>8. Intended[r][1].plan = g.plan /\ Intended[r][1].after.ctx = g.ctx
    BY <1>1, <1>6, <1>7, IntendedAlone
  <1>9. QED
    BY <1>2, <1>7, <1>8 DEF Goal, Site

LEMMA PlansStep ==
    ASSUME IInv, Flat, NEW w, w = Actual, NEW b, NEW i, NEW f, AtPlan(w, b, i, f), b = 1, Len(stack) = 2, ~Exhausted(1),
           NEW raw, raw = Extracted(<<f.prompt>>)[1], NEW g, g = WithPlan(f, raw), g.plan # NoPlan
    PROVE  IsIntent(raw) /\ Meets(g.plan, Goal(i, w)) /\ (g.plan.approval => g.ctx = Site(i, w))
  <1>1. PICK r, s, q : r = w.req /\ s = stack[1] /\ q = s.queue
    OBVIOUS
  <1>2. r \in Requests /\ r = req
    BY <1>1 DEF IInv, Actual
  <1>3. Tasked(f, i, w) /\ OnRoute(s, w) /\ Lined(q, i, w) /\ Size(w) > 1 /\ IsStack(stack) /\ i \in 1..Size(w)
    <2>1. f = stack[2] /\ f.at = "start"
      BY DEF AtPlan, Top
    <2>2. QED
      BY <1>1, <2>1 DEF AtPlan, Serves, Base, TaskAt, Tasked
  <1>4. IsSeq(q)
    <2>1. \A k \in 1..Len(stack) : IsSeq(stack[k].queue)
      BY SaneStack DEF IInv
    <2>2. QED
      BY <1>1, <2>1
  <1>5. raw = q[1]
    <2>1. PICK n, p : n = 2 /\ p = f.prompt
      OBVIOUS
    <2>2. n = Len(stack) /\ n \in Nat /\ n > 1 /\ q = stack[n-1].queue /\ raw = Extracted(<<p>>)[1]
      BY <1>1, <2>1
    <2>3. QED
      BY <1>3, <1>4, <2>2, FirstExtracted
  <1>6. PICK t, n : t = Intended[r][i] /\ n = Len(StepsOf(r))
    OBVIOUS
  <1>7. n = Size(w) /\ i \in 1..n /\ n > 1
    BY <1>1, <1>3, <1>6 DEF Size
  <1>8. raw = t.in
    <2>1. i \in i..n /\ i - i + 1 = 1
      BY <1>7, StepsOfIs, <1>2, <1>6
    <2>2. QED
      BY <1>1, <1>3, <1>5, <1>6, <1>7, <2>1 DEF Lined
  <1>9. PICK prompt : prompt = Words[StepsOf(r)[i]]
    OBVIOUS
  <1>10. Readied(t, prompt, r)
    BY <1>2, <1>6, <1>7, <1>9, IntendedRoute
  <1>11. PICK first, p :
            /\ IsIntent(first) /\ IsPrefs(p) /\ Keeps(p, r)
            /\ t.in = Prepared(first, prompt, p, ScopedKinds) /\ IsIntent(t.in)
            /\ t.plan = Build(t.in) /\ t.after.ctx = t.in.ctx
    BY <1>10 DEF Readied
  <1>12. PICK goal, kinds, a : goal = t.plan /\ kinds = ScopedKinds /\ a = t.in
    OBVIOUS
  <1>13. goal = Goal(i, w) /\ a.ctx = Site(i, w) /\ goal # NoPlan
    BY <1>1, <1>3, <1>6, <1>11, <1>12 DEF Goal, Site, OnRoute
  <1>14. Keeps(f, r) /\ prompt = Words[f.prompt]
    BY <1>1, <1>3, <1>9 DEF Tasked
  <1>15. Plain(prompt)
    <2>1. DOMAIN StepsOf(r) = 1..n
      BY <1>2, <1>6, StepsOfIs
    <2>2. QED
      BY <1>2, <1>6, <1>7, <1>9, <2>1 DEF Flat, Steps, Plain
  <1>16. Handed(raw, goal, a, f)
    <2>1. IsRec(f) /\ IsPrefs(f)
      BY StartIs DEF AtPlan
    <2>2. QED
      BY <1>8, <1>11, <1>12, <1>13, <1>14, <1>15, <2>1 DEF Handed, Scopes, Origin, Keeps
  <1>17. f.forceCtx => f.ctx = a.ctx
    <2>1. p.forceCtx => a.ctx = p.ctx
      <3>1. kinds \in Scopes /\ a = Prepared(first, prompt, p, kinds)
        BY <1>11, <1>12 DEF Scopes
      <3>2. QED
        BY <1>11, <3>1, FirstPrepared
    <2>2. QED
      BY <1>11, <1>14, <2>1 DEF Keeps
  <1>18. IsIntent(raw) /\ Meets(g.plan, goal) /\ (goal.approval => g.ctx = a.ctx)
    <2>1. PICK plan : plan = g.plan
      OBVIOUS
    <2>2. IsIntent(raw) /\ Meets(plan, goal) /\ (goal.approval => g.ctx = a.ctx)
      BY <1>16, <1>17, <2>1, PlansAgain
    <2>3. QED
      BY <2>1, <2>2
  <1>19. QED
    BY <1>13, <1>18 DEF Meets

LEMMA PlansChild ==
    ASSUME IInv, Flat, NEW w, w = Actual, NEW b, NEW i, NEW f, AtPlan(w, b, i, f), Len(stack) = b + 2, ~Exhausted(1),
           NEW raw, raw = Extracted(<<f.prompt>>)[1], NEW g, g = WithPlan(f, raw), g.plan # NoPlan,
           NEW h, h = stack[b+1]
    PROVE  IsIntent(raw) /\ Meets(g.plan, Goal(i, w)) /\ (g.plan.approval => g.ctx = h.contexts[Taken(h)])
  <1>1. PICK r, q : r = w.req /\ q = h.queue
    OBVIOUS
  <1>2. r \in Requests /\ r = req
    BY <1>1 DEF IInv, Actual
  <1>3. /\ Tasked(h, i, w) /\ h.type = "fan" /\ Child(f, h, i, w) /\ IsStack(stack) /\ i \in 1..Size(w) /\ b \in 0..1
        /\ f.at = "start"
    <2>1. b \in 0..1 /\ f = stack[b+2]
      BY ServesPlace DEF AtPlan, Top
    <2>2. QED
      BY <2>1 DEF AtPlan, Serves, TaskAt, Tasked
  <1>4. Fanning(h, i, w)
    BY <1>3 DEF Tasked
  <1>5. q = <<h.plan.intent>> /\ f.forceNs = h.forceNs /\ (f.forceNs => f.ns = h.ns) /\ f.forceCtx
        /\ f.ctx = h.contexts[Taken(h)] /\ f.prompt = StepsOf(r)[i]
    BY <1>1, <1>3 DEF Child, Conduct
  <1>6. PICK x, p, prompt : x = h.plan.intent /\ p = h.plan /\ prompt = Words[f.prompt]
    OBVIOUS
  <1>7. raw = x
    <2>1. PICK n, o : n = b + 2 /\ o = f.prompt
      OBVIOUS
    <2>2. IsSeq(q)
      <3>1. \A k \in 1..Len(stack) : IsSeq(stack[k].queue)
        BY SaneStack DEF IInv
      <3>2. QED
        BY <1>1, <1>3, <3>1
    <2>3. n = Len(stack) /\ n \in Nat /\ n > 1 /\ q = stack[n-1].queue /\ raw = Extracted(<<o>>)[1]
      BY <1>1, <1>3, <2>1
    <2>4. raw = q[1]
      BY <1>3, <2>2, <2>3, FirstExtracted
    <2>5. QED
      BY <1>5, <1>6, <2>4
  <1>8. p # NoPlan
    <2>1. Sane(h, w)
      BY <1>3 DEF IInv, AllSane
    <2>2. QED
      BY <1>3, <1>6, <2>1, FanIs DEF Fan, IsPlanned
  <1>9. PICK first, prefs :
            /\ IsIntent(first) /\ IsPrefs(prefs) /\ prefs.forceNs = h.forceNs /\ (prefs.forceNs => h.ns = prefs.ns)
            /\ p = Build(Prepared(first, Words[h.prompt], prefs, ScopedKinds \cup {"roast"}))
    BY <1>4, <1>6 DEF Fanning, PlannedBy
  <1>10. h.prompt = f.prompt
    BY <1>1, <1>3, <1>5 DEF Tasked
  <1>11. PICK kinds, a : kinds = ScopedKinds \cup {"roast"} /\ a = Prepared(first, prompt, prefs, kinds)
    OBVIOUS
  <1>12. Plain(prompt)
    <2>1. PICK n : n = Len(StepsOf(r))
      OBVIOUS
    <2>2. DOMAIN StepsOf(r) = 1..n /\ i \in 1..n
      BY <1>1, <1>2, <1>3, <2>1, StepsOfIs DEF Size
    <2>3. Len(r.contexts) > 1
      <3>1. AreSet(r.contexts)
        BY <1>2, RequestIs
      <3>2. QED
        BY <1>1, <1>4, <3>1 DEF Fanning, Single, AreSet, IsSeq
    <2>4. QED
      BY <1>2, <1>5, <1>6, <2>1, <2>2, <2>3 DEF Flat, Steps, Plain
  <1>13. Handed(raw, p, a, f)
    <2>1. kinds \in Scopes /\ p = Build(a) /\ Origin(raw, p, a)
      BY <1>6, <1>7, <1>9, <1>10, <1>11 DEF Scopes, Origin
    <2>2. f.forceNs = prefs.forceNs /\ (prefs.forceNs => f.ns = prefs.ns)
      BY <1>5, <1>9
    <2>3. IsRec(f) /\ IsPrefs(f)
      BY StartIs DEF AtPlan
    <2>4. QED
      BY <1>6, <1>8, <1>9, <1>11, <1>12, <2>1, <2>2, <2>3 DEF Handed
  <1>14. IsIntent(raw) /\ Meets(g.plan, p) /\ (p.approval => g.ctx = f.ctx)
    <2>1. PICK plan : plan = g.plan
      OBVIOUS
    <2>2. IsIntent(raw) /\ Meets(plan, p) /\ (p.approval => g.ctx = f.ctx)
      BY <1>5, <1>13, <2>1, PlansAgain
    <2>3. QED
      BY <2>1, <2>2
  <1>15. Meets(p, Goal(i, w))
    BY <1>4, <1>6 DEF Fanning
  <1>16. QED
    BY <1>5, <1>14, <1>15, MeetsOn DEF Meets

LEMMA PlansRight ==
    ASSUME IInv, Flat, NEW w, w = Actual, NEW b, NEW i, NEW f, AtPlan(w, b, i, f), ~Exhausted(1),
           NEW raw, raw = Extracted(<<f.prompt>>)[1], NEW g, g = WithPlan(f, raw), g.plan # NoPlan
    PROVE  IsIntent(raw) /\ Meets(g.plan, Goal(i, w)) /\ (g.plan.approval => g.ctx = Where(stack, b, i, w))
  <1>1. b \in 0..1 /\ Len(stack) \in {b + 1, b + 2}
    BY ServesPlace DEF AtPlan
  <1>2. CASE Len(stack) = b + 1 /\ b = 0
    <2>1. Len(stack) = 1
      BY <1>2
    <2>2. i = 1 /\ g.plan = Goal(i, w) /\ g.ctx = Site(i, w)
      BY <2>1, PlansAlone
    <2>3. IsIntent(raw)
      <3>1. PICK p : p = f.prompt
        OBVIOUS
      <3>2. AllSane(stack, w) /\ stack # <<>> /\ p \in Prompts
        BY <3>1, StartIs DEF IInv, AtPlan
      <3>3. raw = Extracted(<<p>>)[1]
        BY <3>1
      <3>4. QED
        BY <3>2, <3>3, OneExtracted
    <2>4. QED
      BY <1>2, <2>2, <2>3 DEF Where, Meets
  <1>3. CASE Len(stack) = b + 1 /\ b = 1
    <2>1. b = 1 /\ Len(stack) = 2
      BY <1>3
    <2>2. QED
      BY <1>3, <2>1, PlansStep DEF Where
  <1>4. CASE Len(stack) = b + 2
    <2>1. PICK h : h = stack[b+1]
      OBVIOUS
    <2>2. IsIntent(raw) /\ Meets(g.plan, Goal(i, w)) /\ (g.plan.approval => g.ctx = h.contexts[Taken(h)])
      BY <1>4, <2>1, PlansChild
    <2>3. Where(stack, b, i, w) = h.contexts[Taken(h)]
      BY <1>1, <1>4, <2>1 DEF Where
    <2>4. QED
      BY <2>2, <2>3
  <1>5. QED
    BY <1>1, <1>2, <1>3, <1>4

LEMMA LinedOn ==
    ASSUME NEW q, IsSeq(q), NEW w, NEW i \in Nat, i <= Size(w), Size(w) \in Nat, Lined(q, i, w),
           NEW r, r = SubSeq(q, 1 + 1, Len(q))
    PROVE  Lined(r, i + 1, w)
  <1>1. Len(q) \in Nat /\ 1 <= Len(q)
    BY DEF IsSeq, Lined
  <1>2. Len(r) = Len(q) - 1 /\ \A k \in 1..(Len(q)-1) : r[k] = q[k+1]
    <2>1. PICK k \in Nat : k = 1
      OBVIOUS
    <2>2. k <= Len(q) /\ r = SubSeq(q, k + 1, Len(q))
      BY <1>1, <2>1
    <2>3. Len(r) = Len(q) - k /\ \A m \in 1..(Len(q)-k) : r[m] = q[m+k]
      BY <2>2, RestIs
    <2>4. QED
      BY <2>1, <2>3
  <1>3. ASSUME NEW j \in (i+1)..Size(w)
        PROVE  j - (i+1) + 1 <= Len(r) /\ r[j - (i+1) + 1] = Intended[w.req][j].in
    <2>1. j \in i..Size(w) /\ j - i + 1 <= Len(q) /\ q[j - i + 1] = Intended[w.req][j].in
      BY DEF Lined
    <2>2. PICK m : m = j - (i+1) + 1
      OBVIOUS
    <2>3. m \in 1..(Len(q)-1) /\ m + 1 = j - i + 1 /\ m <= Len(q) - 1
      BY <1>1, <2>1, <2>2
    <2>4. QED
      BY <1>2, <2>1, <2>2, <2>3
  <1>4. QED
    BY <1>3 DEF Lined

\* A call that hands out an intent goes on waiting.
LEMMA DrawnIs ==
    ASSUME NEW g, IsRec(g), NEW p, p = Drawn(g, 1)
    PROVE  /\ Alike(g, p) /\ p.seen = g.seen /\ p.back = g.back /\ p.queue = SubSeq(g.queue, 1 + 1, Len(g.queue))
           /\ IsRec(p)
  BY DEF Drawn, Alike, IsRec, Fields

LEMMA AppendForm ==
    ASSUME IsStack(stack), stack # <<>>, NEW n, n = Len(stack), NEW h, stack' = Append(Consumed(1), h)
    PROVE  /\ n \in Nat /\ n > 0 /\ IsSeq(stack') /\ Len(stack') = n /\ stack'[n] = h /\ stack' # <<>>
           /\ n > 1 => stack'[n-1] = Drawn(stack[n-1], 1)
           /\ \A i \in 1..(n - 2) : stack'[i] = stack[i]
  <1>1. PICK c, t : c = Consumed(1) /\ t = stack'
    OBVIOUS
  <1>2. /\ IsSeq(c) /\ Len(c) = n - 1 /\ (n > 1 => c[n-1] = Drawn(stack[n-1], 1))
        /\ \A i \in 1..(n - 2) : c[i] = stack[i]
    BY <1>1, ConsumedForm
  <1>3. IsLonger(t, c, h)
    BY <1>1 DEF IsLonger
  <1>4. Len(t) = Len(c) + 1 /\ IsSeq(t) /\ t[Len(c)+1] = h /\ \A i \in 1..Len(c) : t[i] = c[i]
    BY <1>2, <1>3, AppendIs
  <1>5. n \in Nat /\ n > 0
    BY BelowForm
  <1>6. n > 1 => n - 1 \in 1..(n - 1)
    BY <1>5
  <1>7. t # <<>>
    BY <1>2, <1>4, <1>5, EmptyIs
  <1>8. QED
    BY <1>1, <1>2, <1>4, <1>5, <1>6, <1>7

\* The step of a request begins to work: it has its plan.
LEMMA TaskStarts ==
    ASSUME IsStack(stack), stack # <<>>, \A k \in 1..Len(stack) : IsSeq(stack[k].queue),
           NEW w, NEW v, Onward(w, v), Size(w) \in Nat, NEW b, NEW i, Serves(stack, b, i, w),
           Len(stack) = b + 1, Top.at = "start",
           NEW h, stack' = Append(Consumed(1), h), outcome' = outcome, Tasked(h, i, v), h.at # "start"
    PROVE  Lands(v)
  <1>1. PICK s, t, n : s = stack /\ t = stack' /\ n = Len(stack)
    OBVIOUS
  <1>2. /\ n \in Nat /\ n > 0 /\ IsSeq(t) /\ Len(t) = n /\ t[n] = h /\ t # <<>>
        /\ n > 1 => t[n-1] = Drawn(s[n-1], 1)
    BY <1>1, AppendForm
  <1>3. b \in 0..1 /\ i \in 1..Size(w) /\ n = b + 1
    BY <1>1, ServesPlace
  <1>4. TaskAt(t, b, i, v)
    BY <1>2, <1>3 DEF TaskAt
  <1>5. CASE b = 0
    <2>1. Base(t, b, i, v)
      BY <1>2, <1>3, <1>5, DidOn DEF Serves, Base
    <2>2. QED
      BY <1>1, <1>2, <1>4, <2>1, ServesShape DEF Serves, Lands
  <1>6. CASE b = 1
    <2>1. PICK g, p : g = s[1] /\ p = Drawn(g, 1)
      OBVIOUS
    <2>2. IsRec(g) /\ t[1] = p /\ t[2] = h /\ s[2].at = "start" /\ IsSeq(g.queue)
      BY <1>1, <1>2, <1>3, <1>6, <2>1 DEF IsStack, Top
    <2>3. OnRoute(g, w) /\ Waits(g) /\ i = g.next /\ Size(w) > 1 /\ Lined(g.queue, i, w)
      BY <1>1, <1>6, <2>1, <2>2 DEF Serves, Base
    <2>4. Alike(g, p) /\ p.seen = g.seen /\ p.queue = SubSeq(g.queue, 1 + 1, Len(g.queue)) /\ IsRec(p)
      BY <2>1, <2>2, DrawnIs
    <2>5. p.at = g.at /\ p.next = g.next
      BY <2>4 DEF Alike, Fields
    <2>6. Waits(p) /\ OnRoute(p, v)
      <3>1. g.at = "back" /\ ~Ended(p)
        BY <2>3, <2>4 DEF Ended, Waits
      <3>2. QED
        BY <2>3, <2>4, <2>5, <3>1, RouteHears DEF Waits
    <2>7. Lined(p.queue, i + 1, v)
      <3>1. PICK q, r : q = g.queue /\ r = p.queue
        OBVIOUS
      <3>2. IsSeq(q) /\ Lined(q, i, w) /\ r = SubSeq(q, 1 + 1, Len(q)) /\ i \in Nat /\ i <= Size(w)
        BY <1>3, <2>2, <2>3, <2>4, <3>1
      <3>3. Lined(r, i + 1, w)
        BY <3>2, LinedOn
      <3>4. QED
        BY <3>1, <3>3, DidOn
    <2>8. Base(t, b, i, v)
      BY <1>6, <2>2, <2>3, <2>5, <2>6, <2>7, DidOn DEF Base
    <2>9. QED
      BY <1>1, <1>2, <1>4, <2>8, ServesShape DEF Serves, Lands
  <1>7. QED
    BY <1>3, <1>5, <1>6

\* A context of a fan-out begins to work.
LEMMA ChildStarts ==
    ASSUME IsStack(stack), stack # <<>>, NEW w, NEW v, Onward(w, v), NEW b, NEW i, Serves(stack, b, i, w),
           Len(stack) = b + 2, NEW h, stack' = Append(Consumed(1), h), outcome' = outcome,
           h.child, h.at # "start", Conduct(h, i, Where(stack, b, i, w), v)
    PROVE  Lands(v)
  <1>1. PICK s, t, n, g, p : s = stack /\ t = stack' /\ n = Len(stack) /\ g = stack[b+1] /\ p = Drawn(g, 1)
    OBVIOUS
  <1>2. /\ n \in Nat /\ n > 0 /\ IsSeq(t) /\ Len(t) = n /\ t[n] = h /\ t # <<>>
        /\ n > 1 => t[n-1] = Drawn(s[n-1], 1)
        /\ \A k \in 1..(n - 2) : t[k] = s[k]
    BY <1>1, AppendForm
  <1>3. b \in 0..1 /\ i \in 1..Size(w) /\ n = b + 2
    BY <1>1, ServesPlace
  <1>4. Tasked(g, i, w) /\ g.type = "fan" /\ Waits(g) /\ IsRec(g) /\ t[b+1] = p /\ t[b+2] = h
    BY <1>1, <1>2, <1>3 DEF Serves, TaskAt, IsStack
  <1>5. Alike(g, p) /\ p.seen = g.seen /\ IsRec(p)
    BY <1>1, <1>4, DrawnIs
  <1>6. p.at = g.at /\ p.type = g.type /\ p.contexts = g.contexts /\ p.todo = g.todo
    BY <1>5 DEF Alike, Fields
  <1>7. Tasked(p, i, v) /\ Waits(p)
    <2>1. g.at = "back" /\ ~Ended(p)
      BY <1>4, <1>5 DEF Ended, Waits
    <2>2. QED
      BY <1>4, <1>5, <1>6, <2>1, TaskHears DEF Waits
  <1>8. Child(h, p, i, v)
    <2>1. Taken(p) = Taken(g)
      BY <1>6 DEF Taken
    <2>2. Len(stack) # b + 1
      BY <1>1, <1>3
    <2>3. Where(stack, b, i, w) = g.contexts[Taken(g)]
      BY <1>1, <2>2 DEF Where
    <2>4. QED
      BY <1>6, <2>1, <2>3 DEF Child
  <1>9. TaskAt(t, b, i, v)
    BY <1>2, <1>3, <1>4, <1>6, <1>7, <1>8 DEF TaskAt
  <1>10. Base(t, b, i, v)
    <2>1. CASE b = 0
      BY <1>1, <1>4, <1>7, <2>1, DidOn DEF Serves, Base, Waits
    <2>2. CASE b = 1
      <3>1. t[1] = s[1] /\ IsRec(s[1]) /\ t[2] = p /\ s[2] = g
        BY <1>1, <1>2, <1>3, <1>4, <2>2 DEF IsStack
      <3>2. OnRoute(s[1], w) /\ Waits(s[1]) /\ i = s[1].next /\ Size(w) > 1 /\ Lined(s[1].queue, i + 1, w)
        BY <1>1, <1>4, <2>2, <3>1 DEF Serves, Base, Waits
      <3>3. OnRoute(s[1], v)
        BY <3>1, <3>2, WaitsOn
      <3>4. QED
        BY <1>7, <2>2, <3>1, <3>2, <3>3, DidOn DEF Base, Waits
    <2>3. QED
      BY <1>3, <2>1, <2>2
  <1>11. QED
    BY <1>1, <1>2, <1>9, <1>10, ServesShape DEF Serves, Lands

-------------------------------------------------------------------------------

(***************************************************************************)
(* The calls that plan: they end, or begin to work.                        *)
(***************************************************************************)
AtOutset(w, f) ==
    IsStack(stack) /\ Len(stack) = 1 /\ stack # <<>> /\ Size(w) > 1 /\ f = FrameOf(w.req) /\ f = Top

LEMMA AtStartIs ==
    ASSUME IInv, Shape(stack, Actual), Running("run", "start"), NEW w, w = Actual, NEW f, f = Top
    PROVE  AtOutset(w, f) \/ \E b, i : AtPlan(w, b, i, f)
  <1>1. PICK n : n = Len(stack)
    OBVIOUS
  <1>2. /\ n \in Nat /\ n > 0 /\ Sane(f, w) /\ f.type = "run" /\ f.at = "start"
        /\ IsStack(stack) /\ stack # <<>>
    BY <1>1, TopSane DEF IInv
  <1>3. f = stack[n]
    BY <1>1 DEF Top
  <1>4. Apart(stack, w) \/ \E b, i : Serves(stack, b, i, w)
    BY ServesShape
  <1>5. CASE Apart(stack, w)
    <2>1. Size(w) > 1 /\ n = 1 /\ stack[1] = FrameOf(w.req)
      BY <1>1, <1>2, <1>3, <1>5 DEF Apart, OnRoute
    <2>2. QED
      BY <1>1, <1>2, <1>3, <2>1 DEF AtOutset
  <1>6. CASE \E b, i : Serves(stack, b, i, w)
    BY <1>2, <1>6 DEF AtPlan
  <1>7. QED
    BY <1>4, <1>5, <1>6

\* What is left of the calls below the innermost one.
Leaves(left) ==
    /\ IsSeq(left) /\ Len(left) = Len(stack) - 1
    /\ Len(stack) > 1 => Alike(Caller, left[Len(stack) - 1])
    /\ \A k \in 1..(Len(stack) - 2) : left[k] = stack[k]

LEMMA BelowLeaves ==
    ASSUME IsStack(stack), stack # <<>>
    PROVE  Leaves(Below)
  <1>1. PICK n, b : n = Len(stack) /\ b = Below
    OBVIOUS
  <1>2. n \in Nat /\ n > 0 /\ IsSeq(b) /\ Len(b) = n - 1 /\ \A i \in 1..(n - 1) : b[i] = stack[i]
    BY <1>1, BelowForm
  <1>3. n > 1 => Alike(Caller, b[n-1])
    <2>1. SUFFICES ASSUME n > 1 PROVE Alike(Caller, b[n-1])
      OBVIOUS
    <2>2. Caller = stack[n-1] /\ b[n-1] = stack[n-1] /\ IsRec(stack[n-1])
      BY <1>1, <1>2, <2>1 DEF Caller, IsStack
    <2>3. QED
      BY <2>2, AlikeSelf
  <1>4. QED
    BY <1>1, <1>2, <1>3 DEF Leaves

LEMMA ConsumedLeaves ==
    ASSUME IsStack(stack), stack # <<>>
    PROVE  Leaves(Consumed(1))
  <1>1. PICK n, c, k : n = Len(stack) /\ c = Consumed(k) /\ k = 1
    OBVIOUS
  <1>2. /\ IsSeq(c) /\ Len(c) = n - 1 /\ (n > 1 => c[n-1] = Drawn(stack[n-1], k))
        /\ \A i \in 1..(n - 2) : c[i] = stack[i]
    BY <1>1, ConsumedForm
  <1>3. n \in Nat /\ n > 0
    BY <1>1, BelowForm
  <1>4. n > 1 => Alike(Caller, c[n-1])
    <2>1. SUFFICES ASSUME n > 1 PROVE Alike(Caller, c[n-1])
      OBVIOUS
    <2>2. PICK g, p : g = stack[n-1] /\ p = Drawn(g, 1)
      OBVIOUS
    <2>3. IsRec(g)
      BY <1>1, <1>3, <2>1, <2>2 DEF IsStack
    <2>4. Alike(g, p)
      BY <2>2, <2>3, DrawnIs
    <2>5. QED
      BY <1>1, <1>2, <2>1, <2>2, <2>4 DEF Caller
  <1>5. QED
    BY <1>1, <1>2, <1>4 DEF Leaves

\* What a call that ends leaves to the one that made it.
LEMMA LeavesReturn ==
    ASSUME IsStack(stack), stack # <<>>, NEW left, Leaves(left), NEW doc, NEW how, NEW applied,
           Return(Observed(left, doc), how, applied)
    PROVE  \E p : /\ Len(stack) = 1 => Closes(how, applied)
                  /\ Nested => Back(p)
                  /\ Len(stack) > 1 => Alike(Caller, p) /\ p.seen = doc /\ p.back = how
                                       /\ p.queue = left[Len(stack) - 1].queue
  <1>1. PICK n, g, p : n = Len(stack) /\ g = left[n-1] /\ p = [g EXCEPT !.seen = doc, !.back = how]
    OBVIOUS
  <1>2. n > 1 => Alike(Caller, g)
    BY <1>1 DEF Leaves
  <1>3. n > 1 => g.type = Caller.type
    BY <1>2 DEF Alike, Fields
  <1>4. /\ IsSeq(left) /\ Len(left) = Len(stack) - 1 /\ (Len(stack) > 1 => left[Len(stack) - 1] = g)
        /\ \A i \in 1..(Len(stack) - 2) : left[i] = stack[i]
        /\ (Len(stack) > 1 => g.type = Caller.type)
    BY <1>1, <1>3 DEF Leaves
  <1>5. (Len(stack) = 1 => Closes(how, applied)) /\ (Nested => Back(p))
    BY <1>1, <1>4, ObservedReturns
  <1>6. n > 1 => Alike(Caller, p) /\ p.seen = doc /\ p.back = how /\ p.queue = g.queue
    <2>1. SUFFICES ASSUME n > 1
                   PROVE  Alike(Caller, p) /\ p.seen = doc /\ p.back = how /\ p.queue = g.queue
      OBVIOUS
    <2>2. PICK c : c = Caller
      OBVIOUS
    <2>3. Alike(c, g) /\ p = [g EXCEPT !.seen = doc, !.back = how]
      BY <1>1, <1>2, <2>1, <2>2
    <2>4. Alike(c, p) /\ p.seen = doc /\ p.back = how /\ p.queue = g.queue
      BY <2>3 DEF Alike, IsRec, Fields
    <2>5. QED
      BY <2>2, <2>4
  <1>7. QED
    BY <1>1, <1>5, <1>6

\* A call that plans ends without having applied anything, or in an error.
LEMMA DocEnds ==
    ASSUME IsStack(stack), stack # <<>>, NEW w, NEW v, Onward(w, v), NEW b, NEW i, Serves(stack, b, i, w),
           NEW left, Leaves(left), NEW doc, ~doc.applied, Return(Observed(left, doc), "ok", FALSE)
    PROVE  Lands(v)
  <1>1. PICK how, applied : how = "ok" /\ applied = FALSE
    OBVIOUS
  <1> Return(Observed(left, doc), how, applied)
    BY <1>1
  <1>2. PICK p : /\ Len(stack) = 1 => Closes(how, applied)
                 /\ Nested => Back(p)
                 /\ Len(stack) > 1 => Alike(Caller, p) /\ p.seen = doc /\ p.back = how
                                      /\ p.queue = left[Len(stack) - 1].queue
    BY LeavesReturn
  <1>3. Len(stack) > 1 => ~Ended(p)
    BY <1>1, <1>2 DEF Ended
  <1>4. Len(stack) = b + 2 => Len(stack) > 1
    BY ServesPlace
  <1>5. /\ Len(stack) = 1 => Closes(how, applied)
        /\ Nested => Back(p)
        /\ Len(stack) > 1 => Alike(Caller, p)
        /\ Len(stack) = 1 /\ how = "ok" /\ applied => Whole(1, v)
        /\ Len(stack) > 1 /\ Len(stack) = b + 1 /\ Ended(p) => Heard(p, v)
        /\ Len(stack) = b + 2 /\ Ended(p) => Through(i, Where(stack, b, i, w), v)
    BY <1>1, <1>2, <1>3, <1>4
  <1>6. QED
    BY <1>5, CallEnds

LEMMA FailEnds ==
    ASSUME IsStack(stack), stack # <<>>, NEW w, NEW v, Onward(w, v), NEW b, NEW i, Serves(stack, b, i, w), Fail
    PROVE  Lands(v)
  <1>1. PICK how, applied : how = "error" /\ applied = FALSE
    OBVIOUS
  <1>2. PICK p : p = [Caller EXCEPT !.back = how]
    OBVIOUS
  <1>3. (Len(stack) = 1 => Closes(how, applied)) /\ (Nested => Back(p))
    BY <1>1, <1>2, BelowReturns DEF Fail
  <1>4. Len(stack) > 1 => Alike(Caller, p) /\ ~Ended(p)
    <2>1. SUFFICES ASSUME Len(stack) > 1 PROVE Alike(Caller, p) /\ ~Ended(p)
      OBVIOUS
    <2>2. PICK n, c : n = Len(stack) /\ c = Caller
      OBVIOUS
    <2>3. n \in Nat
      BY <2>2, BelowForm
    <2>4. IsRec(c)
      BY <2>1, <2>2, <2>3 DEF Caller, IsStack
    <2>5. p.back = how /\ Alike(c, p)
      BY <1>2, <2>2, <2>4 DEF Alike, IsRec, Fields
    <2>6. QED
      BY <1>1, <2>2, <2>5 DEF Ended
  <1>5. Len(stack) = b + 2 => Len(stack) > 1
    BY ServesPlace
  <1>6. /\ Len(stack) > 1 => Alike(Caller, p)
        /\ Len(stack) = 1 /\ how = "ok" /\ applied => Whole(1, v)
        /\ Len(stack) > 1 /\ Len(stack) = b + 1 /\ Ended(p) => Heard(p, v)
        /\ Len(stack) = b + 2 /\ Ended(p) => Through(i, Where(stack, b, i, w), v)
    BY <1>1, <1>4, <1>5
  <1>7. QED
    BY <1>3, <1>6, CallEnds

\* The outermost call ends the invocation.
LEMMA OutsetEnds ==
    ASSUME IsStack(stack), stack # <<>>, Len(stack) = 1, NEW how, NEW left, NEW doc, Leaves(left),
           Return(left, how, FALSE) \/ Return(Observed(left, doc), how, FALSE), NEW v
    PROVE  Lands(v)
  <1>1. left = <<>>
    BY EmptyIs DEF Leaves
  <1>2. Len(left) = 0 /\ IsSeq(left)
    BY DEF Leaves
  <1>3. PICK applied : applied = FALSE
    OBVIOUS
  <1>4. Closes(how, applied)
    <2>1. CASE Return(left, how, FALSE)
      BY <1>2, <1>3, <2>1, ReturnForm
    <2>2. CASE Return(Observed(left, doc), how, FALSE)
      BY <1>3, <2>2, LeavesReturn
    <2>3. QED
      BY <2>1, <2>2
  <1>5. QED
    BY <1>3, <1>4 DEF Closes, Lands

LEMMA CheckPromptLands ==
    ASSUME IInv, Shape(stack, Actual), CheckPrompt, NEW v, v = Actual', Onward(Actual, v)
    PROVE  Lands(v) /\ DoneWell(Actual)
  <1>1. PICK w, f : w = Actual /\ f = Top
    OBVIOUS
  <1>2. PICK doc : doc = Doc(NoPlan, Unset, TRUE, FALSE)
    OBVIOUS
  <1>3. ~doc.applied
    BY <1>2 DEF Doc
  <1>4. Running("run", "start") /\ Return(Observed(Below, doc), "ok", FALSE) /\ done' = done
    BY <1>2 DEF CheckPrompt, Quiet, Report, Doc
  <1>5. IsStack(stack) /\ stack # <<>>
    BY <1>4, SaneStack DEF IInv, Running
  <1>6. PICK left : left = Below /\ Leaves(left)
    BY <1>5, BelowLeaves
  <1>7. Return(Observed(left, doc), "ok", FALSE)
    BY <1>4, <1>6
  <1>8. CASE AtOutset(w, f)
    BY <1>4, <1>6, <1>7, <1>8, OutsetEnds DEF AtOutset, DoneWell
  <1>9. CASE \E b, i : AtPlan(w, b, i, f)
    BY <1>1, <1>3, <1>4, <1>6, <1>7, <1>9, DocEnds DEF AtPlan, DoneWell
  <1>10. QED
    BY <1>1, <1>4, <1>8, <1>9, AtStartIs

LEMMA PlanFailsLands ==
    ASSUME IInv, Shape(stack, Actual), PlanFails \/ (LocalPrompt /\ Fail), NEW v, v = Actual', Onward(Actual, v)
    PROVE  Lands(v) /\ DoneWell(Actual)
  <1>1. PICK w, f : w = Actual /\ f = Top
    OBVIOUS
  <1>2. Running("run", "start") /\ Fail /\ done' = done
    BY DEF PlanFails, LocalPrompt, Quiet
  <1>3. IsStack(stack) /\ stack # <<>>
    BY <1>2, SaneStack DEF IInv, Running
  <1>4. PICK left : left = Below /\ Leaves(left)
    BY <1>3, BelowLeaves
  <1>5. Return(left, "error", FALSE)
    BY <1>2, <1>4 DEF Fail
  <1>6. CASE AtOutset(w, f)
    BY <1>2, <1>4, <1>5, <1>6, OutsetEnds DEF AtOutset, DoneWell
  <1>7. CASE \E b, i : AtPlan(w, b, i, f)
    BY <1>1, <1>2, <1>7, FailEnds DEF AtPlan, DoneWell
  <1>8. QED
    BY <1>1, <1>2, <1>6, <1>7, AtStartIs

\* What is known of the call at the start of its work, as a step or in a context.
LEMMA PlanningIs ==
    ASSUME NEW w, NEW b, NEW i, NEW f, AtPlan(w, b, i, f)
    PROVE  /\ b \in 0..1 /\ i \in 1..Size(w) /\ f.prompt = StepsOf(w.req)[i]
           /\ Len(stack) = b + 1 => Tasked(f, i, w)
           /\ Len(stack) = b + 2 => Child(f, stack[b+1], i, w) /\ f.child
           /\ Len(stack) \in {b + 1, b + 2}
  <1>1. b \in 0..1 /\ Len(stack) \in {b + 1, b + 2} /\ i \in 1..Size(w)
    BY ServesPlace DEF AtPlan
  <1>2. f = stack[Len(stack)] /\ TaskAt(stack, b, i, w) /\ f.type = "run"
    BY DEF AtPlan, Serves, Top
  <1>3. Len(stack) = b + 1 => Tasked(f, i, w)
    BY <1>2 DEF TaskAt
  <1>4. Len(stack) = b + 2 => Child(f, stack[b+1], i, w)
    BY <1>1, <1>2 DEF TaskAt
  <1>5. QED
    BY <1>1, <1>3, <1>4 DEF Tasked, Child, Conduct

\* A step that is handled locally is the last one, and mutates nothing.
LEMMA LocalHeard ==
    ASSUME IInv, InStep, NEW w, w = Actual, NEW v, Onward(w, v), NEW b, NEW i, NEW f, AtPlan(w, b, i, f),
           Gate[f.prompt] = "local", b = 1, Len(stack) = b + 1,
           NEW p, Alike(Caller, p), p.seen.ns = Unset, p.seen.ctx = f.ctx
    PROVE  Heard(p, v)
  <1>1. PICK g, r : g = stack[1] /\ r = w.req
    OBVIOUS
  <1>2. r = req /\ r \in Requests
    BY <1>1 DEF IInv, Actual
  <1>3. Size(w) \in Nat /\ DOMAIN Steps = 1..Size(w) /\ Len(Steps) = Size(w) /\ Steps = StepsOf(r)
    BY <1>1, <1>2, StepsOfIs DEF Size, Steps
  <1>4. i \in 1..Size(w) /\ f.prompt = Steps[i] /\ Tasked(f, i, w)
    BY <1>1, <1>3, PlanningIs
  <1>5. i = Size(w)
    BY <1>3, <1>4 DEF InStep
  <1>6. OnRoute(g, w) /\ i = g.next /\ Size(w) > 1 /\ IsRec(g) /\ Caller = g
    BY <1>1 DEF AtPlan, Serves, Base, Caller, IsStack
  <1>7. Single(w) /\ Keeps(g, r) /\ Keeps(f, r)
    BY <1>1, <1>4, <1>5, <1>6 DEF OnRoute, Tasked
  <1>8. p.next = i /\ IsRec(p) /\ Keeps(p, r)
    BY <1>6, <1>7 DEF Alike, Fields, Keeps
  <1>9. Whole(i, v)
    <2>1. ~Due(i, w)
      BY <1>1, <1>3, <1>4 DEF Due
    <2>2. Whole(i, w)
      BY <2>1 DEF Whole, Through
    <2>3. QED
      BY <2>2, DidOn
  <1>10. Lined(p.queue, i + 1, v)
    <2>1. Lined(p.queue, i + 1, w)
      BY <1>3, <1>5 DEF Lined
    <2>2. QED
      BY <2>1, DidOn
  <1>11. Keeps(Carried(p, p.seen.ns, p.seen.ctx), r)
    <2>1. PICK ns, ctx : ns = p.seen.ns /\ ctx = p.seen.ctx
      OBVIOUS
    <2>2. (r.forceNs => ns \in {Unset, r.ns}) /\ (r.forceCtx => ctx \in {Unset, r.ctx})
      BY <1>7, <2>1 DEF Keeps
    <2>3. Keeps(Carried(p, ns, ctx), r)
      BY <1>8, <2>2, CarriedKeeps
    <2>4. QED
      BY <2>1, <2>3
  <1>12. Single(v) /\ v.req = r
    BY <1>1, <1>7, DidOn
  <1>13. QED
    BY <1>8, <1>9, <1>10, <1>11, <1>12 DEF Heard

LEMMA LocalPromptLands ==
    ASSUME IInv, Flat, InStep, Shape(stack, Actual), LocalPrompt, NEW v, v = Actual', Onward(Actual, v)
    PROVE  Lands(v) /\ DoneWell(Actual)
  <1>1. PICK w, f : w = Actual /\ f = Top
    OBVIOUS
  <1>2. Running("run", "start") /\ Gate[f.prompt] = "local" /\ done' = done
    BY <1>1 DEF LocalPrompt, Quiet
  <1>3. IsStack(stack) /\ stack # <<>>
    BY <1>2, SaneStack DEF IInv, Running
  <1>4. CASE AtOutset(w, f)
    <2>1. w.req = req /\ f.prompt = req.prompt
      BY <1>1, <1>4, FrameIs DEF AtOutset, Actual
    <2>2. Len(Steps) > 1
      BY <1>4, <2>1 DEF AtOutset, Size, Steps
    <2>3. Steps # <<req.prompt>>
      <3>1. PICK s, x : s = <<x>> /\ x = req.prompt
        OBVIOUS
      <3>2. Len(s) = 1
        BY <3>1
      <3>3. ~(Len(s) > 1)
        BY <3>2
      <3>4. QED
        BY <2>2, <3>1, <3>3
    <2>4. Gate[req.prompt] # "local"
      BY <2>3 DEF Flat
    <2>5. QED
      BY <1>2, <2>1, <2>4
  <1>5. CASE Fail
    BY <1>5, PlanFailsLands
  <1>6. ASSUME NEW denied \in BOOLEAN, Report(Doc(NoPlan, f.ctx, denied, ~denied)),
               NEW b, NEW i, AtPlan(w, b, i, f)
        PROVE  Lands(v)
    <2>1. PICK doc, applied, how : doc = Doc(NoPlan, f.ctx, denied, ~denied) /\ applied = ~denied /\ how = "ok"
      OBVIOUS
    <2>2. doc.applied = applied /\ doc.ns = Unset /\ doc.ctx = f.ctx
      BY <2>1 DEF Doc
    <2>3. PICK left : left = Below /\ Leaves(left)
      BY <1>3, BelowLeaves
    <2>4. Return(Observed(left, doc), how, applied)
      BY <1>6, <2>1, <2>2, <2>3 DEF Report
    <2>5. PICK p : /\ Len(stack) = 1 => Closes(how, applied)
                   /\ Nested => Back(p)
                   /\ Len(stack) > 1 => Alike(Caller, p) /\ p.seen = doc /\ p.back = how
                                        /\ p.queue = left[Len(stack) - 1].queue
      BY <1>3, <2>3, <2>4, LeavesReturn
    <2>6. b \in 0..1 /\ i \in 1..Size(w) /\ f.prompt = StepsOf(w.req)[i]
      BY <1>6, PlanningIs
    <2>7. ~Due(i, w)
      BY <1>2, <2>6 DEF Due
    <2>8. \A ctx : Through(i, ctx, v)
      BY <1>1, <2>7, DidOn DEF Through
    <2>9. Whole(i, v)
      BY <2>8 DEF Whole
    <2>10. Len(stack) = 1 => Whole(1, v)
      BY <1>6, <2>6, <2>9, PlanningIs DEF AtPlan, Serves, Base
    <2>11. Len(stack) > 1 /\ Len(stack) = b + 1 => Heard(p, v)
      <3>1. SUFFICES ASSUME Len(stack) > 1, Len(stack) = b + 1 PROVE Heard(p, v)
        OBVIOUS
      <3>2. b = 1 /\ Alike(Caller, p) /\ p.seen.ns = Unset /\ p.seen.ctx = f.ctx
        BY <2>2, <2>5, <2>6, <3>1
      <3>3. QED
        BY <1>1, <1>2, <1>6, <3>1, <3>2, LocalHeard
    <2>12. /\ Len(stack) = 1 => Closes(how, applied)
           /\ Nested => Back(p)
           /\ Len(stack) > 1 => Alike(Caller, p)
           /\ Len(stack) = 1 /\ how = "ok" /\ applied => Whole(1, v)
           /\ Len(stack) > 1 /\ Len(stack) = b + 1 /\ Ended(p) => Heard(p, v)
           /\ Len(stack) = b + 2 /\ Ended(p) => Through(i, Where(stack, b, i, w), v)
      BY <2>5, <2>8, <2>10, <2>11
    <2>13. IsStack(stack) /\ stack # <<>> /\ Onward(w, v) /\ Serves(stack, b, i, w)
      BY <1>1, <1>3, <1>6 DEF AtPlan
    <2>14. QED
      BY <2>12, <2>13, CallEnds
  <1>7. Fail \/ \E denied \in BOOLEAN : Report(Doc(NoPlan, f.ctx, denied, ~denied))
    BY <1>1 DEF LocalPrompt
  <1>8. QED
    BY <1>1, <1>2, <1>4, <1>5, <1>6, <1>7, AtStartIs DEF DoneWell

\* The plan of a call, made of the intent for it.
Plans(w, b, i, f, g) ==
    /\ AtPlan(w, b, i, f) /\ w = Actual /\ Gate[f.prompt] = "model" /\ ~Exhausted(1)
    /\ g = WithPlan(f, Extracted(<<f.prompt>>)[1]) /\ g.plan # NoPlan

LEMMA PlansWell ==
    ASSUME IInv, Flat, NEW w, NEW b, NEW i, NEW f, NEW g, Plans(w, b, i, f, g)
    PROVE  /\ Meets(g.plan, Goal(i, w)) /\ (g.plan.approval => g.ctx = Where(stack, b, i, w))
           /\ IsRec(g) /\ \A x \in Fields \ {"ns", "ctx", "plan"} : g[x] = f[x]
           /\ f.forceNs => g.ns = f.ns /\ planNamespace(g.plan) \in {Unset, f.ns}
           /\ f.forceCtx => g.ctx = f.ctx
  <1>1. PICK raw : raw = Extracted(<<f.prompt>>)[1] /\ g = WithPlan(f, raw)
    BY DEF Plans
  <1>2. IsIntent(raw) /\ Meets(g.plan, Goal(i, w)) /\ (g.plan.approval => g.ctx = Where(stack, b, i, w))
    BY <1>1, PlansRight DEF Plans
  <1>3. IsRec(f) /\ IsPrefs(f)
    BY StartIs DEF Plans, AtPlan
  <1>4. IsRec(g) /\ \A x \in Fields \ {"ns", "ctx", "plan"} : g[x] = f[x]
    <2>1. \E in : PlanOf(g, f, in)
      BY <1>1, <1>2, <1>3, PlanOfIs
    <2>2. QED
      BY <2>1 DEF PlanOf
  <1>5. /\ f.forceNs => g.ns = f.ns /\ planNamespace(g.plan) \in {Unset, f.ns}
        /\ f.forceCtx => g.ctx = f.ctx
    BY <1>1, <1>2, <1>3, PlansHome DEF Plans
  <1>6. QED
    BY <1>2, <1>4, <1>5

LEMMA PlansForAll ==
    ASSUME IInv, Flat, NEW w, NEW b, NEW i, NEW f, NEW g, Plans(w, b, i, f, g), NEW h,
           h.plan = g.plan, h.prompt = f.prompt, h.forceNs = f.forceNs, h.ns = g.ns
    PROVE  PlannedBy(h)
  <1>1. PICK raw : raw = Extracted(<<f.prompt>>)[1] /\ g = WithPlan(f, raw)
    BY DEF Plans
  <1>2. IsIntent(raw)
    BY <1>1, PlansRight DEF Plans
  <1>3. IsRec(f) /\ IsPrefs(f)
    BY StartIs DEF Plans, AtPlan
  <1>4. QED
    BY <1>1, <1>2, <1>3, PlansHome DEF Plans

\* What such a call is from then on.
Goes(h, g, at) ==
    /\ IsRec(h) /\ h.at = at
    /\ \A x \in Fields \ {"type", "at", "risk", "todo", "applied"} : h[x] = g[x]

LEMMA GoesIs ==
    ASSUME NEW f, NEW g, \A x \in Fields \ {"ns", "ctx", "plan"} : g[x] = f[x], NEW h, NEW at, Goes(h, g, at)
    PROVE  /\ h.plan = g.plan /\ h.ns = g.ns /\ h.ctx = g.ctx /\ h.at = at
           /\ h.prompt = f.prompt /\ h.contexts = f.contexts /\ h.forceNs = f.forceNs /\ h.forceCtx = f.forceCtx
           /\ h.each = f.each /\ h.child = f.child /\ h.approve = f.approve /\ h.auto = f.auto
  BY DEF Goes, Fields

LEMMA RunConducts ==
    ASSUME IInv, Flat, NEW w, NEW b, NEW i, NEW f, NEW g, Plans(w, b, i, f, g), ~FansOut(f),
           NEW h, NEW at, Goes(h, g, at), h.type = "run", at \in {"read", "ask"},
           NEW v, Onward(w, v), NEW ctx, ctx = Where(stack, b, i, w)
    PROVE  /\ Conduct(h, i, ctx, v)
           /\ Len(stack) = b + 1 => Single(w) /\ Tasked(f, i, w)
  <1>1. /\ Meets(g.plan, Goal(i, w)) /\ (g.plan.approval => g.ctx = Where(stack, b, i, w))
        /\ \A x \in Fields \ {"ns", "ctx", "plan"} : g[x] = f[x]
    BY PlansWell
  <1>2. /\ h.plan = g.plan /\ h.ctx = g.ctx /\ h.at = at /\ h.prompt = f.prompt
        /\ h.approve = f.approve /\ h.auto = f.auto
    BY <1>1, GoesIs
  <1>3. AtPlan(w, b, i, f) /\ Gate[f.prompt] = "model"
    BY DEF Plans
  <1>4. f.type = "run" /\ f.prompt = StepsOf(w.req)[i] /\ Len(stack) \in {b + 1, b + 2} /\ b \in 0..1
    BY <1>3, PlanningIs DEF AtPlan
  <1>5. Len(stack) = b + 1 => Single(w) /\ Tasked(f, i, w)
    <2>1. SUFFICES ASSUME Len(stack) = b + 1 PROVE Single(w) /\ Tasked(f, i, w)
      OBVIOUS
    <2>2. Tasked(f, i, w)
      BY <1>3, <2>1, PlanningIs
    <2>3. f.contexts = w.req.contexts /\ Len(f.contexts) \in Nat
      BY <1>3, <2>2, StartIs DEF Tasked, AtPlan
    <2>4. QED
      BY <2>2, <2>3 DEF FansOut, Single
  <1>6. Conduct(f, i, ctx, w)
    <2>1. CASE Len(stack) = b + 1
      BY <1>4, <1>5, <2>1 DEF Tasked, Where, Fanning
    <2>2. CASE Len(stack) = b + 2
      <3>1. Child(f, stack[b+1], i, w) /\ Len(stack) # b + 1
        BY <1>3, <1>4, <2>2, PlanningIs
      <3>2. QED
        BY <3>1 DEF Child, Where
    <2>3. QED
      BY <1>4, <2>1, <2>2
  <1>7. v.req = w.req /\ Goal(i, v) = Goal(i, w)
        /\ (Licensed(i, ctx, w) => Licensed(i, ctx, v))
    BY DidOn
  <1>8. Conduct(h, i, ctx, v)
    BY <1>1, <1>2, <1>3, <1>4, <1>6, <1>7 DEF Conduct
  <1>9. QED
    BY <1>5, <1>8

LEMMA KeepsOn ==
    ASSUME IInv, Flat, NEW w, NEW b, NEW i, NEW f, NEW g, Plans(w, b, i, f, g), Tasked(f, i, w),
           NEW h, NEW at, Goes(h, g, at)
    PROVE  Keeps(h, w.req) /\ Homed(h, w.req)
  <1>1. /\ \A x \in Fields \ {"ns", "ctx", "plan"} : g[x] = f[x]
        /\ f.forceNs => g.ns = f.ns /\ planNamespace(g.plan) \in {Unset, f.ns}
        /\ f.forceCtx => g.ctx = f.ctx
    BY PlansWell
  <1>2. /\ h.plan = g.plan /\ h.ns = g.ns /\ h.ctx = g.ctx /\ h.forceNs = f.forceNs /\ h.forceCtx = f.forceCtx
    BY <1>1, GoesIs
  <1>3. Keeps(f, w.req)
    BY DEF Tasked
  <1>4. QED
    BY <1>1, <1>2, <1>3 DEF Keeps, Homed

LEMMA RunBegins ==
    ASSUME IInv, Flat, NEW w, NEW b, NEW i, NEW f, NEW g, Plans(w, b, i, f, g), ~FansOut(f),
           NEW h, NEW at, Goes(h, g, at), h.type = "run", at \in {"read", "ask"},
           stack' = Append(Consumed(1), h), outcome' = outcome, NEW v, Onward(w, v)
    PROVE  Lands(v)
  <1>1. PICK ctx : ctx = Where(stack, b, i, w)
    OBVIOUS
  <1>2. Conduct(h, i, ctx, v) /\ (Len(stack) = b + 1 => Single(w) /\ Tasked(f, i, w))
    BY <1>1, RunConducts
  <1>3. \A x \in Fields \ {"ns", "ctx", "plan"} : g[x] = f[x]
    BY PlansWell
  <1>4. /\ h.at = at /\ h.prompt = f.prompt /\ h.contexts = f.contexts /\ h.each = f.each /\ h.child = f.child
    BY <1>3, GoesIs
  <1>5. /\ IsStack(stack) /\ stack # <<>> /\ Serves(stack, b, i, w) /\ AtPlan(w, b, i, f)
        /\ f = Top /\ f.at = "start" /\ h.at # "start"
        /\ Len(stack) \in {b + 1, b + 2} /\ b \in 0..1 /\ i \in 1..Size(w)
    BY <1>4, PlanningIs DEF Plans, AtPlan
  <1>6. CASE Len(stack) = b + 1
    <2>1. Single(w) /\ Tasked(f, i, w) /\ Where(stack, b, i, w) = Site(i, w)
      BY <1>2, <1>6 DEF Where
    <2>2. Keeps(h, w.req) /\ Homed(h, w.req)
      BY <2>1, KeepsOn
    <2>3. v.req = w.req /\ Single(v) = Single(w) /\ Size(v) = Size(w) /\ Site(i, v) = Site(i, w)
      BY DidOn
    <2>4. Conduct(h, i, Site(i, v), v)
      BY <1>1, <1>2, <2>1, <2>3
    <2>5. Tasked(h, i, v)
      BY <1>4, <2>1, <2>2, <2>3, <2>4 DEF Tasked
    <2>6. Size(w) \in Nat
      <3>1. w.req \in Requests
        BY DEF Plans, Actual, IInv
      <3>2. QED
        BY <3>1, StepsOfIs DEF Size
    <2>7. \A k \in 1..Len(stack) : IsSeq(stack[k].queue)
      BY SaneStack DEF IInv
    <2>8. QED
      BY <1>5, <1>6, <2>5, <2>6, <2>7, TaskStarts
  <1>7. CASE Len(stack) = b + 2
    <2>1. h.child /\ Conduct(h, i, Where(stack, b, i, w), v)
      BY <1>1, <1>2, <1>4, <1>5, <1>7, PlanningIs
    <2>2. QED
      BY <1>5, <1>7, <2>1, ChildStarts
  <1>8. QED
    BY <1>5, <1>6, <1>7

\* At the outset of a route nothing is planned as for a single step.
LEMMA OutsetRoutes ==
    ASSUME NEW w, NEW f, AtOutset(w, f)
    PROVE  RouteOf(f) = StepsOf(w.req) /\ IsRoute(f)
  <1>1. f.steps = w.req.steps /\ f.prompt = w.req.prompt
    <2>1. PICK r : r = w.req /\ f = FrameOf(r)
      BY DEF AtOutset
    <2>2. QED
      BY <2>1, FrameIs
  <1>2. QED
    BY <1>1 DEF RouteOf, StepsOf, IsRoute, AtOutset, Size

LEMMA JudgedLands ==
    ASSUME IInv, Flat, NEW w, NEW b, NEW i, NEW f, NEW g, Plans(w, b, i, f, g), ~FansOut(f), Judged(g),
           NEW v, Onward(w, v)
    PROVE  Lands(v)
  <1>1. IsStack(stack) /\ stack # <<>> /\ Serves(stack, b, i, w)
    BY DEF Plans, AtPlan
  <1>2. IsRec(g) /\ \A x \in Fields \ {"ns", "ctx", "plan"} : g[x] = f[x]
    BY PlansWell
  <1>3. g.type = "run"
    BY <1>2 DEF Plans, AtPlan, Fields
  <1>4. PICK risk, at : risk = Risk(g.plan, g.ctx) /\ at = IF IsReadOnly(g.plan) THEN "read" ELSE "ask"
    OBVIOUS
  <1>5. PICK h : h = [g EXCEPT !.risk = risk, !.at = at]
    OBVIOUS
  <1>6. Goes(h, g, at) /\ h.type = "run" /\ at \in {"read", "ask"}
    BY <1>2, <1>3, <1>4, <1>5 DEF Goes, IsRec, Fields
  <1>7. PICK doc : doc = Doc(g.plan, g.ctx, TRUE, FALSE)
    OBVIOUS
  <1>8. ~doc.applied
    BY <1>7 DEF Doc
  <1>9. \/ Return(Observed(Consumed(1), doc), "ok", FALSE)
        \/ stack' = Append(Consumed(1), h) /\ outcome' = outcome
    BY <1>4, <1>5, <1>7 DEF Judged
  <1>10. CASE Return(Observed(Consumed(1), doc), "ok", FALSE)
    <2>1. PICK left : left = Consumed(1) /\ Leaves(left)
      BY <1>1, ConsumedLeaves
    <2>2. Return(Observed(left, doc), "ok", FALSE)
      BY <1>10, <2>1
    <2>3. QED
      BY <1>1, <1>8, <2>1, <2>2, DocEnds
  <1>11. CASE stack' = Append(Consumed(1), h) /\ outcome' = outcome
    BY <1>6, <1>11, RunBegins
  <1>12. QED
    BY <1>9, <1>10, <1>11

LEMMA BuildPlanLands ==
    ASSUME IInv, Flat, Shape(stack, Actual), BuildPlan, NEW v, v = Actual', Onward(Actual, v)
    PROVE  Lands(v) /\ DoneWell(Actual)
  <1>1. PICK w, f : w = Actual /\ f = Top
    OBVIOUS
  <1>2. PICK g : g = WithPlan(f, Extracted(<<f.prompt>>)[1])
    OBVIOUS
  <1>3. /\ Running("run", "start") /\ Gate[f.prompt] = "model" /\ ~Exhausted(1) /\ ~IsRoute(f) /\ ~FansOut(f)
        /\ Judged(g) /\ g.plan # NoPlan /\ done' = done
    BY <1>1, <1>2 DEF BuildPlan, Planning, Judged, Quiet
  <1>4. PICK b, i : AtPlan(w, b, i, f)
    BY <1>1, <1>3, AtStartIs, OutsetRoutes
  <1>5. Plans(w, b, i, f, g)
    BY <1>1, <1>2, <1>3, <1>4 DEF Plans
  <1>6. QED
    BY <1>1, <1>3, <1>5, JudgedLands DEF DoneWell

\* What is fanned out mutates, or only reads.
LEMMA FansJudged ==
    ASSUME IInv, Flat, NEW w, NEW b, NEW i, NEW f, NEW g, Plans(w, b, i, f, g), Risk(g.plan, g.ctx) # "denied"
    PROVE  g.plan.approval \/ IsReadOnly(g.plan)
  <1>1. PICK raw : raw = Extracted(<<f.prompt>>)[1] /\ g = WithPlan(f, raw)
    BY DEF Plans
  <1>2. IsIntent(raw)
    BY <1>1, PlansRight DEF Plans
  <1>3. IsRec(f) /\ IsPrefs(f)
    BY StartIs DEF Plans, AtPlan
  <1>4. PICK in : Built(g.plan, in) /\ IsPlanned(g.plan)
    BY <1>1, <1>2, <1>3, PlanOfIs DEF PlanOf, Plans
  <1>5. g.plan.intent.kind # "deny"
    BY DenyRisk, DeniedDenies
  <1>6. QED
    BY <1>4, <1>5 DEF Built, IsReadOnly

LEMMA FanFanning ==
    ASSUME IInv, Flat, NEW w, NEW b, NEW i, NEW f, NEW g, Plans(w, b, i, f, g), FansOut(f),
           Len(stack) = b + 1, Risk(g.plan, g.ctx) # "denied",
           NEW h, NEW at, at = "next", Goes(h, g, at), h.type = "fan", h.todo = f.contexts, NEW v, Onward(w, v)
    PROVE  Tasked(h, i, v)
  <1>1. /\ Meets(g.plan, Goal(i, w)) /\ \A x \in Fields \ {"ns", "ctx", "plan"} : g[x] = f[x]
    BY PlansWell
  <1>2. /\ h.plan = g.plan /\ h.ns = g.ns /\ h.ctx = g.ctx /\ h.at = at
        /\ h.prompt = f.prompt /\ h.contexts = f.contexts /\ h.forceNs = f.forceNs /\ h.forceCtx = f.forceCtx
        /\ h.each = f.each /\ h.child = f.child
    BY <1>1, GoesIs
  <1>3. AtPlan(w, b, i, f) /\ Gate[f.prompt] = "model"
    BY DEF Plans
  <1>4. Tasked(f, i, w) /\ Len(f.contexts) \in Nat
    BY <1>3, PlanningIs, StartIs DEF AtPlan
  <1>5. ~Single(w)
    BY <1>4 DEF FansOut, Single, Tasked
  <1>6. v.req = w.req /\ Goal(i, v) = Goal(i, w) /\ Single(v) = Single(w) /\ Size(v) = Size(w)
    BY DidOn
  <1>7. PlannedBy(h)
    BY <1>2, PlansForAll
  <1>8. h.plan.approval \/ IsReadOnly(h.plan)
    BY <1>2, FansJudged
  <1>9. Taken(h) = 0 /\ Len(h.todo) <= Len(h.contexts) /\ \A j \in 1..Len(h.todo) : h.todo[j] = h.contexts[Taken(h) + j]
    BY <1>2, <1>4 DEF Taken
  <1>10. Fanning(h, i, v)
    BY <1>1, <1>2, <1>3, <1>5, <1>6, <1>7, <1>8, <1>9 DEF Fanning
  <1>11. Keeps(h, w.req)
    BY <1>4, KeepsOn
  <1>12. QED
    BY <1>2, <1>4, <1>6, <1>10, <1>11 DEF Tasked

LEMMA BeginFanLands ==
    ASSUME IInv, Flat, NEW w, NEW b, NEW i, NEW f, NEW g, Plans(w, b, i, f, g), FansOut(f), BeginFan(g),
           NEW v, Onward(w, v)
    PROVE  Lands(v)
  <1>1. IsStack(stack) /\ stack # <<>> /\ Serves(stack, b, i, w) /\ AtPlan(w, b, i, f) /\ f = Top
        /\ f.at = "start"
    BY DEF Plans, AtPlan
  <1>2. IsRec(g) /\ \A x \in Fields \ {"ns", "ctx", "plan"} : g[x] = f[x]
    BY PlansWell
  <1>3. Len(stack) = b + 1
    <2>1. ~f.child
      BY <1>1, StartIs DEF AtPlan, Asked, FansOut
    <2>2. QED
      BY <1>1, <2>1, PlanningIs
  <1>4. PICK risk : risk = Risk(g.plan, g.ctx)
    OBVIOUS
  <1>5. PICK h, at : h = [g EXCEPT !.type = "fan", !.at = at, !.todo = g.contexts, !.applied = TRUE] /\ at = "next"
    OBVIOUS
  <1>6. Goes(h, g, at) /\ h.type = "fan" /\ h.todo = f.contexts
    BY <1>2, <1>5 DEF Goes, IsRec, Fields
  <1>7. PICK doc : doc = Doc(g.plan, IF risk = "denied" THEN g.ctx ELSE Unset, TRUE, FALSE)
    OBVIOUS
  <1>8. ~doc.applied
    BY <1>7 DEF Doc
  <1>9. \/ Return(Observed(Consumed(1), doc), "ok", FALSE)
        \/ risk # "denied" /\ stack' = Append(Consumed(1), h) /\ outcome' = outcome
    BY <1>4, <1>5, <1>7 DEF BeginFan
  <1>10. CASE Return(Observed(Consumed(1), doc), "ok", FALSE)
    <2>1. PICK left : left = Consumed(1) /\ Leaves(left)
      BY <1>1, ConsumedLeaves
    <2>2. Return(Observed(left, doc), "ok", FALSE)
      BY <1>10, <2>1
    <2>3. QED
      BY <1>1, <1>8, <2>1, <2>2, DocEnds
  <1>11. CASE risk # "denied" /\ stack' = Append(Consumed(1), h) /\ outcome' = outcome
    <2>1. Tasked(h, i, v)
      BY <1>3, <1>4, <1>5, <1>6, <1>11, FanFanning
    <2>2. Size(w) \in Nat
      <3>1. w.req \in Requests
        BY DEF Plans, Actual, IInv
      <3>2. QED
        BY <3>1, StepsOfIs DEF Size
    <2>3. \A k \in 1..Len(stack) : IsSeq(stack[k].queue)
      BY SaneStack DEF IInv
    <2>4. h.at # "start"
      BY <1>5, <1>6 DEF Goes
    <2>5. QED
      BY <1>1, <1>3, <1>11, <2>1, <2>2, <2>3, <2>4, TaskStarts
  <1>12. QED
    BY <1>9, <1>10, <1>11

LEMMA FanOutLands ==
    ASSUME IInv, Flat, Shape(stack, Actual), FanOut, NEW v, v = Actual', Onward(Actual, v)
    PROVE  Lands(v) /\ DoneWell(Actual)
  <1>1. PICK w, f : w = Actual /\ f = Top
    OBVIOUS
  <1>2. PICK g : g = WithPlan(f, Extracted(<<f.prompt>>)[1])
    OBVIOUS
  <1>3. /\ Running("run", "start") /\ Gate[f.prompt] = "model" /\ ~Exhausted(1) /\ ~IsRoute(f) /\ FansOut(f)
        /\ BeginFan(g) /\ g.plan # NoPlan /\ done' = done
    BY <1>1, <1>2 DEF FanOut, Planning, BeginFan, Quiet
  <1>4. PICK b, i : AtPlan(w, b, i, f)
    BY <1>1, <1>3, AtStartIs, OutsetRoutes
  <1>5. Plans(w, b, i, f, g)
    BY <1>1, <1>2, <1>3, <1>4 DEF Plans
  <1>6. QED
    BY <1>1, <1>3, <1>5, BeginFanLands DEF DoneWell

-------------------------------------------------------------------------------

(***************************************************************************)
(* A route from its preflight to its last step.                            *)
(***************************************************************************)
\* The clauses of a flat prompt are no routes of their own.
LEMMA StepsAreFlat ==
    ASSUME IInv, Flat, NEW w, w = Actual, NEW b, NEW i, NEW f, AtPlan(w, b, i, f)
    PROVE  ~IsRoute(f)
  <1>1. w.req = req /\ req \in Requests
    BY DEF IInv, Actual
  <1>2. Size(w) \in Nat /\ DOMAIN Steps = 1..Size(w) /\ Steps = StepsOf(w.req)
    BY <1>1, StepsOfIs DEF Size, Steps
  <1>3. f.prompt = Steps[i] /\ i \in DOMAIN Steps
    BY <1>2, PlanningIs
  <1>4. f.steps = <<>>
    BY <1>1, StartIs DEF AtPlan, AsCalled, Flat
  <1>5. RouteOf(f) = <<f.prompt>>
    BY <1>3, <1>4 DEF RouteOf, Flat
  <1>6. PICK s, x : s = <<x>> /\ s = RouteOf(f)
    BY <1>5
  <1>7. Len(s) = 1
    BY <1>6
  <1>8. ~(Len(s) > 1)
    BY <1>7
  <1>9. QED
    BY <1>6, <1>8 DEF IsRoute

LEMMA RouteAnswers ==
    ASSUME NEW w, w.req \in Requests, NEW n, n = Size(w), n > 1,
           NEW raws, raws = [i \in DOMAIN StepsOf(w.req) |-> Answer[StepsOf(w.req)[i]]],
           NEW f, f = FrameOf(w.req)
    PROVE  /\ n \in Nat /\ AreIntents(raws) /\ Len(raws) = n /\ IsPrefs(f)
           /\ Intended[w.req] = Preflight(f, raws)
  <1>1. PICK r, all : r = w.req /\ all = Intended[r]
    OBVIOUS
  <1>2. n = Len(StepsOf(r)) /\ n \in Nat
    BY <1>1, StepsOfIs DEF Size
  <1>3. all = Preflight(f, raws) /\ AreIntents(raws) /\ Len(raws) = n
    BY <1>1, <1>2, IntendedRoute
  <1>4. IsPrefs(f)
    <2>1. IsPrefs(r)
      BY <1>1, RequestIs
    <2>2. QED
      BY <1>1, <2>1, FrameIs DEF IsPrefs
  <1>5. QED
    BY <1>1, <1>2, <1>3, <1>4

\* The plans of a route are those of its steps, and so are the intents it hands out.
Routed(plans, queue, w) ==
    /\ plans = [i \in 1..Size(w) |-> Goal(i, w)]
    /\ \A j \in 1..Size(w) : j <= Len(queue) /\ queue[j] = Intended[w.req][j].in

LEMMA RoutePrepared ==
    ASSUME NEW w, NEW steps, Intended[w.req] = steps, Size(w) = Len(steps),
           NEW plans, NEW queue, Prepares(steps, plans, queue), DOMAIN plans = 1..Len(steps)
    PROVE  Routed(plans, queue, w)
  <1>1. PICK n : n = Len(steps) /\ n = Size(w)
    OBVIOUS
  <1>2. IsSeq(plans) /\ Len(plans) = n /\ Len(queue) = n /\ n \in Nat
        /\ \A i \in 1..n : plans[i] = steps[i].plan /\ queue[i] = steps[i].in
    BY <1>1 DEF Prepares, IsSeq
  <1>3. plans = [i \in 1..n |-> Goal(i, w)]
    <2>1. plans = [i \in 1..n |-> plans[i]]
      BY <1>2 DEF IsSeq
    <2>2. \A i \in 1..n : plans[i] = Goal(i, w)
      BY <1>2 DEF Goal
    <2>3. QED
      BY <2>1, <2>2
  <1>4. QED
    BY <1>1, <1>2, <1>3 DEF Routed

\* The outermost call becomes a route.
RouteFrom(h, f, at) ==
    /\ h.type = "route" /\ h.at = at
    /\ h.prompt = f.prompt /\ h.ns = f.ns /\ h.ctx = f.ctx /\ h.forceNs = f.forceNs /\ h.forceCtx = f.forceCtx
    /\ h.contexts = f.contexts /\ h.approve = f.approve /\ h.each = f.each /\ h.next = f.next

LEMMA FrameOnRoute ==
    ASSUME NEW w, Size(w) > 1, Size(w) \in Nat, NEW f, f = FrameOf(w.req), NEW at, at \in {"ask", "step"},
           NEW h, RouteFrom(h, f, at), Routed(h.plans, h.queue, w), \A i \in 1..Size(w) : h.plans[i] # NoPlan
    PROVE  OnRoute(h, w)
  <1>1. PICK r : r = w.req /\ f = FrameOf(r)
    OBVIOUS
  <1>2. /\ IsRec(f) /\ f.prompt = r.prompt /\ f.ns = r.ns /\ f.ctx = r.ctx /\ f.forceNs = r.forceNs
        /\ f.forceCtx = r.forceCtx /\ f.contexts = r.contexts /\ f.approve = r.approve /\ f.each = r.each
        /\ f.next = 1
    BY <1>1, FrameIs DEF AtStart
  <1>3. /\ h.type = "route" /\ h.prompt = r.prompt /\ h.ns = r.ns /\ h.ctx = r.ctx /\ h.forceNs = r.forceNs
        /\ h.forceCtx = r.forceCtx /\ h.contexts = r.contexts /\ h.approve = r.approve /\ h.each = r.each
        /\ h.next = 1 /\ h.at = at
    BY <1>2 DEF RouteFrom
  <1>4. Keeps(h, r)
    BY <1>3 DEF Keeps
  <1>5. Single(w) /\ h.approve => \A i \in 1..Size(w) : Licensed(i, Site(i, w), w)
    BY <1>1, <1>3 DEF Licensed
  <1>6. Lined(h.queue, h.next, w)
    BY <1>3 DEF Lined, Routed
  <1>7. h.plans = [i \in 1..Size(w) |-> Goal(i, w)] /\ \A i \in 1..Size(w) : Goal(i, w) # NoPlan
    BY DEF Routed
  <1>8. QED
    BY <1>1, <1>3, <1>4, <1>5, <1>6, <1>7 DEF OnRoute

LEMMA OutsetConsumes ==
    ASSUME IsStack(stack), Len(stack) = 1, NEW k, NEW ps
    PROVE  Consumed(k) = Below /\ Extracted(ps) = [i \in DOMAIN ps |-> Answer[ps[i]]]
  BY DEF Consumed, Extracted, Model

LEMMA OnRouteOn ==
    ASSUME NEW w, NEW v, Onward(w, v), NEW f, OnRoute(f, w)
    PROVE  OnRoute(f, v)
  <1>1. PICK r : r = w.req
    OBVIOUS
  <1>2. /\ v.req = r /\ Size(v) = Size(w) /\ Single(v) = Single(w)
        /\ \A i : Goal(i, v) = Goal(i, w) /\ Site(i, v) = Site(i, w)
        /\ \A i : Whole(i, w) => Whole(i, v)
        /\ \A i, ctx : Licensed(i, ctx, w) => Licensed(i, ctx, v)
        /\ \A q, i : Lined(q, i, w) => Lined(q, i, v)
    BY <1>1, DidOn
  <1>3. f.plans = [i \in 1..Size(v) |-> Goal(i, v)]
    BY <1>2 DEF OnRoute
  <1>4. QED
    BY <1>1, <1>2, <1>3 DEF OnRoute

LEMMA RouteStays ==
    ASSUME IsStack(stack), stack # <<>>, Len(stack) = 1, NEW v, Size(v) > 1, NEW h, OnRoute(h, v), Become(h)
    PROVE  Lands(v)
  <1>1. PICK t : t = stack'
    OBVIOUS
  <1>2. Replaced(stack, stack', h) /\ outcome' = outcome
    BY BecomeForm
  <1>3. IsSeq(t) /\ Len(t) = 1 /\ t[1] = h
    BY <1>1, <1>2 DEF Replaced
  <1>4. t # <<>>
    BY <1>3, EmptyIs
  <1>5. QED
    BY <1>1, <1>2, <1>3, <1>4 DEF Shape, Lands

LEMMA RouteBeginsLands ==
    ASSUME IInv, Flat, Shape(stack, Actual), RouteBegins, NEW v, v = Actual', Onward(Actual, v)
    PROVE  Lands(v) /\ DoneWell(Actual)
  <1>1. PICK w, f : w = Actual /\ f = Top
    OBVIOUS
  <1>2. PICK ps : ps = RouteOf(f)
    OBVIOUS
  <1>3. PICK raws : raws = Extracted(ps)
    OBVIOUS
  <1>4. PICK steps : steps = Preflight(f, raws)
    OBVIOUS
  <1>5. Running("run", "start") /\ IsRoute(f) /\ BeginRoute(steps) /\ done' = done
    BY <1>1, <1>2, <1>3, <1>4 DEF RouteBegins, Planning, Quiet
  <1>6. AtOutset(w, f)
    BY <1>1, <1>5, AtStartIs, StepsAreFlat
  <1>7. IsStack(stack) /\ stack # <<>> /\ Len(stack) = 1 /\ Size(w) > 1 /\ f = FrameOf(w.req)
    BY <1>6 DEF AtOutset
  <1>8. w.req \in Requests
    BY <1>1 DEF Actual, IInv
  <1>9. ps = StepsOf(w.req) /\ raws = [i \in DOMAIN ps |-> Answer[ps[i]]]
    BY <1>2, <1>3, <1>6, <1>7, OutsetRoutes, OutsetConsumes
  <1>10. PICK n : n = Size(w)
    OBVIOUS
  <1>11. n \in Nat /\ AreIntents(raws) /\ Len(raws) = n /\ IsPrefs(f) /\ Intended[w.req] = steps
    BY <1>4, <1>7, <1>8, <1>9, <1>10, RouteAnswers
  <1>12. PICK plans, queue : plans = [i \in DOMAIN steps |-> steps[i].plan]
                             /\ queue = [i \in DOMAIN steps |-> steps[i].in]
    OBVIOUS
  <1>13. Routed(plans, queue, w) /\ DOMAIN plans = 1..n
    <2>1. IsPrefs(f) /\ AreIntents(raws)
      BY <1>11
    <2>2. /\ Prepares(steps, plans, queue) /\ Len(steps) = Len(raws) /\ DOMAIN plans = 1..Len(steps)
          /\ DOMAIN steps = 1..Len(steps)
      BY ZenonT(60), <1>4, <1>12, <2>1, StepsPrepared
    <2>3. QED
      BY <1>10, <1>11, <2>2, RoutePrepared
  <1>14. PICK left, k : left = Consumed(k) /\ k = Len(plans)
    OBVIOUS
  <1>15. left = Below
    BY <1>7, <1>14, OutsetConsumes
  <1>16. PICK risks : risks = {Risk(plans[i], steps[i].ctx) : i \in DOMAIN plans}
    OBVIOUS
  <1>17. PICK risk : risk = Highest(risks)
    OBVIOUS
  <1>18. PICK at : at = IF \E i \in DOMAIN plans : plans[i].approval THEN "ask" ELSE "step"
    OBVIOUS
  <1>19. PICK h : h = [f EXCEPT !.type = "route", !.plans = plans, !.queue = queue, !.risk = risk,
                                !.applied = TRUE, !.at = at]
    OBVIOUS
  <1>20. /\ \A i \in DOMAIN plans : plans[i] # NoPlan
         /\ \/ Return(left, "error", FALSE)
            \/ Return(left, "ok", FALSE)
            \/ stack' = Append(left, h) /\ outcome' = outcome
    BY ZenonT(60), <1>1, <1>5, <1>12, <1>14, <1>16, <1>17, <1>18, <1>19 DEF BeginRoute
  <1>21. CASE Return(left, "error", FALSE) \/ Return(left, "ok", FALSE)
    <2>1. Leaves(left)
      BY <1>7, <1>15, BelowLeaves
    <2>2. QED
      BY <1>1, <1>5, <1>7, <1>21, <2>1, OutsetEnds DEF DoneWell
  <1>22. CASE stack' = Append(left, h) /\ outcome' = outcome
    <2>1. \A i \in 1..n : plans[i] # NoPlan
      BY <1>13, <1>20
    <2>2. at \in {"ask", "step"} /\ n > 1
      BY <1>7, <1>10, <1>18
    <2>3. OnRoute(h, w)
      <3>1. IsRec(f)
        BY <1>7, FrameIs
      <3>2. RouteFrom(h, f, at) /\ h.plans = plans /\ h.queue = queue
        BY <1>19, <3>1 DEF RouteFrom, IsRec, Fields
      <3>3. QED
        BY <1>7, <1>10, <1>11, <1>13, <2>1, <2>2, <3>2, FrameOnRoute
    <2>4. OnRoute(h, v) /\ Size(v) > 1
      BY <1>1, <1>7, <2>3, OnRouteOn, DidOn
    <2>5. Become(h)
      BY <1>15, <1>22 DEF Become
    <2>6. QED
      BY <1>1, <1>5, <1>7, <2>4, <2>5, RouteStays DEF DoneWell
  <1>23. QED
    BY <1>20, <1>21, <1>22

\* The innermost call is the route that carries out the steps of the request.
AtRoute(w, f, at) ==
    /\ IsStack(stack) /\ stack # <<>> /\ Len(stack) = 1 /\ f = Top /\ f.type = "route" /\ f.at = at
    /\ OnRoute(f, w) /\ Sane(f, w) /\ IsRec(f) /\ w = Actual /\ w.req \in Requests
    /\ Size(w) > 1 /\ Size(w) \in Nat /\ RouteOf(f) = StepsOf(w.req)
    /\ ~f.auto /\ ~f.child /\ f.next \in Nat /\ f.next > 0

LEMMA AtRouteIs ==
    ASSUME IInv, Shape(stack, Actual), NEW at, Running("route", at), NEW w, w = Actual, NEW f, f = Top
    PROVE  AtRoute(w, f, at)
  <1>1. PICK n : n = Len(stack) /\ f = stack[n]
    BY DEF Top
  <1>2. f.type = "route" /\ f.at = at /\ stack # <<>>
    BY DEF Running
  <1>3. ASSUME NEW b, NEW i, Serves(stack, b, i, w)
        PROVE  FALSE
    <2>1. n = b + 1 \/ n = b + 2
      BY <1>1, <1>3, ServesPlace
    <2>2. CASE n = b + 1
      BY <1>1, <1>2, <1>3, <2>2 DEF Serves, TaskAt, Tasked, Fanning
    <2>3. CASE n = b + 2
      <3>1. b \in 0..1
        BY <1>3, ServesPlace
      <3>2. Child(stack[n], stack[b+1], i, w)
        BY <1>1, <1>3, <2>3, <3>1 DEF Serves, TaskAt
      <3>3. QED
        BY <1>1, <1>2, <3>2 DEF Child, Conduct
    <2>4. QED
      BY <2>1, <2>2, <2>3
  <1>4. Apart(stack, w)
    BY <1>3, ServesShape
  <1>5. Len(stack) = 1 /\ n = 1 /\ Size(w) > 1 /\ OnRoute(f, w)
    <2>1. Len(stack) = 1 /\ n = 1 /\ Size(w) > 1 /\ (f = FrameOf(w.req) \/ OnRoute(f, w))
      BY <1>1, <1>4 DEF Apart
    <2>2. f # FrameOf(w.req)
      <3>1. PICK r : r = w.req
        OBVIOUS
      <3>2. FrameOf(r).type = "run"
        BY FrameIs
      <3>3. QED
        BY <1>2, <3>1, <3>2
    <2>3. QED
      BY <2>1, <2>2
  <1>6. w.req \in Requests /\ AllSane(stack, w) /\ IsStack(stack)
    BY SaneStack DEF IInv, Actual
  <1>7. Sane(f, w)
    BY <1>1, <1>5, <1>6 DEF AllSane
  <1>8. /\ AsCalled(f, w) /\ Asked(f, w) /\ Route(f) /\ IsRec(f) /\ f.next \in Nat /\ f.next > 0
    BY <1>2, <1>7, RouteIs
  <1>9. ~f.child /\ ~f.auto
    BY <1>8 DEF Route, Asked
  <1>10. RouteOf(f) = StepsOf(w.req)
    BY <1>5, <1>8 DEF RouteOf, StepsOf, OnRoute, AsCalled
  <1>11. Size(w) \in Nat
    BY <1>6, StepsOfIs DEF Size
  <1>12. QED
    BY <1>2, <1>5, <1>6, <1>7, <1>8, <1>9, <1>10, <1>11 DEF AtRoute

\* The plans of a route name the contexts that their actions are to reach.
LEMMA RouteSites ==
    ASSUME NEW w, w.req \in Requests, Size(w) > 1, NEW i \in 1..Size(w), NEW p, p = Goal(i, w),
           p # NoPlan, p.approval, NEW ctx
    PROVE  Or(p.intent.ctx, ctx) = Site(i, w)
  <1>1. PICK r, n, steps : r = w.req /\ n = Len(StepsOf(r)) /\ steps = Intended[r]
    OBVIOUS
  <1>2. Readied(steps[i], Words[StepsOf(r)[i]], r)
    BY <1>1, IntendedRoute DEF Size
  <1>3. PICK s : s = steps[i] /\ p = s.plan /\ Site(i, w) = s.after.ctx
    BY <1>1 DEF Goal, Site
  <1>4. PICK raw, prefs : /\ IsIntent(raw) /\ IsPrefs(prefs)
                          /\ s.in = Prepared(raw, Words[StepsOf(r)[i]], prefs, ScopedKinds) /\ IsIntent(s.in)
                          /\ s.plan = Build(s.in) /\ s.after.ctx = s.in.ctx
    BY <1>2, <1>3 DEF Readied
  <1>5. PICK in, prompt : in = s.in /\ in = Prepared(raw, prompt, prefs, ScopedKinds)
    BY <1>4
  <1>6. in.ctx # Unset
    BY <1>4, <1>5, PreparedPlace
  <1>7. Built(p, in)
    <2>1. IsIntent(in) /\ Build(in) # NoPlan
      BY <1>3, <1>4, <1>5
    <2>2. QED
      BY <1>3, <1>4, <1>5, <2>1, BuildBuilt
  <1>8. p.intent.ctx = in.ctx
    BY <1>7 DEF Built
  <1>9. QED
    BY <1>3, <1>4, <1>5, <1>6, <1>8 DEF Or

\* The route ends without having applied anything.
LEMMA RouteStops ==
    ASSUME NEW w, NEW f, NEW at, AtRoute(w, f, at), NEW how, Return(Below, how, FALSE), NEW v
    PROVE  Lands(v)
  <1>1. IsStack(stack) /\ stack # <<>> /\ Len(stack) = 1
    BY DEF AtRoute
  <1>2. PICK left : left = Below
    OBVIOUS
  <1>3. Leaves(left) /\ Return(left, how, FALSE)
    BY <1>1, <1>2, BelowLeaves
  <1>4. QED
    BY <1>1, <1>3, OutsetEnds

\* The consent to a route is a consent to its steps.
LEMMA RouteLicensed ==
    ASSUME NEW w, NEW f, NEW at, AtRoute(w, f, at), NEW v, Onward(w, v), v.agreed = agreed',
           NEW flag, flag <=> f.approve \/ f.auto, Agree(flag, "yes", RouteMutations(f)), Single(w)
    PROVE  \A i \in 1..Size(w) : Licensed(i, Site(i, w), v)
  <1>1. PICK n : n = Size(w)
    OBVIOUS
  <1>2. /\ OnRoute(f, w) /\ n > 1 /\ n \in Nat /\ w.req \in Requests /\ ~f.auto
    BY <1>1 DEF AtRoute
  <1>3. CASE flag
    <2>1. \A i \in 1..Size(w) : Licensed(i, Site(i, w), w)
      BY <1>2, <1>3 DEF OnRoute
    <2>2. QED
      BY <2>1, DidOn
  <1>4. CASE ~flag
    <2>1. SUFFICES ASSUME NEW i \in 1..n PROVE Licensed(i, Site(i, w), v)
      BY <1>1
    <2>2. Goal(i, v) = Goal(i, w) /\ Size(v) = n /\ f.plans[i] = Goal(i, w) /\ i \in DOMAIN f.plans
          /\ Goal(i, w) # NoPlan
      BY <1>1, <1>2, DidOn DEF OnRoute
    <2>3. PICK p, ctx : p = Goal(i, w) /\ ctx = Site(i, w)
      OBVIOUS
    <2>4. CASE p.approval
      <3>1. Or(p.intent.ctx, f.ctx) = Site(i, w)
        BY <1>1, <1>2, <2>2, <2>3, <2>4, RouteSites
      <3>2. Consent(p, Site(i, w)) \in RouteMutations(f)
        BY <2>2, <2>3, <2>4, <3>1 DEF RouteMutations
      <3>3. <<Shown(p), Site(i, w)>> \in v.agreed
        BY <1>4, <3>2 DEF Agree, Consent
      <3>4. <<Shown(p), ctx>> \in v.agreed /\ p = Goal(i, v) /\ p # NoPlan
        BY <2>2, <2>3, <3>3
      <3>5. Licensed(i, ctx, v)
        BY <2>4, <3>4 DEF Licensed
      <3>6. QED
        BY <2>3, <3>5
    <2>5. CASE ~p.approval
      <3>1. p = Goal(i, v) /\ ~(Size(v) <= 1)
        BY <1>2, <2>2, <2>3
      <3>2. Licensed(i, ctx, v)
        BY <2>5, <3>1 DEF Licensed
      <3>3. QED
        BY <2>3, <3>2
    <2>6. QED
      BY <2>4, <2>5
  <1>5. QED
    BY <1>3, <1>4

LEMMA ApproveRouteLands ==
    ASSUME IInv, Shape(stack, Actual), ApproveRoute, NEW v, v = Actual', Onward(Actual, v)
    PROVE  Lands(v) /\ DoneWell(Actual)
  <1>1. PICK w, f : w = Actual /\ f = Top
    OBVIOUS
  <1>2. Running("route", "ask") /\ done' = done
    BY DEF ApproveRoute
  <1>3. AtRoute(w, f, "ask")
    BY <1>1, <1>2, AtRouteIs
  <1>4. PICK flag, h : (flag <=> f.approve \/ f.auto) /\ flag = (f.approve \/ f.auto)
                       /\ h = [f EXCEPT !.approve = TRUE, !.at = "step"]
    OBVIOUS
  <1>5. PICK reply : /\ CASE Verdict(reply, f.risk) = "yes" -> Become(h)
                          [] Verdict(reply, f.risk) = "no" -> Return(Below, "ok", FALSE)
                          [] OTHER -> Fail
                     /\ Agree(flag, reply, RouteMutations(f))
    BY <1>1, <1>4 DEF ApproveRoute
  <1>6. CASE Verdict(reply, f.risk) = "yes"
    <2>1. Become(h) /\ reply = "yes" /\ Agree(flag, "yes", RouteMutations(f))
      BY <1>5, <1>6 DEF Verdict
    <2>2. v.agreed = agreed'
      BY DEF Actual
    <2>3. Single(w) => \A i \in 1..Size(w) : Licensed(i, Site(i, w), v)
      BY <1>1, <1>3, <1>4, <2>1, <2>2, RouteLicensed
    <2>4. OnRoute(f, v) /\ OnRoute(f, w)
      BY <1>1, <1>3, OnRouteOn DEF AtRoute
    <2>5. /\ h.type = f.type /\ h.prompt = f.prompt /\ h.contexts = f.contexts /\ h.each = f.each
          /\ h.forceNs = f.forceNs /\ h.forceCtx = f.forceCtx /\ h.ns = f.ns /\ h.ctx = f.ctx
          /\ h.plans = f.plans /\ h.next = f.next /\ h.queue = f.queue /\ h.at = "step"
      BY <1>3, <1>4 DEF AtRoute, IsRec, Fields
    <2>6. f.at = "ask"
      BY <1>3 DEF AtRoute
    <2>7. Single(v) = Single(w) /\ Size(v) = Size(w) /\ \A i : Site(i, v) = Site(i, w)
      BY <1>1, DidOn
    <2>8. Keeps(h, v.req)
      BY <2>4, <2>5 DEF OnRoute, Keeps
    <2>9. OnRoute(h, v)
      BY <2>3, <2>4, <2>5, <2>6, <2>7, <2>8 DEF OnRoute
    <2>10. QED
      BY <1>2, <1>3, <2>1, <2>7, <2>9, RouteStays DEF AtRoute, DoneWell
  <1>7. CASE Verdict(reply, f.risk) # "yes"
    <2>1. \E how : Return(Below, how, FALSE)
      BY <1>5, <1>7 DEF Fail
    <2>2. QED
      BY <1>2, <1>3, <2>1, RouteStops DEF DoneWell
  <1>8. QED
    BY <1>6, <1>7

\* A call is made, or the goroutine has run out of stack.
Overflows == stack' = <<>> /\ outcome'.how = "overflow"

LEMMA CallForm ==
    ASSUME IsStack(stack), stack # <<>>, NEW f, NEW g, Call(f, g)
    PROVE  Overflows \/ (Pushed(stack, stack', f, g) /\ outcome' = outcome)
  <1>1. PICK n \in Nat : n = Len(stack) /\ n > 0
    BY EmptyIs DEF IsStack, IsSeq
  <1>2. PICK b : b = Below
    OBVIOUS
  <1>3. IsSeq(b) /\ Len(b) = n - 1 /\ \A i \in 1..(n - 1) : b[i] = stack[i]
    BY <1>1, <1>2, BelowForm
  <1>4. CASE Len(stack) < MaxDepth
    <2>1. PICK c : c = stack'
      OBVIOUS
    <2>2. AreTwoLonger(c, b, f, g) /\ outcome' = outcome
      BY <1>2, <1>4, <2>1 DEF Call, AreTwoLonger
    <2>3. /\ Len(c) = Len(b) + 2 /\ IsSeq(c) /\ c[Len(b)+1] = f /\ c[Len(b)+2] = g
          /\ \A i \in 1..Len(b) : c[i] = b[i]
      BY <1>3, <2>2, TwoIs
    <2>4. Len(b) + 1 = n /\ Len(b) + 2 = n + 1
      BY <1>1, <1>3
    <2>5. Pushed(stack, c, f, g)
      BY <1>1, <1>3, <2>3, <2>4 DEF Pushed
    <2>6. QED
      BY <2>1, <2>2, <2>5
  <1>5. CASE ~(Len(stack) < MaxDepth)
    BY <1>5 DEF Call, Overflows
  <1>6. QED
    BY <1>4, <1>5

LEMMA OverflowLands ==
    ASSUME Overflows, NEW v
    PROVE  Lands(v)
  BY DEF Overflows, Lands

\* The call h that a route makes for its next step, and the route g that waits for it.
StepCall(g, h, f) ==
    /\ g.type = f.type /\ g.at = "back" /\ g.seen = NoDoc /\ g.back = "none"
    /\ \A x \in Fields \ {"at", "seen", "back"} : g[x] = f[x]
    /\ h.type = "run" /\ h.at = "start" /\ h.prompt = RouteOf(f)[f.next]
    /\ h.ns = f.ns /\ h.ctx = f.ctx /\ h.forceNs = f.forceNs /\ h.forceCtx = f.forceCtx
    /\ h.contexts = f.contexts /\ h.approve = f.approve /\ h.each = f.each /\ h.child = f.child /\ h.auto = f.auto

LEMMA RouteWaits ==
    ASSUME NEW w, NEW f, AtRoute(w, f, "step"), f.next <= Size(w), NEW g, NEW h, StepCall(g, h, f)
    PROVE  OnRoute(g, w) /\ Waits(g) /\ g.next = f.next /\ Lined(g.queue, f.next, w)
  <1>1. /\ g.type = f.type /\ g.prompt = f.prompt /\ g.contexts = f.contexts /\ g.each = f.each
        /\ g.forceNs = f.forceNs /\ g.forceCtx = f.forceCtx /\ g.ns = f.ns /\ g.ctx = f.ctx
        /\ g.plans = f.plans /\ g.next = f.next /\ g.queue = f.queue /\ g.approve = f.approve
        /\ g.at = "back" /\ g.seen = NoDoc
    BY DEF StepCall, Fields
  <1>2. OnRoute(f, w) /\ f.at = "step"
    BY DEF AtRoute
  <1>3. Keeps(g, w.req)
    BY <1>1, <1>2 DEF OnRoute, Keeps
  <1>4. ~Ended(g)
    BY <1>1 DEF Ended
  <1>5. OnRoute(g, w)
    BY <1>1, <1>2, <1>3, <1>4 DEF OnRoute
  <1>6. QED
    BY <1>1, <1>2, <1>5 DEF Waits, OnRoute

LEMMA StepTasked ==
    ASSUME NEW w, NEW f, AtRoute(w, f, "step"), f.next <= Size(w), NEW g, NEW h, StepCall(g, h, f)
    PROVE  Tasked(h, f.next, w)
  <1>1. PICK i : i = f.next
    OBVIOUS
  <1>2. OnRoute(f, w) /\ i \in 1..Size(w) /\ ~h.child /\ h.prompt = StepsOf(w.req)[i] /\ ~h.auto
    BY <1>1 DEF AtRoute, StepCall
  <1>3. h.contexts = w.req.contexts /\ h.each = w.req.each /\ h.type = "run" /\ h.at = "start" /\ h.approve = f.approve
    BY <1>2 DEF StepCall, OnRoute
  <1>4. Keeps(h, w.req)
    BY <1>2 DEF StepCall, OnRoute, Keeps
  <1>5. Single(w) => Conduct(h, i, Site(i, w), w)
    BY <1>2, <1>3 DEF OnRoute, Conduct
  <1>6. Homed(h, w.req)
    BY <1>3 DEF Homed
  <1>7. Tasked(h, i, w)
    BY <1>2, <1>3, <1>4, <1>5, <1>6 DEF Tasked
  <1>8. QED
    BY <1>1, <1>7

LEMMA RunStepLands ==
    ASSUME IInv, Shape(stack, Actual), RunStep, NEW v, v = Actual', Onward(Actual, v)
    PROVE  Lands(v) /\ DoneWell(Actual)
  <1>1. PICK w, f, r : w = Actual /\ f = Top /\ r = Frame
    OBVIOUS
  <1>2. Running("route", "step") /\ done' = done /\ Actual' = Actual
    BY DEF RunStep, Quiet, env, Actual, Actions
  <1>3. AtRoute(w, f, "step") /\ v = w
    BY <1>1, <1>2, AtRouteIs
  <1>4. PICK ps, p : ps = RouteOf(f) /\ p = ps[f.next] /\ f.next <= Len(ps)
    BY <1>1 DEF RunStep
  <1>5. PICK g : g = [f EXCEPT !.at = "back", !.seen = NoDoc, !.back = "none"]
    OBVIOUS
  <1>6. PICK h : h = [r EXCEPT !.prompt = p, !.ns = f.ns, !.ctx = f.ctx,
                          !.forceNs = f.forceNs, !.forceCtx = f.forceCtx, !.contexts = f.contexts, !.approve = f.approve,
                          !.each = f.each, !.child = f.child, !.auto = f.auto,
                          !.json = FALSE]
    OBVIOUS
  <1>7. Call(g, h)
    BY <1>1, <1>4, <1>5, <1>6 DEF RunStep
  <1>8. f.next <= Size(w) /\ IsStack(stack) /\ stack # <<>> /\ Len(stack) = 1 /\ Size(w) > 1
    BY <1>3, <1>4 DEF AtRoute, Size
  <1>9. StepCall(g, h, f)
    <2>1. IsRec(r) /\ r.type = "run" /\ r.at = "start"
      BY <1>1, FrameIs DEF Frame
    <2>2. /\ g.type = f.type /\ g.at = "back" /\ g.seen = NoDoc /\ g.back = "none"
          /\ \A x \in Fields \ {"at", "seen", "back"} : g[x] = f[x]
      BY <1>3, <1>5 DEF AtRoute, IsRec, Fields
    <2>3. /\ h.type = "run" /\ h.at = "start" /\ h.prompt = p
          /\ h.ns = f.ns /\ h.ctx = f.ctx /\ h.forceNs = f.forceNs /\ h.forceCtx = f.forceCtx
          /\ h.contexts = f.contexts /\ h.approve = f.approve /\ h.each = f.each /\ h.child = f.child /\ h.auto = f.auto
      BY <1>6, <2>1 DEF IsRec, Fields
    <2>4. QED
      BY <1>4, <2>2, <2>3 DEF StepCall
  <1>10. CASE Overflows
    BY <1>2, <1>10, OverflowLands DEF DoneWell
  <1>11. CASE Pushed(stack, stack', g, h) /\ outcome' = outcome
    <2>1. PICK t : t = stack'
      OBVIOUS
    <2>2. IsSeq(t) /\ Len(t) = 2 /\ t[1] = g /\ t[2] = h
      BY <1>8, <1>11, <2>1 DEF Pushed
    <2>3. t # <<>>
      BY <2>2, EmptyIs
    <2>4. OnRoute(g, w) /\ Waits(g) /\ g.next = f.next /\ Lined(g.queue, f.next, w) /\ Tasked(h, f.next, w)
      BY <1>3, <1>8, <1>9, RouteWaits, StepTasked
    <2>5. TaskAt(t, 1, f.next, w)
      BY <2>2, <2>4 DEF TaskAt
    <2>6. h.at = "start"
      BY <1>9 DEF StepCall
    <2>7. Shape(t, w)
      BY <1>8, <2>2, <2>4, <2>5, <2>6 DEF Shape
    <2>8. QED
      BY <1>2, <1>3, <1>11, <2>1, <2>3, <2>7 DEF Lands, DoneWell
  <1>12. QED
    BY <1>7, <1>8, <1>10, <1>11, CallForm

LEMMA StepReturnsLands ==
    ASSUME IInv, Shape(stack, Actual), StepReturns, NEW v, v = Actual', Onward(Actual, v)
    PROVE  Lands(v) /\ DoneWell(Actual)
  <1>1. PICK w, f : w = Actual /\ f = Top
    OBVIOUS
  <1>2. Running("route", "back") /\ done' = done
    BY DEF StepReturns, Quiet
  <1>3. AtRoute(w, f, "back")
    BY <1>1, <1>2, AtRouteIs
  <1>4. PICK c : c = Carried(f, f.seen.ns, f.seen.ctx)
    OBVIOUS
  <1>5. PICK h : h = [c EXCEPT !.next = @ + 1, !.at = "step"]
    OBVIOUS
  <1>6. Return(Below, "error", FALSE) \/ Return(Below, "ok", FALSE) \/ (Ended(f) /\ Become(h))
    BY <1>1, <1>4, <1>5 DEF StepReturns, Fail, Ended
  <1>7. CASE Return(Below, "error", FALSE) \/ Return(Below, "ok", FALSE)
    <2>1. \E how : Return(Below, how, FALSE)
      BY <1>7
    <2>2. QED
      BY <1>2, <1>3, <2>1, RouteStops DEF DoneWell
  <1>8. CASE Ended(f) /\ Become(h)
    <2>1. OnRoute(f, w) /\ f.at = "back" /\ IsRec(f) /\ f.next \in Nat /\ f.next > 0 /\ Size(w) \in Nat
      BY <1>3 DEF AtRoute
    <2>2. Single(w) /\ Whole(f.next, w) /\ Lined(f.queue, f.next + 1, w) /\ Keeps(c, w.req) /\ f.next <= Size(w)
      BY <1>4, <1>8, <2>1 DEF OnRoute
    <2>3. /\ IsRec(c) /\ c.next = f.next
          /\ c.type = f.type /\ c.prompt = f.prompt /\ c.contexts = f.contexts /\ c.each = f.each
          /\ c.forceNs = f.forceNs /\ c.forceCtx = f.forceCtx
          /\ c.plans = f.plans /\ c.queue = f.queue /\ c.approve = f.approve
      <3>1. PICK ns, ctx : ns = Or(f.seen.ns, f.ns) /\ ctx = Or(f.seen.ctx, f.ctx)
        OBVIOUS
      <3>2. c = [f EXCEPT !.ns = ns, !.ctx = ctx]
        BY <1>4, <3>1, <2>1 DEF Carried
      <3>3. QED
        BY <2>1, <3>2 DEF IsRec, Fields
    <2>4. /\ h.type = f.type /\ h.prompt = f.prompt /\ h.contexts = f.contexts /\ h.each = f.each
          /\ h.forceNs = f.forceNs /\ h.forceCtx = f.forceCtx /\ h.ns = c.ns /\ h.ctx = c.ctx
          /\ h.plans = f.plans /\ h.queue = f.queue /\ h.approve = f.approve
          /\ h.next = f.next + 1 /\ h.at = "step"
      BY <1>5, <2>3 DEF IsRec, Fields
    <2>5. Keeps(h, w.req)
      BY <2>2, <2>3, <2>4 DEF Keeps
    <2>6. \A i \in 1..(h.next - 1) : Whole(i, w)
      <3>1. \A i \in 1..(f.next - 1) : Whole(i, w)
        BY <2>1 DEF OnRoute
      <3>2. QED
        BY <2>1, <2>2, <2>4, <3>1
    <2>7. h.next <= Size(w) + 1 /\ Lined(h.queue, h.next, w)
      BY <2>1, <2>2, <2>4
    <2>8. OnRoute(h, w)
      BY <2>1, <2>2, <2>4, <2>5, <2>6, <2>7 DEF OnRoute
    <2>9. OnRoute(h, v) /\ Size(v) > 1
      BY <1>1, <1>3, <2>8, OnRouteOn, DidOn DEF AtRoute
    <2>10. QED
      BY <1>2, <1>3, <1>8, <2>9, RouteStays DEF AtRoute, DoneWell
  <1>9. QED
    BY <1>6, <1>7, <1>8

LEMMA RouteEndsLands ==
    ASSUME IInv, Shape(stack, Actual), RouteEnds, NEW v, v = Actual', Onward(Actual, v)
    PROVE  Lands(v) /\ DoneWell(Actual)
  <1>1. PICK w, f : w = Actual /\ f = Top
    OBVIOUS
  <1>2. Running("route", "step") /\ done' = done /\ Return(Below, "ok", TRUE)
    BY DEF RouteEnds, Quiet
  <1>3. AtRoute(w, f, "step")
    BY <1>1, <1>2, AtRouteIs
  <1>4. f.next > Size(w) /\ f.next \in Nat /\ Size(w) \in Nat /\ OnRoute(f, w) /\ IsStack(stack) /\ stack # <<>>
        /\ Len(stack) = 1
    BY <1>1, <1>3 DEF RouteEnds, AtRoute, Size
  <1>5. f.next - 1 = Size(w)
    BY <1>4 DEF OnRoute
  <1>6. \A j \in 1..Size(w) : Whole(j, w)
    BY <1>4, <1>5 DEF OnRoute
  <1>7. \A j \in 1..Size(v) : Whole(j, v)
    BY <1>1, <1>6, DidOn
  <1>8. PICK how, applied : how = "ok" /\ applied = TRUE
    OBVIOUS
  <1>9. Return(Below, how, applied)
    BY <1>2, <1>8
  <1>10. Closes(how, applied)
    BY <1>4, <1>9, BelowReturns
  <1>11. QED
    BY <1>2, <1>7, <1>10 DEF Closes, Lands, DoneWell

-------------------------------------------------------------------------------

(***************************************************************************)
(* A fan-out, context by context.                                          *)
(***************************************************************************)
AtFan(w, b, i, f, at) ==
    /\ IsStack(stack) /\ stack # <<>> /\ Serves(stack, b, i, w) /\ Len(stack) = b + 1
    /\ f = Top /\ f.type = "fan" /\ f.at = at /\ Tasked(f, i, w) /\ Fanning(f, i, w)
    /\ IsRec(f) /\ AreSet(f.todo) /\ AreSet(f.contexts) /\ f.applied \in BOOLEAN /\ ~f.auto

LEMMA AtFanIs ==
    ASSUME IInv, Shape(stack, Actual), NEW at, Running("fan", at), NEW w, w = Actual, NEW f, f = Top
    PROVE  \E b, i : AtFan(w, b, i, f, at)
  <1>1. PICK n : n = Len(stack) /\ f = stack[n]
    BY DEF Top
  <1>2. f.type = "fan" /\ f.at = at /\ stack # <<>>
    BY DEF Running
  <1>3. ~Apart(stack, w)
    <2>1. PICK r : r = w.req
      OBVIOUS
    <2>2. FrameOf(r).type = "run"
      BY FrameIs
    <2>3. QED
      BY <1>1, <1>2, <2>1, <2>2 DEF Apart, OnRoute
  <1>4. PICK b, i : Serves(stack, b, i, w)
    BY <1>3, ServesShape
  <1>5. b \in 0..1 /\ (n = b + 1 \/ n = b + 2)
    BY <1>1, <1>4, ServesPlace
  <1>6. n = b + 1 /\ Tasked(f, i, w)
    <2>1. n # b + 2
      <3>1. SUFFICES ASSUME n = b + 2 PROVE FALSE
        OBVIOUS
      <3>2. Child(stack[n], stack[b+1], i, w)
        BY <1>1, <1>4, <1>5, <3>1 DEF Serves, TaskAt
      <3>3. QED
        BY <1>1, <1>2, <3>2 DEF Child, Conduct
    <2>2. QED
      BY <1>1, <1>4, <1>5, <2>1 DEF Serves, TaskAt
  <1>7. Fanning(f, i, w)
    BY <1>2, <1>6 DEF Tasked
  <1>8. AllSane(stack, w) /\ IsStack(stack)
    BY SaneStack DEF IInv
  <1>9. Sane(f, w)
    BY <1>1, <1>5, <1>6, <1>8 DEF AllSane
  <1>10. /\ AsCalled(f, w) /\ Asked(f, w) /\ Fan(f, w) /\ IsRec(f) /\ AreSet(f.todo) /\ ~f.auto
    BY <1>2, <1>9, FanIs
  <1>11. QED
    BY <1>1, <1>2, <1>4, <1>6, <1>7, <1>8, <1>10 DEF AtFan, AsCalled

\* What the call at work on a step is called from stays as it is.
LEMMA BaseStays ==
    ASSUME NEW w, NEW v, Onward(w, v), NEW s, NEW t, NEW b, NEW i, Base(s, b, i, w),
           s[b+1].at # "start", t[b+1].at # "start", b = 1 => t[1] = s[1]
    PROVE  Base(t, b, i, v)
  <1>1. v.req = w.req /\ Size(v) = Size(w) /\ \A q, j : Lined(q, j, w) => Lined(q, j, v)
    BY DidOn
  <1>2. CASE b = 0
    BY <1>1, <1>2 DEF Base
  <1>3. CASE b = 1
    <2>1. PICK c : c = s[1] /\ c = t[1]
      BY <1>3
    <2>2. i = c.next /\ Size(w) > 1 /\ OnRoute(c, w) /\ Waits(c) /\ s[2].at # "start" /\ t[2].at # "start"
      BY <1>3, <2>1 DEF Base
    <2>3. Lined(c.queue, i + 1, w)
      BY <1>3, <2>1, <2>2 DEF Base
    <2>4. OnRoute(c, v) /\ Lined(c.queue, i + 1, v)
      BY <1>1, <2>2, <2>3, OnRouteOn
    <2>5. QED
      BY <1>1, <1>3, <2>1, <2>2, <2>4 DEF Base
  <1>4. QED
    BY <1>2, <1>3 DEF Base

LEMMA FanStays ==
    ASSUME NEW w, NEW v, Onward(w, v), NEW b, NEW i, NEW f, NEW at, AtFan(w, b, i, f, at), at # "start",
           NEW g, Become(g), Tasked(g, i, v), g.at # "start"
    PROVE  Lands(v)
  <1>1. PICK t, s : t = stack' /\ s = stack
    OBVIOUS
  <1>2. IsStack(s) /\ s # <<>> /\ Serves(s, b, i, w) /\ Len(s) = b + 1 /\ f = s[b+1] /\ f.at # "start"
    BY <1>1 DEF AtFan, Top
  <1>3. Replaced(s, t, g) /\ outcome' = outcome
    BY <1>1, <1>2, BecomeForm
  <1>4. b \in 0..1
    BY <1>2, ServesPlace
  <1>5. IsSeq(t) /\ Len(t) = b + 1 /\ t[b+1] = g /\ (b = 1 => t[1] = s[1])
    BY <1>2, <1>3, <1>4 DEF Replaced
  <1>6. Base(t, b, i, v)
    <2>1. Base(s, b, i, w) /\ s[b+1].at # "start" /\ t[b+1].at # "start"
      BY <1>2, <1>5 DEF Serves
    <2>2. QED
      BY <1>5, <2>1, BaseStays
  <1>7. TaskAt(t, b, i, v)
    BY <1>5 DEF TaskAt
  <1>8. Shape(t, v)
    BY <1>6, <1>7, ServesShape DEF Serves
  <1>9. t # <<>>
    BY <1>4, <1>5, EmptyIs
  <1>10. QED
    BY <1>1, <1>3, <1>8, <1>9 DEF Lands

LEMMA FanCalls ==
    ASSUME NEW w, NEW v, Onward(w, v), NEW b, NEW i, NEW f, NEW at, AtFan(w, b, i, f, at), at # "start",
           NEW g, NEW h, Call(g, h), Tasked(g, i, v), g.type = "fan", Waits(g), Child(h, g, i, v)
    PROVE  Lands(v)
  <1>1. PICK t, s : t = stack' /\ s = stack
    OBVIOUS
  <1>2. IsStack(s) /\ s # <<>> /\ Serves(s, b, i, w) /\ Len(s) = b + 1 /\ f = s[b+1] /\ f.at # "start"
    BY <1>1 DEF AtFan, Top
  <1>3. b \in 0..1
    BY <1>2, ServesPlace
  <1>4. CASE Overflows
    BY <1>4, OverflowLands
  <1>5. CASE Pushed(stack, stack', g, h) /\ outcome' = outcome
    <2>1. IsSeq(t) /\ Len(t) = b + 2 /\ t[b+1] = g /\ t[b+2] = h /\ (b = 1 => t[1] = s[1])
      BY <1>1, <1>2, <1>3, <1>5 DEF Pushed
    <2>2. Base(t, b, i, v)
      <3>1. Base(s, b, i, w) /\ s[b+1].at # "start" /\ t[b+1].at # "start"
        BY <1>2, <2>1 DEF Serves, Waits
      <3>2. QED
        BY <2>1, <3>1, BaseStays
    <2>3. TaskAt(t, b, i, v)
      BY <2>1 DEF TaskAt
    <2>4. Shape(t, v)
      BY <2>2, <2>3, ServesShape DEF Serves
    <2>5. t # <<>>
      BY <1>3, <2>1, EmptyIs
    <2>6. QED
      BY <1>1, <1>5, <2>4, <2>5 DEF Lands
  <1>6. QED
    BY <1>1, <1>2, <1>4, <1>5, CallForm

\* The fan-out g that waits for the call h it makes for the next context.
ContextCall(g, h, f, approved) ==
    /\ g.at = "back" /\ g.seen = NoDoc /\ g.back = "none" /\ g.todo = Tail(f.todo) /\ g.queue = <<f.plan.intent>>
    /\ \A x \in Fields \ {"at", "seen", "back", "todo", "queue"} : g[x] = f[x]
    /\ h.type = "run" /\ h.at = "start" /\ h.prompt = f.prompt /\ h.ns = f.ns /\ h.forceNs = f.forceNs
    /\ h.approve = approved /\ h.auto = (approved \/ f.auto) /\ h.child /\ h.ctx = Head(f.todo) /\ h.forceCtx

\* The next context of a fan-out, and those after it.
NextIs(f, g, ctx) ==
    /\ Taken(f) \in Nat /\ Taken(g) = Taken(f) + 1 /\ ctx = f.contexts[Taken(g)] /\ Len(g.todo) <= Len(f.contexts)
    /\ \A j \in 1..Len(g.todo) : g.todo[j] = f.contexts[Taken(g) + j]

LEMMA TakesNext ==
    ASSUME NEW w, NEW i, NEW f, Fanning(f, i, w), AreSet(f.todo), AreSet(f.contexts), f.todo # <<>>,
           NEW g, g.todo = Tail(f.todo), g.contexts = f.contexts, NEW ctx, ctx = Head(f.todo)
    PROVE  NextIs(f, g, ctx)
  <1>1. PICK q, r, s : q = f.todo /\ r = g.todo /\ s = f.contexts
    OBVIOUS
  <1>2. IsSeq(q) /\ Len(q) \in Nat /\ Len(q) > 0 /\ Len(s) \in Nat /\ Len(q) <= Len(s)
    BY <1>1, EmptyIs DEF AreSet, IsSeq, Fanning
  <1>3. Len(r) = Len(q) - 1 /\ \A j \in 1..(Len(q) - 1) : r[j] = q[j+1]
    BY <1>1, <1>2, TailIs
  <1>4. PICK k, l, n, m : k = Len(s) /\ l = Len(q) /\ n = Len(r) /\ m = k - l
    OBVIOUS
  <1>5. m \in Nat /\ m = Taken(f) /\ Taken(g) = m + 1 /\ Len(r) <= Len(s)
    <2>1. k \in Nat /\ l \in Nat /\ l > 0 /\ l <= k /\ n = l - 1
      BY <1>2, <1>3, <1>4
    <2>2. m \in Nat /\ k - n = m + 1 /\ n <= k
      BY <1>4, <2>1
    <2>3. Taken(f) = k - l /\ Taken(g) = k - n
      BY <1>1, <1>4 DEF Taken
    <2>4. QED
      BY <1>4, <2>2, <2>3
  <1>6. \A j \in 1..Len(q) : q[j] = s[m + j]
    BY <1>1, <1>5 DEF Fanning
  <1>7. ctx = q[1]
    BY <1>1, <1>2
  <1>8. ctx = s[m + 1]
    BY <1>2, <1>6, <1>7
  <1>9. \A j \in 1..Len(r) : r[j] = s[(m + 1) + j]
    <2>1. SUFFICES ASSUME NEW j \in 1..Len(r) PROVE r[j] = s[(m + 1) + j]
      OBVIOUS
    <2>2. r[j] = q[j+1] /\ j + 1 \in 1..Len(q) /\ m + (j + 1) = (m + 1) + j
      <3>1. j \in 1..(l - 1) /\ l \in Nat /\ m \in Nat
        BY <1>2, <1>3, <1>4, <1>5
      <3>2. j + 1 \in 1..l /\ m + (j + 1) = (m + 1) + j
        BY <3>1
      <3>3. QED
        BY <1>3, <1>4, <3>1, <3>2
    <2>3. q[j+1] = s[m + (j + 1)]
      BY <1>6, <2>2
    <2>4. QED
      BY <2>2, <2>3
  <1>10. QED
    BY <1>1, <1>5, <1>8, <1>9 DEF NextIs

LEMMA FanWaits ==
    ASSUME NEW w, NEW v, Onward(w, v), NEW b, NEW i, NEW f, AtFan(w, b, i, f, "next"), f.todo # <<>>,
           NEW g, NEW h, NEW approved, ContextCall(g, h, f, approved)
    PROVE  Tasked(g, i, v) /\ g.type = "fan" /\ Waits(g)
  <1>1. /\ g.type = f.type /\ g.prompt = f.prompt /\ g.contexts = f.contexts /\ g.each = f.each /\ g.child = f.child
        /\ g.forceNs = f.forceNs /\ g.forceCtx = f.forceCtx /\ g.ns = f.ns /\ g.ctx = f.ctx
        /\ g.plan = f.plan /\ g.applied = f.applied /\ g.todo = Tail(f.todo)
        /\ g.at = "back" /\ g.seen = NoDoc
    BY DEF ContextCall, Fields
  <1>2. Fanning(f, i, w) /\ Tasked(f, i, w) /\ f.at = "next" /\ f.type = "fan" /\ AreSet(f.todo) /\ AreSet(f.contexts)
    BY DEF AtFan
  <1>3. PICK ctx : ctx = Head(f.todo) /\ NextIs(f, g, ctx)
    BY <1>1, <1>2, TakesNext
  <1>4. /\ v.req = w.req /\ Size(v) = Size(w) /\ Single(v) = Single(w) /\ Goal(i, v) = Goal(i, w)
        /\ \A c : Through(i, c, w) => Through(i, c, v)
    BY DidOn
  <1>5. ~Ended(g) /\ Waits(g)
    BY <1>1 DEF Ended, Waits
  <1>6. PlannedBy(g)
    BY <1>1, <1>2 DEF Fanning, PlannedBy
  <1>7. Taken(g) > 0 /\ Taken(g) - 1 = Taken(f)
    BY <1>3 DEF NextIs
  <1>8. g.applied => \A k \in 1..(Taken(g) - 1) : Through(i, g.contexts[k], v)
    <2>1. f.applied => \A k \in 1..Taken(f) : Through(i, f.contexts[k], w)
      BY <1>2 DEF Fanning
    <2>2. QED
      BY <1>1, <1>4, <1>7, <2>1
  <1>9. Fanning(g, i, v)
    BY <1>1, <1>2, <1>3, <1>4, <1>5, <1>6, <1>7, <1>8 DEF Fanning, NextIs
  <1>10. Keeps(g, v.req)
    BY <1>1, <1>2, <1>4 DEF Tasked, Keeps
  <1>11. QED
    BY <1>1, <1>2, <1>4, <1>5, <1>9, <1>10 DEF Tasked

LEMMA ContextBegins ==
    ASSUME NEW w, NEW v, Onward(w, v), NEW b, NEW i, NEW f, AtFan(w, b, i, f, "next"), f.todo # <<>>,
           NEW g, NEW h, NEW approved, approved \in BOOLEAN, ContextCall(g, h, f, approved),
           NEW ctx, ctx = Head(f.todo), approved => Licensed(i, ctx, v)
    PROVE  Child(h, g, i, v)
  <1>1. /\ g.prompt = f.prompt /\ g.contexts = f.contexts /\ g.forceNs = f.forceNs /\ g.ns = f.ns
        /\ g.plan = f.plan /\ g.todo = Tail(f.todo) /\ g.queue = <<g.plan.intent>>
    BY DEF ContextCall, Fields
  <1>2. Fanning(f, i, w) /\ Tasked(f, i, w) /\ f.type = "fan" /\ AreSet(f.todo) /\ AreSet(f.contexts) /\ ~f.auto
    BY DEF AtFan
  <1>3. NextIs(f, g, ctx)
    BY <1>1, <1>2, TakesNext
  <1>4. ctx = g.contexts[Taken(g)]
    BY <1>1, <1>3 DEF NextIs
  <1>5. /\ h.type = "run" /\ h.at = "start" /\ h.prompt = f.prompt /\ h.ns = f.ns /\ h.forceNs = f.forceNs
        /\ (h.approve \/ h.auto => approved) /\ h.child /\ h.ctx = ctx /\ h.forceCtx
    BY <1>2 DEF ContextCall
  <1>6. f.prompt = StepsOf(v.req)[i]
    BY <1>2, DidOn DEF Tasked
  <1>7. Conduct(h, i, ctx, v)
    BY <1>5, <1>6 DEF Conduct
  <1>8. QED
    BY <1>1, <1>4, <1>5, <1>7 DEF Child

LEMMA RunContextLands ==
    ASSUME NEW w, NEW v, Onward(w, v), NEW b, NEW i, NEW f, AtFan(w, b, i, f, "next"), f.todo # <<>>,
           NEW approved, approved \in BOOLEAN, RunContext(f, approved),
           NEW ctx, ctx = Head(f.todo), approved => Licensed(i, ctx, v)
    PROVE  Lands(v)
  <1>1. PICK r : r = Frame
    OBVIOUS
  <1>2. PICK g : g = [f EXCEPT !.todo = Tail(@), !.at = "back", !.queue = <<f.plan.intent>>,
                   !.seen = NoDoc, !.back = "none"]
    OBVIOUS
  <1>3. PICK c : c = [r EXCEPT !.prompt = f.prompt, !.ns = f.ns, !.forceNs = f.forceNs,
                       !.contexts = <<>>, !.approve = approved, !.each = FALSE,
                       !.child = TRUE, !.auto = approved \/ f.auto, !.json = FALSE]
    OBVIOUS
  <1>4. PICK h : h = [c EXCEPT !.ctx = ctx, !.forceCtx = TRUE]
    OBVIOUS
  <1>5. Call(g, h)
    BY <1>1, <1>2, <1>3, <1>4 DEF RunContext, InContext
  <1>6. IsRec(f)
    BY DEF AtFan
  <1>7. IsRec(r) /\ r.type = "run" /\ r.at = "start"
    BY <1>1, FrameIs DEF Frame
  <1>8. ContextCall(g, h, f, approved)
    <2>1. /\ g.at = "back" /\ g.seen = NoDoc /\ g.back = "none" /\ g.todo = Tail(f.todo) /\ g.queue = <<f.plan.intent>>
          /\ \A x \in Fields \ {"at", "seen", "back", "todo", "queue"} : g[x] = f[x]
      BY <1>2, <1>6 DEF IsRec, Fields
    <2>2. /\ IsRec(c) /\ c.type = "run" /\ c.at = "start" /\ c.prompt = f.prompt /\ c.ns = f.ns /\ c.forceNs = f.forceNs
          /\ c.approve = approved /\ c.auto = (approved \/ f.auto) /\ c.child = TRUE
      BY ZenonT(60), <1>3, <1>7 DEF IsRec, Fields
    <2>3. /\ h.type = c.type /\ h.at = c.at /\ h.prompt = c.prompt /\ h.ns = c.ns /\ h.forceNs = c.forceNs
          /\ h.approve = c.approve /\ h.auto = c.auto /\ h.child = c.child /\ h.ctx = ctx /\ h.forceCtx = TRUE
      BY <1>4, <2>2 DEF IsRec, Fields
    <2>4. QED
      BY <2>1, <2>2, <2>3 DEF ContextCall
  <1>9. Tasked(g, i, v) /\ g.type = "fan" /\ Waits(g)
    BY <1>8, FanWaits
  <1>10. Child(h, g, i, v)
    BY <1>8, ContextBegins
  <1>11. PICK at : at = "next" /\ AtFan(w, b, i, f, at)
    OBVIOUS
  <1>12. QED
    BY <1>5, <1>9, <1>10, <1>11, FanCalls

LEMMA ReadContextLands ==
    ASSUME IInv, Shape(stack, Actual), ReadContext, NEW v, v = Actual', Onward(Actual, v)
    PROVE  Lands(v) /\ DoneWell(Actual)
  <1>1. PICK w, f : w = Actual /\ f = Top
    OBVIOUS
  <1>2. PICK approved : approved = FALSE
    OBVIOUS
  <1>3. Running("fan", "next") /\ f.todo # <<>> /\ RunContext(f, approved) /\ done' = done
    BY <1>1, <1>2 DEF ReadContext, Quiet
  <1>4. PICK b, i : AtFan(w, b, i, f, "next")
    BY <1>1, <1>3, AtFanIs
  <1>5. approved \in BOOLEAN /\ (approved => Licensed(i, Head(f.todo), v))
    BY <1>2
  <1>6. QED
    BY <1>1, <1>3, <1>4, <1>5, RunContextLands DEF DoneWell

\* The consent to a context is one to what the step does there.
LEMMA ContextLicensed ==
    ASSUME NEW w, NEW v, Onward(w, v), v.agreed = agreed', NEW b, NEW i, NEW f, AtFan(w, b, i, f, "next"),
           ~IsReadOnly(f.plan), NEW ctx, NEW flag, flag = (f.each \/ f.auto),
           Agree(flag, "yes", {Consent(f.plan, ctx)})
    PROVE  Licensed(i, ctx, v)
  <1>1. /\ Fanning(f, i, w) /\ Tasked(f, i, w) /\ ~f.auto
    BY DEF AtFan
  <1>2. PICK p, q : p = f.plan /\ q = Goal(i, v)
    OBVIOUS
  <1>3. p.approval /\ Meets(p, Goal(i, w)) /\ ~Single(w)
    BY <1>1, <1>2 DEF Fanning
  <1>4. v.req = w.req /\ q = Goal(i, w) /\ ~Single(v)
    BY <1>2, <1>3, DidOn
  <1>5. q # NoPlan /\ q.approval /\ Shown(p) = Shown(q)
    BY <1>3, <1>4 DEF Meets
  <1>6. f.each = v.req.each
    BY <1>1, <1>4 DEF Tasked
  <1>7. CASE f.each
    BY <1>2, <1>4, <1>5, <1>6, <1>7 DEF Licensed
  <1>8. CASE ~f.each
    <2>1. <<Shown(p), ctx>> \in v.agreed
      BY <1>1, <1>2, <1>8 DEF Agree, Consent
    <2>2. <<Shown(q), ctx>> \in v.agreed
      BY <1>5, <2>1
    <2>3. QED
      BY <1>2, <1>5, <2>2 DEF Licensed
  <1>9. QED
    BY <1>7, <1>8

\* A fan-out goes on.
FanNext(g, f) ==
    /\ g.type = f.type /\ g.at = "next" /\ g.prompt = f.prompt /\ g.contexts = f.contexts /\ g.each = f.each
    /\ g.child = f.child /\ g.forceNs = f.forceNs /\ g.forceCtx = f.forceCtx /\ g.ns = f.ns /\ g.ctx = f.ctx
    /\ g.plan = f.plan

LEMMA FanGoes ==
    ASSUME NEW w, NEW v, Onward(w, v), NEW b, NEW i, NEW f, NEW at, AtFan(w, b, i, f, at), at # "start",
           NEW g, FanNext(g, f), Become(g), Len(g.todo) <= Len(f.contexts),
           \A j \in 1..Len(g.todo) : g.todo[j] = f.contexts[Taken(g) + j],
           g.applied => \A k \in 1..Taken(g) : Through(i, f.contexts[k], w)
    PROVE  Lands(v)
  <1>1. Fanning(f, i, w) /\ Tasked(f, i, w) /\ f.type = "fan"
    BY DEF AtFan
  <1>2. /\ v.req = w.req /\ Size(v) = Size(w) /\ Single(v) = Single(w) /\ Goal(i, v) = Goal(i, w)
        /\ \A c : Through(i, c, w) => Through(i, c, v)
    BY DidOn
  <1>3. PlannedBy(g)
    BY <1>1 DEF Fanning, PlannedBy, FanNext
  <1>4. g.applied => \A k \in 1..Taken(g) : Through(i, f.contexts[k], v)
    BY <1>2
  <1>5. Fanning(g, i, v)
    BY <1>1, <1>2, <1>3, <1>4 DEF Fanning, FanNext
  <1>6. Keeps(g, v.req)
    BY <1>1, <1>2 DEF Tasked, Keeps, FanNext
  <1>7. Tasked(g, i, v) /\ g.at # "start"
    BY <1>1, <1>2, <1>5, <1>6 DEF Tasked, FanNext
  <1>8. QED
    BY <1>7, FanStays

LEMMA ApproveContextLands ==
    ASSUME IInv, Shape(stack, Actual), ApproveContext, NEW v, v = Actual', Onward(Actual, v)
    PROVE  Lands(v) /\ DoneWell(Actual)
  <1>1. PICK w, f : w = Actual /\ f = Top
    OBVIOUS
  <1>2. Running("fan", "next") /\ f.todo # <<>> /\ ~IsReadOnly(f.plan) /\ done' = done
    BY <1>1 DEF ApproveContext
  <1>3. PICK b, i : AtFan(w, b, i, f, "next")
    BY <1>1, <1>2, AtFanIs
  <1>4. PICK flag, ctx : flag = (f.each \/ f.auto) /\ ctx = Head(f.todo)
    OBVIOUS
  <1>5. PICK g : g = [f EXCEPT !.todo = Tail(@), !.applied = FALSE]
    OBVIOUS
  <1>6. PICK reply : /\ CASE reply = "yes" -> RunContext(f, TRUE)
                          [] reply = "no" -> Become(g)
                          [] OTHER -> Fail
                     /\ Agree(flag, reply, {Consent(f.plan, ctx)})
    BY <1>1, <1>4, <1>5 DEF ApproveContext
  <1>7. CASE reply = "yes"
    <2>1. PICK approved : approved = TRUE
      OBVIOUS
    <2>2. RunContext(f, approved) /\ Agree(flag, "yes", {Consent(f.plan, ctx)})
      BY <1>6, <1>7, <2>1
    <2>3. v.agreed = agreed'
      BY DEF Actual
    <2>4. Licensed(i, ctx, v)
      BY <1>1, <1>2, <1>3, <1>4, <2>2, <2>3, ContextLicensed
    <2>5. approved \in BOOLEAN /\ (approved => Licensed(i, Head(f.todo), v))
      BY <1>4, <2>1, <2>4
    <2>6. QED
      BY <1>1, <1>2, <1>3, <2>2, <2>5, RunContextLands DEF DoneWell
  <1>8. CASE reply = "no"
    <2>1. Become(g)
      BY <1>6, <1>8
    <2>2. FanNext(g, f) /\ g.todo = Tail(f.todo) /\ g.contexts = f.contexts /\ ~g.applied
      BY <1>3, <1>5 DEF FanNext, AtFan, IsRec, Fields
    <2>3. Fanning(f, i, w) /\ AreSet(f.todo) /\ AreSet(f.contexts)
      BY <1>3 DEF AtFan
    <2>4. NextIs(f, g, ctx)
      BY <1>2, <1>4, <2>2, <2>3, TakesNext
    <2>5. Len(g.todo) <= Len(f.contexts) /\ \A j \in 1..Len(g.todo) : g.todo[j] = f.contexts[Taken(g) + j]
      BY <2>4 DEF NextIs
    <2>6. QED
      BY <1>1, <1>2, <1>3, <2>1, <2>2, <2>5, FanGoes DEF DoneWell
  <1>9. CASE reply # "yes" /\ reply # "no"
    <2>1. Fail
      BY <1>6, <1>9
    <2>2. QED
      BY <1>1, <1>2, <1>3, <2>1, FailEnds DEF AtFan, DoneWell
  <1>10. QED
    BY <1>7, <1>8, <1>9

LEMMA ContextReturnsLands ==
    ASSUME IInv, Shape(stack, Actual), ContextReturns, NEW v, v = Actual', Onward(Actual, v)
    PROVE  Lands(v) /\ DoneWell(Actual)
  <1>1. PICK w, f : w = Actual /\ f = Top
    OBVIOUS
  <1>2. Running("fan", "back") /\ done' = done
    BY DEF ContextReturns, Quiet
  <1>3. PICK b, i : AtFan(w, b, i, f, "back")
    BY <1>1, <1>2, AtFanIs
  <1>4. PICK failed : failed = (\/ f.back = "error" \/ f.seen = NoDoc \/ f.seen.denied
                                \/ ~IsReadOnly(f.plan) /\ ~f.seen.applied)
    OBVIOUS
  <1>5. PICK g : g = [f EXCEPT !.applied = @ /\ ~failed, !.at = "next"]
    OBVIOUS
  <1>6. Become(g)
    BY <1>1, <1>4, <1>5 DEF ContextReturns
  <1>7. FanNext(g, f) /\ g.todo = f.todo /\ g.contexts = f.contexts /\ g.applied = (f.applied /\ ~failed)
    BY <1>3, <1>5 DEF FanNext, AtFan, IsRec, Fields
  <1>8. Fanning(f, i, w) /\ f.at = "back"
    BY <1>3 DEF AtFan
  <1>9. Taken(g) = Taken(f) /\ Taken(f) > 0 /\ Taken(f) \in Int
    <2>1. Taken(g) = Taken(f) /\ Taken(f) > 0
      BY <1>7, <1>8 DEF Taken, Fanning
    <2>2. Len(f.contexts) \in Nat /\ Len(f.todo) \in Nat
      BY <1>3 DEF AtFan, AreSet, IsSeq
    <2>3. Taken(f) \in Int
      <3>1. PICK k, l : k = Len(f.contexts) /\ l = Len(f.todo)
        OBVIOUS
      <3>2. k - l \in Int /\ Taken(f) = k - l
        BY <2>2, <3>1 DEF Taken
      <3>3. QED
        BY <3>2
    <2>4. QED
      BY <2>1, <2>3
  <1>10. ~failed => Through(i, f.contexts[Taken(f)], w)
    <2>1. PICK ctx, p, q : ctx = f.contexts[Taken(f)] /\ p = f.plan /\ q = Goal(i, w)
      OBVIOUS
    <2>2. Meets(p, q) /\ (Ended(f) => Through(i, ctx, w))
      BY <1>8, <2>1 DEF Fanning
    <2>3. CASE IsReadOnly(p)
      <3>1. ~Due(i, w)
        BY <2>1, <2>2, <2>3 DEF Meets, Due, IsReadOnly
      <3>2. QED
        BY <2>1, <3>1 DEF Through
    <2>4. CASE ~IsReadOnly(p)
      BY <1>4, <2>1, <2>2, <2>4 DEF Ended
    <2>5. QED
      BY <2>3, <2>4
  <1>11. g.applied => \A k \in 1..Taken(g) : Through(i, f.contexts[k], w)
    <2>1. SUFFICES ASSUME g.applied, NEW k \in 1..Taken(g) PROVE Through(i, f.contexts[k], w)
      OBVIOUS
    <2>2. f.applied /\ ~failed
      BY <1>7, <2>1
    <2>3. \A j \in 1..(Taken(f) - 1) : Through(i, f.contexts[j], w)
      BY <1>8, <2>2 DEF Fanning
    <2>4. k \in 1..(Taken(f) - 1) \/ k = Taken(f)
      BY <1>9
    <2>5. QED
      BY <1>10, <2>2, <2>3, <2>4
  <1>12. Len(g.todo) <= Len(f.contexts) /\ \A j \in 1..Len(g.todo) : g.todo[j] = f.contexts[Taken(g) + j]
    BY <1>7, <1>8, <1>9 DEF Fanning
  <1>13. QED
    BY <1>1, <1>2, <1>3, <1>6, <1>7, <1>11, <1>12, FanGoes DEF DoneWell

LEMMA FanEndsLands ==
    ASSUME IInv, Shape(stack, Actual), FanEnds, NEW v, v = Actual', Onward(Actual, v)
    PROVE  Lands(v) /\ DoneWell(Actual)
  <1>1. PICK w, f : w = Actual /\ f = Top
    OBVIOUS
  <1>2. Running("fan", "next") /\ done' = done /\ f.todo = <<>> /\ Return(Below, "ok", f.applied)
    BY <1>1 DEF FanEnds, Quiet
  <1>3. PICK b, i : AtFan(w, b, i, f, "next")
    BY <1>1, <1>2, AtFanIs
  <1>4. PICK how, applied : how = "ok" /\ applied = f.applied
    OBVIOUS
  <1>5. PICK p, c : p = [c EXCEPT !.back = how] /\ c = Caller
    OBVIOUS
  <1>6. /\ IsStack(stack) /\ stack # <<>> /\ Serves(stack, b, i, w) /\ Len(stack) = b + 1
        /\ Fanning(f, i, w) /\ Tasked(f, i, w) /\ f.at = "next" /\ AreSet(f.contexts)
    BY <1>3 DEF AtFan
  <1>7. b \in 0..1
    BY <1>6, ServesPlace
  <1>8. /\ Len(stack) = 1 => Closes(how, applied)
        /\ Nested => Back(p)
    <2>1. Return(Below, how, applied)
      BY <1>2, <1>4
    <2>2. QED
      BY <1>5, <1>6, <2>1, BelowReturns
  <1>9. Len(stack) > 1 => IsRec(c) /\ Waits(c)
    <2>1. SUFFICES ASSUME Len(stack) > 1 PROVE IsRec(c) /\ Waits(c)
      OBVIOUS
    <2>2. b = 1 /\ c = stack[1] /\ Len(stack) = 2
      BY <1>5, <1>6, <1>7, <2>1 DEF Caller
    <2>3. QED
      BY <1>6, <2>2 DEF Serves, Base, IsStack
  <1>10. Len(stack) > 1 => Alike(c, p) /\ ~Ended(p)
    BY <1>5, <1>9 DEF Alike, IsRec, Fields, Waits, Ended
  <1>11. f.applied => Whole(i, v)
    <2>1. SUFFICES ASSUME f.applied PROVE Whole(i, w)
      BY <1>1, DidOn
    <2>2. Taken(f) = Len(f.contexts) /\ Len(f.contexts) \in Nat
      BY <1>2, <1>6 DEF Taken, AreSet, IsSeq
    <2>3. \A k \in 1..Len(f.contexts) : Through(i, f.contexts[k], w)
      BY <1>6, <2>1, <2>2 DEF Fanning
    <2>4. ~Single(w) /\ f.contexts = w.req.contexts
      BY <1>6 DEF Tasked, Fanning
    <2>5. DOMAIN f.contexts = 1..Len(f.contexts)
      BY <1>6 DEF AreSet, IsSeq
    <2>6. QED
      BY <2>3, <2>4, <2>5 DEF Whole
  <1>12. Len(stack) = 1 /\ how = "ok" /\ applied => Whole(1, v)
    <2>1. Len(stack) = 1 => i = 1
      <3>1. PICK s : s = stack /\ Base(s, b, i, w)
        BY <1>6 DEF Serves
      <3>2. b = 0 => i = 1
        BY <3>1 DEF Base
      <3>3. QED
        BY SMTT(60), <1>6, <1>7, <3>2
    <2>2. QED
      BY <1>4, <1>11, <2>1
  <1>13. /\ Len(stack) > 1 => Alike(Caller, p)
         /\ Len(stack) > 1 /\ Len(stack) = b + 1 /\ Ended(p) => Heard(p, v)
         /\ Len(stack) = b + 2 /\ Ended(p) => Through(i, Where(stack, b, i, w), v)
    BY <1>5, <1>6, <1>7, <1>10
  <1>14. QED
    BY <1>1, <1>2, <1>6, <1>8, <1>12, <1>13, CallEnds DEF DoneWell

-------------------------------------------------------------------------------

(***************************************************************************)
(* Every step, whatever it does, leaves the calls in the shape they are in *)
(* or ends the invocation as it should.                                    *)
(***************************************************************************)
LEMMA TaskedOn ==
    ASSUME NEW w, NEW v, Onward(w, v), NEW f, NEW i, Tasked(f, i, w)
    PROVE  Tasked(f, i, v)
  <1>1. /\ v.req = w.req /\ Size(v) = Size(w) /\ Single(v) = Single(w) /\ Goal(i, v) = Goal(i, w)
        /\ Site(i, v) = Site(i, w) /\ \A c : Through(i, c, w) => Through(i, c, v)
    BY DidOn
  <1>2. Fanning(f, i, w) => Fanning(f, i, v)
    BY <1>1 DEF Fanning
  <1>3. Conduct(f, i, Site(i, w), w) => Conduct(f, i, Site(i, v), v)
    <2>1. PICK ctx : ctx = Site(i, w)
      OBVIOUS
    <2>2. Conduct(f, i, ctx, w) => Conduct(f, i, ctx, v)
      BY ConductOn
    <2>3. QED
      BY <1>1, <2>1, <2>2
  <1>4. QED
    BY <1>1, <1>2, <1>3 DEF Tasked

LEMMA ChildOn ==
    ASSUME NEW w, NEW v, Onward(w, v), NEW f, NEW g, NEW i, Child(f, g, i, w)
    PROVE  Child(f, g, i, v)
  <1>1. PICK ctx : ctx = g.contexts[Taken(g)]
    OBVIOUS
  <1>2. Conduct(f, i, ctx, w)
    BY <1>1 DEF Child
  <1>3. Conduct(f, i, ctx, v)
    BY <1>2, ConductOn
  <1>4. QED
    BY <1>1, <1>3 DEF Child

LEMMA ServesOn ==
    ASSUME NEW w, NEW v, Onward(w, v), NEW s, NEW b, NEW i, Serves(s, b, i, w)
    PROVE  Serves(s, b, i, v)
  <1>1. v.req = w.req /\ Size(v) = Size(w) /\ \A q, j : Lined(q, j, w) => Lined(q, j, v)
    BY DidOn
  <1>2. TaskAt(s, b, i, v)
    <2>1. PICK f, h : f = s[b+1] /\ h = s[b+2]
      OBVIOUS
    <2>2. Tasked(f, i, v)
      BY <2>1, TaskedOn DEF Serves, TaskAt
    <2>3. Child(h, f, i, w) => Child(h, f, i, v)
      BY ChildOn
    <2>4. QED
      BY <2>1, <2>2, <2>3 DEF Serves, TaskAt
  <1>3. Base(s, b, i, v)
    <2>1. Base(s, b, i, w)
      BY DEF Serves
    <2>2. OnRoute(s[1], w) => OnRoute(s[1], v)
      BY OnRouteOn
    <2>3. QED
      BY <1>1, <2>1, <2>2 DEF Base
  <1>4. QED
    BY <1>2, <1>3 DEF Serves

LEMMA ShapeOn ==
    ASSUME NEW w, NEW v, Onward(w, v), NEW s, Shape(s, w)
    PROVE  Shape(s, v)
  <1>1. CASE Apart(s, w)
    <2>1. v.req = w.req /\ Size(v) = Size(w) /\ (OnRoute(s[1], w) => OnRoute(s[1], v))
      BY DidOn, OnRouteOn
    <2>2. Apart(s, v)
      BY <1>1, <2>1 DEF Apart
    <2>3. QED
      BY <2>2, ServesShape
  <1>2. CASE \E b, i : Serves(s, b, i, w)
    BY <1>2, ServesOn, ServesShape
  <1>3. QED
    BY <1>1, <1>2, ServesShape

LEMMA ChangeLands ==
    ASSUME Shape(stack, Actual), Change, NEW v, v = Actual', Onward(Actual, v)
    PROVE  Lands(v) /\ DoneWell(Actual)
  <1>1. PICK w, s : w = Actual /\ s = stack
    OBVIOUS
  <1>2. stack' = s /\ s # <<>> /\ outcome' = outcome /\ done' = done
    BY <1>1 DEF Change
  <1>3. Shape(s, v)
    BY <1>1, ShapeOn
  <1>4. QED
    BY <1>2, <1>3 DEF Lands, DoneWell

LEMMA KillLands ==
    ASSUME Kill, NEW v
    PROVE  Lands(v) /\ DoneWell(Actual)
  <1>1. stack' = <<>> /\ outcome'.how = "killed" /\ done' = done
    BY DEF Kill, Quiet
  <1>2. QED
    BY <1>1 DEF Lands, DoneWell

LEMMA StepLands ==
    ASSUME IInv, Flat, InStep, Shape(stack, Actual), Next
    PROVE  Onward(Actual, Actual') /\ Lands(Actual') /\ DoneWell(Actual)
  <1>1. PICK v : v = Actual'
    OBVIOUS
  <1>2. Onward(Actual, v)
    BY <1>1, StepOnto DEF Onto
  <1>3. CASE Plan
    BY <1>1, <1>2, <1>3, CheckPromptLands, LocalPromptLands, PlanFailsLands, BuildPlanLands, RouteBeginsLands,
       FanOutLands DEF Plan
  <1>4. CASE Read \/ OfferFix \/ AskFix \/ ApplyFix \/ FixApplied
    BY <1>1, <1>2, <1>4, ReadLands, OfferFixLands, AskFixLands, ApplyFixLands, FixAppliedLands
  <1>5. CASE Approve \/ OpenPR \/ Apply \/ Applied \/ Verify
    BY <1>1, <1>2, <1>5, ApproveLands, OpenPRLands, ApplyLands, AppliedLands, VerifyLands
  <1>6. CASE ApproveRoute \/ RunStep \/ StepReturns \/ RouteEnds
    BY <1>1, <1>2, <1>6, ApproveRouteLands, RunStepLands, StepReturnsLands, RouteEndsLands
  <1>7. CASE ReadContext \/ ApproveContext \/ ContextReturns \/ FanEnds
    BY <1>1, <1>2, <1>7, ReadContextLands, ApproveContextLands, ContextReturnsLands, FanEndsLands
  <1>8. CASE Change \/ Kill
    BY <1>1, <1>2, <1>8, ChangeLands, KillLands
  <1>9. QED
    BY <1>3, <1>4, <1>5, <1>6, <1>7, <1>8 DEF Next, Step

-------------------------------------------------------------------------------

(***************************************************************************)
(* What a request sets out to do is done in order, with consent, and in    *)
(* full.                                                                   *)
(***************************************************************************)

\* What a request sets out to do, step by step.
LEMMA PlannedIs ==
    ASSUME req \in Requests, Flat, NEW w, w.req = req, NEW n, n = Len(Steps)
    PROVE  /\ n \in Nat /\ n > 0 /\ n = Size(w) /\ DOMAIN Planned = 1..n
           /\ \A i \in 1..n : Planned[i] = Goal(i, w) /\ (Goal(i, w) # NoPlan => IsExecutionPlan(Goal(i, w)))
  <1>1. PICK r, f : r = req /\ f = FrameOf(r)
    OBVIOUS
  <1>2. n \in Nat /\ n = Size(w) /\ n = Len(StepsOf(r)) /\ DOMAIN StepsOf(r) = 1..n
    BY <1>1, StepsOfIs DEF Steps, Size
  <1>3. n > 0
    <2>1. PICK p, s : p = r.prompt /\ s = Steps
      OBVIOUS
    <2>2. s = <<p>> \/ n > 1
      BY <1>1, <2>1 DEF Flat
    <2>3. s = <<p>> => Len(s) = 1
      OBVIOUS
    <2>4. n = Len(s)
      BY <2>1
    <2>5. QED
      BY <2>2, <2>3, <2>4
  <1>4. PICK all : all = Intended[r]
    OBVIOUS
  <1>5. DOMAIN Planned = DOMAIN all /\ \A i \in DOMAIN all : Planned[i] = all[i].plan /\ Goal(i, w) = all[i].plan
    BY <1>1, <1>4 DEF Planned, Goal
  <1>6. CASE n > 1
    <2>1. PICK raws : AreIntents(raws) /\ Len(raws) = n /\ all = Preflight(f, raws)
      BY <1>1, <1>2, <1>4, <1>6, IntendedRoute
    <2>2. DOMAIN all = 1..n
      BY <2>1, PreflightIs DEF AreIntents, IsSeq
    <2>3. ASSUME NEW i \in 1..n, all[i].plan # NoPlan
          PROVE  IsExecutionPlan(all[i].plan)
      <3>1. PICK s : s = all[i] /\ Readied(s, Words[StepsOf(r)[i]], r)
        BY <1>1, <1>2, <1>4, <1>6, IntendedRoute
      <3>2. IsIntent(s.in) /\ s.plan = Build(s.in)
        BY <3>1 DEF Readied
      <3>3. PICK in : in = s.in /\ IsIntent(in) /\ Build(in) # NoPlan
        BY <2>3, <3>1, <3>2
      <3>4. Built(Build(in), in)
        BY <3>3, BuildBuilt
      <3>5. QED
        BY <3>1, <3>2, <3>3, <3>4 DEF Built
    <2>4. QED
      BY <1>2, <1>5, <1>6, <2>2, <2>3
  <1>7. CASE n = 1
    <2>1. PICK raw, g : raw = Answer[r.prompt] /\ g = WithPlan(f, raw)
      OBVIOUS
    <2>2. all = OneStep(g)
      <3>1. ~(Len(StepsOf(r)) > 1) /\ r \in Requests
        BY <1>1, <1>2, <1>7
      <3>2. PICK one : one = OneStep(g)
        OBVIOUS
      <3>3. Intended[r] = one
        BY <1>1, <2>1, <3>1, <3>2 DEF Intended
      <3>4. QED
        BY <1>4, <3>2, <3>3
    <2>3. DOMAIN all = 1..1 /\ all[1].plan = g.plan
      BY <2>2 DEF OneStep
    <2>4. IsRec(f) /\ IsPrefs(f) /\ IsIntent(raw)
      <3>1. r.prompt \in Prompts /\ IsPrefs(r)
        BY <1>1, RequestIs
      <3>2. IsIntent(raw)
        BY <2>1, <3>1, PipelineAssumption
      <3>3. QED
        BY <1>1, <3>1, <3>2, FrameIs DEF IsPrefs
    <2>5. PICK in : PlanOf(g, f, in)
      BY <2>1, <2>4, PlanOfIs
    <2>6. g.plan # NoPlan => IsExecutionPlan(g.plan)
      BY <2>5 DEF PlanOf, Built
    <2>7. QED
      BY <1>2, <1>5, <1>7, <2>3, <2>6
  <1>8. QED
    BY <1>2, <1>3, <1>6, <1>7

\* A step that mutates and is done as a whole is done somewhere.
LEMMA WholeSomewhere ==
    ASSUME NEW w, w.req \in Requests, NEW i, Whole(i, w), ~w.req.pr, Due(i, w), NEW n \in DOMAIN Goal(i, w).actions
    PROVE  \E ctx : Did(i, ctx, n, w)
  <1>1. CASE Single(w)
    <2>1. PICK ctx : ctx = Site(i, w)
      OBVIOUS
    <2>2. Through(i, ctx, w)
      BY <1>1, <2>1 DEF Whole
    <2>3. QED
      BY <2>2 DEF Through
  <1>2. CASE ~Single(w)
    <2>1. IsSeq(w.req.contexts)
      BY RequestIs DEF AreSet
    <2>2. 1 \in DOMAIN w.req.contexts
      BY <1>2, <2>1 DEF Single, IsSeq
    <2>3. PICK ctx : ctx = w.req.contexts[1]
      OBVIOUS
    <2>4. Through(i, ctx, w)
      BY <1>2, <2>2, <2>3 DEF Whole
    <2>5. QED
      BY <2>4 DEF Through
  <1>3. QED
    BY <1>1, <1>2

\* The first call is in the shape of its request.
LEMMA FirstShape ==
    ASSUME req \in Requests, Flat, NEW w, w.req = req, NEW s, s = <<Frame>>
    PROVE  Shape(s, w)
  <1>1. PICK r, f, n : r = req /\ f = FrameOf(r) /\ n = Size(w)
    OBVIOUS
  <1>2. IsSeq(s) /\ Len(s) = 1 /\ s[1] = f
    BY <1>1 DEF IsSeq, Frame
  <1>3. n \in Nat /\ n > 0
    BY <1>1, PlannedIs
  <1>4. CASE n > 1
    BY <1>1, <1>2, <1>4 DEF Shape
  <1>5. CASE n = 1
    <2>1. PICK p : p = r.prompt
      OBVIOUS
    <2>2. StepsOf(r)[1] = p
      <3>1. Steps = <<p>>
        BY <1>1, <1>5, <2>1 DEF Flat, Steps, Size
      <3>2. QED
        BY <1>1, <3>1 DEF Steps
    <2>3. /\ f.type = "run" /\ f.at = "start" /\ f.prompt = p /\ f.ns = r.ns /\ f.ctx = r.ctx
          /\ f.forceNs = r.forceNs /\ f.forceCtx = r.forceCtx /\ f.contexts = r.contexts
          /\ f.approve = r.approve /\ f.each = r.each /\ ~f.child /\ ~f.auto
      BY <1>1, <2>1, FrameIs
    <2>4. Keeps(f, r) /\ Homed(f, r)
      BY <2>3 DEF Keeps, Homed
    <2>5. PICK ctx : ctx = Site(1, w)
      OBVIOUS
    <2>6. Single(w) => Conduct(f, 1, ctx, w)
      <3>1. SUFFICES ASSUME Single(w) PROVE Conduct(f, 1, ctx, w)
        OBVIOUS
      <3>2. f.approve \/ f.auto => Licensed(1, ctx, w)
        BY <1>1, <2>3, <3>1 DEF Licensed
      <3>3. QED
        BY <1>1, <2>2, <2>3, <3>2 DEF Conduct
    <2>7. Tasked(f, 1, w)
      BY <1>1, <1>5, <2>2, <2>3, <2>4, <2>5, <2>6 DEF Tasked
    <2>8. TaskAt(s, 0, 1, w)
      BY <1>2, <2>7 DEF TaskAt
    <2>9. QED
      BY <1>1, <1>2, <1>5, <2>8 DEF Shape
  <1>6. QED
    BY <1>3, <1>4, <1>5

LEMMA CourseBegins ==
    ASSUME Init
    PROVE  OnCourse
  <1>1. SUFFICES ASSUME Flat, InStep PROVE Course
    BY DEF OnCourse
  <1>2. req \in Requests /\ stack = <<Frame>> /\ done = <<>> /\ outcome.how = "running"
    BY DEF Init
  <1>3. PICK w, s : w = Actual /\ s = <<Frame>>
    OBVIOUS
  <1>4. w.req = req
    BY <1>3 DEF Actual
  <1>5. Shape(s, w)
    BY <1>1, <1>2, <1>3, <1>4, FirstShape
  <1>6. Actions = {} /\ DoneInOrder(Planned)
    BY <1>2 DEF Actions, DoneInOrder
  <1>7. QED
    BY <1>2, <1>3, <1>5, <1>6 DEF Course

LEMMA FlatStays ==
    ASSUME req' = req
    PROVE  Flat' = Flat /\ InStep' = InStep /\ Planned' = Planned /\ Steps' = Steps
  <1>1. Steps' = Steps /\ Planned' = Planned
    BY DEF Steps, Planned
  <1>2. InStep' = InStep
    BY <1>1 DEF InStep
  <1>3. Flat' = Flat
    BY <1>1 DEF Flat
  <1>4. QED
    BY <1>1, <1>2, <1>3

LEMMA ConsentKept ==
    ASSUME req \in Requests, req' = req, agreed \subseteq agreed', IsSeq(done), DoneWell(Actual),
           \A a \in Actions : OfPrompt(a) \/ Len(Steps) <= 1 => Consented(a)
    PROVE  \A a \in Actions' : OfPrompt(a) \/ Len(Steps') <= 1 => Consented(a)'
  <1>1. PICK w : w = Actual /\ w.req = req /\ w.agreed = agreed
    BY DEF Actual
  <1>2. Steps' = Steps /\ Size(w) = Len(Steps) /\ (Single(w) <=> Len(req.contexts) <= 1)
    BY <1>1, FlatStays DEF Steps, Size, Single
  <1>3. Len(req.contexts) \in Nat
    BY RequestIs DEF AreSet, IsSeq
  <1>4. ASSUME NEW a, Consented(a)
        PROVE  Consented(a)'
    BY <1>4 DEF Consented, AgreedTo
  <1>5. ASSUME NEW a, Rightly(a, w), OfPrompt(a) \/ Len(Steps) <= 1
        PROVE  Consented(a)'
    <2>1. \/ <<a.plan, a.ctx>> \in agreed
          \/ req.approve /\ Len(req.contexts) <= 1
          \/ req.each /\ ~(Len(req.contexts) <= 1) /\ OfPrompt(a)
      BY <1>1, <1>2, <1>5 DEF Rightly
    <2>2. Consented(a)
      BY <1>3, <2>1 DEF Consented, AgreedTo
    <2>3. QED
      BY <1>4, <2>2
  <1>6. CASE done' = done
    <2>1. Actions' = Actions
      BY <1>6 DEF Actions
    <2>2. QED
      BY <1>2, <1>4, <2>1
  <1>7. CASE \E a : IsLonger(done', done, a) /\ Rightly(a, w)
    <2>1. PICK a : IsLonger(done', done, a) /\ Rightly(a, w)
      BY <1>7
    <2>2. Actions' \subseteq Actions \cup {a}
      BY <2>1, ActionsGrow
    <2>3. QED
      BY <1>2, <1>4, <1>5, <2>1, <2>2
  <1>8. QED
    BY <1>1, <1>6, <1>7 DEF DoneWell

\* What was done before the i-th action.
DoneBefore(s, step, n, i) == \E j \in 1..(i - 1) : OfPrompt(s[j]) /\ s[j].step = step /\ s[j].n = n
InTurn(s, i, plans) ==
    OfPrompt(s[i]) =>
        /\ s[i].step \in Mutations(plans) /\ s[i].plan = Shown(plans[s[i].step])
        /\ \A m \in Mutations(plans) : m < s[i].step =>
               \A n \in DOMAIN plans[m].actions : DoneBefore(s, m, n, i)

LEMMA InOrder ==
    ASSUME NEW plans
    PROVE  DoneInOrder(plans) <=> \A i \in DOMAIN done : InTurn(done, i, plans)
  BY DEF DoneInOrder, InTurn, DoneBefore

LEMMA TurnKept ==
    ASSUME NEW s, NEW t, NEW k \in Nat, NEW i \in 1..k, \A j \in 1..k : t[j] = s[j], NEW plans, InTurn(s, i, plans)
    PROVE  InTurn(t, i, plans)
  <1>1. \A j \in 1..i : t[j] = s[j]
    OBVIOUS
  <1>2. t[i] = s[i]
    OBVIOUS
  <1>3. \A m, n : DoneBefore(s, m, n, i) => DoneBefore(t, m, n, i)
    <2>1. \A j \in 1..(i - 1) : t[j] = s[j]
      BY <1>1
    <2>2. QED
      BY <2>1 DEF DoneBefore
  <1>4. QED
    BY <1>2, <1>3 DEF InTurn

\* A step of the request that mutates.
LEMMA MutationIs ==
    ASSUME req \in Requests, Flat, NEW w, w.req = req, NEW i
    PROVE  i \in Mutations(Planned) <=> i \in 1..Size(w) /\ Due(i, w)
  <1>1. PICK n : n = Len(Steps)
    OBVIOUS
  <1>2. /\ n = Size(w) /\ DOMAIN Planned = 1..n
        /\ \A j \in 1..n : Planned[j] = Goal(j, w)
    BY <1>1, PlannedIs
  <1>3. StepsOf(w.req) = Steps
    BY DEF Steps
  <1>4. QED
    BY <1>2, <1>3 DEF Mutations, Due

LEMMA TurnTaken ==
    ASSUME req \in Requests, Flat, NEW w, w.req = req, w.actions = Actions, IsSeq(done),
           NEW t, NEW a, IsLonger(t, done, a), Rightly(a, w), NEW i, i = Len(done) + 1
    PROVE  InTurn(t, i, Planned)
  <1>1. PICK s, k : s = done /\ k = Len(s)
    OBVIOUS
  <1>2. IsSeq(s) /\ k \in Nat /\ i = k + 1 /\ t[i] = a /\ \A j \in 1..k : t[j] = s[j]
    <2>1. IsSeq(s) /\ k \in Nat /\ i = k + 1
      BY <1>1 DEF IsSeq
    <2>2. t[Len(s) + 1] = a /\ \A j \in 1..Len(s) : t[j] = s[j]
      BY <1>1, <2>1, AppendIs
    <2>3. QED
      BY <1>1, <2>1, <2>2
  <1>3. PICK x, n : x = a.step /\ n = Size(w)
    OBVIOUS
  <1>4. SUFFICES ASSUME OfPrompt(a) PROVE InTurn(t, i, Planned)
    BY <1>2 DEF InTurn
  <1>5. /\ x \in 1..n /\ Due(x, w) /\ a.plan = Shown(Goal(x, w)) /\ ~w.req.pr
        /\ \A j \in 1..(x - 1) : Whole(j, w)
    BY <1>3, <1>4 DEF Rightly
  <1>6. n \in Nat /\ \A j \in 1..n : Planned[j] = Goal(j, w)
    BY <1>3, PlannedIs
  <1>7. x \in Mutations(Planned) /\ a.plan = Shown(Planned[x])
    BY <1>3, <1>5, <1>6, MutationIs
  <1>8. ASSUME NEW m \in Mutations(Planned), m < x, NEW c \in DOMAIN Planned[m].actions
        PROVE  DoneBefore(t, m, c, i)
    <2>1. m \in 1..n /\ Due(m, w)
      BY <1>3, <1>8, MutationIs
    <2>2. m \in 1..(x - 1) /\ Planned[m] = Goal(m, w)
      BY <1>5, <1>6, <1>8, <2>1
    <2>3. Whole(m, w) /\ c \in DOMAIN Goal(m, w).actions
      BY <1>5, <1>8, <2>2
    <2>4. PICK ctx : Did(m, ctx, c, w)
      BY <1>5, <2>1, <2>3, WholeSomewhere
    <2>5. PICK e \in Actions : OfPrompt(e) /\ e.step = m /\ e.n = c
      BY <2>4 DEF Did
    <2>6. PICK j \in 1..k : e = s[j]
      BY <1>1, <1>2 DEF Actions, IsSeq
    <2>7. t[j] = e /\ j \in 1..(i - 1)
      BY <1>2, <2>6
    <2>8. QED
      BY <2>5, <2>7 DEF DoneBefore
  <1>9. QED
    BY <1>2, <1>3, <1>7, <1>8 DEF InTurn

LEMMA OrderKept ==
    ASSUME req \in Requests, Flat, req' = req, IsSeq(done), DoneWell(Actual), DoneInOrder(Planned)
    PROVE  DoneInOrder(Planned)'
  <1>1. PICK w, k, t, plans : w = Actual /\ k = Len(done) /\ t = done' /\ plans = Planned
    OBVIOUS
  <1>2. w.req = req /\ w.actions = Actions
    BY <1>1 DEF Actual
  <1>3. Planned' = plans /\ Steps' = Steps
    BY <1>1, FlatStays
  <1>4. k \in Nat /\ DOMAIN done = 1..k
    BY <1>1 DEF IsSeq
  <1>5. \A i \in 1..k : InTurn(done, i, plans)
    BY <1>1, <1>4, InOrder
  <1>6. \A i \in DOMAIN t : InTurn(t, i, plans)
    <2>1. CASE t = done
      BY <1>4, <1>5, <2>1
    <2>2. CASE \E a : IsLonger(t, done, a) /\ Rightly(a, w)
      <3>1. PICK a : IsLonger(t, done, a) /\ Rightly(a, w)
        BY <2>2
      <3>2. IsSeq(t) /\ Len(t) = k + 1 /\ \A i \in 1..k : t[i] = done[i]
        BY <1>1, <3>1, AppendIs
      <3>3. \A i \in 1..k : InTurn(t, i, plans)
        BY <1>4, <1>5, <3>2, TurnKept
      <3>4. PICK i : i = Len(done) + 1
        OBVIOUS
      <3>5. InTurn(t, i, plans)
        BY <1>1, <1>2, <3>1, <3>4, TurnTaken
      <3>6. DOMAIN t = 1..(k + 1) /\ i = k + 1
        BY <1>1, <3>2, <3>4 DEF IsSeq
      <3>7. QED
        BY <1>4, <3>3, <3>5, <3>6
    <2>3. QED
      BY <1>1, <2>1, <2>2 DEF DoneWell
  <1>7. (\A i \in DOMAIN done : InTurn(done, i, Planned))'
    <2>1. \A i : InTurn(t, i, plans) => InTurn(done, i, Planned)'
      BY <1>1, <1>3 DEF InTurn, Mutations
    <2>2. QED
      BY <1>1, <1>6, <2>1
  <1>8. QED
    BY <1>7 DEF DoneInOrder, InTurn, DoneBefore

LEMMA CourseGoesOn ==
    ASSUME IInv, OnCourse, Next
    PROVE  OnCourse'
  <1>1. Onto /\ req' = req /\ req \in Requests
    BY StepOnto DEF Onto, IInv
  <1>2. SUFFICES ASSUME Flat, InStep PROVE Course'
    BY <1>1, FlatStays DEF OnCourse
  <1>3. Course
    BY <1>2 DEF OnCourse
  <1>4. stack # <<>>
    BY NothingRuns
  <1>5. Shape(stack, Actual) /\ outcome.how = "running"
    BY <1>3, <1>4 DEF Course, IInv
  <1>6. Onward(Actual, Actual') /\ Lands(Actual') /\ DoneWell(Actual)
    BY <1>2, <1>5, StepLands
  <1>7. PICK w, v : w = Actual /\ v = Actual'
    OBVIOUS
  <1>8. agreed \subseteq agreed'
    <2>1. w.agreed = agreed /\ v.agreed = agreed'
      BY <1>7 DEF Actual
    <2>2. QED
      BY <1>6, <1>7, <2>1 DEF Onward
  <1>9. IsSeq(done)
    BY DEF IInv
  <1>10. (\A a \in Actions : OfPrompt(a) \/ Len(Steps) <= 1 => Consented(a))'
    BY <1>1, <1>3, <1>6, <1>8, <1>9, ConsentKept DEF Course
  <1>11. DoneInOrder(Planned)'
    BY <1>1, <1>2, <1>3, <1>6, <1>9, OrderKept DEF Course
  <1>12. stack' # <<>> => Shape(stack', v)
    BY <1>6, <1>7 DEF Lands
  <1>13. Len(Steps') = Size(v)
    BY <1>7 DEF Steps, Size, Actual
  <1>14. outcome'.how = "ok" /\ outcome'.applied => \A i \in 1..Size(v) : Whole(i, v)
    BY <1>5, <1>6, <1>7 DEF Lands
  <1>15. QED
    BY <1>7, <1>10, <1>11, <1>12, <1>13, <1>14 DEF Course

LEMMA CourseStutters ==
    ASSUME OnCourse, UNCHANGED vars
    PROVE  OnCourse'
  <1>1. UNCHANGED <<req, stack, policy, hour, changes, outcome, ledger, done, agreed>>
    BY DEF vars, env
  <1>2. Flat' = Flat /\ InStep' = InStep /\ Planned' = Planned /\ Steps' = Steps
    BY <1>1, FlatStays
  <1>3. Actual' = Actual /\ Actions' = Actions
    BY <1>1 DEF Actual, Actions
  <1>4. DoneInOrder(Planned)' = DoneInOrder(Planned)
    BY <1>1, <1>2 DEF DoneInOrder, Mutations
  <1>5. (\A a \in Actions : OfPrompt(a) \/ Len(Steps) <= 1 => Consented(a))'
            = (\A a \in Actions : OfPrompt(a) \/ Len(Steps) <= 1 => Consented(a))
    BY <1>1, <1>2, <1>3 DEF Consented, AgreedTo
  <1>6. Course' = Course
    BY <1>1, <1>2, <1>3, <1>4, <1>5 DEF Course
  <1>7. QED
    BY <1>2, <1>6 DEF OnCourse

\* What the course of things says of the result.
LEMMA CourseResult ==
    ASSUME IInv, Flat, InStep, Course
    PROVE  ResultTruthful
  <1>1. PICK w, n : w = Actual /\ n = Len(Steps)
    OBVIOUS
  <1>2. w.req = req /\ w.actions = Actions /\ req \in Requests
    BY <1>1 DEF Actual, IInv
  <1>3. /\ n = Size(w) /\ DOMAIN Planned = 1..n
        /\ \A i \in 1..n : Planned[i] = Goal(i, w) /\ (Goal(i, w) # NoPlan => IsExecutionPlan(Goal(i, w)))
    BY <1>1, <1>2, PlannedIs
  <1>4. SUFFICES ASSUME outcome.how = "ok" /\ outcome.applied, ~req.pr,
                        NEW i \in Mutations(Planned), NEW ctx \in Targets(Intended[req][i])
                 PROVE  Complete(Shown(Planned[i]), ctx)
    BY DEF ResultTruthful, AllDone
  <1>5. Whole(i, w) /\ i \in 1..n /\ Due(i, w)
    <2>1. i \in 1..n /\ Due(i, w)
      BY <1>2, <1>3, <1>4, MutationIs
    <2>2. \A j \in 1..n : Whole(j, w)
      BY <1>1, <1>4 DEF Course
    <2>3. QED
      BY <2>1, <2>2
  <1>6. Through(i, ctx, w)
    <2>1. CASE Single(w)
      <3>1. ctx = Site(i, w)
        <4>1. Len(req.contexts) \in Nat
          BY <1>2, RequestIs DEF AreSet, IsSeq
        <4>2. ~(Len(req.contexts) > 1)
          BY <1>2, <2>1, <4>1 DEF Single
        <4>3. QED
          BY <1>2, <1>4, <4>2 DEF Targets, Site
      <3>2. QED
        BY <1>5, <2>1, <3>1 DEF Whole
    <2>2. CASE ~Single(w)
      <3>1. Len(req.contexts) > 1
        <4>1. Len(req.contexts) \in Nat
          BY <1>2, RequestIs DEF AreSet, IsSeq
        <4>2. QED
          BY <1>2, <2>2, <4>1 DEF Single
      <3>2. PICK k \in DOMAIN req.contexts : ctx = req.contexts[k]
        BY <1>4, <3>1 DEF Targets
      <3>3. QED
        BY <1>2, <1>5, <2>2, <3>2 DEF Whole
    <2>3. QED
      BY <2>1, <2>2
  <1>7. PICK p : p = Goal(i, w)
    OBVIOUS
  <1>8. Planned[i] = p /\ p # NoPlan /\ IsExecutionPlan(p)
    BY <1>3, <1>5, <1>7 DEF Due
  <1>9. \A c \in DOMAIN p.actions : Did(i, ctx, c, w)
    BY <1>2, <1>4, <1>5, <1>6, <1>7 DEF Through
  <1>10. DOMAIN Shown(p).actions = DOMAIN p.actions
    BY <1>8, ShownKeeps
  <1>11. Complete(Shown(p), ctx)
    BY <1>2, <1>7, <1>9, <1>10 DEF Complete, Did
  <1>12. QED
    BY <1>8, <1>11

LEMMA CourseShows ==
    ASSUME IInv, OnCourse, Flat
    PROVE  OnlyConsented /\ RouteInOrder /\ ResultTruthful
  <1>1. OnlyConsented
    BY DEF OnlyConsented, OnCourse, Course
  <1>2. RouteInOrder
    BY DEF RouteInOrder, OnCourse, Course
  <1>3. ResultTruthful
    <2>1. CASE InStep
      BY <2>1, CourseResult DEF OnCourse
    <2>2. CASE ~InStep
      BY <2>2 DEF ResultTruthful
    <2>3. QED
      BY <2>1, <2>2
  <1>4. QED
    BY <1>1, <1>2, <1>3

-------------------------------------------------------------------------------

(***************************************************************************)
(* The theorems.                                                           *)
(***************************************************************************)

LEMMA CourseKept ==
    ASSUME IInv, OnCourse, [Next]_vars
    PROVE  OnCourse'
  BY CourseGoesOn, CourseStutters

\* What happens to the clusters is what was agreed to, in the order of the
\* steps and as they were shown, and a result that says applied covers all of
\* it.  It is said of every prompt whose clauses split no further, in every
\* environment: with other words, other answers of the model and other command
\* lines than the runs have.
THEOREM ChainsAsAgreed == Spec => [](Flat => AsAgreed)
  <1>1. Init => OnCourse
    BY CourseBegins
  <1>2. IInv /\ OnCourse /\ [Next]_vars => OnCourse'
    BY CourseKept
  <1>3. IInv /\ OnCourse => (Flat => AsAgreed)
    BY InvConsent, CourseShows DEF AsAgreed
  <1>4. QED
    BY <1>1, <1>2, <1>3, Inductive, PTL DEF Spec
===============================================================================
