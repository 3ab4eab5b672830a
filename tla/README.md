# TLA+ models of kprompt

kprompt is a command-line tool, a bridge for teams and an in-cluster agent for
Kubernetes. A prompt becomes a plan, the plan is judged, approved, carried out and
recorded; the agent watches a namespace, correlates what it sees into incidents and
may propose or apply remedies. These modules model the parts of it that decide what
happens to a cluster and the parts that keep state while several things happen at
once. TLC checks them on small instances, and TLAPS proves the most important facts
for every value of the constants.

`PROJECT.json` holds the details: the components, every run with its properties, the
mutants that show each property can fail, the source lines of each definition, the
three findings, the hazards and the theorems.

## The system

### Parts that keep state or make decisions

**Incident correlation** (`internal/agent/correlate`). State: open incidents by
workload key, recently seen fingerprints, a counter for ids; behind one mutex.
Operations: `Ingest` a signal (opens an incident, joins one, replaces one that is too
old, or marks recovery), `Sweep` quiet ones away, `SyncIncident` (put back a copy a
caller changed), `SetNotifierThread`, `Export`, `Persist`, `Restore`. Stores: a file
or a ConfigMap. Callers: one goroutine per watched resource, a sweeper, Slack
approvals (`cmd/kprompt/agent.go`). Hard: the callers work on copies for as long as
a log fetch, an LLM call or an apply takes; saves happen outside the mutex; the
process restarts. Correct when: an id is given to one incident only, a closed
incident stays closed, what joined an open incident stays in it, its severity covers
its evidence, quiet incidents are swept, and what is stored can be started from. The
code keeps all of them but one (see Findings).

**Watch engine** (`internal/agent/watch`). State: per resource the version its stream
has come to and the pause before the next try. Operations: list, hand over the
initial objects, consume the stream, sleep, leave. Hard: changes while no stream is
open, streams that end at once, cancellation in the middle of a list. Correct when: no
object goes back to an older version, nothing stays unseen with `--emit-initial`, a
call that fails again and again is tried less often, and `Run` returns when cancelled.

**Learned patterns** (`internal/agent/patterns`, used by `internal/agent/analyze`).
State: a library of signatures with counts, outcomes and weights, loaded and saved
whole. Hard: every record is load, change, save; a command has a mutex of its own; a
cap drops patterns. Correct when: a pattern never claims more than happened, what was
learned stays, and the boost never lifts a confidence further than the history
earns.

**Proposals and apply** (`internal/agent/autopilot`). State: a ring of proposals in
a file or ConfigMap, a mutex per process. Operations: propose (with the policy's
verdict), find the open proposal of an incident, store, announce, approve in Slack
or with `agent proposals apply`, gate, mutate, verify, record the outcome. Hard:
find-then-store is two critical sections, two processes write the ring, approvals
work on old copies, verification may be pending. Correct when: every mutation passed
the policy of the process that made it, `applied` was verified, an announced id can
be looked up, and an approval gets a verdict.

**Coordinator** (`internal/agent/coordinator`). State: a capped ring of handoffs and
one of outcomes (with a TTL). Operations: HTTP handlers that append to a ring under
the mutex and save it afterwards; a ticker that probes the busiest edges and appends
to the same ring; restore at start. Stores: two keys of a ConfigMap or two files.
Hard: concurrent savers, one ConfigMap or one temporary file between them, load
errors, kills. Correct when: what was saved alone stays, keys do not disturb each
other, what is stored parses, the ring is in order, ticks make nothing up.

**Operator and status** (`internal/agent/operator`, `internal/agent/crdstatus`).
State: the `KpromptAgent` resources and their four objects in the API server, the
queue of events, the object the reconcile is at. Operations: list, watch, finalizer,
apply, status patch, cleanup; the agent's own status patches. Hard: stale copies,
no retry, two writers of one list of conditions, restart between list and watch.
Correct when: "reconciled" means applied, nothing is deleted that is to stay, the
last spec is applied, deletions complete and leave nothing.

**Plan pipeline** (`internal/pipeline`), with **intents** (`internal/intent`),
**planner** (`internal/planner`) and **safety** (`internal/safety`). State: the calls
of `RunWith` in progress (it calls itself for routes and for several contexts), what
the user consented to, what was done, the history. Operations: extract and prepare
the intent, plan, judge, report a read and offer its fixes, ask, open a pull request
or apply, wait, verify, record; preflight of a route, steps with the scope carried
from one to the next; fan-out over contexts. Hard: consent travels as a flag through
the recursion, an intent is prepared once for the preflight and again for the step,
three packages hold a list each of what mutates, the organisation's policy is pulled
while a prompt waits for an answer. Correct when: nothing reaches a cluster without
consent, nothing denied runs, history and result tell the truth, and it ends.

**Executor and verification** (`internal/executor`, `internal/verify`). State: the
objects of the cluster and the action a process is at. Operations: scale, roll back,
apply, delete; wait; verify. Hard: read-change-write against other users and
controllers that follow later, lost answers. Correct when: a plan is carried out once
and in order, scaling loses no edit, a rollback undoes the last rollout, and ready
means that pods ran the spec.

**Run workers** (`internal/runworker`, `internal/team/bridge.go`). State: at the
control plane a job's status and lease, in the bridge the job in hand. Operations:
claim, plan, post, wait for a decision, apply, post again. Hard: posts and answers get
lost, leases expire, laptops are closed, people cancel. Correct when: a drill never
applies, each apply uses up an approval of its own, and no bridge stays with one job.

### Parts without state of their own

LLM clients, cluster readers, reports (investigate, why, score, cost ...), terminal
output, set-up and the MCP server: they translate and render one snapshot.
`PROJECT.json` lists each of them with the reason it is not modelled.

### How they interact

```
 user --prompt--> Pipeline [Intents -> Planner -> Safety] --approved plan--> Executor --> cluster
                     ^            (routes and fan-outs run the pipeline again)        verify
 Team app <-> Bridge +
 cluster --objects--> watch loops --signal--> Builder --Change--> analyse, propose --> Slack
                            |                  ^  |                |       |
                         sweeper ----Sweep-----+  +-Persist->store |   proposal ring <-- apply command
                                               ^                   v       |
 Slack "approve" ------------------------------+--SyncIncident-- ApplyProposal --> cluster
                                                                   | outcome
                                                                   v
                                                          library of patterns
 agents --handoff/outcome--> Coordinator --> ring --> store;   ticker --> ring
 users --KpromptAgent--> Operator --> Deployment of the agent --health--> status
```

`Builder` is called under its mutex, everything else without one. Stores are shared
only through load and save of whole documents.

## Modules

| Module | Models | State and actions |
|---|---|---|
| `IncidentBuilder` | `correlate/builder.go`, export and restore of `store.go` | operators on one record, a method each: `seen`, `openNewLocked`, `attachEvidence`, `closeLocked`, `swept`, `synced`, `withThread`, `exportLocked` |
| `Incidents` | the goroutines of `agent run` around the builder, both stores | `mem` (the builder's record), per goroutine its `stage` and its copy; `disk` (what is stored), `tmp` (the temporary file), `handle` (what a saver got or opened); `Ingest*`, `SyncLogs`, `emitChange` in steps, `Sweep`, `ApproveInSlack`, `Export`, `Cm*`, `File*`, `Crash`, `Restart*` |
| `Watch` | `Engine.Run` and its loops, the builder's verdict on an object | `cluster` and its `changes`, per resource its `loop`, what the handler has `seen`; list, initial objects, stream, sleep, `CallFails`, `StreamEnds`, `CancelRun`, `Return` |
| `Learning` | the library of patterns and `Analyze` | `stored`, `holder`, per actor `stage`, `work`, `copy`; `Change`, `Analyze`, `ApplyProposal`, `MarkFalsePositive`, `Approve`, `Load`, `Save`, `Drop` |
| `Proposals` | the ledger of proposals and its writers | `ring`, `holder` (mutex per process), per actor `stage`, `prop`, `loaded`; propose, `Put*`, `Notify`, `Get`, the steps of `ApplyProposal`, `Kill` |
| `Coordinator` | rings, ticker, both stores | `ring`, per actor `stage`, `item`, `snap`; `stored`, `version` and `read` (ConfigMap), `inode` and `tmp` (file); handlers, `Tick*`, `Cm*`, `File*`, `Restart` |
| `Operator` | reconcile loop and API server | `cr`, `objs`, `queue`, `stage`, `work`; one action per API call |
| `Intents` | `internal/intent`: the normalisers, scope, what a route carries | pure operators on an intent and a prompt |
| `Planner` | `internal/planner`: a builder per kind | pure operators, intent to plan |
| `Safety` | `internal/safety`: denials, risk, the organisation's overlay | pure operators on plans |
| `Pipeline` | `internal/pipeline`: `RunWith`, route, fan-out | `stack` (a frame for each call in progress), `agreed`, `done`, `ledger`, `outcome`, `policy`, `hour`; an action for each stage a frame is at, `Change` (of policy or hour) and `Kill` around it |
| `Executor` | `internal/executor`, `internal/verify`, the waiter of `internal/cluster` | `obj`, `version`, `rs`, controllers `ctl`, per process `proc`; one action per API call, `Control`, `Edit` |
| `Bridge` | `internal/runworker`, `internal/team/bridge.go` | `status`, `lease` (plane), `bridge` (per laptop); the steps of `Listen`, people's decisions, expiry, kills |
| `Consent` | what the Team app promises | abstract: `grant` and `applies` of a job |
| `*_proofs` | theorems about the modules of that name; `Workers_proofs` is about `Bridge` and `Watch`, `Effects_proofs` about `Executor` and `Learning`, `Chains_proofs` goes on from `Pipeline_proofs` | inductive invariants, one lemma per operation |
| `MC*` | instances for TLC | sets of actors, policies, prompts, specs |

`Incidents` extends `IncidentBuilder`: every critical section of the mutex is one
action that applies one operator to the builder record. `Pipeline` extends `Safety`,
which extends `Planner`, which extends `Intents`: what is shown, approved and done is
what those operators make of the model's answer and the words of the prompt. `Bridge`
implements `Consent` by the mapping `grantOf`: a job's grant is what the people were
last asked or said. The other modules stand alone: the incident loop sees approvals
only as `ApproveInSlack`, the executor takes any approved plan, the bridge any outcome
of a plan.

### What is abstracted

* A prompt is, to the normalisers, what their regular expressions look for: the
  topics it matches, other words, a captured name, an inferred parameter, a place. The
  model's answer is an intent, any one of a set. Manifests, diffs, summaries and the
  numbers of a report are left out; an action is its operation, backend, object, name
  and place.
* A signal is a workload key, a fingerprint and a severity. Confidence is a number
  in basis points where arithmetic matters (`Learning`), else a rank compared with a
  floor. A policy is the fields its gate reads.
* Time is a bounded clock in `Incidents` (window and quiet period are constants), the
  order of creation in `Proposals`, the order of `CreatedAt` in `Coordinator`, an hour
  that may change in `Pipeline`, doublings of the pause in `Watch`.
* A call to the cluster, to Slack or to a model is one step that may fail where the
  code looks at the error. Saving is as many steps as there are points where another
  saver or a kill matters.
* A Go data race exists on the map `threads` (written by every watch goroutine and by
  the sweeper, `agent.go:1148`). Its outcomes are a crash, which `Crash` allows at any
  step, and a lookup that finds an entry or not.
* In `Operator` a status patch that would only change the time of the last transition
  changes nothing, and Create with the Get and Update that follow `AlreadyExists` is
  one step: a conflict in between is one of the calls that fail.
* In `Coordinator` the file system is two names and the inodes behind them, which is
  what makes two savers of one temporary file interesting. `Incidents` has one file
  and says of each saver what its handle has become: the temporary file, the file, or
  one that has been replaced.
* In `Executor` a pod is not a state: a controller has `new` and `old` pods of an
  object and reports numbers.
* The control plane of `Bridge` is not in the repository; it is modelled from what the
  bridge sends and expects. A settled job takes no further post, and a cancellation
  may come after an approval was read.

## Runs

A passing run checks its properties over all behaviours of its instance. A run that
ends in a violation shows a disagreement between the code and what the repository
says of it; `findings` in `PROJECT.json` quotes the line. Configurations set
`CHECK_DEADLOCK FALSE` because users, events and time are bounded: when nothing more
arrives the system rests. Some properties are conjunctions of named parts, defined
above them in the module.

| Run | Shows |
|---|---|
| `incidents` | `UniqueIds`, `FreshIds`, `ClosedStaysClosed`, `SeverityCovers` against stale copies of watches, applies, approvals and the sweeper; `Restorable` against overlapping and failing saves of a file or a ConfigMap, kills, restarts with and without the stored state; and in the end quiet incidents close (`QuietIncidentsClose`, liveness) |
| `incidents_stale_copy` | finding: what a watch attached to an incident is dropped by the copy another watch puts back (`JoinedStays`) |
| `watch` | `NoStepBack` and `CatchesUp` (what the handler knows of an object over failures and reconnects), `PausesGrow`, `StopsCleanly` (liveness and silence after it) |
| `learning` | `LibraryHonest` (no pattern claims more than happened), `LibraryKept` (nothing lost while loads succeed and no command interferes; the cap drops the rarest), `LiftIsEarned` (what is applied below the floor was lifted by no more than the recordings before its match may lend) |
| `learning_patterns` | finding: a remedy is applied because a pattern lifted its confidence (`PatternsNeverApply`) |
| `proposals` | ring consistent, applied means verified, mutations gated, one action on one incident per id (`IdNamesOneAction`), announced ids can be looked up (`AnnouncedStored`), approvals get a verdict (`VerdictFollows`, liveness): loops, Slack and a command of another policy, load and save errors, kills, changing targets |
| `coordinator` | `RingsSound` (what is stored parses, rings in order, ticks have an origin), `SavedAloneStays`, `KeysKeptApart`, on one ConfigMap and on two files, one of them with two savers |
| `operator_life` | `StatusTruthful`, `CleansOnlyDeleted`, `NothingLeftBehind`, and unless a call failed the last spec is applied and deletions complete (`Converges`, liveness) |
| `pipeline` | `AsAgreed`, `PolicyObeyed`, `RecordsTruthful`, `RunEnds`: single prompts, chains, fan-outs, pull requests and scripts, the policy pulled or the hour changed at any step, a kill anywhere; the planner and the safety policy examined on every kind in prompts of up to two topics |
| `pipeline_recipe` | finding: `recipe run` starts the route again in every step (`recipe.go:137`), until the stack overflows |
| `executor` | `PlanCarriedOut`, `ScaleKeepsEdits`, `RollbackUndoes`, `ReadyMeansRan`: six pairs of plans next to another user's edits, late controllers and lost answers |
| `bridge` | `Consented` (the refinement of `Consent`, leases expiring under a bridge at work included), `DrillsHarmless`, and no bridge stays with one job (`ListensAgain`, liveness) |

### Findings

* `incidents_stale_copy`. `SyncIncident` (`builder.go:196`) replaces an open incident
  whole by the copy its caller has had since before a log fetch, an apply or an
  approval. With the two watches of the default (`--watch pods,events`) and
  `--fetch-logs`, evidence that the other watch attached meanwhile is lost, contrary to
  rule 3 of `builder.go:9`; in the same way the Slack thread recorded meanwhile is lost
  (`docs/agent.md:238` promises both across restarts).
* `learning_patterns`. The floor of the remediation policy is compared with the
  confidence as boosted by a learned pattern (`agent.go:1116`, `autopilot.go:283`);
  `docs/agent.md:319` says that "patterns never trigger apply/patch/delete".
* `pipeline_recipe`. `kprompt recipe run` hands the steps of the recipe to every
  `RunWith` it starts, which starts the whole route again (`recipe.go:137`).

### What the pipeline's properties say

`AsAgreed` is about who said yes to what. An action needs a yes of the user for
its plan in its context, or the flag that covers it; `optimize` suggestions need the
user's own yes always; `--approve` alone never mutates several contexts; steps of a
route happen in order, and all of them when the result says applied.

`PolicyObeyed` is about what the CLI and the organisation deny. The planner sets
`RequiresApproval`, `safety` gives a risk and `RunWith` has its list of read-only
kinds. Its part `PlansSound` says that these three agree, that a mutation is planned only if the
answer or the prompt asks for one, and that all of its actions lie in the namespace
the policy was asked about. Its part `ReplayedAlike` is about preparation: the
preflight prepares each intent, judges its plan and shows it, the step prepares that
prepared intent again, and a child of a fan-out the intent of the plan. What was judged
and seen is what runs only if preparing twice is preparing once.

`RecordsTruthful` is about the history: what it calls applied was carried out in full,
also when another action failed, and what was done is in it.

### What the instances leave out on purpose

Some passing runs restrict their instance or their properties because the code does
not keep the property outside of it. Whoever widens a configuration will see these
counterexamples. Most contradict no doc and are no findings; they are listed here
because a team would want to know them.

Incidents:

* That the sweeper closes quiet incidents only (rule 5 of `builder.go:11`): a stale copy,
  or one rebuilt from a proposal (`agent.go:1467`), which has no times, takes the time
  of the last evidence back, and the next sweep closes a busy incident. It is the
  overwrite of the finding `incidents_stale_copy`.
* `Restorable` of a file two saves have met in: watches, sweeper and Slack listener
  write and rename one temporary file outside the mutex (`store.go:185-189`), so that
  it may be garbled or empty when the process is killed, until a later save has had it
  to itself (`crowded`). The agent then starts with nothing (`agent.go:968`).
* An incident that is rotated because the new problem is outside the window
  (`builder.go:127`) has no closed Change of its own, and the agent's health patch
  replaces a Ready=False condition (`sync.go:76`). No property says otherwise.

Watch:

* `CatchesUp` without `--emit-initial`, the default (`agent.go:1518`): every reconnect
  lists without delivering and watches from the list's version (`engine.go:187`). With
  it every reconnect delivers all objects again, not only a cold start
  (`engine.go:107`).
* A watch that closes right after a good list is opened again after the shortest pause
  for ever: each good list resets it (`engine.go:207`). `PausesGrow` counts failed calls
  and does not speak of it.

Learning:

* `LibraryKept` with a command on the side or with load errors: mutexes are one
  process's, and a load error is taken for an empty library, which is then saved
  (`patterns.go:166`). A full library of patterns seen twice never learns a new one
  (`patterns.go:205`).
* An incident's own updates count as prior occurrences (`patterns.go:122`), so the
  third of three changes of one incident may already be boosted. `LiftIsEarned` counts
  recordings, not incidents. The soft match never matches (`patterns.go:140`).

Proposals:

* `AnnouncedStored` once a load failed in `Put`, or two processes were in `Put` at once
  (`disturbed`), and of a record whose save failed (`unsaved`): `Put` takes a load error
  for an empty ring (`proposals.go:69`), its mutex is one process's (`proposals.go:66`),
  and the alert is sent whether or not `Put` succeeded (`agent.go:1128`), although
  `docs/agent.md:323` says "persists proposals before notify". All of these are in the
  run; the property excepts what follows from them.
* An id stands for an action on an incident, not for a target or a number of replicas:
  `FindOpen` looks at neither, so that a proposal for another target takes the id over
  (`agent.go:1122`), and who approves the id gets the latest.
* Two loops can give one incident two open ids; a proposal whose verification is
  pending is found open and approved again (`proposals.go:130`), and one that was
  applied can be approvable again (`agent.go:1128`).

Coordinator:

* Items that were answered, but not saved alone, with two senders, with both keys in
  one ConfigMap, or with load errors: the snapshot is saved after the mutex is released
  (`coordinator.go:191`), a conflict is not retried (`store.go:228`), and a failed
  restore starts from an empty ring that the next save writes (`agent.go:440`).
* A file two savers have met in: handlers and the ticker write and rename one temporary
  file (`store.go:96-100`, `store.go:154`), so that what is stored may not parse, or may
  lack what was saved alone, until a later save has had it to itself (`crowded`), although
  `store.go:138` calls the writes atomic. A coordinator in a cluster uses the ConfigMap,
  of which `RingsSound` and `SavedAloneStays` hold without this exception.
* The order of `CreatedAt` with two senders: it is taken before the mutex
  (`coordinator.go:168`); `InOrder` is about the order of entry.
* A tick raises the count of the edges it took, so the same edges may win the budget
  every time (`tick.go:71`), and sends on a report that may be older than the last
  (`tick.go:78`).

Operator:

* Convergence after a failed call: the resync period is computed and never used
  (`controller.go:29`), and an error of `Reconcile` is printed and forgotten
  (`controller.go:56`).
* Two resources of one name where one is refused: cleanup deletes by name in the
  target namespace (`reconcile.go:77`). The theorems about `Operator` assume that
  there are none (`NoNamesakes`).

Pipeline, planner and safety:

* Inside a route consent to the steps is passed on as the flag and there covers fixes
  nobody has seen (`route.go:87`): `OnlyConsented` excepts suggestions of a route's
  step. `optimize` asks again and is covered.
* A clause handled locally in the middle of a route consumes no prepared intent
  (`route.go:257`), so the steps after it run the intents of others. The instance has
  such a route (`slip`); what steps are meant to do is said of the others (`InStep`).
  That nothing denied runs, and all that concerns answers, is said of all.
* A prompt that optimises and autoscales is a read when prepared once and creates the
  autoscaler when prepared again (`hpa.go:38`): excepted in `ReplayedAlike`. The
  step then asks for itself; but in a chain with a step that mutates, the yes to the
  route is the flag of every step and covers the autoscaler too (`route.go:87`). No
  chain of the instance has such a step.
* A clause that is a chain itself ("A and B, then C") becomes a route in a route, which
  takes the intents that were prepared for the steps after it. No clause of the
  instance is one.
* A policy cache that cannot be parsed is taken for no enrolment
  (`pipeline.go:1979`); `loadOrgPolicy` does the same, so that `PolicyBinds` speaks of
  the policy as it is read. A denial is judged in the context a step has before the
  scope is carried to it, and again in the step.
* A forced `-n` is ignored by the cluster-wide reports (`audit.go:58`), which only read.
* A delete of a StatefulSet is planned (`planner.go:430`) and then always denied;
  a `get` on an autoscaler is denied (`safety/hpa.go:33`); "get the hpa" becomes a
  mutation and asks. All of these err on the safe side.
* Kube-context aliases are taken for the contexts they name, also for Helm's action
  context; errors of appending to the history, which are dropped, and its cut to 200
  entries are left out.
* KEDA without a workload plans a ScaledObject for a Deployment of an invented name
  (`intent/keda.go:78`); `get nodes` with a carried namespace is an error
  (`cluster/read_contract.go:204`).

Executor:

* An apply of a manifest overwrites what was edited since it was planned
  (`executor.go:213`), and with it the annotation that numbers the rollout; a rollback
  before the controller followed, or without the annotation, goes by a stale number
  (`rollback.go:56`): `RollbackUndoes` assumes neither. Two rollbacks undo each other.
* Verification of a StatefulSet or DaemonSet ignores the observed generation
  (`verify.go:307`): `ReadyMeansRan` is about waiting for all kinds, and about verifying
  Deployments. A deletion is "still present" while the object terminates
  (`verify.go:131`). The numbers `wait.go:80-82` looks at one by one are one condition.

Bridge:

* One approval is used by two bridges if both have a plan before the people when it is
  given: a bridge that waits for up to thirty minutes never renews its lease
  (`bridge.go:151-180`), and a job whose lease has expired is claimed again (`runs.go:44`).
  It is in the run; `Consent` allows each bridge that waits to use the approval once, and
  says that two wait only after a lease expired under one of them. No doc promises
  more: `docs/runs.md:75` says that plans wait until Approve in the app.
* "succeeded" is posted although verification failed, and "denied" or "failed"
  although a part was applied (`execute.go:83`). `ExecuteApply` extracts the intent
  again, so that the plan applied may not be the plan approved; the approval `Consented`
  speaks of is the job's.

### Bounds, and why they are enough

Every bound is a constant of its module, named and commented there, and appears in
the guard of the action it bounds.

* Incidents: five settings in one run (`setting` in `MCIncidents`). `many`: two workloads,
  one watch, applies in the loop, a ConfigMap, failing saves and loads, a kill. `file`:
  one workload, both watches and the sweeper saving one file, a kill. `logs`: one
  workload, both watches, logs and applies, nothing stored. `ask`: one workload, one
  watch, Slack with its listener, a ConfigMap, a kill. `late`: the same without
  listener and kill, with failing saves and more time. Two problems of different
  severity and a recovery, two incidents, one piece of evidence each; window, quiet
  period and clock of a few ticks. The hazards need two goroutines on one incident, an
  incident closed while another holds its copy, or two savers; a third repeats what the
  second does.
* Watch: a pod with two states and a quota, two changes and two failures: a change
  while no stream is open, or while the initial objects are handed over, takes one of
  each. A pause doubles once, which tells a growing pause from a constant one.
* Learning: two signatures and room for one pattern, so that each recording of the
  second competes for the place; three recordings; a library from before in which one
  pattern is marked a false positive. Two confidences below the floor, one that a
  boost of 0.10 lifts over it and one that only 0.15 does.
* Proposals: a ring of two, up to three proposals and two approvals, two loops, the
  listener and a command, in five settings explored together (`setting` in
  `MCProposals`: two processes and failing loads, approvals again with all faults, two
  loops with kills, changing targets, overflow). Overflow needs one proposal more than the ring holds, a lost
  update two writers.
* Coordinator: a ring of two, up to four items, so that items are evicted while others
  are being saved. On the ConfigMap a sender, a reporter and the ticker, with failing
  updates and kills; on files two senders, who share a temporary file, and a reporter,
  with kills and outcomes that age. Both settings are explored in one run (`setting`
  in `MCCoordinator`).
* Operator: one resource with two specs; three edits allow to create, edit or delete,
  and create again; one failing call and one restart at any step.
* Pipeline: nine chains of two or three steps, one or two contexts, four policies, two
  hours, one change of policy or hour at any step. `MaxRouteSteps` is three so that a
  chain may reach it, `MaxDepth` is above what a fan-out of a route needs, so that
  only unbounded recursion reaches it (the recipe does, at any bound). The samples are
  every kind of `ExtractKinds`, with and without a name and parameters, with
  two topics of the prompt, three sets of further words, and with a namespace forced
  or not: a normaliser looks at a topic of its own and at most at one other.
* Executor: two processes, six pairs of plans, a Deployment with two revisions, a
  StatefulSet, a DaemonSet and a Service to be created, one edit, one conflict retried.
* Bridge: two laptops, a drill and a change that takes two approvals, one lost call,
  one kill, two claims of a job, a lease that may expire at any time.

### Fairness

* `Incidents`: the sweeper's ticker fires and the sweeper goes on, since its calls
  carry timeouts; a dead process is restarted. No signal is owed.
* `Watch`: each loop goes on (calls return, pauses end) and `Run` returns when all
  have left. Neither changes nor failures are owed.
* `Proposals`: an actor that has begun goes on, for the same reason. No incident and no
  approval is owed.
* `Operator`: the operator goes on as long as its queue is not empty (one goroutine,
  calls end), and the cluster collects garbage. Users and agents owe nothing.
* `Pipeline`: the one goroutine goes on; its calls return with a result or an error, and
  the user answers. Changes of the policy and kills are not owed.
* `Bridge`: `Listen` of each bridge goes on: calls and plans end, and so does the wait
  for a decision. People owe nothing, and nobody has to start a bridge again.
* `Coordinator`, `Learning` and `Executor` have no fairness: they are checked for
  safety only.

## Proofs

A theorem holds for any sets of workloads, goroutines, processes, requests and
resources, any policies and faults and any bounds; a run checks one instance. The
assumptions are the named ASSUMEs of the modules, which TLC evaluates in every run;
where a theorem needs more, its ASSUME says so and this section says why.

| Module | Theorem | Property |
|---|---|---|
| `Incidents_proofs` | `TypeCorrect` | `TypeOK` |
| | `IncidentsUnique` | `UniqueIds`: no id is held by two workloads, and the counter is ahead of every id |
| | `ClosedIsFinal` | `ClosedStaysClosed`: no step brings a closed incident back |
| | `StoreRestorable` | `Restorable`: what is stored parses and is a state to start from, in whatever order it was saved; a file unless two saves of it have met and none had it to itself since |
| | `SeverityIsCovering` | `SeverityCovers`: no copy that is put back understates an incident |
| | `NumbersFresh` | `FreshIds`: an incident that is opened takes a number not used before |
| `Proposals_proofs` | `TypeCorrect` | `TypeOK` |
| | `LedgerConsistent` | `RingConsistent`: one record per id and per time, never more than the cap |
| | `AppliedVerified` | `AppliedWasVerified` |
| | `MutationsGated` | `OnlyGatedMutations` |
| | `OneActionPerId` | `IdNamesOneAction`: an id stands for one action on one incident |
| | `AnnouncedIsStored` | `AnnouncedStored`: what an alert names is in the ring until that is full, unless saving it failed or the ring was disturbed |
| `Coordinator_proofs` | `KeysSeparate` | `KeysKeptApart`: a save changes only its own key |
| | `RingsAreSound` | `RingsSound`: rings in order, ticks with an origin, and what is stored parses, a file unless two saves of it have met and none had it to itself since |
| | `SavedAloneIsKept` | `SavedAloneStays`, in a file until two saves of the ring overlap |
| `Workers_proofs` (`Bridge`) | `ImplementsConsent` | `Consented`: `Bridge` implements `Consent`, leases that expire under a bridge included |
| | `DrillsStayHarmless` | `DrillsHarmless` |
| `Workers_proofs` (`Watch`) | `NeverStepsBack` | `NoStepBack`: no object goes back to an older version |
| | `PausesAlwaysGrow` | `PausesGrow`: a call that fails again and again is tried less often |
| | `QuietOnceReturned` | the safety half of `StopsCleanly` |
| `Operator_proofs` | `StatusIsTruthful` | `StatusTruthful`, if `NoNamesakes` |
| | `OnlyDeletedIsCleaned` | `CleansOnlyDeleted`, if `NoNamesakes` |
| `Effects_proofs` (`Executor`) | `PlansAreCarriedOutOnce` | `PlanCarriedOut`: a plan in order, each action once |
| | `ScalingLosesNoEdit` | `ScaleKeepsEdits` |
| | `RollbackUndoesTheLastRollout` | `RollbackUndoes` |
| | `ReadyIsTheLatestSpec` | `ReadyMeansRan` |
| `Effects_proofs` (`Learning`) | `LibraryIsHonest` | `LibraryHonest`: no pattern claims more than happened |
| | `LiftsAreEarned` | `LiftIsEarned`: what is applied below the floor was lifted by no more than the recordings before its match may lend |
| | `LibraryIsKept` | `LibraryKept`: undisturbed, only what the cap cuts off is lost |
| `Pipeline_proofs` | `PolicyIsObeyed` | `PolicyObeyed` |
| | `ReplayedTheSame` | `ReplayedAlike`, a part of `PolicyObeyed`: what was shown is what a step or a context carries out |
| | `RecordsHold` | `RecordsTruthful`: the history tells what happened |
| | `OptimizeAlwaysAsks` | `OptimizeAsks` and `PlainApproveNeverFansOut`, parts of `AsAgreed` |
| `Chains_proofs` | `ChainsAsAgreed` | `AsAgreed`, for prompts that are `Flat`: what happens is what was shown and agreed to, in order, and a result that says applied covers all of it |

None of these properties is inductive as it stands. Each proof module states the
strengthening it needs (`IInv` and its parts), one lemma per action that it is kept,
and a last step that puts them together with PTL.

### What is assumed, and why

* `NoNamesakes` (`Operator`): no two resources of one name ask for the same namespace.
  Cleanup deletes by name in `spec.namespace` without looking at owners
  (`reconcile.go:73-82`); with namesakes it takes the other's objects away.
* `HistoryAssumption` (`Executor`): in the history of roll-outs a Deployment starts
  with, neighbours differ. A roll-out is a change of template, so the API server
  makes no other.
* `PipelineAssumption` (`Pipeline`) gives the constants their types: an answer of the
  model is an intent, a sample an intent with a prompt and preferences, a request a
  command line, a suggestion a plan that names no
  context, and stacks may be one call deep at least. Which prompts, answers, clauses, contexts and
  policies there are is left open.
The theorems about incidents, proposals, the coordinator, the bridge and the library
assume nothing about who runs beside whom, what fails or how leases expire. Where the
code keeps a property only up to some event, the property says so, and a history
variable records the event: `crowded` (two saves of one file met, and none has had it
to itself since), `disturbed` (a load failed, or two processes overlapped in load and
save) and `unsaved` (a save failed). The runs of these modules reach each of them.

### Incidents

Whether `SyncIncident` can bring a closed incident back depends on the copies that
goroutines still carry, and whether a restart can repeat an id depends on the
snapshots that are still on their way to the store. `IInv` says of all of them at
once, the builder, the copies and the snapshots, that ids belong to one key and are
covered by the counter that goes with them. The operators of `IncidentBuilder` get a
lemma each (what they do to ids, keys and counter), every action of `Incidents` a
lemma that cites them, and `StepIInv` puts them together.

`Covers` says of the same places, and of the temporary file, that the severity of each
incident covers its evidence. A copy that is put back late has lost evidence together
with the severity it raised, never the severity alone, which is why `SeverityCovers`
holds where `JoinedStays` fails.

`FileInv` is about saves of the file. Each of those that have met another is in
`overlap`, and `crowded` stays until one that is not has renamed. One that is not in
`overlap` is alone (`Saving = {a}`): nobody has the temporary file open but it, between
open and write that is empty, and between write and rename it is the snapshot. An
update of the ConfigMap stores a snapshot or nothing.

### Proposals

A stored record may be bad because a copy was bad: one that `Put` loaded before
another process saved, or one that an approval took and works on. So `IInv` speaks
of `Held`, every record stored, loaded or in hand: records of one creation time are
one proposal under one id, and those that say applied were verified. Whatever is
copied, dropped or judged stays within `Held`. That the ring is within its cap is
`CappedSize`: what `Put` keeps has fewer than `ProposalsMax` newer records, so that
the number of newer ones maps it one to one into `0 .. ProposalsMax - 1`.
`OneActionPerId` has an invariant of its own on top (`OneAction`): all records held and
all mutations made agree on incident and action for an id, whatever their targets, and
no id is ahead of the counter. Only `Propose` gives ids, either a fresh one or that of the newest open
record of the same incident and action, which exists because creation times are
bounded (`NewestIsOne`).

`AnnouncedIsStored` rests on `Announcing`: as long as nothing has disturbed the ring, only
one actor of all processes is in `Put`, and its copy is the ring as stored (`Exclusive`),
so a save adds or replaces one record. It removes one only by the cap, and then leaves
exactly `ProposalsMax` of them (`CappedSize`). The id is announced after the save, or
after its failure, which `unsaved` records (`ReadyToAnnounce`).

### Coordinator

With two files keys are apart because each has its own. With one ConfigMap a saver
writes the whole map back, the other key included. `FreshReads` says that whoever is
about to write and will not be refused, since the version is still the one it has
seen, holds the map as it is stored.

For the order of rings, `RingInv` says that everything that could become a ring
again, the snapshots, the stored values and the temporary files, is a sequence of
items that entered this ring, by rising numbers. `PrunedIs` is the lemma about the
cut: what `pruneOutcomesLocked` leaves is such a sequence, and what it drops is past
the TTL or has been followed by as many items as the ring has room for, since an item of a
ring has been followed by those behind it (`NewerCount`). An edge a tick has settled on is
therefore still in the ring unless it has overflown, and the envelope made of it carries
a report that was handed off.

`StoreInv` is the argument about the store. A ConfigMap is always a ring of items
(`MapSound`). Of files `FilesSound` speaks of whoever saves one alone: the inode of the
temporary file is younger than that of the file, so whoever still has it open does not
write to the file, and between open, write and rename its content is empty, the
snapshot, the snapshot. Once a second save begins, the key is `crowded` until a save
that met none has renamed. `Alone` carries an item that was saved alone from the store
to the ring of a restart and to every snapshot that may still be saved; when a file gets
crowded, or a load fails, `kept` starts anew.

### Bridge

`Base` relates what a bridge does to what the plane knows of the job. `LeaseInv` says
that of two bridges at work on one job, one has lost its lease (`late`), and `GrantInv`
that a bridge about to apply has its grant: it is in `granted`, the bridges whose posted
plan waited when people approved. The mapping to `Consent` gives each bridge a grant of
its own (`grantOf`) and the job it asks for (`jobOf`); every step of one bridge changes
its own part of it (`SeenOfOne`) and is a step of `Consent` or a stutter, and an approval
is the grant to all that wait. `DrillsHarmless` needs none of it but that a drill is told
from a change at every step between claim and apply.

### Learning

What happened only grows, so a copy that claims no more than had happened when it was
made never gets ahead: `LibraryHonest` holds of the store and of every copy at once.
`LiftInv` says that the confidence in hand is above the analysis' own by no more than the
recordings counted at the match may lend, since the pattern that lends it claims no
more than those. For `LibraryKept` the
mutex of a process has one holder, whose copy is the library as stored (`FreshCopy`) as
long as nothing disturbs it; that the cap drops only patterns seen less often than all
it keeps is a fact about cardinalities.

### Watch

What the handler saw last of an object is one of its changes and not ahead of its
stream, and what it still has to hand out is newer. The version of an object in a
list is the greatest of its changes, which exists by well-founded induction (`WFMin`).
Back-off counts the failures in a row.

### Operator

Copies of a resource, in the queue and in hand, come in the order of their versions,
and the observed generation is never ahead of the copies still to come: hence a late
reconcile cannot call an older generation reconciled for the newer one. For cleanup, the
finalizer holds a resource until the operator has seen the deletion.

### Executor

A resource version vouches for the copy that carries it, so an update that is
accepted has read what it overwrites (`Vouched`), unless it is an apply, which does not
compare. `Followed` says what a controller has done when it publishes that it has
observed a generation. `Numbering` says that the newest revision counts the roll-outs,
so the greatest revision below it belongs to the template before the present one, and a
listing made before the last roll-out still knows the one before (`Listing`).

### Pipeline

`IInv` speaks of every call on the stack of routes, fan-outs and runs: `Sane` says of a
frame, by its type and by where it is, what its code has established before it gets
there. A run that reads, asks, opens a pull request, applies or verifies holds a plan
that was judged for the context its actions will reach (`Settled`); one that applies
has the consent its flags or an answer gave (`Changing`, `Fixing`), and has done the
actions before the next one. A child asks nobody only if its parent asked (`Asked`).
`Written` says that an action taken for the prompt is in the history, or its run is
still on top of the stack and about to write it; `Barred` that nothing runs for a prompt whose own plan
the CLI denies, since the preflight refuses the route before its first step.

Below that are three layers of lemmas. The first follows an intent: `Normal` says of
each of the 25 normalisers that it leaves an intent alone or turns one of the kinds it
claims into its own, `Kept` carries namespace, context and the origin of a mutation through
all of them, `Built` says what each builder makes of it, and `SampleSound` puts risk,
approval and namespace together for any prompt and any answer: `PlansSound` is a
theorem about all of them and not about samples. The second is the stack: what
`Return`, `Become`, `Call` and the provider's answers leave alone (`Lower`, `Became`, `Called`). The
third has two lemmas per action: it keeps every frame sane, and seen from outside
(`Onto`) it only adds to history and consents.

That preparing an intent twice is preparing it once (`ReplayedAlike`) goes normaliser by
normaliser. Each one leaves what it has made alone the second time (`TektonTwice`,
`HPATwice` and their like), and those before it leave it alone too, since they
would have taken the intent the first time (`PreparedAgain`). The second time a KEDA
autoscaler also spells out its target, the GitOps builder has put what it understood
into the intent of its plan, and a context of a fan-out prepares that intent with other
preferences; `Twin` says what the two intents still share, and `PlannedAgain` that the
same actions are built from both.

`ChainsAsAgreed`, in `Chains_proofs`, is the question of what a call is there for, which `Sane` does not say.
`Course` is an invariant on top of `IInv`: the stack has one of a few shapes (`Shape`: a
run or a fan-out for a prompt of one step; a route, alone or with the run or the fan-out
of its current step above it; a fan-out with the run of its current context above it),
and each call carries out a step of the request in a context. A run holds a plan that is
shown as the one the request was prepared with (`Meets`), has done its first actions in
this context (`Did`), and its flag stands for a consent to that very plan there, or for
the one on the command line (`Licensed`). A route holds the plans of the preflight, has done its
steps up to the current one (`Whole`), and has still to hand out the intents of those that
follow, prepared for the context in which they will be carried out (`Lined`); a fan-out has
done its plan in the contexts it has taken on (`Taken`). Three kinds of lemma show that it
stays. `PlansAlone`, `PlansStep` and `PlansChild` say that what a run prepares is what its
request, the preflight or the fan-out has prepared, from `ShownAgain` and `PlansAgain` (as
`ReplayedTheSame`) and from the scope that the command line forces or a step hands to the
next. The lemmas on `Onward` say that what is done is never undone, so that all
that is known of the calls below stays. And one lemma per action (`ApplyLands`,
`RunStepLands` and so on) says in which of the shapes the stack is after it: the call goes
on, calls a step or a context, returns to the one that waits for it (which then hears `ok`
only if its step is whole), or ends the invocation. `CourseKept` puts them together.

A prompt is `Flat` if its clauses split no further, it is no recipe, and no step of a
chain or of a fan-out both optimises and autoscales. Every request of run `pipeline` is. The
conditions are where the code does something else: a step whose prompt splits again is a
route of its own (`route.go:313`), whose steps the outer preflight has not prepared; in a
recipe every step carries the recipe again (the finding of `pipeline_recipe`); and
a step that optimises and autoscales reads when it is prepared once and creates the
autoscaler when it is prepared again (`ReplayedAlike`). For the others `OptimizeAlwaysAsks`,
`PolicyIsObeyed` and `RecordsHold` say what is proved: they have no such condition.

The leaves that come nearest to the default time limits cite `SMTT(60)` or `ZenonT(60)`,
so that they also pass on a machine that is slower or busy.

### Only model-checked

* Liveness, under fairness: `QuietIncidentsClose`, `CatchesUp`, `VerdictFollows`, `RunEnds`,
  `Converges`, `NothingLeftBehind`, `ListensAgain`, and of `StopsCleanly` the half that says that `Run` returns
  (`ReturnsWhenCancelled`). The prover has no rules for `WF_` and `SF_` nor for ENABLED.
* `pipeline_recipe`, `incidents_stale_copy` and `learning_patterns`, whose properties are
  violated.

Neither proved nor checked are `OnlyConsented`, `RouteInOrder` and `ResultTruthful` of prompts
that are not `Flat`: the only run with such a request is `pipeline_recipe`, which asks
something else.

## Roadmap

* Theorems: `ChainsAsAgreed` for clauses that split again, with a stack of routes in place of
  the one route of `Shape`.
* Models: the reads of the pipeline that offer fixes are one list of suggestions
  today; the reports behind them could be told apart. The readers of the cluster (graph, timeline, why,
  health) and the context the agent builds from them are arbitrary results so far; what
  they read, and in which order, is the largest part of the code without a module.

## Not modelled, and why

Formatting and transport (Slack blocks, webhooks, JSON shapes), LLM prompts and
answers, Kubernetes manifests as text, the heuristics that score or rank (floating
point), and read-only reports. Their results enter the models as arbitrary choices.
The components with status `not_modelled` in `PROJECT.json` name the reason one by one.
