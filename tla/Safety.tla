-------------------------------- MODULE Safety --------------------------------
(***************************************************************************)
(* The safety policy of a plan (internal/safety): the hard denials of the  *)
(* CLI, the risk it gives to what is left, and the organisation's overlay. *)
(* Pure operators on the plans that Planner builds and on those that the   *)
(* reports suggest.                                                        *)
(***************************************************************************)
EXTENDS Planner

CONSTANT NoPolicy       \* no organisation policy is in force

RiskRank == [low |-> 1, medium |-> 2, high |-> 3, denied |-> 4]
Risks == DOMAIN RiskRank

DeletableKinds == {"Pod", "Deployment", "Service", "Job", "ReplicaSet"}
OrphanKinds == {"ConfigMap", "Secret"}

\* A delete names one object of a kind that may be deleted, and ConfigMaps and
\* Secrets only after the prompt confirmed them.
SafeDelete(plan, action) ==
    /\ action.name # Unset /\ action.name \notin EveryName
    /\ \/ action.object \in DeletableKinds
       \/ action.object \in OrphanKinds /\ Param(plan.intent, "confirm_orphans", FALSE)

\* What a plan may do through each backend; Helm may do anything but remove
\* all releases at once.  An autoscaler is only created or updated.
ArgoOps == {"workflow-create"}
TektonOps == {"pipelinerun-create"}
KEDAOps == {"scaledobject-create"}
IstioOps == {"istio-traffic"}
CrossplaneOps == {"claim-create"}
GitOpsOps == {"gitops-status", "gitops-sync"}
HPAOps == {"create", "update"}

SafeForBackend(action) ==
    /\ action.object = "HorizontalPodAutoscaler" => action.op \in HPAOps
    /\ CASE action.backend = "helm"       -> action.op # "uninstall-all"
         [] action.backend = "argo"       -> action.op \in ArgoOps
         [] action.backend = "tekton"     -> action.op \in TektonOps
         [] action.backend = "keda"       -> action.op \in KEDAOps
         [] action.backend = "istio"      -> action.op \in IstioOps
         [] action.backend = "crossplane" -> action.op \in CrossplaneOps
         [] action.backend = "gitops"     -> action.op \in GitOpsOps
         [] OTHER -> TRUE

MediumKinds == {"scale", "deploy", "install", "upgrade", "rollback", "patch",
                "workflow", "tekton", "keda", "hpa"}
HighKinds == {"delete", "crossplane"}
ReadKinds == {"get", "explain", "investigate", "why", "timeline", "impact", "audit",
              "cleanup", "search", "score", "architecture", "learn", "drift", "logs",
              "describe", "performance", "trace", "dashboard", "optimize", "roast",
              "graph", "istio"}

KindRisk(plan) ==
    CASE plan.intent.kind \in HighKinds -> "high"
      [] plan.intent.kind \in MediumKinds -> "medium"
      [] plan.intent.kind = "gitops" /\ plan.approval -> "medium"
      [] plan.intent.kind = "gitops" /\ ~plan.approval -> "low"
      [] plan.intent.kind \in ReadKinds -> "low"
      [] OTHER -> "high"

EvaluatePlan(plan) ==
    IF \/ plan.intent.kind = "deny"
       \/ \E i \in DOMAIN plan.actions :
            \/ plan.actions[i].op = "delete" /\ ~SafeDelete(plan, plan.actions[i])
            \/ ~SafeForBackend(plan.actions[i])
    THEN "denied"
    ELSE KindRisk(plan)

(***************************************************************************)
(* The organisation's overlay.  A set of names that holds "*" matches all. *)
(***************************************************************************)
Names(set, name) == "*" \in set \/ name \in set

\* The target's namespace, or the first an action names: a plan has one.
planNamespace(plan) ==
    IF plan.intent.ns # Unset THEN plan.intent.ns
    ELSE LET named == {i \in DOMAIN plan.actions : plan.actions[i].ns # Unset}
         IN  IF named = {} THEN Unset
             ELSE plan.actions[CHOOSE i \in named : \A j \in named : i <= j].ns

NamespaceDenied(org, ns) ==
    /\ ns # Unset
    /\ \/ Names(org.denyNamespaces, ns)
       \/ org.allowNamespaces # {} /\ ~Names(org.allowNamespaces, ns)

WindowsOf(org, context) ==
    {w \in org.windows : w.contexts = {} \/ Names(w.contexts, context)}

\* Mutations are refused when windows claim the context and none is open.
OutsideChangeWindow(org, plan, risk, context, hour) ==
    /\ plan.approval \/ RiskRank[risk] >= RiskRank["medium"]
    /\ WindowsOf(org, context) # {}
    /\ \A w \in WindowsOf(org, context) : hour \notin w.hours

ApplyOrgPolicy(risk, plan, org, context, hour) ==
    IF /\ org # NoPolicy
       /\ risk # "denied"
       /\ \/ NamespaceDenied(org, planNamespace(plan))
          \/ plan.intent.kind \in org.denyIntents
          \/ RiskRank[risk] > RiskRank[org.maxRisk]
          \/ OutsideChangeWindow(org, plan, risk, context, hour)
    THEN "denied"
    ELSE risk

EvaluatePlanWithOrg(plan, org, context, hour) ==
    ApplyOrgPolicy(EvaluatePlan(plan), plan, org, context, hour)

\* An organisation without a role matrix lets everyone approve; with one, the
\* member's role must list the risk, and an unknown role lists nothing.
RoleMayApprove(org, role, risk) ==
    \/ org = NoPolicy
    \/ org.approveByRole = {}
    \/ risk # "denied" /\ <<role, risk>> \in org.approveByRole
=============================================================================
