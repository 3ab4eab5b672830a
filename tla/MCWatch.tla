------------------------------- MODULE MCWatch -------------------------------
(* An instance of Watch: a pod and a quota in the cluster, and a request for *)
(* quotas, or one for nothing the engine knows, which gets the default.      *)
EXTENDS Watch

MCAliases == [n \in {"pods", "events", "quota"} |->
    CASE n = "pods" -> "Pod" [] n = "events" -> "Event" [] n = "quota" -> "ResourceQuota"]
MCRequests == {{"nodes"}, {"quota", "nodes"}}
MCObjects == {"pod", "limit"}
MCKind == [o \in MCObjects |-> IF o = "pod" THEN "Pod" ELSE "ResourceQuota"]
MCStates == [o \in MCObjects |-> IF o = "pod" THEN {"Pending", "Running"} ELSE {"exceeded"}]
=============================================================================
