SPECIFICATION FairSpec
CONSTANTS
    NoPolicy = NoPolicy
    Torn = Torn
    NoDoc = NoDoc
    Prompts <- MCPrompts
    Gate <- MCGate
    Clauses <- MCClauses
    Words <- AllWords
    Answer <- AllAnswers
    Fixes <- MCFixes
    Samples <- MCSamples
    Requests <- AllRequests
    Mismatched = {"c3"}
    Policies <- MCPolicies
    Role = "dev"
    Hours = {1, 2}
    MaxRouteSteps = 3
    MaxDepth = 5
    MaxChanges = 1
CHECK_DEADLOCK FALSE
INVARIANTS AsAgreed PolicyObeyed RecordsTruthful
PROPERTIES RunEnds
