SPECIFICATION Spec
CONSTANTS
    NoPolicy = NoPolicy
    Torn = Torn
    NoDoc = NoDoc
    Prompts <- MCPrompts
    Gate <- MCGate
    Clauses <- MCClauses
    Words <- AllWords
    Answer <- AllAnswers
    Fixes <- MCFixes
    Samples <- NoSamples
    Requests <- Recipe
    Mismatched = {"c3"}
    Policies <- MCPolicies
    Role = "dev"
    Hours = {1, 2}
    MaxRouteSteps = 8
    MaxDepth = 5
    MaxChanges = 0
INVARIANTS
    RecipesEnd
CHECK_DEADLOCK FALSE
