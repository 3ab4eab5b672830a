SPECIFICATION FairSpec
CONSTANTS
    b1 = b1  b2 = b2  drill = drill  change = change
    None = None
    Bridges = {b1, b2}
    Jobs = {drill, change}
    Mode <- MCMode
    TwoApprovals = {change}
    MaxLost = 1
    MaxKills = 1
    MaxClaims = 2
CHECK_DEADLOCK FALSE
INVARIANTS DrillsHarmless
PROPERTIES Consented ListensAgain
