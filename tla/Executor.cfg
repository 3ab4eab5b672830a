SPECIFICATION Spec
CONSTANTS
    ta = ta  tb = tb  tc = tc  p1 = p1  p2 = p2
    Absent = Absent
    Processes = {p1, p2}
    Runs <- MCRuns
    Edited = {"web"}
    Objects <- MCObjects
    Kind <- MCKind
    History <- MCHistory
    Templates = {ta, tb, tc}
    Wanted <- MCWanted
    Nodes = 1
    MaxTries = 2
    MaxEdits = 1
    Faults = {"lost"}
CHECK_DEADLOCK FALSE
INVARIANTS PlanCarriedOut
PROPERTIES ScaleKeepsEdits RollbackUndoes ReadyMeansRan
