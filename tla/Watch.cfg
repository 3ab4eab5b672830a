SPECIFICATION FairWatchSpec
CONSTANTS
    Absent = Absent
    Requests <- MCRequests
    Aliases <- MCAliases
    Objects <- MCObjects
    Kind <- MCKind
    States <- MCStates
    MaxBackoff = 1
    MaxChanges = 2
    MaxFailures = 2
CHECK_DEADLOCK FALSE
INVARIANTS PausesGrow
PROPERTIES NoStepBack CatchesUp StopsCleanly
