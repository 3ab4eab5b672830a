SPECIFICATION FairSpec
CONSTANTS
  None = None
  Resources <- OneResource
  Specs <- OwnSpecs
  MaxEdits = 3  MaxPatches = 1  MaxErrors = 1  MaxRestarts = 1
CHECK_DEADLOCK FALSE
INVARIANTS StatusTruthful
PROPERTIES CleansOnlyDeleted NothingLeftBehind Converges
