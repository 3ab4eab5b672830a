SPECIFICATION LogsSpec
CONSTANTS
  k1 = k1  k2 = k2  pods = pods  events = events
  None = None  Torn = Torn  Blank = Blank  Sweeper = Sweeper  SlackAsk = SlackAsk
  Recovery <- MCRecovery
  Rank <- MCRank
  Keys = {k1,k2}
  Signals <- AllSignals
  Resources = {pods,events}
  WatchedBy <- MCWatched
  Window = 1  QuietFor = 1  DedupeTTL = 1  ReopenWithin = 1
  Epoch = 3  MaxTime = 5
  MaxEvidence = 1  MaxSeq = 2
  MaxCrashes = 1  MaxPosts = 1
  Flags = {"autopilot-apply","slack","slack-ask","incidents-backend"}
  Backend = "configmap"
  Faults = {"crash","save","load"}
CHECK_DEADLOCK FALSE
PROPERTIES JoinedStays
