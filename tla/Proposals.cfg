SPECIFICATION EitherSpec
CONSTANTS
  loop1 = loop1  loop2 = loop2  slack1 = slack1  cmd1 = cmd1  agent = agent
  None = None
  Agent = agent
  Workers = {loop1,loop2}
  Approvers = {slack1}
  Commands = {cmd1}
  Policy <- StrictCommand
  Incidents = {"inc1"}
  Actions = {"restart", "scale"}
  Targets = {"web", "db"}
  Confidences = {1}
  AutopilotApply = TRUE
  Faults = {"load", "save", "kill"}
  ProposalsMax = 2  MaxProposals = 3  MaxApprovals = 2
CHECK_DEADLOCK FALSE
INVARIANTS TypeOK RingConsistent AppliedWasVerified OnlyGatedMutations IdNamesOneAction AnnouncedStored
PROPERTIES VerdictFollows
