SPECIFICATION EitherSpec
CONSTANTS
  send1 = send1  send2 = send2  report1 = report1  tick1 = tick1
  None = None  Torn = Torn
  Senders = {send1, send2}  Reporters = {report1}  Tickers = {tick1}
  Edges <- TwoEdges
  Keep <- KeepTwo
  Budget = 1
  Backend = "configmap"
  Faults = {"save","load","kill","ttl"}
  MaxItems = 4
CHECK_DEADLOCK FALSE
INVARIANTS RingsSound SavedAloneStays
PROPERTIES KeysKeptApart
