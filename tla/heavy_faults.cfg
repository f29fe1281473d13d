SPECIFICATION FairSpec
CONSTANTS
  Clients = {}
  Ticker = ticker
  Jobs = {j1, j2}
  NoJob = none
  Keys = {1}
  KeyType <- MCKeyType
  PipelineKeys <- NoPipelineKeys
  Faults = {"start", "update", "fairness"}
INVARIANT SlotAccounted
PROPERTY CancelAndOutcomeStick
PROPERTY SlotFreed
