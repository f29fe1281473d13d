SPECIFICATION QuietSpec
CONSTANTS
  Clients = {c1}
  Ticker = ticker
  Jobs = {j1, j2}
  NoJob = none
  Keys = {1}
  KeyType <- MCKeyType
  PipelineKeys <- NoPipelineKeys
  Faults = {"start", "update"}
PROPERTY ImplementsSlot
