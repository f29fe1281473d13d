SPECIFICATION Spec
CONSTANTS
  Clients = {c1}
  Ticker = ticker
  Jobs = {j1, j2}
  NoJob = none
  Keys = {1, 2}
  KeyType <- MCKeyType
  PipelineKeys <- MCPipelineKeys
  Faults = {}
SYMMETRY JobSymmetry
INVARIANTS
  TypeOK
  ExclusiveUnlessClobbered
  NoTriggerLost
PROPERTY GrantsAlternate
