SPECIFICATION Spec
CONSTANTS
  fp = fp
  lifecycle = lifecycle
  lowStock = lowStock
  target = target
  noKey = noKey
  j1 = j1
  j2 = j2
  noJob = noJob
  oldJob = oldJob
  interrupted = interrupted
  ticker = ticker
  s1 = s1
  Periodic = {}
  StockFetch = {lowStock}
  Targets = {target}
  Maintenance = {}
  NoKey = noKey
  Jobs = {j1}
  NoJob = noJob
  OldJob = oldJob
  Interrupted = interrupted
  Ticker = ticker
  Savers = {}
  Events = {"start", "update", "read", "save", "crash"}
INVARIANTS TypeOK ScheduleAlive
