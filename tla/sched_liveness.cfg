SPECIFICATION FairSpec
CONSTANTS
  fp = fp
  lifecycle = lifecycle
  lowStock = lowStock
  target = target
  noKey = noKey
  j1 = j1
  j2 = j2
  noJob = noJob
  oldJob = oldJob
  interrupted = interrupted
  ticker = ticker
  s1 = s1
  Periodic = {fp}
  StockFetch = {}
  Targets = {}
  Maintenance = {lifecycle}
  NoKey = noKey
  Jobs = {j1, j2}
  NoJob = noJob
  OldJob = oldJob
  Interrupted = interrupted
  Ticker = ticker
  Savers = {}
  Events = {"create"}
PROPERTY ScheduleRuns
