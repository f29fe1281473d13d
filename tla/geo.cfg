SPECIFICATION FairSpec
CONSTANTS
  Ips = {i1, i2}
  NoIp = noIp
  Checks = {c1, c2}
  Worker = worker
  QueueSize = 1
  Ttl = 2
  Retry = 1
  Rate = 1
INVARIANT PendingExact
PROPERTIES ImplementsService NothingHangs
