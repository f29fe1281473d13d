SPECIFICATION Spec
CONSTANTS
  r1 = r1
  r2 = r2
  Upstreams = {u1, u2}
  NoUpstream = none
  Requests = {r1, r2}
  Thresholds = {1, 2}
  Cooldown = 2
  Attempts = 2
  MaxCount = 2
SYMMETRY Symmetry
INVARIANTS TypeOK ProbeAccounted RequestCountedOnce
PROPERTIES HistoryKept ImplementsBreaker
