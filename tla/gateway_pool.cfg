SPECIFICATION FairSpec
CONSTANTS
  Requests = {r1, r2}
  Asyncs = {a1}
  Savers = {s1}
  Nobody = nobody
  MaxChanges = 2
INVARIANT FlagHasRefresher
PROPERTIES ImplementsCache SettingsReachPool
