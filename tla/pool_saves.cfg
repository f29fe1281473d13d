SPECIFICATION FairSpec
CONSTANTS
  w1 = w1
  w2 = w2
  p1 = p1
  p2 = p2
  Workers = {w1, w2}
  Plans = {p1, p2}
  NoPlan = none
  MaxLimit = 2
  Spared <- MCSpared
  Retested <- MCRetested
  DeleteFailed = TRUE
  Faults = {"save", "delete", "timeout"}
INVARIANTS
  TypeOK
  PermitsAccounted
  NoSleeperMissesPermit
  CompletedMeansSaved
  EndsAfterWorkers
  ReportMatchesStore
PROPERTIES
  JobEnds
  ImplementsJob
