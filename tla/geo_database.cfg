SPECIFICATION FairSpec
CONSTANTS
  Lookups = {l1, l2}
  Updaters = {ticker, admin}
  Free = free
  MaxBuild = 2
INVARIANT ReaderOpenWhileUsed
PROPERTIES OlderOnlyByFirstLoad LoadedInTheEnd
