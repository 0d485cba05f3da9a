SPECIFICATION FairSpec
CONSTANTS
  t1 = t1
  t2 = t2
  t3 = t3
  Nobody = nobody
  Threads = {t1, t2, t3}
  Hosts = {t1, t2}
  Names <- MCNames
  UsePaths <- MCPaths
  FullName <- MCFull
  OnDisk <- MCOnDisk
  Programs <- MCPrograms
INVARIANTS
  LocksBalanced
  EvaluatedOnce
PROPERTIES
  SkippedOnlyIfMissing
  LoaderSpec
  Termination
CHECK_DEADLOCK FALSE
