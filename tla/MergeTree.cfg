SPECIFICATION RetrySpec
CONSTANTS
  NRepos = 3
  Private = {1, 2}
  Memory = 1
  OneName = FALSE
  Sources = {"absent", "merged", "ahead", "forked", "unrelated"}
  Targets = {"level"}
  Clashes = {"none", "text"}
  Commands = {"merge", "into", "resolve", "resolve-all"}
  Modes = {"default", "ff-only"}
  Own = FALSE
  MaxOdd = 1
  MaxWork = 1
  MaxFaults = 1
INVARIANTS ProjectIsDoneFirst MemoryStaysWhole EndsWhereItSaid
PROPERTIES NothingMergedBesideAConflict StopsAtUnfinished MergeEnds
CHECK_DEADLOCK FALSE
