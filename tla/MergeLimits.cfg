\* What a merge does not promise.
\* One case at a time: its line in place of the last one below, and its constants.
\*   PROPERTY NothingMergedBesideAConflict
\*   INVARIANT EndsWhereItSaid -- OneName = TRUE, Own = FALSE
\*   INVARIANT UnrelatedShareNothing -- NRepos = 2, Private = {1}, Targets = {"level", "origin-only"}, MaxOdd = 2, Own = FALSE
\*   PROPERTY MergeEnds -- the same with Targets = {"level", "behind"}, under RetrySpec
SPECIFICATION Spec
CONSTANTS
  NRepos = 3
  Private = {1, 2}
  Memory = 1
  OneName = FALSE
  Sources = {"absent", "merged", "ahead", "forked", "unrelated"}
  Targets = {"level"}
  Clashes = {"none", "text"}
  Commands = {"merge", "into", "resolve", "resolve-all"}
  Modes = {"default", "ff-only"}
  Own = TRUE
  MaxOdd = 1
  MaxWork = 1
  MaxFaults = 1
PROPERTY NothingMergedBesideAConflict
CHECK_DEADLOCK FALSE
