\* What an install does not promise.
\* One case at a time: its line in place of the last one below, and its constants.
\*   INVARIANT RefusedForWork
\*   INVARIANT SavedBranchIsOnDisk
\*   INVARIANT GuardedWorkKept -- During = TRUE
SPECIFICATION Workspaces
CONSTANTS
  Which = {"install"}
  Repos <- FiveRepos
  Parent <- Within
  Document = {"lib", "memory"}
  Memory = "memory"
  Private = {"memory", "history"}
  Few <- ThreeRepos
  Hidden = {"settings", "memory"}
  During = FALSE
  MaxWork = 1
  MaxFaults = 1
  MaxRuns = 2
  Mates = {}
  Adrift = FALSE
  MaxMates = 1
  MaxCommands = 1
INVARIANT RefusedForWork
CHECK_DEADLOCK FALSE
