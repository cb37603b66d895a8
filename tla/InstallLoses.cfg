SPECIFICATION Workspaces
CONSTANTS
  Which = {"install"}
  Repos <- FiveRepos
  Parent <- Within
  Document = {"lib", "memory"}
  Memory = "memory"
  Private = {"memory", "history"}
  Few <- ThreeRepos
  Hidden = {"settings", "memory"}
  During = FALSE
  MaxWork = 1
  MaxFaults = 1
  MaxRuns = 2
  Mates = {}
  Adrift = FALSE
  MaxMates = 1
  MaxCommands = 1
INVARIANT NothingLost
CHECK_DEADLOCK FALSE
