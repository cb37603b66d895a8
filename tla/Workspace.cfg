SPECIFICATION Workspaces
CONSTANTS
  Which = {"install", "resync"}
  Repos <- FiveRepos
  Parent <- Within
  Document = {"lib", "memory"}
  Memory = "memory"
  Private = {"memory", "history"}
  Few <- ThreeRepos
  Hidden = {"settings", "memory"}
  During = FALSE
  MaxWork = 1
  MaxFaults = 1
  MaxRuns = 2
  Mates = {"push", "delete"}
  Adrift = FALSE
  MaxMates = 1
  MaxCommands = 1
INVARIANTS GuardedWorkKept SavedTreeIsSound ResyncIsSound
PROPERTIES InstallEnds OwnWorkKept
CHECK_DEADLOCK FALSE
