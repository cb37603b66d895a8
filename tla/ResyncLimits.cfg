\* What pull, fetch and a release load do not promise.
\* One case at a time: its line in place of the last one below, and its constants.
\*   PROPERTY OwnWorkKept
\*   PROPERTY OwnWorkKept -- Adrift = FALSE, During = TRUE
\*   INVARIANT StateNamesADetachedHead -- Adrift = FALSE
\*   INVARIANT ResyncIsSound -- Adrift = FALSE, Mates = {"rewrite"}
SPECIFICATION Workspaces
CONSTANTS
  Which = {"resync"}
  Repos <- FiveRepos
  Parent <- Within
  Document = {"lib", "memory"}
  Memory = "memory"
  Private = {"memory", "history"}
  Few <- ThreeRepos
  Hidden = {"settings", "memory"}
  During = FALSE
  MaxWork = 1
  MaxFaults = 1
  MaxRuns = 2
  Mates = {}
  Adrift = TRUE
  MaxMates = 1
  MaxCommands = 1
PROPERTY OwnWorkKept
CHECK_DEADLOCK FALSE
