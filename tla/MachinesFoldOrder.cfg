SPECIFICATION Shared
CONSTANTS
  Which = {"machines"}
  Contributors = {"ann", "bob"}
  Order <- TwoBranches
  Home <- FourHomes
  Reads <- TwoReaders
  Own = {"a", "b"}
  Old = {"a"}
  MaxAttempts = 2
  MaxHands = 1
  Hands = {}
  Machines = {"a", "b"}
  Keepers = {"a"}
  MaxRecords = 2
  MaxCommits = 5
  Habits = {"reboot apart"}
  None = None
  During = TRUE
  Behind = {}
  Holder <- FiveRepos
  MaxWork = 2
  MaxConversions = 3
  MaxRuns = 0
  MaxFaults = 0
INVARIANT NumberedAcrossTheFold
CHECK_DEADLOCK FALSE
