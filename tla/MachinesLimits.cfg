\* What a memory on several machines does not promise.
\* One case at a time: its line in place of the last one below, and its constants.
\*   PROPERTY NothingGivenUp
\*   INVARIANT RefusedIsRepairable -- Habits = {"fold first", "reboot apart"}
SPECIFICATION Shared
CONSTANTS
  Which = {"machines"}
  Contributors = {"ann", "bob"}
  Order <- TwoBranches
  Home <- FourHomes
  Reads <- TwoReaders
  Own = {"a", "b"}
  Old = {"a"}
  MaxAttempts = 2
  MaxHands = 1
  Hands = {}
  Machines = {"a", "b"}
  Keepers = {"a"}
  MaxRecords = 2
  MaxCommits = 5
  Habits = {"fold first"}
  None = None
  During = TRUE
  Behind = {}
  Holder <- FiveRepos
  MaxWork = 2
  MaxConversions = 3
  MaxRuns = 0
  MaxFaults = 0
PROPERTY NothingGivenUp
CHECK_DEADLOCK FALSE
