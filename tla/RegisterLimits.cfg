\* What the register does not promise.
\* One case at a time: its line in place of the last one below, and its constants.
\*   INVARIANT CoveredIsAnswered
\*   PROPERTY FirstNotices -- Hands = {"replace"}
\*   INVARIANT NeverWroteSaysSo -- Hands = {}
SPECIFICATION Shared
CONSTANTS
  Which = {"register"}
  Contributors = {"ann", "bob"}
  Order <- TwoBranches
  Home <- FourHomes
  Reads <- TwoReaders
  Own = {"a", "b"}
  Old = {"a"}
  MaxAttempts = 2
  MaxHands = 1
  Hands = {"copy"}
  Machines = {"a", "b"}
  Keepers = {"a"}
  MaxRecords = 2
  MaxCommits = 5
  Habits = {"fold first", "reboot apart"}
  None = None
  During = TRUE
  Behind = {}
  Holder <- FiveRepos
  MaxWork = 2
  MaxConversions = 3
  MaxRuns = 2
  MaxFaults = 1
INVARIANT CoveredIsAnswered
CHECK_DEADLOCK FALSE
