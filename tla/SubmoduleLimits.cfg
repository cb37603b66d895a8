\* What the conversion of submodules does not promise.
\* One case at a time: its line in place of the last one below.
\*   INVARIANT OwnFilesNeverBlock
\*   INVARIANT ImportFinishesTheJob
SPECIFICATION Shared
CONSTANTS
  Which = {"submodules"}
  Contributors = {"ann", "bob"}
  Order <- TwoBranches
  Home <- FourHomes
  Reads <- TwoReaders
  Own = {"a", "b"}
  Old = {"a"}
  MaxAttempts = 2
  MaxHands = 1
  Hands = {}
  Machines = {"a", "b"}
  Keepers = {"a"}
  MaxRecords = 2
  MaxCommits = 5
  Habits = {}
  None = None
  During = TRUE
  Behind = {}
  Holder <- FiveRepos
  MaxWork = 2
  MaxConversions = 3
  MaxRuns = 0
  MaxFaults = 0
INVARIANT OwnFilesNeverBlock
CHECK_DEADLOCK FALSE
