SPECIFICATION Shared
CONSTANTS
  Which = {"register", "machines", "submodules"}
  Contributors = {"ann", "bob"}
  Order <- TwoBranches
  Home <- FourHomes
  Reads <- TwoReaders
  Own = {"a", "b"}
  Old = {"a"}
  MaxAttempts = 2
  MaxHands = 1
  Hands = {"propose", "misfile", "copy", "withdraw", "vanish", "rewind", "replace", "fork", "drop"}
  Machines = {"a", "b"}
  Keepers = {"a"}
  MaxRecords = 2
  MaxCommits = 5
  Habits = {"fold first", "reboot apart"}
  None = None
  During = TRUE
  Behind = {3}
  Holder <- FiveRepos
  MaxWork = 2
  MaxConversions = 3
  MaxRuns = 2
  MaxFaults = 1
INVARIANTS RegisterAnswers MemoryIsKept ConversionIsWhole
PROPERTIES IndexGrows NothingGivenUp
CHECK_DEADLOCK FALSE
