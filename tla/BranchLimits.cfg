\* What close, delete and ancestors do not promise.
\* One case at a time: its line in place of the last one below, and its constants.
\*   PROPERTY CloseKeepsPublished
\*   PROPERTY NothingLost -- During = {"own"}, MaxCommits = 1
\*   PROPERTY NothingLost -- During = {"closed"}, MaxCommits = 1
\*   PROPERTY NothingLost -- Branches = {"b", "c"}, During = {}, Plain = TRUE, MaxCommits = 1
\*   PROPERTY RetryEnds -- During = {"ancestors"}, under RetrySpec
SPECIFICATION Spec
CONSTANTS
  NRepos = 1
  Branches = {"b"}
  Between = {}
  During = {"live"}
  Plain = FALSE
  Reuse = FALSE
  MaxCommits = 2
  MaxStops = 0
PROPERTY CloseKeepsPublished
CHECK_DEADLOCK FALSE
