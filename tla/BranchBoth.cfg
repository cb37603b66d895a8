SPECIFICATION Both
CONSTANTS
  Which = {"team", "alone"}
  NRepos = 1
  Branches = {"b"}
  Between = {"main", "live", "closed", "ancestors"}
  During = {"main", "ancestors"}
  Plain = TRUE
  Reuse = TRUE
  MaxCommits = 2
  MaxStops = 1
INVARIANTS RecordedIsPublic DeletesLast
PROPERTIES NothingEverLost Joins RerunEnds
CHECK_DEADLOCK FALSE
