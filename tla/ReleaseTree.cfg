SPECIFICATION Spec
CONSTANTS
  m1 = m1
  m2 = m2
  Machines = {m1, m2}
  NRepos = 3
  Private = {}
  None = None
  Edits = {"between"}
  MaxEdits = 2
  Faults = {"commit", "pull", "push", "tag", "branch", "send tag", "annotate", "send root tag", "record", "fetch"}
  MaxFaults = 1
INVARIANTS MarkMeansReleased OneReleaser ReleasedIsPublic KeptTagIsAtHead
CHECK_DEADLOCK FALSE
