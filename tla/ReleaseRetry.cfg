SPECIFICATION RetrySpec
CONSTANTS
  m1 = m1
  Machines = {m1}
  NRepos = 3
  Private = {1}
  None = None
  Edits = {}
  MaxEdits = 2
  Faults = {"commit", "pull", "push", "tag", "branch", "send tag", "annotate", "fetch"}
  MaxFaults = 3
PROPERTY ReleaseCompletes
CHECK_DEADLOCK FALSE
