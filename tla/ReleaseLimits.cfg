\* What a release does not promise.
\* One case at a time: its line in place of the last one below, and its constants.
\*   INVARIANT MarkMeansReleased
\*   INVARIANT ReleasedIsPublic -- Private = {1}, Edits = {}, Faults = {"branch"}
\*   INVARIANT KeptTagIsAtHead -- Machines = {m1, m2}, Private = {1}, Edits = {"between"}
\*   PROPERTY ReleaseCompletes -- as ReleaseRetry.cfg with "send root tag" among the Faults, under RetrySpec
SPECIFICATION Spec
CONSTANTS
  m1 = m1
  Machines = {m1}
  NRepos = 2
  Private = {}
  None = None
  Edits = {"during"}
  MaxEdits = 2
  Faults = {"annotate"}
  MaxFaults = 1
INVARIANT MarkMeansReleased
CHECK_DEADLOCK FALSE
