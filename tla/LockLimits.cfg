\* What the lock does not promise.
\* One case at a time: its line in place of the last one below, and its constants.
\*   INVARIANT MutualExclusion
\*   PROPERTY UnlockSparesTheLiving -- Unlockers = {u1}, Fresh = FALSE
\*   PROPERTY TakingEnds -- Fresh = FALSE, under FairSpec
CONSTANTS
    Procs = {p1, p2}
    Unlockers = {}
    MaxDepth = 2
    Fresh = TRUE
    NoLock = NoLock
    Nobody = Nobody
SPECIFICATION Spec
INVARIANT MutualExclusion
CHECK_DEADLOCK FALSE
