\* What a memory does not promise.
\* One case at a time: its line in place of the last one below, and its constants.
\*   PROPERTY EntriesKept
\*   INVARIANT HeadInItsHalf -- Procs = {p}, Free = {}, MaxEntries = 2, MaxCommits = 2, Faults = {"stop"}, MaxFaults = 1
\*   PROPERTY NeverBlocksPush -- the same
\*   INVARIANT CommittedOnce -- the same with MaxEntries = 3, MaxCommits = 1
\*   INVARIANT PublishedOnce -- the same with NStates = 3, MaxEntries = 4, Faults = {"refuse"}
\*   INVARIANT PublishedIsRecorded -- the same with NStates = 3, MaxEntries = 3, NRepos = 2, Faults = {"partial"}
CONSTANTS
    Procs = {p, f}
    Free = {f}
    NRepos = 1
    NStates = 2
    MaxEntries = 3
    MaxCommits = 1
    Faults = {}
    MaxFaults = 0
SPECIFICATION Spec
PROPERTY EntriesKept
CHECK_DEADLOCK FALSE
