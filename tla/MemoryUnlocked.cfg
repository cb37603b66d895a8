CONSTANTS
    Procs = {p, f}
    Free = {f}
    NRepos = 2
    NStates = 2
    MaxEntries = 3
    MaxCommits = 2
    Faults = {}
    MaxFaults = 0
SPECIFICATION Spec
INVARIANTS PendingSeqsUnique LogsMatchGit
CHECK_DEADLOCK FALSE
