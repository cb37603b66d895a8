CONSTANTS
    Procs = {p}
    Free = {}
    NRepos = 1
    NStates = 2
    MaxEntries = 2
    MaxCommits = 2
    Faults = {"append"}
    MaxFaults = 1
SPECIFICATION Spec
INVARIANT EntriesOwnTheirRows
CHECK_DEADLOCK FALSE
