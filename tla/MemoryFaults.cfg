CONSTANTS
    Procs = {p}
    Free = {}
    NRepos = 2
    NStates = 2
    MaxEntries = 4
    MaxCommits = 2
    Faults = {"stop", "append", "partial", "refuse"}
    MaxFaults = 2
SPECIFICATION Spec
INVARIANTS VerifiedAtRest PublishedExactlyOnce ChainHolds FoldedBeforePending NeverOverclaims
PROPERTIES RowsKept ImplementsChronicle
CHECK_DEADLOCK FALSE
