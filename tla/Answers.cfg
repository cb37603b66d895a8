CONSTANTS
    Procs = {p1, p2, p3, p4}
    Unlockers = {}
    MaxDepth = 3
    Fresh = FALSE
    NoLock = NoLock
    Nobody = Nobody
    None = None
    Which = {"commands", "unlock", "audit", "trees", "authoring", "registry", "places", "survey", "reading", "environment", "door", "watch", "records", "gates"}
SPECIFICATION Alone
INVARIANTS MutualExclusion HolderOwnsFile AnswersAreRight
PROPERTIES StaleLockStays StaleIsCleared
CHECK_DEADLOCK FALSE
