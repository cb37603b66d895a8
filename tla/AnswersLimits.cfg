\* What the answers of one command do not promise.
\* One case at a time: its line in place of the last one below, and its constant.
\*   INVARIANT TopKeysUnique -- Which = {"registry"}
\*   INVARIANT HeldOnceOnEveryBranch -- Which = {"registry"}
\*   INVARIANT ProjectOwnsItsOwn -- Which = {"registry"}
\*   INVARIANT NeverLandedReadsBack -- Which = {"registry"}
\*   INVARIANT BranchIsNoTag -- Which = {"registry"}
\*   INVARIANT StandingInOneIsEnough -- Which = {"places"}
\*   INVARIANT OldPathsTravel -- Which = {"places"}
\*   INVARIANT AdoptionReproduces -- Which = {"survey"}
\*   INVARIANT ExistsIsTrue -- Which = {"survey"}
\*   INVARIANT AWholeNameIsFound -- Which = {"reading"}
\*   INVARIANT PublishedIsOneList -- Which = {"reading"}
\*   INVARIANT ChangedIsWritten -- Which = {"reading"}
\*   INVARIANT KeptIsFound -- Which = {"reading"}
\*   INVARIANT InstalledIsNotMissing -- Which = {"environment"}
\*   INVARIANT ShortVersionsCompare -- Which = {"environment"}
\*   INVARIANT ObservedNow -- Which = {"environment"}
\*   INVARIANT PlatformIsPixis -- Which = {"environment"}
\*   INVARIANT RemovalIsWhole -- Which = {"door"}
\*   INVARIANT AddStaysInScope -- Which = {"door"}
\*   INVARIANT OtherUpstreamIsAsked -- Which = {"door"}
\*   INVARIANT PublicNamesTheOperation -- Which = {"door"}
\*   INVARIANT NoPathIsShown -- Which = {"door"}
\*   INVARIANT OrphansAreOurs -- Which = {"watch"}
\*   INVARIANT ListNamesEveryRepository -- Which = {"watch"}
\*   INVARIANT PreservedInMemory -- Which = {"watch"}
\*   INVARIANT EditIsNoticed -- Which = {"records"}
\*   INVARIANT LastEntryIsWitnessed -- Which = {"records"}
\*   INVARIANT SignedStaysSigned -- Which = {"records"}
\*   INVARIANT NoEventIsLost -- Which = {"records"}
\*   INVARIANT DamageIsSeen -- Which = {"gates"}
\*   INVARIANT UndroppedHasRecord -- Which = {"gates"}
\*   INVARIANT RecordedIsAccepted -- Which = {"gates"}
\*   INVARIANT BlamedIsReported -- Which = {"gates"}
\*   INVARIANT BranchIsTheirs -- Which = {"gates"}
\*   INVARIANT SplicesWhatDiverged -- Which = {"gates"}
\*   INVARIANT SuccessIsNoError -- Which = {"gates"}
\*   INVARIANT AskedAgainReadsTheSame -- Which = {"gates"}
CONSTANTS
    Procs = {p1, p2, p3, p4}
    Unlockers = {}
    MaxDepth = 3
    Fresh = FALSE
    NoLock = NoLock
    Nobody = Nobody
    None = None
    Which = {"registry"}
SPECIFICATION Alone
INVARIANT TopKeysUnique
CHECK_DEADLOCK FALSE
