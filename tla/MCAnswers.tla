-------------------------------- MODULE MCAnswers -------------------------------
(****************************************************************************)
(* What one command does by itself: it takes the lock, as in MCLock; or it  *)
(* answers from what it reads, and an initial state is one question. What   *)
(* is only computed keeps no state that a step changes.                     *)
(****************************************************************************)
EXTENDS MCLock

CONSTANT None

VARIABLE question

Audits   == INSTANCE Audit WITH MaxLeaves <- 8, MaxFindings <- 4, Moments <- {0, 3, 7}
Forests  == INSTANCE Trees WITH MaxFlagged <- 5, MaxOrdered <- 4, MaxNodes <- 3, MaxPaths <- 3
Writings == INSTANCE Authoring
Trunks   == INSTANCE Registry
Sites    == INSTANCE Places
Scans    == INSTANCE Survey
Accounts == INSTANCE Reading
Hosts    == INSTANCE Environment
Doors    == INSTANCE Door
Lookouts == INSTANCE Watch
Papers   == INSTANCE Records
Wickets  == INSTANCE Gates

Asked ==
    CASE which = "audit"       -> Audits!Questions
      [] which = "trees"       -> Forests!Questions
      [] which = "authoring"   -> Writings!Questions
      [] which = "registry"    -> Trunks!Questions
      [] which = "places"      -> Sites!Questions
      [] which = "survey"      -> Scans!Questions
      [] which = "reading"     -> Accounts!Questions
      [] which = "environment" -> Hosts!Questions
      [] which = "door"        -> Doors!Questions
      [] which = "watch"       -> Lookouts!Questions
      [] which = "records"     -> Papers!Questions
      [] which = "gates"       -> Wickets!Questions
      [] OTHER                 -> {None}

InitAll == InitBoth /\ question \in Asked

Alone ==
    /\ InitAll
    /\ [][(Locking \/ Unlocking) /\ UNCHANGED question]_<<which, question, vars, varsU>>
    /\ WF_<<which, question, vars, varsU>>(Clearing /\ UNCHANGED question)

-----------------------------------------------------------------------------
\* Every answer is the one its definition asks for: the audit paths and the order of findings, the
\* roots and the walks of a tree, the authoring form, what discovery and a saved tree keep, the place
\* a command works in, what is found around it, what is told of its history, its branches and its
\* tools, who may be touched by a command, and what is written so that it can be checked afterwards.
AnswersAreRight ==
    /\ which = "audit"       => Audits!Right(question)
    /\ which = "trees"       => Forests!Right(question)
    /\ which = "authoring"   => Writings!Right(question)
    /\ which = "registry"    => Trunks!Right(question)
    /\ which = "places"      => Sites!Right(question)
    /\ which = "survey"      => Scans!Right(question)
    /\ which = "reading"     => Accounts!Right(question)
    /\ which = "environment" => Hosts!Right(question)
    /\ which = "door"        => Doors!Right(question)
    /\ which = "watch"       => Lookouts!Right(question)
    /\ which = "records"     => Papers!Right(question)
    /\ which = "gates"       => Wickets!Right(question)

(* What does not hold. *)

\* A discovery that ends keeps no two top-level entries of one path.
TopKeysUnique == which = "registry" => Trunks!TopKeysUnique(question)
\* What a Project declares itself is its own, whatever it is mounted in.
ProjectOwnsItsOwn == which = "registry" => Trunks!ProjectOwnsItsOwn(question)
\* A repository is held once on whatever branch the tree stands.
HeldOnceOnEveryBranch == which = "registry" => Trunks!HeldOnceOnEveryBranch(question)
\* A tree that was never put on a branch reads back as it was.
NeverLandedReadsBack == which = "registry" => Trunks!NeverLandedReadsBack(question)
\* A branch that is recorded is not taken for a tag.
BranchIsNoTag == which = "registry" => Trunks!BranchIsNoTag(question)
\* Who stands in a workspace and names none works in it.
StandingInOneIsEnough == which = "places" => Sites!StandingInOneIsEnough(question)
\* A path that an older State recorded is a place on every machine.
OldPathsTravel == which = "places" => Sites!OldPathsTravel(question)
\* The draft that submodules init writes targets what was found.
AdoptionReproduces == which = "survey" => Scans!AdoptionReproduces(question)
\* A repository that is said to exist does.
ExistsIsTrue == which = "survey" => Scans!ExistsIsTrue(question)
\* A record is found by its whole name.
AWholeNameIsFound == which = "reading" => Accounts!AWholeNameIsFound(question)
\* What was published is one list, wherever the fold is.
PublishedIsOneList == which = "reading" => Accounts!PublishedIsOneList(question)
\* A repository whose commit changed is said to be written.
ChangedIsWritten == which = "reading" => Accounts!ChangedIsWritten(question)
\* A chapter that ancestors keeps is found.
KeptIsFound == which = "reading" => Accounts!KeptIsFound(question)
\* What is installed is not said to be missing.
InstalledIsNotMissing == which = "environment" => Hosts!InstalledIsNotMissing(question)
\* A version of one number is compared like any other.
ShortVersionsCompare == which = "environment" => Hosts!ShortVersionsCompare(question)
\* An observation is of the machine as it is.
ObservedNow == which = "environment" => Hosts!ObservedNow(question)
\* A recorded platform is one that a Pixi lock can name.
PlatformIsPixis == which = "environment" => Hosts!PlatformIsPixis(question)
\* A removal that is refused has removed nothing.
RemovalIsWhole == which = "door" => Doors!RemovalIsWhole(question)
\* A path that is staged is in a repository that this project may write.
AddStaysInScope == which = "door" => Doors!AddStaysInScope(question)
\* A push that origin rejects is refused before, whatever upstream its branch names.
OtherUpstreamIsAsked == which = "door" => Doors!OtherUpstreamIsAsked(question)
\* The public level names the operation.
PublicNamesTheOperation == which = "door" => Doors!PublicNamesTheOperation(question)
\* A proof shows no path.
NoPathIsShown == which = "door" => Doors!NoPathIsShown(question)
\* An orphaned branch is one of this project's.
OrphansAreOurs == which = "watch" => Lookouts!OrphansAreOurs(question)
\* The list of branches names every repository.
ListNamesEveryRepository == which = "watch" => Lookouts!ListNamesEveryRepository(question)
\* What a twin's memory kept is named by its project branch.
PreservedInMemory == which = "watch" => Lookouts!PreservedInMemory(question)
\* A State that was edited is not read as one that was not.
EditIsNoticed == which = "records" => Papers!EditIsNoticed(question)
\* The newest entry of the ledger cannot be taken away or written again.
LastEntryIsWitnessed == which = "records" => Papers!LastEntryIsWitnessed(question)
\* Once a contract is signed, one is.
SignedStaysSigned == which = "records" => Papers!SignedStaysSigned(question)
\* An older register is told in full.
NoEventIsLost == which = "records" => Papers!NoEventIsLost(question)
\* What a shell took out of a message is noticed.
DamageIsSeen == which = "gates" => Wickets!DamageIsSeen(question)
\* A ticket that is not called dropped in what is committed has its record.
UndroppedHasRecord == which = "gates" => Wickets!UndroppedHasRecord(question)
\* A ticket that has its record is accepted.
RecordedIsAccepted == which = "gates" => Wickets!RecordedIsAccepted(question)
\* The repository that autofix reports is one that the error blames.
BlamedIsReported == which = "gates" => Wickets!BlamedIsReported(question)
\* The branch that autofix asks about is the one that was merged there.
BranchIsTheirs == which = "gates" => Wickets!BranchIsTheirs(question)
\* Autofix splices the memory when it is the memory that diverged.
SplicesWhatDiverged == which = "gates" => Wickets!SplicesWhatDiverged(question)
\* After a command that succeeded there is no former error.
SuccessIsNoError == which = "gates" => Wickets!SuccessIsNoError(question)
\* Autofix asked twice reads the same error.
AskedAgainReadsTheSame == which = "gates" => Wickets!AskedAgainReadsTheSame(question)
=================================================================================
