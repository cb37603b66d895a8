------------------------------ MODULE MCWorkspace -----------------------------
(****************************************************************************)
(* The components of a workspace that share no state while they run, checked *)
(* side by side, each on an instance of its own: a behaviour is one of one  *)
(* component, and what the others keep stays at None.                       *)
(****************************************************************************)
EXTENDS Install

CONSTANTS
    Which,                                   \* the components that may run
    Few, Hidden,                             \* the repositories Resync has, and the private ones
    Mates, Adrift, MaxMates, MaxCommands

VARIABLES
    which,                                   \* the component that runs
    origin, tagged, track, local, loose, dirt, stash, saved,
    cmd, todo, moved, plan, fetched, start, mates

None == "none"

\* A repository in the document that nests one, and the memory, which nests its history.
FiveRepos == <<"root", "lib", "memory", "dep", "history">>
Within == [root |-> "root", lib |-> "root", memory |-> "root", dep |-> "lib", history |-> "memory"]
ThreeRepos == <<"root", "settings", "memory">>

Resyncs == INSTANCE Resync WITH Repos <- Few, Private <- Hidden

ASSUME ResyncAssumption == Resyncs!Fitting

shared      == <<at, result, work, faults, runs, disk, on, entry>>
installOnly == <<has, config, shares, held, pinned, ignore, unsaved, landed, found, job, batch, pins, told, cleared, lost>>
resyncOnly  == <<origin, tagged, track, local, loose, dirt, stash, saved, cmd, todo, moved, plan, fetched, start, mates>>
all         == <<which, shared, installOnly, resyncOnly>>

\* A variable of a component that does not run holds nothing.
InstallAbsent ==
    /\ has = None /\ config = None /\ shares = None /\ held = None /\ pinned = None
    /\ ignore = None /\ unsaved = None /\ landed = None /\ found = None /\ job = None
    /\ batch = None /\ pins = None /\ told = None /\ cleared = None /\ lost = None
ResyncAbsent ==
    /\ origin = None /\ tagged = None /\ track = None /\ local = None /\ loose = None
    /\ dirt = None /\ stash = None /\ saved = None /\ cmd = None /\ todo = None
    /\ moved = None /\ plan = None /\ fetched = None /\ start = None /\ mates = None

InitOne ==
    /\ which \in Which
    /\ CASE which = "install" -> Init /\ ResyncAbsent
         [] which = "resync"  -> Resyncs!Init /\ InstallAbsent

InstallStep == which = "install" /\ Step /\ UNCHANGED <<which, resyncOnly>>
Installing == which = "install" /\ Next /\ UNCHANGED <<which, resyncOnly>>
Resyncing  == which = "resync" /\ Resyncs!Next /\ UNCHANGED <<which, installOnly>>

OneRuns == Installing \/ Resyncing

Workspaces == InitOne /\ [][OneRuns]_all /\ WF_all(InstallStep)

-----------------------------------------------------------------------------
(* The properties of Install and of Resync *)

\* No work the guard asks about goes with a destination of the document, and a run that
\* refuses deleted nothing.
GuardedWorkKept == which = "install" => GuardKeepsWork /\ RefusalDeletesNothing
\* A tree that is saved is on disk as its registry says, and whoever waits for a branch was told.
SavedTreeIsSound ==
    which = "install" => ReadyIsThere /\ WaitingIsTold /\ TwinStandsApart /\ RestoreIsWhole
\* Every install ends.
InstallEnds == which = "install" /\ at # "idle" ~> at = "idle"

\* A refusal moves nothing, and a State is written of a tree that took in what it fetched.
ResyncIsSound == which = "resync" => Resyncs!ResyncIsSound
\* No command takes a commit or uncommitted work of the user away.
OwnWorkKept == [][which = "resync" => Resyncs!OwnWorkStays]_all

(* What does not hold. *)

\* What is cleared can be fetched again.
NothingLost == which = "install" => LostNothing
\* The branch that is saved is the one on disk.
SavedBranchIsOnDisk == which = "install" => SavedIsOnDisk
\* A refusal asks for work that is there.
RefusedForWork == which = "install" => RefusedOnlyForWork
\* A repository that was on no branch is recorded on none.
StateNamesADetachedHead == which = "resync" => Resyncs!StateNamesADetachedHead
=============================================================================
