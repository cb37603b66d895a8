-------------------------------- MODULE Install -------------------------------
(****************************************************************************)
(* Installing a workspace: `initialise` around a root that is checked out,  *)
(* `bootstrap` of a .cgs into an empty directory, and `bootstrap` of a .gts *)
(* snapshot at its recorded commits (orchestre/installer.py, client.py,     *)
(* git_repo/clone_guard.py, tree/discovery.py, gitignore_sync.py).          *)
(*                                                                          *)
(* A repository is cloned in batches: first those the document names, then  *)
(* those the nested .cgs of a fresh clone names.  A destination that holds  *)
(* something is cleared, after the guard asked every one of its batch.      *)
(*                                                                          *)
(* Git moves a repository's bytes in steps; here a checkout is "absent",    *)
(* "half" (a clone killed after it began to check files out), "debris" (one *)
(* killed before that, or a clearing killed midway) or "whole".             *)
(****************************************************************************)
EXTENDS Naturals, FiniteSets, Sequences, SequencesExt, Functions

CONSTANTS
    Repos,     \* every repository, shallow paths first; the first is the root
    Parent,    \* what each sits in: the root's is itself
    Document,  \* those the top .cgs names
    Memory,    \* the one that is the memory
    Private,   \* those the document says are private and writable
    During,    \* whether the user works while a command runs
    MaxWork,   \* bound: pieces of work of the user
    MaxFaults, \* bound: commands of Git that fail, and runs that are killed
    MaxRuns    \* bound: installs

Repo == ToSet(Repos)
Root == Repos[1]
Kids(r) == {k \in Repo \ {Root} : Parent[k] = r}

\* The order in which they are visited.
Place == [r \in Repo |-> CHOOSE i \in DOMAIN Repos : Repos[i] = r]

\* A repository and all that is in it, at every depth.
Closed(S)  == \A k \in Repo \ {Root} : Parent[k] \in S => k \in S
Beneath == [r \in Repo |-> {k \in Repo : \A S \in SUBSET Repo : r \in S /\ Closed(S) => k \in S}]

\* A document that names a repository names the one it sits in.
ASSUME InstallAssumption ==
    /\ Repos \in Seq(Repo) /\ Repos # <<>> /\ IsInjective(Repos)
    /\ Parent \in [Repo -> Repo] /\ \A r \in Repo \ {Root} : Place[Parent[r]] < Place[r]
    /\ Document \subseteq Repo \ {Root} /\ \A r \in Document : Parent[r] \in Document \cup {Root}
    /\ Memory \in Repo \ {Root} /\ Private \subseteq Repo
    /\ During \in BOOLEAN /\ MaxWork \in Nat /\ MaxFaults \in Nat /\ MaxRuns \in Nat

VARIABLES
    has,       \* of each remote: the branches it holds
    config,    \* ... those on which its nested .cgs is
    shares,    \* ... whether its .gitignore names the repositories in it
    held,      \* ... whether it still hands out the commit the snapshot records
    disk, on,  \* of each checkout: what is there, and the branch it is on
    pinned,    \* ... whether it stands at the snapshot's commit
    ignore,    \* ... its .gitignore: "none", "listed" or "written" but not committed
    unsaved,   \* ... work of which it holds the only copy
    entry,     \* the registry of the run: each repository's state
    landed,    \* ... and the branch it says the repository is on
    found,     \* ... and how far its nested .cgs got
    job,       \* the run: which command, and whether it may commit a .gitignore
    at, batch, \* its next step, and what is left of the batch it clones
    pins,      \* the repositories to be put at a recorded commit
    told,      \* the repositories it reported as waiting for a branch
    result,    \* how the last run ended
    cleared,   \* what the run deleted
    lost,      \* work that went with it
    work, faults, runs

remotes  == <<has, config, shares, held>>
disks    == <<disk, on, pinned, ignore, unsaved>>
registry == <<entry, landed, found>>
run      == <<job, at, batch, pins, told, result, cleared>>
vars     == <<remotes, disks, registry, run, lost, work, faults, runs>>

\* commit: --commit-gitignore.  twin: the snapshot is of a standalone workspace.
Job    == [cmd : {"initialise", "bootstrap", "restore"}, commit : BOOLEAN, twin : BOOLEAN]
NoJob  == [cmd |-> "initialise", commit |-> FALSE, twin |-> FALSE]
Branch == {"target", "twin", "fallback", "head"}
Result == {"nothing", "ready", "refused", "failed", "killed"}

\* "elsewhere": commits of another local branch, a stash, an ignored file.
Work == {"uncommitted", "head", "elsewhere"}

Usual == {"target", "fallback"}

\* One repository may lack branches, or the commit that is recorded.
Init ==
    /\ \E odd \in Repo \ {Root}, bs \in SUBSET Usual, gone \in BOOLEAN :
          /\ has = [r \in Repo |-> IF r = odd THEN bs ELSE Usual]
          /\ held = [r \in Repo |-> ~(r = odd /\ gone)] /\ (gone => bs = Usual)
    /\ \E also \in BOOLEAN :
       /\ shares = [r \in Repo |-> also \/ r \in {Root, Memory}]
       /\ config = [r \in Repo |->
          IF Kids(r) = {} \/ r = Root THEN {} ELSE IF also THEN Branch ELSE Branch \ {"fallback"}]
    /\ \E there \in BOOLEAN : disk = [r \in Repo |-> IF there /\ r = Root THEN "whole" ELSE "absent"]
    /\ on = [r \in Repo |-> "target"] /\ pinned = [r \in Repo |-> FALSE]
    /\ ignore = [r \in Repo |-> "listed"] /\ unsaved = [r \in Repo |-> {}]
    /\ entry = [r \in Repo |-> "unknown"] /\ landed = [r \in Repo |-> "target"]
    /\ found = [r \in Repo |-> "pending"]
    /\ job = NoJob /\ at = "idle" /\ batch = {} /\ pins = {} /\ told = {}
    /\ result = "nothing" /\ cleared = {} /\ lost = {}
    /\ work = 0 /\ faults = 0 /\ runs = 0

-----------------------------------------------------------------------------
(* What the code asks of a directory *)

\* CloneGuard.is_populated, is_git_checkout.
Populated(r)  == disk[r] # "absent"
Checkout(r)   == disk[r] \in {"half", "whole"}

\* git status --porcelain: files half checked out, and a repository inside that
\* .gitignore does not name, count as changes; so does the .gitignore just written.
Dirty(r) ==
    \/ disk[r] = "half"
    \/ "uncommitted" \in unsaved[r]
    \/ ignore[r] = "written"
    \/ ignore[r] = "none" /\ \E k \in Kids(r) : disk[k] # "absent"

\* local_only_commit_count: the commits of HEAD that no remote has.
LocalOnly(r) == "head" \in unsaved[r]

\* Mutant: no commits are counted.
BlockReasonDirty(r) == Checkout(r) /\ Dirty(r)

BlockReason(r) == Checkout(r) /\ (Dirty(r) \/ LocalOnly(r))

\* CloneGuard.blocked: every destination of the batch but the root.
Blocked(rs) == {r \in rs \ {Root} : Populated(r) /\ BlockReason(r)}

-----------------------------------------------------------------------------
(* The branch to clone *)

Standalone == job.cmd # "initialise"

\* _mark_twin: a standalone install files the memory under its own branch.
Target(r) == IF r = Memory /\ Standalone THEN "twin" ELSE "target"

\* _select_clone_ref, _select_private_local_ref: the branch wanted, the fallback,
\* and for a private writable repository the branch its remote's HEAD is on.
Select(r) ==
    CASE Target(r) \in has[r]                              -> Target(r)
      [] Target(r) \notin has[r] /\ "fallback" \in has[r] -> "fallback"
      [] OTHER -> IF r \in Private THEN "head" ELSE "none"

-----------------------------------------------------------------------------
(* A run *)

\* The registry is the process's own: it ends with it.
End(res) ==
    /\ at' = "idle" /\ result' = res /\ job' = NoJob
    /\ entry' = [r \in Repo |-> "unknown"] /\ landed' = [r \in Repo |-> "target"]
    /\ found' = [r \in Repo |-> "pending"]
    /\ batch' = {} /\ pins' = {} /\ told' = {}

Go(step) == at' = step /\ UNCHANGED <<result, job, pins>>

\* What no step of a run touches but those that clear and clone.
Still == UNCHANGED <<remotes, lost, work, runs>>

\* Mutant: what the memory nests keeps its pin.
PinsButMemory(j) == Repo \ IF j.twin THEN {} ELSE {Memory}

\* _mark_twin: in a standalone install a memory recorded on the project's branch
\* loses its pin, and so does what it nests.
Pins(j) == Repo \ IF j.twin THEN {} ELSE Beneath[Memory]

\* _require_nested_install: the root is checked out.
NotNested == disk[Root] # "whole"

\* _require_fresh_target: nothing is there.
NotFresh == Populated(Root)

\* _require_commits_held: every recorded commit, before anything is cloned.
CommitsGone(j) == \E r \in Pins(j) : ~held[r]

\* Mutant: the remotes are not asked for the commits.
RefusedUnasked(j) == IF j.cmd = "initialise" THEN NotNested ELSE NotFresh

Refused(j) ==
    IF j.cmd = "initialise" THEN NotNested ELSE NotFresh \/ (j.cmd = "restore" /\ CommitsGone(j))

\* The registry is built anew from the document: initialise attaches the root it
\* finds (_attach_existing_root), a snapshot names every repository (_pins_for).
Start(j) ==
    /\ at = "idle" /\ runs < MaxRuns
    /\ j.commit => j.cmd = "initialise"
    /\ j.twin => j.cmd = "restore"
    /\ runs' = runs + 1 /\ cleared' = {}
    /\ IF Refused(j) THEN End("refused")
       ELSE /\ at' = "batch" /\ result' = "nothing" /\ job' = j
            /\ batch' = {} /\ told' = {}
            /\ pins' = IF j.cmd = "restore" THEN Pins(j) ELSE {}
            /\ entry' = [r \in Repo |->
                  IF j.cmd = "initialise" /\ r = Root THEN "ready"
                  ELSE IF j.cmd = "restore" \/ r \in Document \cup {Root} THEN "declared" ELSE "unknown"]
            /\ landed' = [r \in Repo |-> "target"]
            /\ found' = [r \in Repo |-> IF j.cmd = "restore" THEN "resolved" ELSE "pending"]
    /\ UNCHANGED <<remotes, disks, lost, work, faults>>

\* Mutant: deepest first.
Deepest(S) == CHOOSE r \in S : \A k \in S : Place[k] <= Place[r]

\* Shallow paths first.
First(S) == CHOOSE r \in S : \A k \in S : Place[r] <= Place[k]

\* Mutant: one at a time.
PendingOne == LET all == {r \in Repo : entry[r] = "declared"} IN IF all = {} THEN {} ELSE {First(all)}

\* _pending_clone_entries: what is declared and not cloned.
Pending == {r \in Repo : entry[r] = "declared"}

\* _clone_pending: the whole batch is asked before the first of it is cleared.
NextBatch ==
    /\ at = "batch"
    /\ IF Blocked(Pending) # {} THEN End("refused")
       ELSE /\ Go(IF Pending # {} THEN "clear" ELSE IF job.cmd = "restore" THEN "complete" ELSE "discover")
            /\ batch' = Pending
            /\ UNCHANGED <<registry, told>>
    /\ UNCHANGED <<disks, cleared, faults>> /\ Still

\* _clone_registry_entry: a branch is chosen on the remote; then what is there goes,
\* with all that is in it.
Clear ==
    LET r == First(batch)
        gone == IF r # Root /\ Populated(r) THEN {k \in Beneath[r] : Populated(k)} ELSE {}
    IN  /\ at = "clear"
        /\ IF Select(r) = "none" THEN End("failed") /\ UNCHANGED <<disks, cleared, lost>>
           ELSE /\ Go("clone") /\ UNCHANGED <<registry, batch, told>>
                /\ cleared' = cleared \cup gone
                /\ lost' = lost \cup {x \in gone \X Work : x[2] \in unsaved[x[1]]}
                /\ disk' = [k \in Repo |-> IF k \in gone THEN "absent" ELSE disk[k]]
                /\ unsaved' = [k \in Repo |-> IF k \in gone THEN {} ELSE unsaved[k]]
                /\ UNCHANGED <<on, pinned, ignore>>
        /\ UNCHANGED <<remotes, work, faults, runs>>

\* After a clone: the next of the batch, or the nested .cgs files it brought.
Onward ==
    /\ batch' = batch \ {First(batch)}
    /\ Go(IF batch' # {} THEN "clear" ELSE IF job.cmd = "restore" THEN "batch" ELSE "discover")

\* What git clone leaves.
Cloned(r, b) ==
    /\ disk' = [disk EXCEPT ![r] = "whole"]
    /\ on' = [on EXCEPT ![r] = b]
    /\ pinned' = [pinned EXCEPT ![r] = FALSE]
    /\ ignore' = [ignore EXCEPT ![r] = IF shares[r] THEN "listed" ELSE "none"]

\* _clone_registry_entry, its second half: the clone, and what the registry then says.
Clone ==
    LET r == First(batch)
    IN  /\ at = "clone"
        /\ Cloned(r, Select(r))
        /\ entry' = [entry EXCEPT ![r] = IF Select(r) = Target(r) THEN "ready" ELSE "fallback"]
        /\ landed' = [landed EXCEPT ![r] = Select(r)]
        /\ IF r \in pins THEN Go("pin") /\ UNCHANGED batch ELSE Onward
        /\ UNCHANGED <<unsaved, found, told, cleared, faults>> /\ Still

\* _apply_pin: the branch the clone landed on is pointed at the recorded commit,
\* and the registry says again what the snapshot said.
Pin ==
    LET r == First(batch)
    IN  /\ at = "pin"
        /\ pinned' = [pinned EXCEPT ![r] = held[r]]
        /\ IF held[r] THEN /\ entry' = [entry EXCEPT ![r] = "ready"]
                           /\ landed' = [landed EXCEPT ![r] = Target(r)]
                           /\ Onward /\ UNCHANGED <<found, told>>
           ELSE End("failed")
        /\ UNCHANGED <<disk, on, ignore, unsaved, cleared, faults>> /\ Still

-----------------------------------------------------------------------------
(* Nested .cgs files *)

\* discover_nested_configs: every repository that names a nested .cgs and has not
\* resolved it; one that its branch does not hold is "missing", and asked again.
Asked == {r \in Repo \ {Root} : Kids(r) # {} /\ entry[r] # "unknown" /\ found[r] # "resolved"}
Finds(r) == disk[r] = "whole" /\ on[r] \in config[r]

\* Mutant: a file that is missing is a change as well.
ChangedByMissing(news) == news # {} \/ Asked # {}

\* The clone loop goes on while something was found.
Changed(news) == news # {}

Discover ==
    LET read == {r \in Asked : Finds(r)}
        news == UNION {{k \in Kids(r) : entry[k] = "unknown"} : r \in read}
    IN  /\ at = "discover"
        /\ found' = [r \in Repo |-> IF r \in read THEN "resolved" ELSE IF r \in Asked THEN "missing" ELSE found[r]]
        /\ entry' = [r \in Repo |-> IF r \in news THEN "declared" ELSE entry[r]]
        /\ Go(IF Changed(news) THEN "batch" ELSE "complete")
        /\ UNCHANGED <<disks, landed, batch, told, cleared, faults>> /\ Still

\* Mutant: only the memory.
WaitsMemory(r) == r = Memory /\ entry[r] = "fallback"

\* _assert_nested_discovery_complete: a nested .cgs may be missing only where a
\* private repository waits for its branch, and every such one is told.
Waits(r) == r \in Private /\ entry[r] = "fallback"

Complete ==
    /\ at = "complete"
    /\ IF \E r \in Asked : ~(Waits(r) /\ found[r] = "missing") THEN End("failed")
       ELSE Go("ignore") /\ told' = {r \in Repo : Waits(r)} /\ UNCHANGED <<registry, batch>>
    /\ UNCHANGED <<disks, cleared, faults>> /\ Still

-----------------------------------------------------------------------------
(* .gitignore, and the end *)

\* sync_gitignore writes every file first; _commit_and_push_gitignore_sync then
\* goes parent first, and the push of one may fail after its commit.
\* The pull --ff-only of each parent before that is left out: no remote changes
\* while an install runs here, so it brings nothing; Fail at "ignore" is its refusal.
Unlisted == {r \in Repo : ignore[r] # "listed" /\ \E k \in Kids(r) : entry[k] # "unknown"}

SyncIgnore ==
    /\ at = "ignore"
    /\ \E done \in SUBSET Unlisted :
          LET stops == job.commit /\ done # Unlisted
          IN  /\ ~job.commit => done = {}
              /\ \A u \in done, v \in Unlisted : Place[v] < Place[u] => v \in done
              /\ stops => faults < MaxFaults
              /\ faults' = IF stops THEN faults + 1 ELSE faults
              /\ ignore' = [r \in Repo |-> IF r \in Unlisted \ done THEN "written"
                                           ELSE IF r \in done THEN "listed" ELSE ignore[r]]
              /\ \/ UNCHANGED unsaved
                 \/ /\ stops
                    /\ \E last \in done : /\ \A u \in done : Place[u] <= Place[last]
                                          /\ unsaved' = [unsaved EXCEPT ![last] = @ \cup {"head"}]
              /\ IF stops THEN End("failed") ELSE Go("save") /\ UNCHANGED <<registry, batch, told>>
    /\ UNCHANGED <<disk, on, pinned, cleared>> /\ Still

\* WorkingGitTree.is_ready.
Ready == \A r \in Repo : entry[r] # "declared"

\* The snapshot is written for a tree that is ready.
Save ==
    /\ at = "save"
    /\ End(IF Ready THEN "ready" ELSE "failed")
    /\ UNCHANGED <<disks, cleared, faults>> /\ Still

\* A Git command or a file that fails: git clone removes what it had begun.
Fail ==
    /\ at \in {"clear", "clone", "pin", "discover", "ignore"}
    /\ faults < MaxFaults /\ faults' = faults + 1
    /\ End("failed")
    /\ UNCHANGED <<disks, cleared>> /\ Still

\* A run that is killed: while it clears, what it had not yet removed stays without
\* its .git; while it clones, the checkout is half there or not begun.
Kill ==
    /\ at # "idle" /\ faults < MaxFaults /\ faults' = faults + 1
    /\ End("killed")
    /\ \/ UNCHANGED <<disk, unsaved, lost>>
       \/ /\ at = "clone"
          /\ \E left \in {"debris", "half"} : disk' = [disk EXCEPT ![First(batch)] = left]
          /\ UNCHANGED <<unsaved, lost>>
    /\ UNCHANGED <<remotes, on, pinned, ignore, cleared, work, runs>>

-----------------------------------------------------------------------------
(* The user *)

MayAct == During \/ at = "idle"

Edit(r, w) ==
    /\ MayAct /\ work < MaxWork /\ disk[r] = "whole" /\ w \notin unsaved[r]
    /\ unsaved' = [unsaved EXCEPT ![r] = @ \cup {w}]
    /\ work' = work + 1
    /\ UNCHANGED <<remotes, disk, on, pinned, ignore, registry, run, lost, faults, runs>>

\* What the guard's message asks for: commit and push it.
Publish(r) ==
    /\ at = "idle" /\ disk[r] = "whole" /\ (unsaved[r] # {} \/ ignore[r] = "written")
    /\ unsaved' = [unsaved EXCEPT ![r] = {}]
    /\ ignore' = [ignore EXCEPT ![r] = IF @ = "written" THEN "listed" ELSE @]
    /\ UNCHANGED <<remotes, disk, on, pinned, registry, run, lost, work, faults, runs>>

\* ... or move the directory aside.
MoveAside(r) ==
    /\ at = "idle" /\ result = "refused" /\ Populated(r)
    /\ disk' = [k \in Repo |-> IF k \in Beneath[r] \/ r = Root THEN "absent" ELSE disk[k]]
    /\ unsaved' = [k \in Repo |-> IF k \in Beneath[r] \/ r = Root THEN {} ELSE unsaved[k]]
    /\ UNCHANGED <<remotes, on, pinned, ignore, registry, run, lost, work, faults, runs>>

Step == NextBatch \/ Clear \/ Clone \/ Pin \/ Discover \/ Complete \/ SyncIgnore \/ Save

Next ==
    \/ \E j \in Job : Start(j)
    \/ Step
    \/ Fail \/ Kill
    \/ \E r \in Repo, w \in Work : Edit(r, w)
    \/ \E r \in Repo : Publish(r) \/ MoveAside(r)

Spec == Init /\ [][Next]_vars /\ WF_vars(Step)

-----------------------------------------------------------------------------
(* Properties *)

\* Every variable holds a value the code can produce.
TypeOK ==
    /\ has \in [Repo -> SUBSET Branch] /\ config \in [Repo -> SUBSET Branch]
    /\ shares \in [Repo -> BOOLEAN] /\ held \in [Repo -> BOOLEAN]
    /\ disk \in [Repo -> {"absent", "debris", "half", "whole"}] /\ on \in [Repo -> Branch]
    /\ pinned \in [Repo -> BOOLEAN] /\ ignore \in [Repo -> {"none", "listed", "written"}]
    /\ unsaved \in [Repo -> SUBSET Work]
    /\ entry \in [Repo -> {"unknown", "declared", "ready", "fallback"}]
    /\ landed \in [Repo -> Branch] /\ found \in [Repo -> {"pending", "missing", "resolved"}]
    /\ job \in Job /\ batch \subseteq Repo
    /\ at \in {"idle", "batch", "clear", "clone", "pin", "discover", "complete", "ignore", "save"}
    /\ pins \subseteq Repo /\ told \subseteq Repo /\ cleared \subseteq Repo
    /\ result \in Result /\ lost \subseteq Repo \X Work
    /\ work \in 0..MaxWork /\ faults \in 0..MaxFaults /\ runs \in 0..MaxRuns

\* clone_guard.py: the work Git's status and HEAD show, in a repository the
\* document names, never goes with a destination that is cleared.
GuardKeepsWork == \A x \in lost : x[1] \in Document => x[2] = "elsewhere"

\* clone_guard.py says more: what is cleared "can be fetched again".
LostNothing == lost = {}

\* installer.py: one check for the whole run: a run that refuses deleted nothing,
\* though the repositories of a nested .cgs are only asked about in a later batch.
RefusalDeletesNothing == result = "refused" => cleared = {}

\* A tree that is about to be saved as READY is on disk: every repository of its
\* registry is a whole checkout of the branch the registry names, or at the commit
\* the snapshot recorded, and no nested .cgs on disk names one it lacks.
ReadyIsThere ==
    at = "save" => \A r \in Repo :
        /\ entry[r] # "unknown" => disk[r] = "whole" /\ (on[r] = landed[r] \/ r \in pins)
        /\ r \in pins => pinned[r]
        /\ r # Root /\ job.cmd # "restore" /\ entry[r] # "unknown" /\ Finds(r) =>
              \A k \in Kids(r) : entry[k] # "unknown"

\* EnvConnect C7: whoever misses its nested .cgs, or would commit to a fallback
\* branch, is told before the tree is saved.
WaitingIsTold ==
    at = "save" => \A r \in Repo :
        /\ r \in Private \ pins /\ entry[r] # "unknown" /\ on[r] # Target(r) => r \in told
        /\ entry[r] # "unknown" /\ r # Root /\ Kids(r) # {} /\ (\A k \in Kids(r) : entry[k] = "unknown") => r \in told

\* The branch that is saved is the one on disk, a pinned repository's too.
SavedIsOnDisk == at = "save" => \A r \in Repo : entry[r] # "unknown" => on[r] = landed[r]

\* A refusal asks for work that is there: none is held up by what a run itself left.
RefusedOnlyForWork == at = "batch" => \A r \in Blocked(Pending) : unsaved[r] # {}

\* EnvConnect C8: a standalone install never puts the memory, or what it nests, on
\* the project's own branch or at the commit the project recorded there.
TwinStandsApart ==
    at = "save" /\ Standalone => \A r \in Beneath[Memory] :
        /\ r = Memory /\ entry[r] # "unknown" => on[r] # "target"
        /\ entry[r] # "unknown" /\ pinned[r] => job.twin

\* A snapshot whose commits are gone is refused with nothing cloned: once a restore
\* clones, no repository it pins can miss its commit.
RestoreIsWhole == pins # {} /\ cleared \cup {r \in Repo : entry[r] = "ready"} # {} => \A r \in pins : held[r]

\* Every install ends: the batches run out, and no nested .cgs is found for ever.
Ends == at # "idle" ~> at = "idle"
=============================================================================
