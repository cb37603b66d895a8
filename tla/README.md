# ComplexGitSync: a TLA+ verification project

ComplexGitSync (`cgitsync`) drives a *tree* of Git repositories as one project:
a root and the repositories mounted below it, described by a `.cgs` document.
It clones the tree, commits, pushes, branches, merges and releases it as a
whole, and remembers every state it wrote in a hash-chained *memory* kept in a
Git repository of its own. This directory holds TLA+ models of the program, the
TLC configurations that check them on small instances, and proofs that TLAPS
checks for every value of the constants.

Paths below are relative to `src/ComplexGitSync/` of the repository.

## 1. The system

One command is one process: there is no daemon and, but for a pool of threads
that run read-only Git questions, no thread. What makes the code hard is that
commands are killed, that several of them run in one workspace, that several
workspaces and people share the same remotes, and that one command visits many
repositories one after the other with nothing to roll back what it did.

| Component | State it keeps | Operations | Interacts with | Hard behaviour | Correct when |
|---|---|---|---|---|---|
| Workspace lock (`tree/workspace_lock.py`, `orchestre/workspace_locking.py`) | `.cgitsync/.lock` and the depth of nesting | acquire, nest, release, judge stale, `unlock` | wraps every method of `WRITING_METHODS` | creation and body are two steps; death inside; `unlock` judges, then unlinks | one writer; a dead holder's lock is neither stolen nor eternal |
| Memory (`tree/memory/`, `orchestre/memory_commands.py`, `client.py`) | entries, `HEAD`, States and commit logs in the pending half and the mount | snapshot, fold, publication rows, verify | every command that writes a State; push | a kill between two file operations; append after rows; fold after read | the chain verifies, no entry or row is lost, every public commit is recorded once |
| Release (`orchestre/release_commands.py`, `tree/operations/push.py`) | commits, branches and tags here and on the remotes | freeze | push, tags, ledger | a sweep cut short and run again; two machines | the root's tag means the whole release is there |
| Tree-wide branches (`tree/operations/branch.py`, `ancestors.py`, `orchestre/tree_commands.py`) | branches here and on the remotes, relocations in the ledger | create, checkout, close, delete | memory, remotes | deleting a name while others push; sweeps cut short | no commit becomes unreachable |
| Tree-wide merge (`tree/operations/merge.py`, `memory_merge.py`, `preflight.py`) | two branches of every repository, worktrees | `merge`, `--into`, `--resolve`, `--all-conflicts` | preflight, memory | all are asked, then each is merged; a walk cut short | nothing merged beside a conflict; the memory keeps its own files |
| Installer and clone guard (`orchestre/installer.py`, `git_repo/clone_guard.py`) | destination directories, the registry, `.gitignore` | initialise, bootstrap, restore | Git, discovery | an interrupted clone; a refusal after clearing | no work is cleared away; what is saved is on disk |
| Moving a workspace (`tree/operations/restart.py`, `fetch.py`, `orchestre/release_commands.py`) | branch and commit of every repository | pull, pull --force, --private, fetch, release load | memory, remotes | failure in the middle and the way back | a refusal moved nothing; the user's commits stay reachable |
| A memory on several machines (`memory_setup.py`, `default_memory.py`, `memory_branch_guard.py`, `memory_merge.py`) | the memory's Git branch and ledger per machine | setup, adopt, clone, push, branch, merge, reboot, autofix | remotes | two ledgers under one name | nothing recorded is forgotten; what is published verifies |
| Submodules (`orchestre/discovery_commands.py`, `git_probes.py`) | links, `.gitmodules`, `.gitignore` | `submodules init`, `import` | installer | cut in the middle of a level | all levels or none |
| Omniscience register (`omniscience/`, `merkle/`) | a shared branch per project, an index of checkpoints | register, observe, verify | remotes | several observers, plain Git edits | nothing registered is lost; a proof verifies exactly for a member |
| GitTree, registry, documents (`tree/git_tree.py`, `registry.py`, `cgs_format.py`, `gts_document.py`, `discovery.py`, `mount_guard.py`) | the nodes, `.cgs`, `.gts` | load, discover, deny, walk, land, write, read back | every command | fixed point, duplicates, circles | each repository once, the root last; what is written reads back |
| Where a command works (`tree/snapshot_resolver.py`, `paths.py`, `settings.py`) | pointer file, `$CGSHOME` | resolve, guard, record a path | command line | a fold cut short, another machine | the workspace meant is the one found |
| Reading a memory (`tree/memory/as_of.py`, `commit_log.py`, `orchestre/memory_chapters.py`) | none | show, list, timeline, as-of, chapters | memory | two halves read as one | readers agree with the ledger |
| Records (`gts_document.py`, `ledger_entry.py`, `agent_contract.py`, `self_history.py`, `store.py`) | hashes, contracts, older events | write, read back, verify | memory | what a change leaves unnoticed | a change is noticed |
| Environment (`tree/environment_spec.py`, `tree_env.py`, `toolchain.py`) | a cached observation | declare, observe, compare | States | partial observation | the comparison is right |
| Scope, removal, operation boundary (`orchestre/op_boundary.py`, `op_levels.py`, `tree/operations/removal.py`) | none | who may be touched, proof of an operation | every writing command | one refused path among several | nothing outside the scope is touched |
| Survey, creation of a repository (`orchestre/git_probes.py`, `git_repo/provider.py`) | none | discover, `repo create` | hosts | what a host answers | the draft reads back; what is said to exist does |
| Reports about branches (`tree/branch_findings.py`, `git_tree_branch.py`) | none | findings, list, topology | branches | whole and interrupted commands, plain Git | dead branches are told, living ones are not |
| Gates, autofix, run logs (`tree/commit_message.py`, `ticket_gate.py`, `tree/autofix/`) | logs | refuse a commit, detect, repair | commit, lock, memory | wording taken for cause | a gate is not bypassed; the blamed repository is the one |
| Git door, command line, rendering, clock | none of their own | one subprocess per question; parse; print | all | wrong reading of an output | it is what the other models assume |

`PROJECT.json` lists the sources of each, what is modelled of it and what is
left out, and the hazards the properties are for.

## 2. Modules

    WorkspaceLock -- WorkspaceLockProofs          Release -- ReleaseProofs
        \-- MCLock -- MCAnswers                   Merge -- MergeProofs
    Memory --implements--> Chronicle              Branches -- BranchesProofs
        \-- MemoryProofs                              \-- MCBranches
    Install, Resync ------------------------- MCWorkspace -- WorkspaceProofs
    Register, Machines, Submodules ---------- MCShared -- RegisterProofs
    Audit, Trees, Authoring, Registry, Places, Survey, Reading,
    Environment, Door, Watch, Records, Gates -- MCAnswers

One step of the code (one file operation, one Git command that reaches a
repository or a remote) is one action, so that a kill, a failure or another
actor may come between any two. The `MC` modules put components side by side:
each behaviour of theirs is one of one component, on an instance whose constants
the module or the configuration gives (`MCBranches` extends `BranchesProofs`, so
that the theorems hold of both its instances; `MCShared` extends `Register`, whose
constants the configuration gives, as it does those of `Machines`). Components rely on each other as follows:
`Memory` runs locked commands one at a time because that is what
`WorkspaceLock` shows; `Release`, `Branches` and `Merge` record one row or one
set of relocations in a ledger whose entries are never lost, which is what
`Memory` shows; `Machines` takes a ledger to be a set of numbered files, as
`Memory` leaves it.

Operators whose comment begins with "Mutant" are not part of a specification.
Each is a plausible slip in the definition that follows it; replacing that
definition by it makes a property fail, which is how each property is known to
say something.

### Machines that move

| Module | State | Actions and the code |
|---|---|---|
| `WorkspaceLock` | the lock file, what each process is in, the depth, `unlock` | `Create`, `WriteBody`, `WriteBodyFails`, `Nest`, `Unnest`, `Release`: `hold` and its nesting; `RunBare`, `MakeStateDir`, `EndBare`: a command before `.cgitsync` exists; `Look`, `ReadHolder`, `Judge`, `Unlink`: `clear` behind `unlock`; `Die` at any step. A refused command changes nothing. Process numbers are not reused. |
| `Memory` | `lgr`, `head`, `states`, `log` in two halves; `made`, `pushed` commits; the step of each process | `Commit`, `Snapshot`, `StartFold`, `RefuseFold`, `Repair` start a command; `MoveEntry` ... `EndFold`, `FoldRaises`: `_fold_memory_pending`, one `Path.replace` at a time; `Publish`, `PublishFails`; `WriteState` ... `WriteHead`: `write_gts_snapshot` and `_append_ledger_entry`; `AppendFails`, `Stop`. An entry's hash is a fresh number, the digest of rows the rows; the clock is left out. |
| `Chronicle` | one sequence that grows at its end | `Add`. What the ledger of `Memory` implements, both halves read as one. |
| `Release` | branches, tags, worktrees of every machine and of the remote | `Start`; `Add`, `CommitRepo`, `Pull`, `CheckPush`, `Push`; `CheckTag`, `Freeze`, `TagRepo`, `FreezeBranch`, `SendTag`, `Annotate`, `SendRootTag`, `Record`: `freeze_release` repository by repository; `Stop`; people: `Edit`, `Reconcile`. A commit is the set of its ancestors. |
| `Branches` | `local`, `seen`, `remote`, `on`, the ledger's relocations | `StartCreate`, `Create`, `Checkout`; `StartClose`, `StartDelete`; `Inspect`, `Keep`, `Send`, `Record`, `Verify`: `AncestorOperation`; `Look`, `PushClosed`, `DropOld`, `Rename`: `_close_one`, a Git command each; `CheckHeld`, `Drop`, `DropLocal`; `Stop`; plain Git: `Work`, `Publish`, `Colleague`, `PlainDelete`. `sealed` records what a close found, for what is said of it later. |
| `Merge` | `tip`, `seen`, `on`, `worktree`, the plan and how far a walk is | `Start`; `Ask` and `MergeOne`: `merge_tree`; `Checkout`, `Act`: `merge_into_tree`; `Visit`, `Halt`: `merge_tree_one_at_a_time`; `Tool`, `ToolLeaves`, `ToolFindsNothing` (with `--ff-only` Git leaves no conflict to open): the passes of `--all-conflicts`; `Record`; `Fault`; the user: `Work`, `Settle`. A commit has a past and the work its files carry. |
| `Install` | what each remote has, each destination, the registry, unsaved work | `Start`, the batches (`clear`, `clone`, `pin`, `discover`, `complete`, `ignore`, `save`): `installer.py` and `clone_guard.py`; `Fail`, `Kill`; people: `Edit`, `Publish`, `MoveAside`. |
| `Resync` | branches, tracking branches, HEAD, stash of each repository; origin | `Begin` and `Step` of the eight commands that move a workspace, put back what moved when one fails; `Stop`; people: `User`, `Push`, `Mate`. |
| `Register` | files on the project branches, the index of checkpoints, what each contributor saw | `Begin`, `Verify`, `Observe`, `Tidy`, the fetch and push of each and its fast-forward retries, `Crash`; `ByHand`: plain Git on the shared repository. |
| `Machines` | commits, the branches of origin, each machine's mount and pending half | `Everyday`: record, fold, push, pull, adopt, clone, repair; `Keeping`: declare, branch, merge, reboot; each network step may fail. |
| `Submodules` | each checkout: linked, listed, `.gitmodules` | `Import`, `Adopt`, `Preflight`, `Unlink`, `Ignore`, `Drop`, `Kill`; people: `Work`, `Commit`. |

### Answers that are computed

These modules have no state that a step changes. Each defines the computation as
the code makes it, a reference definition of what the answer should be, and the
set of its `Questions`: every input of a small shape. `MCAnswers` asks each of
them in an initial state, and `AnswersAreRight` says that the two agree.

| Module | Questions |
|---|---|
| `Audit` | the inclusion proofs of `merkle/merkle_root.py`; the completeness report |
| `Trees` | privacy, walk order, owner of a path, `fix_circularities` |
| `Authoring` | a `.cgs` entry normalised and written back |
| `Registry` | discovery to its fixed point, denials, the branch each repository lands on, `.gts` written and read |
| `Places` | the workspace and the State that are meant, recorded paths |
| `Survey` | the walk, the draft, `repo create` |
| `Reading` | entries, States, commit rows and chapters over two halves |
| `Environment` | declaration, observation, comparison, manifests |
| `Door` | scope, removal, preflight, the operation's proof |
| `Watch` | findings, the list of branches, the topology, recorded tags |
| `Records` | State hashes, ledger entries, contracts, work records, the older register |
| `Gates` | messages, tickets, the error that autofix reads, run logs |

## 3. What the runs check

| Run | Shows | Bounds |
|---|---|---|
| `memory_faults` | under kills, failed appends, partial pushes and refused folds: the chain holds at every moment, no row is lost, nothing is claimed public that is not, and the ledger implements `Chronicle`; as long as nothing failed, the history verifies whenever nothing runs and each public commit has exactly one publication row | 2 repositories, 2 commits each, 2 States, 4 entries, 2 faults |
| `memory_unlocked` | beside a State-writing command that takes no lock: one number is one pending entry, and as long as nothing failed each commit has its row once and is recorded as published once exactly when it was pushed | 2 processes, 2 repositories, 2 commits each, 3 entries |
| `memory_append_fails` | a finding, below | 1 repository, 1 fault |
| `release_tree` | the root's tag on the remote means the whole release is there; one machine made it; a released commit is on the remote's branch; a kept tag is at the released commit | 2 machines, 3 repositories, 2 edits, 1 fault |
| `release_retry` | a release cut short before the root's tag was made is completed by running it again | 1 machine, 3 repositories, one private, 3 faults |
| `branches` | no commit leaves every branch; nothing is deleted before everything is kept; what the ledger records is on origin; a branch that exists on origin is joined; a close or a delete cut short ends when run again | a team on 1 repository with 2 commits and colleagues; one person on 2 repositories with 1 commit; 1 kill each |
| `merge_tree` | nothing is merged beside a conflict, the project comes first, the memory keeps its own files, `--resolve` stops only where something is left, each repository ends where the command said, and a merge cut short is completed by its rerun | 3 repositories (the memory, another configuration repository, the root), at most one that stands oddly, 1 commit of the user, 1 failure |
| `install_loses` | a finding, below | 1 piece of work, 1 fault, 2 runs |
| `workspace` | an install clears no work the guard can see, saves only what is on disk and ends; a pull, fetch or release load that refuses moved nothing and none takes the user's commits off every ref | `Install`: 5 repositories, 1 piece of work, 1 fault, 2 runs; `Resync`: 3 repositories, 1 push or deletion of a colleague, 1 fault |
| `shared` | the register, one memory on two machines, and a conversion of submodules: nothing registered, recorded or converted is lost or half done | 2 contributors, 2 runs, 1 edit by hand, 1 crash; 2 machines, 2 records, 5 commits; 5 repositories on 3 levels, 2 edits, 3 runs |
| `one_command` | one writer at a time, each under its own lock file, a dead process's lock stays and a started `unlock` clears it; every computed answer is right | 4 processes, nesting 3; 2 processes beside 1 `unlock`; the inputs of the twelve modules |
| `fold_order` | a finding, below | 2 machines, 2 records |

The bounds are enough for the cases the properties are about. Two repositories
(three in `Release` and `Merge`, with a private one) give a sweep a first, a last
and a middle at which to stop; two commits let two copies diverge or one lead the
other; one kill at every step, followed by the whole command again, covers each
half-done state, and `memory_faults` allows a second fault during the recovery
from the first. Four entries let a repository commit, push, commit and push
again, with folds between: the second push is the one that could record the
first commit twice. The constants `MaxEntries`, `MaxCommits`, `MaxEdits`,
`MaxFaults`, `MaxStops`, `MaxDepth`, `MaxOdd`, `MaxWork`, `MaxRuns`, `MaxMates`,
`MaxCommands`, `MaxRecords`, `MaxHands` and `MaxAttempts` (this one is the
code's own) are the bounds; they stop new work from starting and never cut a
command that runs. `CHECK_DEADLOCK FALSE` is set everywhere: when the bounds are
used up and no command runs, nothing is left to do.

### Fairness

A process that runs is scheduled by the operating system: weak fairness on the
steps of a command in progress. Nobody promises that a command is started, that
a killed one is noticed, or that a colleague pushes. `Release`, `Branches` and
`Merge` add one promise for the retry properties, which the code's own messages
ask of the user ("run '...' again", `tree/operations/partial_failure.py`; "Run
the same command again", `tree_commands.py`): the command that failed is run
again, and in `Branches` and `Merge` before any other. `StaleIsCleared` assumes
that an `unlock` that was started is scheduled.

### Findings

| Run | What happens | The statement |
|---|---|---|
| `memory_append_fails` | rows written before a failed append are signed by no entry; a later command's entry takes their number, and from then on `verify` reports corruption | `orchestre/memory_commands.py:1879-1881`, "the next `verify` reports the gap" |
| `install_loses` | a destination whose other local branches, or a repository nested in it, hold unpublished commits is cleared | `git_repo/clone_guard.py:73`, "everything in it can be fetched again" |
| `fold_order` | checkout, pull, clone or autofix bring another ledger under pending entries: two entries of one number, and the next fold replaces one | `tree/memory/pending.py:62`, a folded entry's number is always lower |

### What the code does not promise

The configurations `*Limits.cfg` each hold a list of properties that TLC finds
violated, one case at a time with the constants given beside it:
`tlc -config <file> <module>` prints the behaviour. They show why a passing run
or a theorem has the constant it has, and where the code and a docstring, a
comment or a message differ.

- **`LockLimits`** (module `WorkspaceLock`). Where `.cgitsync` does not exist
  yet, a command runs with no lock beside one that has it; `unlock` without
  `--force` removes the lock of a living command, between the file's creation and
  its body or after it changed hands ("A lock whose process still runs is
  refused", `workspace_lock.py:107`); a kill between creation and body leaves a
  lock that is "being taken" for ever.
- **`MemoryLimits`** (`Memory`). A State-writing command outside the lock reuses
  a number a fold just moved and the next fold overwrites the folded entry; a
  fold killed between entries and `HEAD` splits them over the halves
  ("never split", `memory_commands.py:1834`); one killed between a log's rows and its
  unlinking leaves them to be appended twice; a temporary file left by a kill
  makes the fold raise an error the push does not catch; after a refused fold,
  the next push records a publication again; what a failing push did send is
  never recorded.
- **`ReleaseLimits`** (`Release`). A root tag made and not pushed refuses every
  later run; the retry after a failed push of a private branch publishes its tag
  and not its branch; a kept tag stays behind the commit the freeze itself makes;
  an edit during a retry is noted by the root's tag and not by the repository's.
- **`BranchLimits`** (`Branches`). A commit pushed between the two pushes of a
  close leaves origin ("even for the instant between the two calls",
  `git_repo/git_runner.py:926`); one pushed, or made here, between the comparison
  and the deletion is lost; two closed branches that vouch for each other can
  both be deleted with plain Git; a keep whose push is rejected leaves
  `ancestors` diverged, and every later run is refused.
- **`MergeLimits`** (`Merge`). A commit of the user between the conflict check
  and the merge; two repositories of one display name, whose plans `--into`
  confuses; a target known from origin alone is called unrelated to its source; a
  target behind its upstream makes a merge refuse its own rerun.
- **`InstallLimits`, `ResyncLimits`** (`MCWorkspace`). A run is refused for what
  an earlier run left itself; the branch saved for a pinned repository is not the
  one on disk; work done between the guard and the clearing is cleared; a
  detached HEAD that drifted, or work during a pull, is moved off; a State names
  a branch for a repository on none; a rewritten remote branch.
- **`RegisterLimits`** (`MCShared`). A record copied to another branch by hand
  changes the answer about the others; a first run does not notice an index
  rewritten since its clone; a tree that never wrote compares with a tip it has.
- **`MachinesLimits`** (`MCShared`). `memory reboot` deletes a branch without
  asking what it holds now; "Push or pull the memory first"
  (`memory_merge`) is impossible when both refuse, and an adopted, kept memory
  has no upstream, so `autofix` refuses it; the reboot folds and exports before
  the push's guard refuses with "Nothing was folded"; a kill inside an adoption
  leaves a mount that adopt refuses to redo; `autofix` keeps a clean merge while
  it reports nothing to splice.
- **`SubmoduleLimits`** (`MCShared`). With three levels, `submodules init` is
  refused over the `.gitignore` files it wrote itself; a conversion cut short is
  never finished by the command its message names.
- **`AnswersLimits`** (`MCAnswers`), by module:
  *Registry*: two top-level entries of one path; what a project declares is given
  to the one that mounts it; a repository held twice on some branch; a tree that
  never landed reads back different; a branch named like a tag; `remote_name` and
  `nested_config` are not in a `.gts`. *Trees* (in its comments): privacy around
  a circle depends on the order, children of a removed duplicate dangle.
  *Places*: standing in a workspace is not enough when `$CGSHOME` leads nowhere;
  an older State's `$HOME` paths do not travel. *Survey*: the draft names no
  default branch; a host's general failure is answered "exists". *Reading*: a
  whole hash is refused as ambiguous after a fold; a publication row that is
  pending hides a folded commit; same-named repositories mask each other; a
  chapter kept on `ancestors` is not found once the ledger records another move.
  *Environment*: a declared `dvc`, `git-lfs`, library or service is always
  missing; a version without a dot is older than any; the observation is cached
  for the process; ARM Linux is given a name Pixi does not know. *Door*: `rm` of
  several paths removes the earlier ones when a later one is refused; `add PATHS`
  ignores the scope; a branch whose upstream has another name passes the
  preflight and is rejected; the public level of a one-repository tree hides the
  operation; a proof's leaves are keyed by path. *Watch*: a nested parent's or a
  twin's branches are reported as orphans; repositories not cloned are skipped;
  what a twin's memory kept is not stripped of its prefix. *Records*: a State
  whose stamp line is gone reads as one still being built; the last ledger entry
  can be taken away or rewritten; a signing killed while it writes `current`
  reads as never signed; a legacy event id used twice loses the first. *Gates*: a
  quoted phrase at the end of a message leaves no sign when the shell eats it; the
  dropped-ticket banner is read from the worktree and the commit takes the index;
  a ticket with a non-ASCII name is refused; an error's text blames a repository
  whose name ends another's; a success without a State leaves the older failure
  "the former error".

## 4. What is proved

TLAPS checks the following for every value of the constants that the assumptions
of the modules allow. An assumption beside them is a condition that the
`*Limits` configuration named shows to be needed.

**WorkspaceLockProofs.** Type correctness. Under `~Fresh` (`.cgitsync` exists)
and `Unlockers = {}` (`LockLimits`): `MutualExclusion`, `HolderOwnsFile` and
`StaleLockStays`. `MutualExclusion` is not inductive: that two processes are not
both inside says nothing of the file the second would create. `LockInv` ties
them: a process that is creating or inside is the one the file names, its body is
written exactly when it is inside, and `held` is positive only then.

**MemoryProofs.** Under `Free = {}` (every State-writing command takes the lock;
`MemoryLimits` shows that the condition is needed): `ChainHolds`,
`FoldedBeforePending`, `EntriesKept` and that the ledger implements `Chronicle`,
through every fold, kill and failed append. The inductive invariant is
`LedgerInv`: the folded entries are numbered 1..k and the pending ones k+1..n,
each linked to the one before; at most one process is between steps; what a fold
has left to move is exactly what is pending; the last entry an appending process
read is still the last. Without the last two parts a fold could overtake an
entry, or an append could reuse a number.

For any `Free` and any faults: type correctness; `NeverOverclaims`, by `Typed`
(a commit row names a commit that was made, a publication row and what a push is
about to record name commits that were pushed); `PendingSeqsUnique`; and
`RowsKept`, by `RowsInv` (commands that take the lock run one at a time, the
others write no rows, and a pending log is unlinked only when the folded one
holds its rows). The rows are built with `FlattenSeq`, a recursive function; what
the proofs need of it rests on `Climb` (a subset of 1..n that holds 1 and climbs
holds n, from the finiteness of 1..n) and `Flattened` (a flattened sequence is the
last of its partial concatenations).

Under `Free = {}` again: `VerifiedAtRest` (between commands of which none failed
or was killed, the history verifies) and `PublishedExactlyOnce`. Both speak only of rest, so neither is inductive.
`RestInv` says, while nothing has failed, how far the running command has come:
where the entry is that the cached head names (`HeadGood`); that nothing is
written behind a fold, so none of its `rmdir` raises (`FoldGood`); that every
entry's State is on disk (`StatesGood`); that a row is in the half of the entry
it names, except while a fold moves the logs after the entries or a command
writes rows of the entry it is about to append (`SplitGood`); that those rows are
the ones it will sign, in the order `rows_by_entry` reads them back (`SignGood`);
and that each commit has one place in the log of one State, and is recorded as
published once or is about to be (`PubGood`). The last two are about the halves
read as one (`Whole`), which a fold leaves as it is and only `WriteCommits` and
`WritePublications` change. TLC checked `RestInv` first, on two processes, two
repositories, three States and four entries.

**ReleaseProofs.** Type correctness and `OneReleaser` without further
assumption; `MarkMeansReleased` when no file is edited during a run;
`KeptTagIsAtHead` and `ReleasedIsPublic` when, besides, no repository is private
(`ReleaseLimits`). Three invariants over the types. `Sole`: the machine whose
mark the remote holds is the one that goes on to record. `Sound`: what a
machine's branch holds only grows (`HeadsFull`); during the sweep the
repositories behind `turn` are clean, tagged at their head and sent (`Clean`,
`Kept`, `Turn`, `Sent`); a mark is made when that is all of them (`Complete`).
`Public`: past the push step, what the project's branches hold the remote's
branch holds too.

**BranchesProofs, MCBranches.** Without further assumption: type
correctness, and `RecordedIsPublic`. When nobody commits in this workspace while
a command runs (`NotDuringIts`, which the lock every command takes does not
prevent): a created branch joins origin's (`JoinsRemote`). When others keep off
the branch a command is about, and may still push to main and `ancestors` at any
moment (`OthersKeepOff`; `BranchLimits`): nothing is deleted before everything is
held elsewhere (`DeletesOnlyWhenAllKept`), a close unpublishes nothing
(`CloseKeepsPublished`), no step but a deletion by plain Git takes a commit off
every branch (`LosesOnlyByHand`), and without such deletions none ever is lost
(`NothingLost`). `RecordedIsPublic` needs to know how far a keep has come: `IInv`
adds to the types that what was fetched is there (`SeenIsThere`), that a tip said
to be kept is on the copy of `ancestors` a keep starts from (`KeptIsHere`), and
that the repositories already visited have theirs on origin (`KeptSoFar`). `QInv`
adds that a close has pushed the new name before it drops the old one
(`ClosingFits`) and that a delete found everything held elsewhere in the
repositories it checked (`DeletingFits`). `MCBranches` carries the results to the
two instances the run `branches` checks side by side.

**MergeProofs.** Without further assumption: type correctness (the passes of
`--all-conflicts` never exceed their limit) and `ProjectIsDoneFirst`. When every
repository has a name of its own (`OneName = FALSE`): `MemoryStaysWhole` and
`StopsAtUnfinished`. When, besides, nobody commits while a command runs
(`Own = FALSE`): `NothingMergedBesideAConflict`; and when no target is behind its
upstream: `EndsWhereItSaid` (`MergeLimits`). Each has an invariant of its own
over the types. `DInv`: what the walk has passed has its source. `MInv`: the
memory's plan is one that keeps its files. `SInv`: a commit carries the work its
past holds, a commit that is not made yet is nowhere (`AllDated`: with `--ff-only` the
user may commit in the very repository the tool is at), and every pass merges one
repository more, which is why the passes suffice. `CInv`: what was asked still answers the conflict check, since only the
repositories behind the walk have changed. `EInv`: the fate of a repository is
what was found of it until the walk gets there.

**WorkspaceProofs.** About an install, for any tree of repositories, any documents
and any failures and kills. Type correctness; `RefusalDeletesNothing` (a run that is
refused deleted nothing, though the repositories of a nested .cgs are asked about in
later batches only); `SavedTreeIsSound` (what is saved as READY is on disk as the
registry says, nested documents included). Both are about the end of a run, and
`InstallInv` says how far a run has come: a repository is named after the one it sits
in and cloned after it (`Named`, `Upward`); what counts as cloned is on disk, on the
branch or the pin the registry says (`Whole`, `Landed`, `Agreed`); a run clones around
nothing, or inside what it has just cloned (`Fresh`), so a later batch has nothing to
refuse and its clearings take nothing that counts as done; what the batch holds at
each step, and that none of it is left when the tree is checked (`Batches`); and
between runs no pin is left. That a batch starts with the shallowest repository of
those that wait is where `Climb` and `Least` (a set of places has a first one) are
needed. Under `~During` (nobody works in the checkouts during a run;
`InstallLimits`): `GuardedWorkKept`, whose `GuardInv` adds that what the guard let
through is still without work when its turn to be cleared comes.

About a workspace that is moved (pull, `pull --force`, `release load`, restore), under
`~During` and `~Adrift` (no commits on a detached HEAD) and with remotes that others
may rewrite at any moment: `OwnWorkKept`. `WorkInv` is what makes it inductive: a
commit of the user that a remote has, or was seen to have, is on the repository's own
branch too (`Backed`), which is why a reset to what was fetched takes none away; what
a detached HEAD or an unfinished load stands on is on some branch (`LooseBacked`,
`MovedBacked`); a repository that is gone held no work (`GoneEmpty`); and what `pull
--force` is about to reset to was judged on the refs it resets to (`FetchedRight`).
Under `~During` and without rewritten remotes: `ResyncIsSound` (a command that
refuses, or says it put everything back, left every repository where it was; a State
names branches that are checked out and hold what was fetched). `SoundInv` has a part
per command that says what holds of the repositories behind the walk and of those
before it (`Walked` for the pulls, `Loaded` for a load and its rollback, `Restored`),
and `Judged` with `Behind`: what `pull --force` asked of every repository before it
moved one still holds when it comes to each, since a remote that is not rewritten only
grows. `ResyncLimits` has the counterexample to each without its condition.

**RegisterProofs.** For any contributors, records and branches, and whatever is
done to the register with plain git: the index accepts only what its writer may
accept, and what somebody was told is registered stays so (`RegisterTold`); a
command's index extends the one it found and what its contributor last found
sound. `RegisterAnswers` says besides that every reader finds every covered record
verified, and needs that nobody misfiles a record which is then proposed on its
own branch too (`NotBothFiled`): the reader would take the file of the later
branch. `IndexGrows` says besides that the index covers no less, and needs that
nobody both shortens the index and replaces its last checkpoint
(`NotBothEdited`): a contributor that had fetched the longer one extends that. Both
conditions hold where one thing at most is done by hand, as in the run `shared`;
with two, TLC finds the counterexamples. `RegisterInv` has four parts besides the
types: how far each command has come, with what the checkpoint it is about to
publish follows and adds (`Holds`); that every index somebody holds is sound, its
records readable to who added them, filed at home, and never taken back by a later
checkpoint (`AllSound`); that what anybody fetched or was told is in the index,
unless it was shortened or replaced (`Kept`); on how many branches a record can be
(`OnOneBranch`). The chain is a set of checkpoints whose head is CHOSEn: that each
leads to a head (`LeadsToHead`) is shown from the finiteness of the set, without
induction, since otherwise the lengths of those that follow it would be a finite
set equal to itself moved by one.

For the conversion of submodules the same module shows `ConversionsAreWhole`: however
the repositories are nested (`ConversionAssumption`: each sits in one numbered before
it, up to the root), whatever moved on and whoever works in between, a conversion that
nobody disturbs does every submodule at every depth or none, and one that says it is done
left each ignored by its holder and no `.gitmodules`. It rests on what the two recursive
functions of the model compute, shown without induction theorems from the cardinality of
1..n: `LevelsAre` (the walk visits each repository with submodules once, the one that
holds others before those of them that do) and `CleanShowsNot`, `ShowsNotClean` (what
`git status` shows of a submodule says whether anything below it changed).
`ConversionInv` has what the walk left behind converted and what is ahead untouched
(`Walked`), how far the level under way is (`OneLevel`), and that what was clean when the
submodules of the root were asked still is (`Asked`): that is why a later level is not
refused. A conversion that is cut once something is converted is `torn` for good, which
only a person can cause, and nothing is promised after it (`SubmoduleLimits`).

For one memory on several machines: `MemoriesAreKept`. For any machines and keepers,
without a bound on records or commits, whatever people take care of and wherever a
command is killed or refused, every recorded entry is pending, folded or in a history
that some branch reaches, a memory made by default shares no commit with origin, and the
base is nobody's. `MachinesInv` makes it inductive. Commits only grow, and each comes
after the history it holds (`CommitsOk`). Each machine's files are those of its branch's
commit (`Committed`), or hold lower numbers than what is pending (`Spares`): a fold then
replaces a file of the branch's history or none, which is why it loses nothing even
where entries are still pending under another branch's ledger. `Amid` says what a
machine is in the middle of: what a send, a merge, a reboot or an adoption still has to
do, and what an adoption under way has changed so far (`Renamed`), which is all it has
to undo (`UndosAreExact`). Every record is on some machine (`RecordsOn`), and nobody else
has seen a commit of a memory that is not published (`Apart`): that is why one machine's
step cannot forget or publish what another has. Each command is shown to be a step of one
machine that keeps what it had, and that the others see only through origin (`Moves`);
one lemma, `MovesKeep`, shows that such a step keeps the invariant. Where
nobody pushes to a branch that somebody else is rebooting (`"reboot apart"`): no history
leaves origin (`OriginNeverLoses`). `Housed` has where it is meanwhile: before the
archived name is pushed, what origin's branch holds is in the branch here; before the old
name is deleted, under the archived one. `MachinesLimits` has the counterexample without it.

**Lemmas about data.** Prefixes, fronts and what an index covers (`PrefixIs` ...
`ChainNext` in `RegisterProofs`); the walk of a tree visits every repository once
(`PlaceOf` in `MergeProofs`, `LevelsAre` in `RegisterProofs`, from the cardinalities of
finite sets); the last entry of a ledger that is spliced of two (`LastIs`,
`SheafSpliced` in `RegisterProofs`); the ledger of
`Memory` read as a sequence (`Listed`); what several logs read as one hold, name and
repeat (`FlatConcat`, `NamingConcat`, `FlatDistinct` in `MemoryProofs`).

**Only model-checked.** Liveness (`StaleIsCleared`,
`ReleaseCompletes`, `RerunEnds`, `MergeEnds`, `InstallEnds`) and everything that
needs ENABLED. The answers of `MCAnswers`, whose modules use RECURSIVE operators
and range over data. Two parts of `NothingGivenUp` of
`MCShared`, `RepairKeepsBoth` and `PublishedVerifies`: they are claimed for the bounds of
the run only, since a merge of two ledgers that Git finds clean is kept as it is, and with
more records than the run has it need not read as both did.

## 5. What is not modelled

`PROJECT.json` lists every component with the reason. In short: the command line
(`cli/`: arguments, help, rendering), the Git door's parsing of output, reports,
the clock and the error classes, and the conformity scale's wording. Of the
modelled components: wall-clock order in the ledger, the Git commit and push of
the memory's mount inside `Memory` (they are in `Machines`); the pull of each parent
before `.gitignore` is written in `Install`, where no remote changes during a run (its
failure is there); tags and detached
heads in `Branches` and `Merge`; private repositories' branch names in
`Branches`; `release list` and the choice of a release's name; YAML and TOML
syntax; digests, which are what they are computed from.

## 6. What is next

That what machines publish verifies and a repair keeps both sides' records, for any number
of records (`PublishedVerifies`, `RepairKeepsBoth` in `Machines`): both need a statement
that tells a ledger that was verified from one that a clean merge left.
