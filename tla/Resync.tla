-------------------------------- MODULE Resync --------------------------------
(****************************************************************************)
(* Moving a workspace that is already on disk: `pull` of a snapshot or of a *)
(* .cgs, `pull --force`, `pull --private`, `fetch` and `release load` in    *)
(* place (tree/operations/restart.py and fetch.py, orchestre/               *)
(* tree_commands.py and release_commands.py, git_repo/git_runner.py).       *)
(*                                                                          *)
(* A commit is the set of changes its history holds, so that one is an      *)
(* ancestor of another when it is a subset; a change is of the release, the *)
(* user's own or a colleague's.  A private repository's own name for a      *)
(* branch of the project is written as that branch.                         *)
(****************************************************************************)
EXTENDS Naturals, FiniteSets, Sequences, SequencesExt, Functions

CONSTANTS
    Repos,      \* every repository, parents first; the first is the root
    Private,    \* those that are private and writable: the memory is one
    Memory,     \* the one that is the memory
    Mates,      \* what colleagues do to a remote: "push", "rewrite", "delete"
    During,     \* whether the user works while a command runs
    Adrift,     \* whether the user commits on a detached HEAD
    MaxWork,    \* bound: commits, edits and checkouts of the user
    MaxMates,   \* bound: what colleagues do
    MaxFaults,  \* bound: commands of Git that fail, and runs that are killed
    MaxCommands     \* bound: commands

VARIABLES
    origin,     \* the branches of each remote
    track,      \* refs/remotes: what each repository last saw of them
    local, on, loose, \* its branches, the one it is on (None: detached), HEAD when detached
    dirt, stash,\* its uncommitted work, and the work that was set aside
    disk,       \* whether it is there
    tagged,     \* whether it has the release's tag
    saved,      \* the latest State: the ref each repository is recorded on
    entry,      \* the registry of the command that runs
    cmd, at, todo, moved, plan, fetched, \* that command, its step, and what it holds
    start,      \* where every repository was when it began
    result, work, mates, faults, runs

remotes == <<origin, tagged>>
repos   == <<track, local, on, loose, dirt, stash, disk>>
command == <<cmd, todo, moved, plan, fetched, start>>
counts  == <<work, mates, runs>>
vars    == <<remotes, repos, saved, entry, command, at, result, counts, faults>>

Repo == ToSet(Repos)
Root == Repos[1]
Place == [r \in Repo |-> CHOOSE i \in DOMAIN Repos : Repos[i] = r]

\* What the repositories are: the constants are right.
Fitting ==
    /\ Repos \in Seq(Repo) /\ Repos # <<>> /\ IsInjective(Repos)
    /\ Private \subseteq Repo /\ Memory \in Private \ {Root}
    /\ During \in BOOLEAN /\ Adrift \in BOOLEAN
    /\ {MaxWork, MaxMates, MaxFaults, MaxCommands} \subseteq Nat

\* They are visited in the order of the tree, or in the reverse order.
First(S)   == CHOOSE r \in S : \A k \in S : Place[r] <= Place[k]
Deepest(S) == CHOOSE r \in S : \A k \in S : Place[k] <= Place[r]

Branch == {"main", "dev"}
None == "none"
Dirt == {"tracked", "untracked"}
Commands == {"pull", "restart", "restore", "force", "force private", "refresh", "fetch", "load"}

\* The release: the commit every repository but the memory is recorded at.
Released == {<<"release", 0>>}

\* Mutant: the memory as well.
RecordedAll == Repo

Recorded == Repo \ {Memory}

\* Some branches, with one of them at a commit; and some with others under them.
With(refs, b, commit) == [x \in DOMAIN refs \cup {b} |-> IF x = b THEN commit ELSE refs[x]]
Over(refs, under) == [x \in DOMAIN refs \cup DOMAIN under |-> IF x \in DOMAIN refs THEN refs[x] ELSE under[x]]

\* What HEAD is at, and every commit a ref of the repository still names.
Tip(r)   == IF on[r] = None THEN loose[r] ELSE local[r][on[r]]
Where(r) == <<on[r], Tip(r), disk[r]>>
Named(r) == UNION (Range(local[r]) \cup Range(track[r]) \cup {loose[r]})
Holds(refs, commit) == \E tip \in Range(refs) : commit \subseteq tip

\* What a State of the release names: the tag, where the repository has it.
Ref(r) == IF tagged[r] THEN <<"tag", "tag">> ELSE <<"commit", "commit">>

\* A State names a branch, a tag or a commit; one repository may be on another
\* branch, have uncommitted work, not know the release, lack its tag or be gone; or all but
\* the memory stand on the release.
Init ==
    /\ \E odd \in Repo, kind \in {"", "untagged", "away", "unknown", "tracked", "untracked", "gone", "loose"}, rel \in {"main", "dev", None} :
          LET fresh == [b \in Branch |-> IF b = rel THEN Released ELSE {}]
          IN  /\ kind = "gone" => odd # Root
              /\ tagged = [r \in Repo |-> ~(kind = "untagged" /\ r = odd)]
              /\ origin = [r \in Repo |-> IF kind = "unknown" /\ r = odd THEN fresh ELSE [b \in Branch |-> Released]]
              /\ local = [r \in Repo |-> IF kind = "unknown" /\ r = odd THEN [b \in {"main"} |-> {}]
                                         ELSE [b \in {"main", "dev"} |-> Released]]
              /\ track = [r \in Repo |-> IF kind = "unknown" /\ r = odd THEN [b \in Branch |-> {}] ELSE local[r]]
              /\ on = [r \in Repo |-> CASE kind = "away" /\ r = odd -> "dev" [] kind = "loose" /\ r # Memory -> None [] OTHER -> "main"]
              /\ loose = [r \in Repo |-> IF on[r] = None THEN Released ELSE {}]
              /\ saved = [r \in Repo |-> IF on[r] = None THEN Ref(r) ELSE <<"branch", "main">>]
              /\ dirt = [r \in Repo |-> IF kind \in Dirt /\ r = odd THEN {kind} ELSE {}]
              /\ disk = [r \in Repo |-> ~(kind = "gone" /\ r = odd)]
              /\ (kind # "unknown") => rel = None
    /\ stash = [r \in Repo |-> {}] /\ entry = saved
    /\ cmd = "fetch" /\ at = "idle" /\ todo = {} /\ moved = {} /\ plan = {} /\ fetched = {}
    /\ start = [r \in Repo |-> Where(r)] /\ result = "nothing"
    /\ work = 0 /\ mates = 0 /\ faults = 0 /\ runs = 0

-----------------------------------------------------------------------------
(* The command and its end *)

End(res) ==
    /\ at' = "idle" /\ result' = res
    /\ todo' = {} /\ moved' = {} /\ plan' = {} /\ fetched' = {} /\ entry' = saved /\ cmd' = "fetch"
    /\ UNCHANGED <<start, saved>>

Go(step, rest) == at' = step /\ todo' = rest /\ UNCHANGED <<cmd, start, result, saved>>

\* The rest of a walk, or what comes after its last repository.
Onward(step, r, next) == Go(IF todo # {r} THEN step ELSE next, todo \ {r})

\* A command of Git that fails takes its command with it.
Fails == faults < MaxFaults /\ faults' = faults + 1 /\ End("failed")

\* The root's branch; detached, the ref the registry says it last landed on, and for a
\* registry read from a .cgs the branch that declares (resolve_entry_ref).
RootBranch(c) == IF on[Root] # None THEN on[Root] ELSE IF c = "restart" THEN "main" ELSE saved[Root][2]

\* What every repository is to be on: propagate_global_branch.
Target == RootBranch(cmd)

InScope(c) == IF c = "force private" THEN Private ELSE Repo

\* commits_force_pull_would_drop: what only this repository holds on the branch that is
\* to be moved, and on a detached HEAD.
WouldDrop(r, b, seen) ==
    LET published == UNION Range(seen)
    IN  \/ b \in DOMAIN local[r] /\ ~(local[r][b] \subseteq published)
        \/ on[r] = None /\ ~(loose[r] \subseteq published)

\* Mutant: no commit is looked for before the walk begins.
ForceRefusedLate(c) == FALSE

\* _refuse_if_commits_would_be_dropped.
ForceRefused(c) ==
    /\ c \in {"force", "force private"}
    /\ \E r \in InScope(c) : disk[r] /\ WouldDrop(r, RootBranch(c), track[r])

Missing == {r \in Recorded : ~disk[r]}

\* _load_in_place refuses uncommitted changes; clone_recorded, a commit no remote holds.
LoadRefused ==
    \/ \E r \in Recorded : disk[r] /\ "tracked" \in dirt[r]
    \/ \E r \in Missing : ~Holds(origin[r], Released)

\* Preflight of pull --private.
RefreshRefused == \E r \in Private : dirt[r] # {} \/ on[r] # RootBranch("refresh") \/ on[r] = None

Refused(c) == CASE c = "load"    -> LoadRefused
                [] c = "refresh" -> RefreshRefused
                [] OTHER         -> ForceRefused(c)

Begin(c) ==
    /\ at = "idle" /\ runs < MaxCommands /\ runs' = runs + 1
    /\ c \in {"pull", "restore"} => (c = "restore") = (\E r \in Repo : ~disk[r])
    /\ c = "refresh" => \A r \in Private : disk[r]
    /\ start' = [r \in Repo |-> Where(r)]
    /\ entry' = saved /\ moved' = {} /\ plan' = {} /\ fetched' = {} /\ UNCHANGED saved
    /\ IF Refused(c) THEN at' = "idle" /\ result' = "refused" /\ todo' = {} /\ cmd' = "fetch"
       ELSE /\ cmd' = c /\ result' = "nothing"
            /\ CASE c = "load" /\ Missing # {} -> at' = "clone" /\ todo' = Missing
                 [] c = "load" /\ Missing = {} -> at' = "move" /\ todo' = Recorded
                 [] c = "refresh" -> at' = "plan" /\ todo' = Private
                 [] c = "fetch"   -> at' = "fetch" /\ todo' = Repo
                 [] c = "restore" -> at' = "restore" /\ todo' = Repo
                 [] OTHER         -> at' = "visit" /\ todo' = InScope(c)
    /\ UNCHANGED <<remotes, repos, work, mates, faults>>

-----------------------------------------------------------------------------
(* pull and pull --force: _restart_tree *)

\* refresh_repo_after_checkout: the branch it is on, or the root's.
Settle(r) ==
    /\ entry' = [entry EXCEPT ![r] = <<"branch", IF on'[r] = None THEN Target ELSE on'[r]>>]
    /\ Onward("visit", r, "save")
    /\ fetched' = {} /\ UNCHANGED <<moved, plan>>

\* _fetch_all_refs does what it can and prunes nothing; then a branch that the remote
\* is not known to have is passed over.
Visit ==
    LET r == First(todo)
    IN  /\ at = "visit"
        /\ UNCHANGED <<remotes, local, on, loose, dirt, stash, disk, counts>>
        /\ IF ~disk[r] THEN End("failed") /\ UNCHANGED <<track, faults>>
           ELSE /\ \/ track' = [track EXCEPT ![r] = Over(origin[r], @)] /\ UNCHANGED faults
                   \/ UNCHANGED track /\ faults < MaxFaults /\ faults' = faults + 1
                /\ IF Target \in DOMAIN track'[r]
                   THEN /\ Go(IF cmd \in {"force", "force private"} THEN "judge" ELSE "pull", todo)
                        /\ UNCHANGED <<entry, moved, plan, fetched>>
                   ELSE Settle(r)

\* Mutant: what the pull brings replaces the branch.
TakeInReset(r, new) == new

\* git pull --ff-only moves the branch that is checked out, if nothing of it is lost.
TakeIn(r, new) == IF Tip(r) \subseteq new THEN new ELSE Tip(r)

Advance(r, commit) ==
    IF on[r] = None THEN loose' = [loose EXCEPT ![r] = commit] /\ UNCHANGED local
    ELSE local' = [local EXCEPT ![r][on[r]] = commit] /\ UNCHANGED loose

\* It fails on a branch the remote no longer has, on histories that went apart, and
\* on uncommitted work in its way.
Pull ==
    LET r == First(todo)
        new == origin[r][Target]
        apart == IF Target \in DOMAIN origin[r] THEN ~(new \subseteq Tip(r) \/ Tip(r) \subseteq new) ELSE TRUE
    IN  /\ at = "pull"
        /\ UNCHANGED <<remotes, on, dirt, stash, disk, counts, faults>>
        /\ \/ /\ IF apart THEN TRUE ELSE dirt[r] # {} /\ ~(new \subseteq Tip(r))
              /\ End("failed") /\ UNCHANGED <<track, local, loose>>
           \/ /\ ~apart
              /\ track' = [track EXCEPT ![r] = With(@, Target, new)]
              /\ Advance(r, TakeIn(r, new))
              /\ Settle(r)

\* force_pull: the branch is fetched and the question asked again.
Judge ==
    LET r == First(todo)
    IN  /\ at = "judge"
        /\ UNCHANGED <<remotes, local, on, loose, dirt, stash, disk, counts, faults>>
        /\ IF Target \notin DOMAIN origin[r] THEN End("failed") /\ UNCHANGED track
           ELSE /\ track' = [track EXCEPT ![r] = With(@, Target, origin[r][Target])]
                /\ IF WouldDrop(r, Target, track'[r]) THEN End("refused")
                   ELSE /\ Go("stash", todo) /\ fetched' = origin[r][Target]
                        /\ UNCHANGED <<entry, moved, plan>>

\* Mutant: only tracked files are set aside.
SetAsideTracked(r) == dirt[r] \cap {"tracked"}

\* git stash push -u.
SetAside(r) == dirt[r]

Stash ==
    LET r == First(todo)
    IN  /\ at = "stash"
        /\ stash' = [stash EXCEPT ![r] = @ \cup SetAside(r)]
        /\ dirt' = [dirt EXCEPT ![r] = @ \ SetAside(r)]
        /\ Go("reset", todo)
        /\ UNCHANGED <<remotes, track, local, on, loose, disk, entry, moved, plan, fetched, counts, faults>>

\* git checkout -B, then git clean -fd.
Reset ==
    LET r == First(todo)
    IN  /\ at = "reset"
        /\ UNCHANGED <<remotes, track, stash, disk, counts, faults>>
        /\ \/ "tracked" \in dirt[r] /\ End("failed") /\ UNCHANGED <<local, on, loose, dirt>>
           \/ /\ local' = [local EXCEPT ![r] = With(@, Target, fetched)]
              /\ on' = [on EXCEPT ![r] = Target] /\ loose' = [loose EXCEPT ![r] = {}]
              /\ dirt' = [dirt EXCEPT ![r] = @ \ {"untracked"}]
              /\ Settle(r)

\* write_gts_snapshot asks the memory itself (_refresh_memory_mount_state).
Recording == [entry EXCEPT ![Memory] = IF disk[Memory] /\ on[Memory] # None THEN <<"branch", on[Memory]>> ELSE @]

Save ==
    /\ at = "save"
    /\ saved' = Recording /\ at' = "idle" /\ result' = "done" /\ cmd' = "fetch"
    /\ moved' = {} /\ UNCHANGED <<todo, plan, fetched, start, entry>>
    /\ UNCHANGED <<remotes, repos, counts, faults>>

-----------------------------------------------------------------------------
(* pull of a snapshot that names a repository that is gone: _restore_gts_snapshot *)

\* A ref of a State is a branch, the release's tag or its commit.  Git finds it among
\* what the repository holds, or on the remote it clones: a commit it cannot clone.
Found(r, ref) ==
    IF ref \in Branch THEN ref \in IF disk[r] THEN DOMAIN local[r] \cup DOMAIN track[r] ELSE DOMAIN origin[r]
    ELSE IF ref = "tag" THEN tagged[r]
    ELSE disk[r] /\ (Holds(local[r], Released) \/ Holds(track[r], Released))

\* git clone of the ref that is recorded where nothing is; and it is checked out.
Restore ==
    LET r == First(todo)
        ref == saved[r][2]
        seen == IF disk[r] THEN track[r] ELSE origin[r]
        held == IF disk[r] THEN local[r] ELSE [b \in {} |-> {}]
    IN  /\ at = "restore"
        /\ UNCHANGED <<remotes, dirt, stash, counts, faults>>
        /\ \/ /\ ~Found(r, ref) \/ (dirt[r] # {} /\ on[r] # ref)
              /\ End("failed") /\ UNCHANGED <<track, local, on, loose, disk>>
           \/ /\ Found(r, ref)
              /\ disk' = [disk EXCEPT ![r] = TRUE] /\ track' = [track EXCEPT ![r] = seen]
              /\ local' = [local EXCEPT ![r] = IF ref \in Branch \ DOMAIN held THEN With(held, ref, seen[ref]) ELSE held]
              /\ on' = [on EXCEPT ![r] = IF ref \in Branch THEN ref ELSE None]
              /\ loose' = [loose EXCEPT ![r] = IF ref \in Branch THEN {} ELSE Released]
              /\ Onward("restore", r, "save")
              /\ UNCHANGED <<entry, moved, plan, fetched>>

-----------------------------------------------------------------------------
(* release load, in place *)

\* clone_recorded: the branch the release records, pointed at the commit.
Clone ==
    LET r == First(todo)
    IN  /\ at = "clone"
        /\ UNCHANGED <<remotes, dirt, stash, counts, faults>>
        /\ IF "main" \notin DOMAIN origin[r] \/ ~Holds(origin[r], Released)
           THEN End("failed") /\ UNCHANGED <<track, local, on, loose, disk>>
           ELSE /\ disk' = [disk EXCEPT ![r] = TRUE] /\ track' = [track EXCEPT ![r] = origin[r]]
                /\ local' = [local EXCEPT ![r] = [b \in {"main"} |-> Released]]
                /\ on' = [on EXCEPT ![r] = "main"] /\ loose' = [loose EXCEPT ![r] = {}]
                /\ IF todo # {r} THEN Go("clone", todo \ {r}) ELSE Go("move", Recorded)
                /\ UNCHANGED <<entry, moved, plan, fetched>>

\* Mutant: nothing is moved back.
PutsBackNone(r) == End("put back")

\* What was moved goes back, last first.
PutsBack(r) == Go("back", {m[1] : m \in moved}) /\ UNCHANGED <<entry, moved, plan, fetched>>

\* Each is detached at its commit, which is fetched if it is not there; when one
\* cannot move, by its files, its history or Git, those before it are put back.
Move ==
    LET r == First(todo)
        there == Holds(local[r], Released) \/ Holds(track[r], Released) \/ Released \subseteq loose[r] \/ Holds(origin[r], Released)
    IN  /\ at = "move"
        /\ UNCHANGED <<remotes, track, local, dirt, stash, disk, counts>>
        /\ \/ /\ ~there \/ dirt[r] # {} \/ faults < MaxFaults
              /\ faults' = IF ~there \/ dirt[r] # {} THEN faults ELSE faults + 1
              /\ UNCHANGED <<on, loose>>
              /\ IF moved = {} THEN End("put back") ELSE PutsBack(r)
           \/ /\ there /\ UNCHANGED faults
              /\ moved' = moved \cup {<<r, on[r], Tip(r)>>}
              /\ on' = [on EXCEPT ![r] = None] /\ loose' = [loose EXCEPT ![r] = Released]
              /\ entry' = [entry EXCEPT ![r] = Ref(r)]
              /\ Onward("move", r, "save")
              /\ UNCHANGED <<plan, fetched>>

\* A branch is checked out again, or HEAD is detached where it was.
Back ==
    LET r == Deepest(todo)
    IN  /\ at = "back"
        /\ UNCHANGED <<remotes, track, local, dirt, stash, disk, counts, faults>>
        /\ \E m \in moved : /\ m[1] = r
                             /\ on' = [on EXCEPT ![r] = m[2]]
                             /\ loose' = [loose EXCEPT ![r] = IF m[2] = None THEN m[3] ELSE {}]
        /\ IF todo # {r} THEN Go("back", todo \ {r}) /\ UNCHANGED <<entry, moved, plan, fetched>>
           ELSE End("put back")

-----------------------------------------------------------------------------
(* pull --private: refresh_private_tree *)

Clashing(p) == \E m \in p : m[2]

\* Each that is off its base branch fetches it and is asked whether it merges; the
\* memory keeps its own side, and always does.  One that does not stops them all.
Plan ==
    LET r == Deepest(todo)
        asked == on[r] # "main"
        base == origin[r]["main"]
    IN  /\ at = "plan"
        /\ UNCHANGED <<remotes, local, on, loose, dirt, stash, disk, counts, faults>>
        /\ \/ asked /\ "main" \notin DOMAIN origin[r] /\ End("failed") /\ UNCHANGED track
           \/ /\ asked => "main" \in DOMAIN origin[r]
              /\ track' = IF asked THEN [track EXCEPT ![r] = With(@, "main", base)] ELSE track
              /\ \E clash \in BOOLEAN :
                    LET behind == asked /\ ~(base \subseteq Tip(r))
                        p == plan \cup IF behind THEN {<<r, clash>>} ELSE {}
                    IN  /\ clash => behind /\ r # Memory /\ ~(Tip(r) \subseteq base)
                        /\ \/ todo # {r} /\ Go("plan", todo \ {r}) /\ plan' = p /\ UNCHANGED <<entry, moved, fetched>>
                           \/ todo = {r} /\ Clashing(p) /\ End("refused")
                           \/ todo = {r} /\ p = {} /\ End("done")
                           \/ /\ todo = {r} /\ p # {} /\ ~Clashing(p)
                              /\ Go("merge", {m[1] : m \in p}) /\ plan' = p /\ UNCHANGED <<entry, moved, fetched>>

\* Then they are merged, leaves first.
Merge ==
    LET r == Deepest(todo)
    IN  /\ at = "merge"
        /\ UNCHANGED <<remotes, track, on, dirt, stash, disk, counts, faults>>
        /\ Advance(r, Tip(r) \cup track[r]["main"])
        /\ IF todo # {r} THEN Go("merge", todo \ {r}) /\ UNCHANGED <<entry, moved, plan, fetched>>
           ELSE End("done")

-----------------------------------------------------------------------------
(* fetch: fetch_tree *)

\* One that fails is passed over; what a remote has no more is pruned.
Fetch ==
    LET r == First(todo)
    IN  /\ at = "fetch"
        /\ UNCHANGED <<remotes, local, on, loose, dirt, stash, disk, counts>>
        /\ \/ track' = (IF disk[r] THEN [track EXCEPT ![r] = origin[r]] ELSE track) /\ UNCHANGED faults
           \/ UNCHANGED track /\ faults < MaxFaults /\ faults' = faults + 1
        /\ IF todo # {r} THEN Go("fetch", todo \ {r}) /\ UNCHANGED <<entry, moved, plan, fetched>>
           ELSE End("done")

\* A command of Git that fails, or the command is killed.
Stop ==
    /\ at \notin {"idle", "visit", "fetch"} /\ Fails
    /\ UNCHANGED <<remotes, repos, counts>>

-----------------------------------------------------------------------------
(* The user, and colleagues *)

Acts == (During \/ at = "idle") /\ work < MaxWork /\ work' = work + 1 /\ result' = "nothing"

Commit(r) ==
    /\ Acts /\ disk[r] /\ (on[r] = None => Adrift)
    /\ Advance(r, Tip(r) \cup {<<"own", work + 1>>})
    /\ UNCHANGED <<track, on, dirt, stash, disk>>

Edit(r, kind) ==
    /\ Acts /\ disk[r] /\ kind \notin dirt[r]
    /\ dirt' = [dirt EXCEPT ![r] = @ \cup {kind}]
    /\ UNCHANGED <<track, local, on, loose, stash, disk>>

Switch(r, b) ==
    /\ Acts /\ at = "idle" /\ disk[r] /\ b \in DOMAIN local[r] \ {on[r]}
    /\ on' = [on EXCEPT ![r] = b] /\ loose' = [loose EXCEPT ![r] = {}]
    /\ UNCHANGED <<track, local, dirt, stash, disk>>

User ==
    /\ \E r \in Repo : Commit(r) \/ (\E kind \in Dirt : Edit(r, kind)) \/ (\E b \in Branch : Switch(r, b))
    /\ UNCHANGED <<remotes, saved, entry, command, at, mates, runs, faults>>

\* The user's own push, which makes a commit a colleague's to rewrite or delete.
Push(r) ==
    /\ at = "idle" /\ disk[r] /\ on[r] \in DOMAIN origin[r]
    /\ origin[r][on[r]] \subseteq Tip(r) /\ origin[r][on[r]] # Tip(r)
    /\ origin' = [origin EXCEPT ![r][on[r]] = Tip(r)]
    /\ track' = [track EXCEPT ![r] = With(@, on[r], Tip(r))]
    /\ result' = "nothing"
    /\ UNCHANGED <<tagged, local, on, loose, dirt, stash, disk, saved, entry, command, at, counts, faults>>

Mate(r, b, what) ==
    /\ what \in Mates /\ mates < MaxMates /\ mates' = mates + 1 /\ b \in DOMAIN origin[r]
    /\ origin' = [origin EXCEPT ![r] =
          CASE what = "push"    -> [@ EXCEPT ![b] = origin[r][b] \cup {<<"mate", mates + 1>>}]
            [] what = "rewrite" -> [@ EXCEPT ![b] = Released \cup {<<"mate", mates + 1>>}]
            [] OTHER            -> [x \in DOMAIN @ \ {b} |-> @[x]]]
    /\ UNCHANGED <<tagged, repos, saved, entry, command, at, result, work, runs, faults>>

Step == Visit \/ Pull \/ Judge \/ Stash \/ Reset \/ Save \/ Restore \/ Clone \/ Move \/ Back \/ Plan \/ Merge \/ Fetch

Next ==
    \/ \E c \in Commands : Begin(c)
    \/ Step
    \/ Stop
    \/ User
    \/ \E r \in Repo : Push(r)
    \/ \E r \in Repo, b \in Branch, what \in Mates : Mate(r, b, what)

Spec == Init /\ [][Next]_vars

-----------------------------------------------------------------------------
(* Properties *)

Own == {"own"} \X (1..MaxWork)

\* No command takes a commit of the user off every ref of its repository, nor work that
\* is not committed out of the repository and its stash.
OwnWorkStays ==
    at # "idle" => \A r \in Repo :
        /\ Named(r) \cap Own \subseteq Named(r)'
        /\ dirt[r] \cup stash[r] \subseteq dirt'[r] \cup stash'[r]

\* restart.py, release_commands.py: a command that refuses, or that says everything was
\* put back, left each repository on the branch and the commit it found it on.
RefusalMovesNothing ==
    result \in {"refused", "put back"} => \A r \in Repo : start[r][3] => Where(r) = start[r]

\* A State is written of a tree that took in what it fetched, or of the release, whole,
\* with the memory where it was.
StateIsReached ==
    at = "save" =>
        /\ cmd \in {"pull", "restart", "force", "force private"} =>
              \A r \in InScope(cmd) : Target \in DOMAIN track[r] => track[r][Target] \subseteq Tip(r)
        /\ cmd = "load" => /\ \A r \in Recorded : on[r] = None /\ Tip(r) = Released
                           /\ Where(Memory) = start[Memory]

\* A repository that was on a branch when the command began is recorded on the one it is on.
StateNamesTheBranch ==
    at = "save" => \A r \in InScope(cmd) :
        Recording[r][1] = "branch" /\ start[r][1] # None => on[r] = Recording[r][2]

\* ... and so is one that was on none.
StateNamesADetachedHead == at = "save" => \A r \in InScope(cmd) : Recording[r][1] = "branch" => on[r] = Recording[r][2]

ResyncIsSound == RefusalMovesNothing /\ StateIsReached /\ StateNamesTheBranch
=============================================================================
