------------------------------------ MODULE Door ------------------------------------
(****************************************************************************)
(* What is asked before a command touches a tree: which repositories it may *)
(* touch (RepoScope, orchestre/git_probes.py), who owns a path              *)
(* (tree/operations/removal.py, commit.py), whether a repository is fit for *)
(* the operation (preflight.py, git_repo/same_name_remote.py), and the one  *)
(* door of every operation with the proof that it leaves                    *)
(* (orchestre/op_boundary.py, op_levels.py).                                *)
(*                                                                          *)
(* A tree is a set of repositories with their paths; a path is the sequence *)
(* of its segments.                                                         *)
(****************************************************************************)
EXTENDS Naturals, Sequences, SequencesExt, FiniteSets, FiniteSetsExt

CONSTANT None

-----------------------------------------------------------------------------
(* The scope *)

Scopes == {"project", "private", "writable", "all"}
ReadOnly(repo) == repo.private /\ ~repo.writable
\* RepoScope.includes. Mutant: a configuration repository counts as writable when it is private.
IncludesAnyPrivate(scope, repo) ==
    CASE scope = "all"      -> TRUE
      [] scope = "project"  -> ~repo.private
      [] scope = "private"  -> repo.private
      [] scope = "writable" -> ~ReadOnly(repo)
Includes(scope, repo) ==
    CASE scope = "all"      -> TRUE
      [] scope = "project"  -> ~repo.private
      [] scope = "private"  -> repo.private /\ repo.writable
      [] scope = "writable" -> ~ReadOnly(repo)
Covered(tree, scope) == {repo \in tree : Includes(scope, repo)}

\* GitProbes.resolve_command_scope: the scope, or none where it refuses.
CommandScope(tree, private, allWritable) ==
    CASE private /\ allWritable -> None
      [] allWritable            -> "writable"
      [] ~private               -> "project"
      [] OTHER                  -> IF Covered(tree, "private") # {} THEN "private" ELSE None
\* GitProbes.scope_for
ScopeFor(tree, private, default) == IF private THEN CommandScope(tree, TRUE, FALSE) ELSE default

-----------------------------------------------------------------------------
(* Paths that are given *)

\* resolve_repo_for_path: the deepest repository above the path, or none. Mutant: the first one.
Owners(tree, path) == {repo \in tree : IsPrefix(repo.path, path)}
OwnerShallowest(tree, path) ==
    IF Owners(tree, path) = {} THEN None
    ELSE CHOOSE repo \in Owners(tree, path) : \A other \in Owners(tree, path) : Len(repo.path) <= Len(other.path)
Owner(tree, path) ==
    IF Owners(tree, path) = {} THEN None
    ELSE CHOOSE repo \in Owners(tree, path) : \A other \in Owners(tree, path) : Len(other.path) <= Len(repo.path)

\* paths_outside_scope: a path that nobody owns is not its business.
OutsideScope(tree, paths, scope) ==
    SelectSeq(paths, LAMBDA path : Owner(tree, path) # None /\ ~Includes(scope, Owner(tree, path)))

\* What Git removes: a file that it tracks and that was not changed since.
GitRemoves(disk, path) == path \in DOMAIN disk /\ disk[path] = "tracked"
\* remove_paths: everything is asked of every path before the first is removed; then each in turn,
\* up to the one that Git refuses.
Removed(tree, disk, paths, scope) ==
    IF \/ \E i \in DOMAIN paths : Owner(tree, paths[i]) = None
       \/ OutsideScope(tree, paths, scope) # <<>>
       \/ \E i \in DOMAIN paths : paths[i] \notin DOMAIN disk \/ disk[paths[i]] = "directory"
    THEN [removed |-> {}, ok |-> FALSE]
    ELSE LET fails(i) == ~GitRemoves(disk, paths[i]) \/ \E k \in 1..(i - 1) : paths[k] = paths[i]
             before(i) == {paths[k] : k \in {k \in 1..(i - 1) : ~\E j \in 1..k : fails(j)}}
         IN  IF \E i \in DOMAIN paths : fails(i)
             THEN [removed |-> before(Min({i \in DOMAIN paths : fails(i)})), ok |-> FALSE]
             ELSE [removed |-> ToSet(paths), ok |-> TRUE]
\* TreeCommands.remove and its dry run ask for the same scope.
Removal(tree, disk, paths, private) ==
    LET scope == ScopeFor(tree, private, "all")
    IN  IF scope = None THEN [removed |-> {}, ok |-> FALSE] ELSE Removed(tree, disk, paths, scope)
DryRun(tree, paths, private) ==
    LET scope == ScopeFor(tree, private, "all")
    IN  IF scope = None THEN paths ELSE OutsideScope(tree, paths, scope)
\* add_tree: paths that are given are staged wherever they are; the scope is for the sweep alone.
Staged(tree, disk, paths, scope) ==
    IF paths = <<>> THEN {path \in DOMAIN disk : /\ disk[path] # "directory" /\ disk[path] # "tracked"
                                                 /\ Owner(tree, path) # None /\ Includes(scope, Owner(tree, path))}
    ELSE IF \E i \in DOMAIN paths : Owner(tree, paths[i]) = None THEN {}
    ELSE {paths[i] : i \in {i \in DOMAIN paths : \A k \in 1..i : paths[k] \in DOMAIN disk}}

-----------------------------------------------------------------------------
(* What a repository is like *)

\* GitProbes.local_status_from_porcelain; a line is the pair of letters Git prints and the path.
IsStaged(line) == line.index \notin {" ", "?"}
IsUnstaged(line) == line.index = "?" \/ line.worktree # " "
LocalStatus(lines) ==
    LET staged   == \E line \in lines : IsStaged(line)
        unstaged == \E line \in lines : IsUnstaged(line)
    IN  CASE lines = {}           -> "clean"
          [] staged /\ unstaged   -> "staged+dirty"
          [] staged               -> "staged"
          [] OTHER                -> "dirty"

\* _unmanaged_gitlink_paths, cgitsync_managed_state_paths
Ignored(gitlinks, children) == (gitlinks \ children) \cup {<<".cgitsync">>}
\* _has_managed_uncommitted_changes
IsDirty(lines, gitlinks, children) ==
    \E line \in lines : ~\E path \in Ignored(gitlinks, children) : IsPrefix(path, line.path)

\* GitRunner.branch_tracking_state, SameNameRemote.state
Tracking(counts) ==
    CASE counts = None                     -> None
      [] counts.ahead > 0 /\ counts.behind > 0 -> "DIVERGED"
      [] counts.ahead > 0                  -> "AHEAD"
      [] counts.behind > 0                 -> "BEHIND"
      [] OTHER                             -> "ALIGNED"
\* branch_tracking_counts: against the upstream the branch names, if it is there.
UpstreamCounts(repo) == IF repo.upstream = None THEN None ELSE repo.counts[repo.upstream]
\* SameNameRemote.counts: only where the branch names no upstream.
SameNameCounts(repo) == IF repo.upstream # None THEN None ELSE repo.counts["same"]
\* SameNameRemote.refusal. Mutant: only a branch that diverged is refused.
RefusalDiverged(repo) == Tracking(SameNameCounts(repo)) = "DIVERGED"
Refusal(repo) == SameNameCounts(repo) # None /\ SameNameCounts(repo).behind > 0
\* SameNameRemote.adopt
Adopted(repo) == IF repo.upstream = None /\ repo.counts["same"] # None THEN [repo EXCEPT !.upstream = "same"] ELSE repo
\* _collect_tracking_diagnostics and the push's own refusal
PushBlocked(repo) == Tracking(UpstreamCounts(repo)) \in {"BEHIND", "DIVERGED"} \/ Refusal(repo)
\* git push <remote> <branch>, as of the last fetch.
Rejected(repo) == repo.counts["same"] # None /\ repo.counts["same"].behind > 0

\* _waits_for_branch
Waits(repo) ==
    /\ repo.private /\ repo.observed = repo.fallback
    /\ ~repo.known /\ ~repo.dirty
    /\ Tracking(UpstreamCounts(repo)) = "ALIGNED"

\* _branch_to_push: the branch that is recorded, or the one that is checked out, or a refusal.
BranchToPush(repo) ==
    LET isTag == \/ repo.kind = "tag"
                 \/ /\ repo.recorded # None /\ repo.recorded # repo.current
                    /\ repo.recorded \notin repo.branches /\ repo.recorded \in repo.tags
    IN  IF repo.recorded # None /\ ~isTag THEN repo.recorded ELSE repo.current

-----------------------------------------------------------------------------
(* The door *)

Writing     == {"commit", "pull", "git"}        \* WRITING_METHODS, and three that stand for them
WritingWhen == {"verify"}
Routed      == Writing \cup WritingWhen \cup {"fetch"}
\* Op.routes. Mutant: verify goes through it whatever it does.
RoutesByName(method, repair) == method \in Routed
Routes(method, repair) == method \in Routed /\ (method \in WritingWhen => repair)
\* locks_writes, on a workspace that is there
Locks(method, repair) == method \in Writing \/ (method \in WritingWhen /\ repair)

\* PoE, its levels, and the level that a tree's profile stands for
Levels == [OPX |-> {}, DEV |-> {"name"}, USR |-> {"name", "node"}, PUB |-> {"name", "node", "edge", "op"}]
OfProfile(profile) == IF profile = "user" THEN Levels["USR"] ELSE Levels["DEV"]

\* Leaves.compare
Compared(alpha, beta) ==
    IF beta = None THEN [key \in DOMAIN alpha |-> "unverified"]
    ELSE [key \in DOMAIN alpha \cup DOMAIN beta |->
            CASE key \notin DOMAIN alpha -> "absent-alpha"
              [] key \notin DOMAIN beta  -> "absent-beta"
              [] OTHER                   -> IF alpha[key] = beta[key] THEN "equal" ELSE "different"]

\* Op.is_poe, OpStar.poe: what is exposed, as the set of the facts that it states.
Edges(parents) == {<<parents[r], r>> : r \in {r \in DOMAIN parents : parents[r] # None}}
OpStar(level, operation, parents, leaves) ==
    (IF "name" \in level THEN {<<"name">>, <<"root hash">>} ELSE {})
    \cup (IF "node" \in level THEN {<<"node", r>> : r \in DOMAIN parents} \cup {<<"leaf", key, leaves[key]>> : key \in DOMAIN leaves} ELSE {})
    \cup (IF "edge" \in level THEN {<<"edge", e[1], e[2]>> : e \in Edges(parents)} ELSE {})
    \cup (IF "op" \in level /\ ("edge" \notin level \/ Edges(parents) # {}) THEN {<<"operation", operation>>} ELSE {})

-----------------------------------------------------------------------------
(* What they promise; an input is one question *)

Flags  == {[private |-> FALSE, writable |-> FALSE], [private |-> TRUE, writable |-> FALSE], [private |-> TRUE, writable |-> TRUE]}
Repo(path, flags) == [path |-> path, private |-> flags.private, writable |-> flags.writable]
Grown  == {{Repo(<<"w">>, [private |-> FALSE, writable |-> FALSE]), Repo(<<"w", "lib">>, f), Repo(<<"w", "lib", "cfg">>, g)} : f, g \in Flags}
Kept   == {<<"w", "f">>, <<"w", "lib", "f">>, <<"w", "lib", "cfg", "f">>}
Disks  == {[path \in Kept \cup {<<"w", "lib">>} |-> IF path \in new THEN "new" ELSE IF path \in Kept THEN "tracked" ELSE "directory"] :
              new \in SUBSET Kept}
Given  == SeqOf(Kept \cup {<<"w", "lib">>, <<"w", "gone">>, <<"x">>}, 2)
Lines  == {[index |-> l[1], worktree |-> l[2], path |-> p] :
              l \in {<<"M", " ">>, <<" ", "M">>, <<"M", "M">>, <<"?", "?">>}, p \in {<<"f">>, <<"sub">>, <<"sub", "f">>, <<".cgitsync", "x">>}}
Counts == {None} \cup [ahead : 0..1, behind : 0..1]
Stands == [private : {TRUE}, observed : {"P", "main"}, fallback : {"main"}, known : BOOLEAN, dirty : BOOLEAN,
           upstream : {None, "same", "other"}, counts : [{"same", "other"} -> Counts]]
Names  == {"main", "feat", "v1"}
Leaves == UNION {[keys -> {"h", "i"}] : keys \in SUBSET {".", "lib"}}
Questions ==
    [kind : {"door"}, about : {"scope"}, tree : Grown]
    \cup [kind : {"door"}, about : {"removal"}, tree : Grown, disk : Disks, paths : Given \ {<<>>}, private : BOOLEAN]
    \cup [kind : {"door"}, about : {"status"}, lines : {s \in SUBSET Lines : Cardinality(s) <= 2}, children : SUBSET {<<"sub">>}]
    \cup [kind : {"door"}, about : {"push"}, repo : Stands]
    \cup [kind : {"door"}, about : {"ref"}, repo : [kind : {"branch", "tag"}, recorded : Names \cup {None}, current : {"main", "feat", None},
                                                      branches : SUBSET {"main", "feat"}, tags : SUBSET {"feat", "v1"}]]
    \cup [kind : {"door"}, about : {"call"}, method : Routed \cup {"status"}, repair : BOOLEAN]
    \cup [kind : {"door"}, about : {"proof"}, level : SUBSET {"name", "node", "edge", "op"},
          parents : {[root |-> None], [root |-> None, lib |-> "root"], [root |-> None, lib |-> "root", cfg |-> "lib"]},
          alpha : Leaves, beta : Leaves \cup {None}]

\* A sweep that writes reaches no repository that is read-only; what the bare command and --private
\* reach between them is what --all reaches, no repository twice; and it is refused when, and only
\* when, nothing is there for it.
ScopesAreWhole(q) ==
    LET at(private, all) == Covered(q.tree, CommandScope(q.tree, private, all))
        refused == CommandScope(q.tree, TRUE, FALSE) = None
    IN  /\ \A all \in BOOLEAN : \A repo \in at(FALSE, all) : ~ReadOnly(repo)
        /\ refused <=> ~\E repo \in q.tree : repo.private /\ ~ReadOnly(repo)
        /\ ~refused => /\ at(TRUE, FALSE) \cup at(FALSE, FALSE) = at(FALSE, TRUE)
                       /\ at(TRUE, FALSE) \cap at(FALSE, FALSE) = {}
                       /\ \A repo \in at(TRUE, FALSE) : ~ReadOnly(repo)
        /\ refused => at(FALSE, FALSE) = at(FALSE, TRUE)

\* A removal that ends has removed all that it was given and nothing else, each file in the
\* repository right above it; what a dry run refuses is refused whole; and --private removes
\* nothing outside the configuration repositories that this project writes.
RemovalIsScoped(q) ==
    LET done == Removal(q.tree, q.disk, q.paths, q.private) IN
    /\ done.removed \subseteq ToSet(q.paths)
    /\ done.ok => done.removed = ToSet(q.paths)
    /\ DryRun(q.tree, q.paths, q.private) # <<>> => done.removed = {}
    /\ \A path \in done.removed :
          /\ q.disk[path] = "tracked" /\ Owner(q.tree, path).path = SubSeq(path, 1, Len(path) - 1)
          /\ q.private => Owner(q.tree, path).private /\ ~ReadOnly(Owner(q.tree, path))

\* A repository that is shown as clean holds nothing that a preflight counts, and one that it counts
\* is shown so; a change below a directory that this program manages is never counted, nor one in a
\* submodule that it does not; one in a mount of its own is.
StatusAgrees(q) ==
    LET dirty == IsDirty(q.lines, {<<"sub">>}, q.children) IN
    /\ dirty => LocalStatus(q.lines) # "clean"
    /\ ~dirty <=> \A line \in q.lines : line.path[1] = ".cgitsync" \/ (line.path[1] = "sub" /\ <<"sub">> \notin q.children)
    /\ LocalStatus(q.lines) \in {"staged", "staged+dirty"} <=> \E line \in q.lines : line.index = "M"

\* As of the last fetch, a push that is let through is not rejected, and one that is not would be,
\* for a branch that names no upstream or its own; who adopts its upstream is answered the same;
\* and a repository that only waits for its branch has nothing to commit and nothing to send.
PushIsForward(q) ==
    /\ q.repo.upstream # "other" => (PushBlocked(q.repo) <=> Rejected(q.repo))
    /\ PushBlocked(Adopted(q.repo)) = PushBlocked(q.repo)
    /\ Waits(q.repo) => ~q.repo.dirty /\ UpstreamCounts(q.repo).ahead = 0 /\ ~PushBlocked(q.repo)

\* What is pushed is a branch: never a tag that the tree once recorded.
PushesABranch(q) ==
    (q.repo.kind = "branch" /\ q.repo.recorded # None => q.repo.recorded \in q.repo.branches \cup q.repo.tags)
    /\ (q.repo.current # None => q.repo.current \in q.repo.branches)
        => BranchToPush(q.repo) \in q.repo.branches \cup {None}

\* Whatever takes the lock goes through the door; what goes through it and takes none is a fetch.
DoorIsTheLocks(q) ==
    /\ Locks(q.method, q.repair) => Routes(q.method, q.repair)
    /\ Routes(q.method, q.repair) /\ ~Locks(q.method, q.repair) => q.method = "fetch"

\* A proof states facts of the parts its level exposes and of no other, a higher level takes none
\* back, and no installed tree has one that shows its mounts or the operation; two sides that swap swap the verdict, and agree everywhere when they are the same.
Part(fact) == CASE fact[1] \in {"name", "root hash"} -> "name" [] fact[1] \in {"node", "leaf"} -> "node"
                [] fact[1] = "edge" -> "edge" [] OTHER -> "op"
Swapped(verdict) == CASE verdict = "absent-alpha" -> "absent-beta" [] verdict = "absent-beta" -> "absent-alpha" [] OTHER -> verdict
ProofIsBounded(q) ==
    LET leaves == Compared(q.alpha, q.beta)
        at(level) == OpStar(level, "commit", q.parents, leaves)
    IN  /\ \A fact \in at(q.level) : Part(fact) \in q.level
        /\ \A a, b \in DOMAIN Levels : Levels[a] \subseteq Levels[b] => at(Levels[a]) \subseteq at(Levels[b])
        /\ \A profile \in {"user", "dev"} : \A fact \in at(OfProfile(profile)) : Part(fact) \in {"name", "node"}
        /\ q.beta # None => LET back == Compared(q.beta, q.alpha)
                            IN  DOMAIN back = DOMAIN leaves /\ \A key \in DOMAIN leaves : back[key] = Swapped(leaves[key])
        /\ (\A key \in DOMAIN leaves : leaves[key] = "equal") /\ q.beta # None => q.alpha = q.beta

Right(q) ==
    CASE q.about = "scope"   -> ScopesAreWhole(q)
      [] q.about = "removal" -> RemovalIsScoped(q)
      [] q.about = "status"  -> StatusAgrees(q)
      [] q.about = "push"    -> PushIsForward(q)
      [] q.about = "ref"     -> PushesABranch(q)
      [] q.about = "call"    -> DoorIsTheLocks(q)
      [] q.about = "proof"   -> ProofIsBounded(q)

(* What does not hold. *)

\* "raises GitSyncError rather than failing silently or partially": a path that Git refuses, or one
\* given twice, comes after others that are gone.
RemovalIsWhole(q) ==
    q.about = "removal" => LET done == Removal(q.tree, q.disk, q.paths, q.private) IN ~done.ok => done.removed = {}
\* "every repository ComplexGitSync may write to at all": a path that is given is staged in a
\* repository that is read-only.
AddStaysInScope(q) ==
    q.about = "removal" => \A path \in Staged(q.tree, q.disk, q.paths, "project") : ~ReadOnly(Owner(q.tree, path))
\* A branch whose upstream has another name is pushed to its own.
OtherUpstreamIsAsked(q) == q.about = "push" => (Rejected(q.repo) => PushBlocked(q.repo))
\* .PUBLIC exposes the operation: a tree of one repository has no edge to carry it.
PublicNamesTheOperation(q) ==
    q.about = "proof" => <<"operation", "commit">> \in OpStar(Levels["PUB"], "commit", q.parents, Compared(q.alpha, q.beta))
\* "never a branch, a commit message or a path"
NoPathIsShown(q) ==
    q.about = "proof" => \A fact \in OpStar(q.level, "commit", q.parents, Compared(q.alpha, q.beta)) : fact[1] # "leaf"
=====================================================================================
