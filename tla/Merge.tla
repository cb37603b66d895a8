-------------------------------- MODULE Merge --------------------------------
(****************************************************************************)
(* Merging one project branch into another across a tree: `merge`, `merge   *)
(* --into`, `merge --resolve` and its `--all-conflicts`                     *)
(* (tree/operations/merge.py, memory_merge.py, preflight.py).               *)
(*                                                                          *)
(* `merge` and `--into` ask every repository in scope before they touch     *)
(* one; `--resolve` goes one by one and stops at the first conflict.  The   *)
(* memory is never merged file by file: it keeps its own files and takes    *)
(* the other side as history.  Nothing is rolled back.                      *)
(*                                                                          *)
(* Every repository has two branches, "source" and "target", under the      *)
(* names the project's branch gives it.  A commit has a past (the numbers   *)
(* of its ancestors, its own included) and files (whose work it carries).   *)
(* What a command reads before it acts is one step: it reads each           *)
(* repository by itself.                                                    *)
(****************************************************************************)
EXTENDS Naturals, FiniteSets

CONSTANTS
    NRepos,    \* the tree's repositories, numbered leaf-first; the root is the last
    Private,   \* those that are configuration repositories
    Memory,    \* the one that is the memory; 0 when the tree has none
    OneName,   \* whether all of them carry the same display name
    Sources,   \* what the source may hold: "absent", "merged", "ahead", "forked", "unrelated"
    Targets,   \* how the target stands: "level", "behind" its upstream, "origin-only"
    Clashes,   \* how forked work may collide: "none", "text", "binary"
    Commands,  \* of "merge", "into", "resolve", "resolve-all"
    Modes,     \* of "default", "ff-only", "no-ff"
    Own,       \* whether the user commits while a command runs
    MaxOdd,    \* bound: repositories with a source absent, merged, unrelated or known from origin
               \*   alone, or a target that is not level
    MaxWork,   \* bound: commits of the user
    MaxFaults  \* bound: Git commands that fail, and commands that are killed

Repos == 1..NRepos
Root  == NRepos

ASSUME MergeAssumption ==
    /\ NRepos \in Nat \ {0} /\ Private \subseteq 1..NRepos
    /\ Memory = 0 \/ Memory \in Private
    /\ Sources \subseteq {"absent", "merged", "ahead", "forked", "unrelated"}
    /\ Targets \subseteq {"level", "behind", "origin-only"}
    /\ Clashes \subseteq {"none", "text", "binary"}
    /\ Commands \subseteq {"merge", "into", "resolve", "resolve-all"}
    /\ Modes \subseteq {"default", "ff-only", "no-ff"}
    /\ OneName \in BOOLEAN /\ Own \in BOOLEAN
    /\ MaxOdd \in Nat /\ MaxWork \in Nat /\ MaxFaults \in Nat

VARIABLES
    tip,       \* refs/heads: the commit of each branch of each repository
    seen,      \* refs/remotes/origin
    on,        \* the branch checked out
    worktree,  \* "clean", or "conflict": a merge that stopped half done
    clash,     \* whether the two lines of a repository collide, and how
    job,       \* the command that runs: what, in which scope, with which flags
    at, turn,  \* its next step, and the place of the walk it is at
    plan,      \* what it found each repository's fate to be
    pass,      \* passes of `resolve --all-conflicts`
    told,      \* what the last command reported
    wanted,    \* the command that began to write and is not done
    work, built, faults

refs == <<tip, seen, on, worktree>>
vars == <<refs, clash, job, at, turn, plan, pass, told, wanted, work, built, faults>>

Commit == [past : SUBSET Nat, files : SUBSET Nat]
None   == [past |-> {}, files |-> {}]
C(ns)  == [past |-> ns, files |-> ns]
Branch == {"source", "target"}
Scopes == {"project", "private", "writable"}
NoJob  == [cmd |-> "none", scope |-> "project", mode |-> "default"]
Job    == [cmd : Commands \cup {"none"}, scope : Scopes, mode : Modes \cup {"default"}]
Status == {"merge", "already-on-it", "no-branch", "conflicts", "kept", "up-to-date", "unrelated",
           "no-target", "already-merged", "fast-forward", "diverged"}
Result == {"nothing", "done", "refused", "failed", "stopped"}
Nothing == [result |-> "nothing", merged |-> {}, stopped |-> 0]

Contains(a, b) == b.past \subseteq a.past
Diverged(a, b) == ~Contains(a, b) /\ ~Contains(b, a)

SourceStart(how) == CASE how = "absent" -> None
                      [] how = "merged" -> C({0})
                      [] how = "ahead" -> C({0, 1, 2})
                      [] how = "forked" -> C({0, 2})
                      [] how = "unrelated" -> C({8})

\* The tree is on one of the two branches; a repository with no source of its own
\* is on the target.  The source may be known from origin alone.  Whether the memory's
\* lines collide makes no difference, unless it is merged by the plan of a namesake.
Stands(how, where, far, start) ==
    /\ Cardinality(far \cup {r \in Repos : where[r] # "level" \/ how[r] \notin {"ahead", "forked"}}) <= MaxOdd
    /\ \A r \in Repos : clash[r] # "none" => /\ how[r] = "forked" \/ (Own /\ how[r] = "ahead")
                                             /\ r # Memory \/ OneName
    /\ start = "source" => far = {} /\ how[Root] # "absent"
    /\ tip = [r \in Repos |-> [b \in Branch |->
          IF b = "source" THEN IF r \in far THEN None ELSE SourceStart(how[r])
          ELSE IF where[r] = "origin-only" THEN None ELSE C({0, 1})]]
    /\ seen = [r \in Repos |-> [b \in Branch |->
          IF b = "source" THEN IF r \in far THEN SourceStart(how[r]) ELSE None
          ELSE IF where[r] = "behind" THEN C({0, 1, 5}) ELSE C({0, 1})]]
    /\ on = [r \in Repos |-> IF start = "source" /\ how[r] # "absent" THEN "source" ELSE "target"]
    /\ \A r \in Repos : tip[r][on[r]] # None

Init ==
    /\ clash \in [Repos -> Clashes]
    /\ \E how \in [Repos -> Sources], where \in [Repos -> Targets], far \in SUBSET Repos, start \in Branch :
          Stands(how, where, far, start)
    /\ worktree = [r \in Repos |-> "clean"]
    /\ job = NoJob
    /\ at = "idle" /\ turn = 1
    /\ plan = [r \in Repos |-> "up-to-date"]
    /\ pass = 0
    /\ told = Nothing
    /\ wanted = NoJob
    /\ work = 0 /\ built = 0 /\ faults = 0

-----------------------------------------------------------------------------
(* Scope and order *)

InScope(r, scope) ==
    CASE scope = "project" -> r \notin Private
      [] scope = "private" -> r \in Private
      [] OTHER -> TRUE

\* Mutant: one leaf-first walk over the whole scope.
LeafFirst(i) == i

\* The repository at a place of the walk: every one of the project, leaf-first,
\* before any configuration repository.
Place(i) == CHOOSE r \in Repos :
    i = IF r \in Private THEN Cardinality(Repos \ Private) + Cardinality({q \in Private : q <= r})
        ELSE Cardinality({q \in Repos \ Private : q <= r})

Scoped == {r \in Repos : InScope(r, job.scope)}

-----------------------------------------------------------------------------
(* What a repository's fate is *)

\* resolve_merge_ref: the local branch, else origin's.
Ref(r, b) == IF tip[r][b] # None THEN tip[r][b] ELSE seen[r][b]
Known(r, b) == Ref(r, b) # None

\* MemoryMergeOperation.tip: the newest of the local copy and origin's.
Newest(r, b) == IF Contains(tip[r][b], seen[r][b]) THEN tip[r][b] ELSE seen[r][b]
Torn(r, b) == tip[r][b] # None /\ seen[r][b] # None /\ Diverged(tip[r][b], seen[r][b])

\* Work the two sides do not share collides.
Collide(r, a, b) ==
    clash[r] # "none" /\ a.files \ b.files # {} /\ b.files \ a.files # {}

\* tree_status for the memory: keep its own side, by the newest copies.
MemoryFate(r, into) ==
    IF Torn(r, "source") \/ Torn(r, into) THEN "diverged"
    ELSE IF Contains(Newest(r, into), Newest(r, "source")) THEN "up-to-date" ELSE "kept"

\* tree_status for any other: the target by its bare name, which only a local branch has.
ShareNothing(r, into) == tip[r][into].past \cap Ref(r, "source").past = {}

\* Mutant: the memory is a repository like any other.
MergeStatusPlain(r) ==
    IF on[r] = "source" THEN "already-on-it"
    ELSE IF ~Known(r, "source") THEN "no-branch"
    ELSE IF ShareNothing(r, on[r]) THEN "unrelated"
    ELSE IF Collide(r, tip[r][on[r]], Ref(r, "source")) THEN "conflicts"
    ELSE "merge"

MergeStatus(r) ==
    IF on[r] = "source" THEN "already-on-it"
    ELSE IF ~Known(r, "source") THEN "no-branch"
    ELSE IF r = Memory THEN MemoryFate(r, on[r])
    ELSE IF ShareNothing(r, on[r]) THEN "unrelated"
    ELSE IF Collide(r, tip[r][on[r]], Ref(r, "source")) THEN "conflicts"
    ELSE "merge"

\* Mutant: the conflict check asks about what is checked out.
IntoStatusOfHead(r) ==
    IF ~Known(r, "source") THEN "no-branch"
    ELSE IF ~Known(r, "target") THEN "no-target"
    ELSE IF r = Memory THEN MemoryFate(r, "target")
    ELSE IF ShareNothing(r, "target") THEN "unrelated"
    ELSE IF Contains(tip[r]["target"], tip[r]["source"]) /\ tip[r]["source"] # None THEN "already-merged"
    ELSE IF Contains(tip[r]["source"], tip[r]["target"]) THEN "fast-forward"
    ELSE IF Collide(r, tip[r][on[r]], Ref(r, "source")) THEN "conflicts"
    ELSE "merge"

IntoStatus(r) ==
    IF ~Known(r, "source") THEN "no-branch"
    ELSE IF ~Known(r, "target") THEN "no-target"
    ELSE IF r = Memory THEN
        IF MemoryFate(r, "target") = "up-to-date" THEN "already-merged" ELSE MemoryFate(r, "target")
    ELSE IF ShareNothing(r, "target") THEN "unrelated"
    ELSE IF Contains(tip[r]["target"], tip[r]["source"]) /\ tip[r]["source"] # None THEN "already-merged"
    ELSE IF Contains(tip[r]["source"], tip[r]["target"]) THEN "fast-forward"
    ELSE IF Collide(r, tip[r]["target"], Ref(r, "source")) THEN "conflicts"
    ELSE "merge"

Fate(r) == IF job.cmd = "into" THEN IntoStatus(r) ELSE MergeStatus(r)

-----------------------------------------------------------------------------
(* Preflight *)

\* An unfinished merge, an upstream that has more, and work not committed all block;
\* so does a repository that is not on the root's branch, except for `--into`.
UpstreamHasMore(r) == seen[r][on[r]] # None /\ ~Contains(tip[r][on[r]], seen[r][on[r]])
Misaligned(r) == on[r] # on[Root]

\* Mutant: `--into` checks the alignment as every other command does.
BlocksAligned(r) == UpstreamHasMore(r) \/ worktree[r] # "clean" \/ Misaligned(r)

Blocks(r) == UpstreamHasMore(r) \/ worktree[r] # "clean" \/ (job.cmd = "merge" /\ Misaligned(r))

-----------------------------------------------------------------------------
(* The start, and the end *)

Over(result, merged, stopped) ==
    /\ at' = "idle" /\ turn' = 1 /\ job' = NoJob
    /\ pass' = 0
    /\ told' = [result |-> result, merged |-> merged, stopped |-> stopped]
    /\ wanted' = IF result \in {"done", "stopped"} THEN NoJob ELSE wanted

Start(cmd, scope, mode) ==
    /\ at = "idle"
    /\ job' = [cmd |-> cmd, scope |-> scope, mode |-> mode]
    /\ wanted' = IF cmd \in {"merge", "into"} THEN wanted ELSE job'
    /\ at' = IF cmd \in {"merge", "into"} THEN "ask" ELSE "visit"
    /\ turn' = 1
    /\ told' = Nothing
    /\ plan' = [r \in Repos |-> "up-to-date"]
    /\ UNCHANGED <<refs, clash, pass, work, built, faults>>

Stays == {"conflicts", "unrelated", "diverged", "no-target"}
Acts  == {"merge", "fast-forward", "kept"}

\* Mutant: a conflict refuses its own repository alone.
RefusedLeniently(fate) ==
    \/ \E r \in Scoped : Blocks(r)
    \/ \A r \in Scoped : fate[r] \in Stays

\* A merge on the source branch itself is refused unless another repository has
\* something to merge.
Refused(fate) ==
    \/ \E r \in Scoped : Blocks(r) \/ fate[r] \in Stays
    \/ /\ job.cmd = "merge"
       /\ \E r \in Scoped : fate[r] = "already-on-it"
       /\ \A r \in Scoped : fate[r] \notin Acts

\* `--into` finds a repository's plan by its display name: of two that share one, the
\* last plan counts.
PlanOf(fate, r) ==
    LET last == CHOOSE i \in Repos : Place(i) \in Scoped /\ \A j \in Repos : Place(j) \in Scoped => j <= i
    IN  IF job.cmd = "into" /\ OneName /\ r \in Scoped THEN fate[Place(last)] ELSE fate[r]

Ask ==
    LET fate == [r \in Repos |-> IF r \in Scoped THEN Fate(r) ELSE "up-to-date"] IN
    /\ at = "ask"
    /\ IF Refused(fate) THEN Over("refused", {}, 0) /\ UNCHANGED plan
       ELSE /\ at' = "act" /\ turn' = 1
            /\ plan' = [r \in Repos |-> PlanOf(fate, r)]
            /\ wanted' = job
            /\ UNCHANGED <<job, pass, told>>
    /\ UNCHANGED <<refs, clash, work, built, faults>>

-----------------------------------------------------------------------------
(* Git's merge, and the memory's *)

\* The numbers of merge commits, which carry no work of their own, and of the user's commits.
JoinNo(n) == 10 + 2 * n
WorkNo(n) == 11 + 2 * n

Joined(a, b) == [past |-> a.past \cup b.past \cup {JoinNo(built)}, files |-> a.files \cup b.files]

\* git merge of commit c into the branch r is on: whether it goes through, and the tip
\* it leaves.  With a conflict it stops half done.
GoesThrough(r, c) ==
    /\ worktree[r] # "conflict"
    /\ c.past \cap tip[r][on[r]].past # {}
    /\ ~Collide(r, tip[r][on[r]], c)
    /\ job.mode = "ff-only" => Contains(c, tip[r][on[r]]) \/ Contains(tip[r][on[r]], c)

Merged(r, c) ==
    LET t == tip[r][on[r]] IN
    IF Contains(t, c) THEN t
    ELSE IF Contains(c, t) /\ job.mode # "no-ff" THEN c
    ELSE Joined(t, c)

\* Mutant: the newest side is kept.
KeptTipOfNewest(r) ==
    LET t == Newest(r, on[r])
        s == Newest(r, "source") IN
    IF Contains(t, s) THEN tip[r][on[r]] ELSE [Joined(t, s) EXCEPT !.files = s.files]

\* MemoryMergeOperation.apply, keeping the target: its newest files, both histories.
KeptTip(r) ==
    LET t == Newest(r, on[r])
        s == Newest(r, "source") IN
    IF Contains(t, s) THEN tip[r][on[r]] ELSE [Joined(t, s) EXCEPT !.files = t.files]

\* The merge of one repository, when it goes through.
MergeOne(r, how) ==
    LET new == IF how = "kept" THEN KeptTip(r) ELSE Merged(r, Ref(r, "source")) IN
    /\ IF how = "kept" THEN worktree[r] # "conflict" /\ ~Torn(r, "source") /\ ~Torn(r, on[r])
       ELSE GoesThrough(r, Ref(r, "source"))
    /\ tip' = [tip EXCEPT ![r][on[r]] = new]
    /\ built' = IF JoinNo(built) \in new.past THEN built + 1 ELSE built
    /\ told' = IF new # tip[r][on[r]] THEN [told EXCEPT !.merged = @ \cup {r}] ELSE told

\* What a merge that collides leaves behind: its markers, and unmerged files.  Asked for
\* a fast-forward only, Git refuses two lines that diverged before it touches a file.
Marked(r) == IF job.mode = "ff-only" THEN worktree ELSE [worktree EXCEPT ![r] = "conflict"]

\* The merge that does not: a conflict leaves its markers, anything else leaves nothing.
MergeFails(r) ==
    /\ plan[r] # "kept" /\ ~GoesThrough(r, Ref(r, "source"))
    /\ worktree' = IF Collide(r, tip[r][on[r]], Ref(r, "source")) THEN Marked(r) ELSE worktree

\* Mutant: a repository that needs no merge is not checked out.
CheckoutOnlyToMerge ==
    LET r == Place(turn) IN
    /\ at = "act" /\ job.cmd = "into"
    /\ r \in Scoped /\ plan[r] \in Acts \cup {"already-merged"}
    /\ IF plan[r] \in Acts
       THEN /\ on' = [on EXCEPT ![r] = "target"]
            /\ tip' = [tip EXCEPT ![r]["target"] = IF @ = None THEN seen[r]["target"] ELSE @]
       ELSE UNCHANGED <<on, tip>>
    /\ at' = "merge"
    /\ UNCHANGED <<seen, worktree, clash, job, turn, plan, pass, told, wanted, work, built, faults>>

\* git checkout of the target, made from origin's when it is not here.
Checkout ==
    LET r == Place(turn) IN
    /\ at = "act" /\ job.cmd = "into"
    /\ r \in Scoped /\ plan[r] \in Acts \cup {"already-merged"}
    /\ on' = [on EXCEPT ![r] = "target"]
    /\ tip' = [tip EXCEPT ![r]["target"] = IF @ = None THEN seen[r]["target"] ELSE @]
    /\ at' = "merge"
    /\ UNCHANGED <<seen, worktree, clash, job, turn, plan, pass, told, wanted, work, built, faults>>

\* The walk goes on to the next repository, or the command records its State and ends.
Onward(step) ==
    IF turn < NRepos THEN at' = step /\ turn' = turn + 1 /\ UNCHANGED <<job, pass, wanted>>
    ELSE at' = "record" /\ UNCHANGED <<turn, job, pass, wanted>>

\* merge_tree and merge_into_tree: the repositories they planned, one by one.
Act ==
    LET r == Place(turn)
        due == r \in Scoped /\ plan[r] \in Acts IN
    /\ \/ at = "act" /\ job.cmd = "merge"
       \/ at = "act" /\ ~(r \in Scoped /\ plan[r] \in Acts \cup {"already-merged"})
       \/ at = "merge"
    /\ IF due THEN MergeOne(r, plan[r]) ELSE UNCHANGED <<tip, built, told>>
    /\ Onward("act")
    /\ UNCHANGED <<seen, on, worktree, clash, plan, work, faults>>

\* Git refuses one of them: the error ends the command where it is.
ActFails ==
    LET r == Place(turn) IN
    /\ \/ at = "act" /\ job.cmd = "merge"
       \/ at = "merge"
    /\ r \in Scoped /\ plan[r] \in Acts
    /\ MergeFails(r)
    /\ Over("failed", told.merged, 0)
    /\ UNCHANGED <<tip, seen, on, clash, plan, work, built, faults>>

\* The State is written and the command ends.
Record ==
    /\ at = "record"
    /\ Over("done", told.merged, 0)
    /\ UNCHANGED <<refs, clash, plan, work, built, faults>>

-----------------------------------------------------------------------------
(* merge --resolve: one repository at a time *)

\* No preflight: each repository is asked when the walk reaches it.
Visit ==
    LET r == Place(turn)
        how == IF r \in Scoped THEN MergeStatus(r) ELSE "up-to-date" IN
    /\ at = "visit"
    /\ IF how \in {"merge", "kept"} THEN MergeOne(r, how) ELSE UNCHANGED <<tip, built, told>>
    /\ how \notin {"conflicts", "unrelated", "diverged"}
    /\ Onward("visit")
    /\ UNCHANGED <<seen, on, worktree, clash, plan, work, faults>>

\* It stops at the first that conflicts, having let the merge fail so that its markers
\* are there for a merge tool, and at one whose branches share nothing, leaving it alone.
Halt ==
    LET r == Place(turn)
        how == MergeStatus(r) IN
    /\ at = "visit" /\ r \in Scoped
    /\ how \in {"conflicts", "unrelated"}
    /\ worktree' = IF how = "conflicts" THEN Marked(r) ELSE worktree
    /\ IF job.cmd = "resolve-all" /\ how = "conflicts" /\ clash[r] = "text"
       THEN /\ at' = "tool"
            /\ told' = [told EXCEPT !.stopped = r]
            /\ UNCHANGED <<turn, job, pass, wanted>>
       ELSE Over("stopped", told.merged, r)
    /\ UNCHANGED <<tip, seen, on, clash, plan, work, built, faults>>

\* The memory's copies diverged, or the branch is no fast-forward.
VisitFails ==
    LET r == Place(turn)
        how == MergeStatus(r) IN
    /\ at = "visit" /\ r \in Scoped
    /\ \/ how = "diverged"
       \/ how = "merge" /\ ~GoesThrough(r, Ref(r, "source"))
    /\ Over("failed", told.merged, 0)
    /\ UNCHANGED <<refs, clash, plan, work, built, faults>>

\* Mutant: as many passes as repositories.
MaxPassesTooFew == Cardinality(Repos \ {Memory}) - 1

\* merge_resolve_all makes one pass more than the tree has repositories.
MaxPasses == NRepos + 1

\* The merge tool resolved every file: the merge is committed and a new pass begins.
Tool ==
    LET r == told.stopped IN
    /\ at = "tool"
    /\ worktree[r] = "conflict"
    /\ tip' = [tip EXCEPT ![r][on[r]] = Joined(@, Ref(r, "source"))]
    /\ built' = built + 1
    /\ worktree' = [worktree EXCEPT ![r] = "clean"]
    /\ IF pass + 1 < MaxPasses
       THEN /\ at' = "visit" /\ turn' = 1 /\ pass' = pass + 1
            /\ told' = [told EXCEPT !.merged = @ \cup {r}, !.stopped = 0]
            /\ UNCHANGED <<job, wanted>>
       ELSE Over("stopped", told.merged \cup {r}, r)
    /\ UNCHANGED <<seen, on, clash, plan, work, faults>>

\* There is no tool, or it left a file unresolved.
ToolLeaves ==
    /\ at = "tool"
    /\ Over("stopped", told.merged, told.stopped)
    /\ UNCHANGED <<refs, clash, plan, work, built, faults>>

\* With --ff-only there was no conflict to open: the tool finds no unmerged file and is
\* done, and the commit that follows finds nothing to commit, which is an error.
ToolFindsNothing ==
    /\ at = "tool"
    /\ worktree[told.stopped] = "clean"
    /\ Over("failed", told.merged, 0)
    /\ UNCHANGED <<refs, clash, plan, work, built, faults>>

-----------------------------------------------------------------------------
(* Beside the commands *)

\* The user commits on the branch that is checked out, after a command was cut short.
Work(r) ==
    /\ work < MaxWork
    /\ IF at = "idle" THEN wanted # NoJob ELSE Own
    /\ worktree[r] = "clean"
    /\ work' = work + 1
    /\ tip' = [tip EXCEPT ![r][on[r]] = [past |-> @.past \cup {WorkNo(work)}, files |-> @.files \cup {WorkNo(work)}]]
    /\ UNCHANGED <<seen, on, worktree, clash, job, at, turn, plan, pass, told, wanted, built, faults>>

\* The user finishes a conflicted merge by hand, or aborts it.
Settle(r, finish) ==
    /\ at = "idle"
    /\ worktree[r] = "conflict"
    /\ worktree' = [worktree EXCEPT ![r] = "clean"]
    /\ IF finish THEN /\ tip' = [tip EXCEPT ![r][on[r]] = Joined(@, Ref(r, "source"))]
                      /\ built' = built + 1
       ELSE UNCHANGED <<tip, built>>
    /\ UNCHANGED <<seen, on, clash, job, at, turn, plan, pass, told, wanted, work, faults>>

\* A Git command fails for its own reasons, or the command is killed.
Fault ==
    /\ at # "idle"
    /\ faults < MaxFaults
    /\ faults' = faults + 1
    /\ Over("failed", told.merged, 0)
    /\ UNCHANGED <<refs, clash, plan, work, built>>

Step ==
    \/ Ask \/ Checkout \/ Act \/ ActFails \/ Record
    \/ Visit \/ Halt \/ VisitFails
    \/ Tool \/ ToolLeaves \/ ToolFindsNothing

Next ==
    \/ Step \/ Fault
    \/ \E cmd \in Commands, scope \in Scopes, mode \in Modes : Start(cmd, scope, mode)
    \/ \E r \in Repos : Work(r) \/ Settle(r, TRUE) \/ Settle(r, FALSE)

Spec == Init /\ [][Next]_vars

\* A command cut short is run again, as it was, before any other.
Rerun == wanted # NoJob /\ Start(wanted.cmd, wanted.scope, wanted.mode)
Again == at = "idle" /\ at' # "idle" /\ wanted # NoJob => Rerun

RetrySpec == Init /\ [][Next /\ Again]_vars /\ WF_vars(Step) /\ WF_vars(Rerun)

-----------------------------------------------------------------------------
(* Properties *)

TypeOK ==
    /\ tip \in [Repos -> [Branch -> Commit]] /\ seen \in [Repos -> [Branch -> Commit]]
    /\ on \in [Repos -> Branch]
    /\ worktree \in [Repos -> {"clean", "conflict"}]
    /\ job \in Job /\ wanted \in Job
    /\ at \in {"idle", "ask", "act", "merge", "visit", "tool", "record"} /\ turn \in Repos
    /\ plan \in [Repos -> Status]
    /\ pass \in 0..NRepos
    /\ told \in [result : Result, merged : SUBSET Repos, stopped : 0..NRepos]
    /\ work \in 0..MaxWork /\ built \in Nat /\ faults \in 0..MaxFaults

\* `merge` and `merge --into` merge nothing while a repository of their scope conflicts,
\* wherever in the walk it comes.
Conflicts(r) ==
    /\ r # Memory /\ Known(r, "source")
    /\ Collide(r, IF job.cmd = "into" THEN Ref(r, "target") ELSE tip[r][on[r]], Ref(r, "source"))

NothingMergedBesideAConflict ==
    [][job.cmd \in {"merge", "into"} /\ told'.merged # told.merged /\ at' # "idle"
          => \A r \in Scoped : ~Conflicts(r)]_vars

\* A merge stopped or killed among the configuration repositories leaves no
\* repository of the project that still lacks its source.  `--into` is
\* left out: it asks about branches that are not checked out, and what the user commits
\* on a source after that is not in what it merges.
Has(r) == Contains(tip[r][on[r]], Ref(r, "source")) \/ on[r] = "source"

ProjectIsDoneFirst ==
    at # "idle" /\ told.merged \cap Private # {} =>
        \A r \in Scoped \ Private : job.cmd # "into" => Has(r)

\* The memory's target never carries a file of its source's ledger: the other side
\* is history.
MemoryStaysWhole == Memory # 0 => {2, 8} \cap tip[Memory]["target"].files = {}

\* When a merge ends, every repository in its scope that has the source has it in
\* what it now has checked out, and `--into` left each of them on the target.
EndsWhereItSaid ==
    at = "record" => \A r \in Scoped :
        /\ Known(r, "source") => Has(r)
        /\ job.cmd = "into" /\ Known(r, "source") => on[r] = "target"

\* A repository is called unrelated only when the two branches, wherever they are
\* known, share no commit.
UnrelatedShareNothing ==
    at = "ask" => \A r \in Scoped \ {Memory} :
        Fate(r) = "unrelated" =>
            Ref(r, IF job.cmd = "into" THEN "target" ELSE on[r]).past \cap Ref(r, "source").past = {}

\* `merge --resolve` says it stopped somewhere only while a repository in its scope
\* still lacks its source.
StopsAtUnfinished ==
    [][at # "idle" /\ told'.result = "stopped" => \E r \in Scoped : ~Has(r)']_vars

\* A merge that began and was cut short is completed when it is run again, unless it
\* asks for fast-forwards only: no later run is refused.
MergeEnds == wanted # NoJob /\ wanted.mode # "ff-only" ~> wanted = NoJob

===============================================================================
