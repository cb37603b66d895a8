------------------------------------ MODULE Watch -----------------------------------
(****************************************************************************)
(* What is said about the branches of a tree: the dead and dying ones       *)
(* (tree/branch_findings.py), the project's branches and who follows them   *)
(* (tree/git_tree_branch.py), the report of the topology                    *)
(* (tree/operations/branch.py), and a recorded tag that is settled.         *)
(*                                                                          *)
(* A branch's name is the sequence of the parts that "_" separates.  A      *)
(* history is the commands and the plain Git that the tree went through,    *)
(* on one branch of the project.                                            *)
(****************************************************************************)
EXTENDS Naturals, Sequences, SequencesExt, FiniteSets

CONSTANT None

-----------------------------------------------------------------------------
(* Names *)

Project == "P"
Twin    == "ComplexGitSync"
B       == "b"
\* private_local_branch, of a branch that is not main.
PrivateName(owner, branch) == (IF owner = None THEN <<>> ELSE <<owner>>) \o <<Project, branch>>
\* closed_branch_name, closed_branch_origin
Closed(name)   == <<"closed/">> \o name
IsClosed(name) == Head(name) = "closed/"
OriginOf(name) == IF IsClosed(name) THEN Tail(name) ELSE name

\* The repositories, leaves first; lib is the project's own or read-only.
Order == <<"cfg", "lib", "root">>
Repos == ToSet(Order)
Followers(lib) == IF lib = "own" THEN Repos ELSE Repos \ {"lib"}
\* GitTreeBranches.target
Target(repo, branch) == IF repo = "cfg" THEN PrivateName(None, branch) ELSE <<branch>>

-----------------------------------------------------------------------------
(* What a tree goes through *)

Untouched(noise) ==
    [local     |-> [r \in Repos |-> {Target(r, "main")}],
     origin    |-> [r \in Repos |-> {Target(r, "main")} \cup IF r = "cfg" THEN noise ELSE {}],
     seen      |-> [r \in Repos |-> {Target(r, "main")} \cup IF r = "cfg" THEN noise ELSE {}],
     published |-> {}, relocated |-> {}]

\* _close_one
CloseOne(tree, r) ==
    LET live == Target(r, B)
        moved(names) == IF live \in names THEN (names \ {live}) \cup {Closed(live)} ELSE names
    IN  [tree EXCEPT !.local[r] = moved(@), !.origin[r] = moved(@),
                     !.seen[r] = IF live \in tree.origin[r] THEN moved(@ \cup {live}) ELSE @]
\* AncestorOperation.delete, of one repository
DeleteOne(tree, r) ==
    LET name == Closed(Target(r, B))
    IN  [tree EXCEPT !.local[r] = @ \ {name}, !.origin[r] = @ \ {name},
                     !.seen[r] = IF name \in tree.origin[r] THEN @ \ {name} ELSE @]
FirstOf(followers, k) == SelectSeq(SubSeq(Order, 1, k), LAMBDA r : r \in followers)

\* One command, or plain Git, on the tree; what it refuses leaves the tree as it was.
Step(tree, step, followers) ==
    LET whole == step.upTo = Len(Order)
        live  == <<B>> \in tree.local["root"] \cup tree.seen["root"]
        closed == Closed(<<B>>) \in tree.local["root"] \cup tree.seen["root"]
    IN  CASE step.op = "branch" ->
               [tree EXCEPT !.local = [r \in Repos |-> @[r] \cup IF r \in followers THEN {Target(r, B)} ELSE {}]]
          [] step.op = "push" ->
               LET sent == {r \in followers : Target(r, B) \in tree.local[r]}
                   with(names) == [r \in Repos |-> names[r] \cup IF r \in sent THEN {Target(r, B)} ELSE {}]
               IN  [tree EXCEPT !.origin = with(@), !.seen = with(@), !.published = IF "root" \in sent THEN @ \cup {B} ELSE @]
          [] step.op = "close" /\ live ->
               LET kept == [tree EXCEPT !.relocated = IF step.alone THEN @ \cup {B} ELSE @]
               IN  FoldLeft(CloseOne, kept, FirstOf(followers, step.upTo))
          [] step.op = "delete" /\ closed /\ ~live ->
               LET kept == [tree EXCEPT !.relocated = IF whole \/ step.alone THEN @ \cup {B} ELSE @]
               IN  FoldLeft(DeleteOne, kept, FirstOf(followers, step.upTo))
          [] step.op = "fetch"  -> [tree EXCEPT !.seen = tree.origin]
          [] step.op = "remove" -> [tree EXCEPT !.origin[step.repo] = @ \ {Target(step.repo, B)}]
          [] OTHER              -> tree
After(history, noise, lib) == FoldLeft(LAMBDA tree, step : Step(tree, step, Followers(lib)), Untouched(noise), history)

-----------------------------------------------------------------------------
(* What is said *)

Holds(tree, r) == tree.local[r] \cup tree.seen[r]
Skipped == {"main", "ancestors"}
\* BranchWatch.findings, of the branches that were pushed. Mutant: a closed one counts as gone.
GoneThoughClosed(tree, branch) ==
    /\ <<branch>> \notin tree.seen["root"]
    /\ branch \notin Skipped \cup tree.relocated
Gone(tree, branch) ==
    /\ <<branch>> \notin tree.seen["root"] /\ Closed(<<branch>>) \notin Holds(tree, "root")
    /\ branch \notin Skipped \cup tree.relocated
\* project_branches: the names the root holds, live or closed.
ProjectBranches(tree) == {OriginOf(name)[1] : name \in Holds(tree, "root")}
\* _coverage, over _held
Live(tree, branch, followers)    == {r \in followers : Target(r, branch) \in Holds(tree, r)}
IsClosedIn(tree, branch, followers) == {r \in followers \ Live(tree, branch, followers) : Closed(Target(r, branch)) \in Holds(tree, r)}
Coverage(tree, branch, followers) ==
    LET live   == Live(tree, branch, followers)
        closed == IsClosedIn(tree, branch, followers)
    IN  CASE live # {} /\ closed # {}                -> {"half-closed"}
          [] closed # {} /\ live = {}                -> {"closed"}
          [] live # {} /\ followers # live \cup closed -> {"split"}
          [] OTHER                                   -> {}
\* _orphans: what follows the longest of the project's bases that the name starts with.
Bases == {<<Project>>, <<Twin, Project>>}
Orphans(tree) ==
    LET named == {name \in Holds(tree, "cfg") : \E base \in Bases : IsStrictPrefix(base, name)}
        rest(name) == LET base == CHOOSE x \in Bases : IsStrictPrefix(x, name) /\ \A y \in Bases : IsStrictPrefix(y, name) => Len(y) <= Len(x)
                      IN  SubSeq(name, Len(base) + 1, Len(name))
    IN  {rest(name) : name \in named} \ {<<known>> : known \in ProjectBranches(tree) \cup Skipped}
\* findings
Findings(tree, lib) ==
    {<<"vanished", <<branch>>>> : branch \in {branch \in tree.published : Gone(tree, branch)}}
    \cup UNION {{<<kind, <<branch>>>> : kind \in Coverage(tree, branch, Followers(lib))} : branch \in ProjectBranches(tree) \ Skipped}
    \cup {<<"orphaned-private", name>> : name \in Orphans(tree)}

\* project_branches: who follows a branch that is live and holds no branch for it.
Missing(tree, branch, followers) ==
    IF <<branch>> \in Holds(tree, "root") THEN followers \ Live(tree, branch, followers) ELSE {}

\* list_branches
Listed(cloned) == {r \in Repos : r \in cloned}
\* preserved_branches: the prefix that a private repository's branch has is taken off.
PreservedName(origin) ==
    LET name == OriginOf(origin) IN IF Head(name) = Project /\ Len(name) > 1 THEN Tail(name) ELSE name

-----------------------------------------------------------------------------
(* The topology *)

\* validate_branch_topology: every repository against the root's branch, privacy included.
\* Mutant: one that is on no branch is passed over.
ConflictsAttached(repos) ==
    {r \in DOMAIN repos : repos[r].on # None /\ repos["root"].on # None /\ repos[r].on # repos["root"].on}
Conflicts(repos) ==
    {r \in DOMAIN repos : repos[r].on = None \/ (repos["root"].on # None /\ repos[r].on # repos["root"].on)}
Blocking(repos) == {r \in Conflicts(repos) : ~repos[r].tag}
IsCoherent(repos) == Blocking(repos) = {}
\* deviations, and the detached repositories: what a preflight refuses.
ExpectedOf(repos, r) == IF ~repos[r].private THEN repos["root"].on ELSE IF repos[r].writable THEN "derived" ELSE "declared"
Deviations(repos) ==
    IF repos["root"].on = None THEN {} ELSE {r \in DOMAIN repos : repos[r].on \notin {None, ExpectedOf(repos, r)}}
Detached(repos) == {r \in DOMAIN repos : repos[r].on = None}

\* settle_recorded_tags. Mutant: a detached repository is settled too.
IsSettledWherever(repo, root) == root.target.kind = "tag" /\ repo.recorded.kind = "tag" /\ repo.cloned
IsSettled(repo, root) == root.target.kind = "tag" /\ repo.recorded.kind = "tag" /\ repo.cloned /\ repo.on # None
Branch(name) == [kind |-> "branch", name |-> name]
Settled(repo, root) ==
    IF ~IsSettled(repo, root) THEN repo
    ELSE [repo EXCEPT !.recorded = Branch(repo.on), !.target = IF repo.target = repo.recorded THEN Branch(repo.on) ELSE @]

-----------------------------------------------------------------------------
(* What they promise; an input is one question *)

Whole  == [op : {"branch", "push", "fetch"}, upTo : {3}, alone : {FALSE}, repo : {"root"}]
          \cup [op : {"close", "delete"}, upTo : {3}, alone : BOOLEAN, repo : {"root"}]
Cut    == [op : {"close", "delete"}, upTo : 1..2, alone : {TRUE}, repo : {"root"}]
Plain  == [op : {"remove"}, upTo : {3}, alone : {FALSE}, repo : {"root", "cfg"}]
Steps  == Whole \cup Cut \cup Plain
Histories == {<<x, y>> \o h : x \in {s \in Whole : s.op = "branch"}, y \in {s \in Whole : s.op = "push"} \cup Cut, h \in SeqOf(Steps, 3)}
Refs   == [kind : {"branch", "tag"}, name : {"v0", "v1", "main"}]
Questions ==
    [kind : {"watch"}, about : {"history"}, history : Histories, noise : {{}, {<<"Q", "x">>}}, lib : {"own", "read-only"}]
    \cup [kind : {"watch"}, about : {"shared"}, noise : {{<<Project, "x">>}, {<<Project, "Q", "x">>}, {<<Twin, Project, "x">>}, {<<Twin, "Q">>}}]
    \cup [kind : {"watch"}, about : {"list"}, cloned : SUBSET Repos]
    \cup [kind : {"watch"}, about : {"preserved"}, repo : {"root", "cfg", "memory"}, closed : BOOLEAN]
    \cup [kind : {"watch"}, about : {"topology"},
          repos : {[root |-> a, lib |-> b, cfg |-> c] : a \in [on : {"main", None}, tag : BOOLEAN, private : {FALSE}, writable : {FALSE}],
                      b \in [on : {"main", "feat", None}, tag : BOOLEAN, private : {FALSE}, writable : {FALSE}],
                      c \in [on : {"main", "derived", "declared", None}, tag : BOOLEAN, private : BOOLEAN, writable : BOOLEAN]}]
    \cup [kind : {"watch"}, about : {"tag"}, root : [target : Refs],
          repo : [target : Refs, recorded : Refs, on : {"main", "feat", None}, cloned : BOOLEAN]]

Of(found, kind) == {finding \in found : finding[1] = kind}
\* No command makes a branch vanish, one that is cut short included: only plain Git on the root does,
\* and then, once it is fetched, it is said unless the ledger kept the branch or a command brought it
\* back. A tree that only whole commands touched has nothing that is half closed, split or orphaned;
\* a closing cut short is said until it is done again; of a live branch, what branch list calls
\* missing is what is half closed or split; and what another project files beside is nobody's orphan.
FindingsAreTrue(q) ==
    LET tree  == After(q.history, q.noise, q.lib)
        found == Findings(tree, q.lib)
        ops   == {q.history[i] : i \in DOMAIN q.history}
        last  == q.history[Len(q.history)]
        named == {s \in ops : s \in Plain /\ s.repo = "root"}
    IN  /\ named = {} => Of(found, "vanished") = {}
        /\ (/\ Len(q.history) > 2 /\ last.op = "fetch" /\ q.history[Len(q.history) - 1] \in named
            /\ B \in tree.published \ tree.relocated
            /\ Closed(<<B>>) \notin Holds(tree, "root"))
           => Of(found, "vanished") # {}
        /\ ops \subseteq Whole => found \subseteq {<<"closed", <<B>>>>}
        /\ (/\ Plain \cap ops = {} /\ last.op = "close" /\ last.upTo < 3
            /\ <<B>> \in Holds(tree, "root")
            /\ Closed(Target("cfg", B)) \in Holds(tree, "cfg") /\ Target("cfg", B) \notin Holds(tree, "cfg"))
           => Of(found, "half-closed") # {}
        /\ \A branch \in {name \in ProjectBranches(tree) \ Skipped : <<name>> \in Holds(tree, "root")} :
              Missing(tree, branch, Followers(q.lib)) # {} <=> \E kind \in {"half-closed", "split"} : <<kind, <<branch>>>> \in found
        /\ \A finding \in found : finding[2] = <<B>>

\* The report of the topology and the preflight agree on a tree that holds nothing private and no
\* tag; with either, what the one lets through and the other does not is private or tagged, or the
\* root is on no branch.
TopologyAgrees(q) ==
    /\ \A r \in Blocking(q.repos) : r \in Deviations(q.repos) \cup Detached(q.repos) \/ q.repos[r].private
    /\ \A r \in Deviations(q.repos) \cup Detached(q.repos) : r \in Blocking(q.repos) \/ q.repos[r].private \/ q.repos[r].tag
    /\ IsCoherent(q.repos) /\ q.repos["root"].on # None =>
          \A r \in DOMAIN q.repos : ~q.repos[r].tag => q.repos[r].on = q.repos["root"].on

\* A repository that is on a branch is recorded there, one that is detached stays on its tag, a pin
\* on another tag is kept, and settling again changes nothing.
TagIsSettled(q) ==
    LET after == Settled(q.repo, q.root) IN
    /\ q.root.target.kind = "tag" /\ q.repo.cloned /\ q.repo.on # None => after.recorded.kind = "branch"
    /\ q.repo.on = None => after = q.repo
    /\ q.repo.target.kind = "tag" /\ q.repo.target # q.repo.recorded => after.target = q.repo.target
    /\ Settled(after, q.root) = after
    /\ q.root.target.kind = "branch" => after = q.repo

PreservedIsProjects(q) ==
    q.repo # "memory" =>
        LET name == Target(q.repo, B) IN PreservedName(IF q.closed THEN Closed(name) ELSE name) = <<B>>

\* In a tree that nobody touched, the orphans are the strange branches that begin as one of ours
\* does, each under what follows the project's name and the twin's.
OrphansAreStrange(q) ==
    LET found == Orphans(Untouched(q.noise)) IN
    /\ \A rest \in found : \E base \in Bases : base \o rest \in q.noise
    /\ found = {} <=> \A name \in q.noise : \A base \in Bases : ~IsStrictPrefix(base, name)

\* The list leaves out what is not cloned, and nothing else.
ListLeavesOutUncloned(q) == Repos \ Listed(q.cloned) = Repos \ q.cloned

Right(q) ==
    CASE q.about = "history"   -> FindingsAreTrue(q)
      [] q.about = "topology"  -> TopologyAgrees(q)
      [] q.about = "tag"       -> TagIsSettled(q)
      [] q.about = "preserved" -> PreservedIsProjects(q)
      [] q.about = "shared"    -> OrphansAreStrange(q)
      [] q.about = "list"      -> ListLeavesOutUncloned(q)

(* What does not hold. *)

\* "Private branches <P>_B (or a twin's) whose project branch B is gone": a branch <P>_<Q>_x is one
\* that a Project Q files under its Parent P, and no orphan of P's.
OrphansAreOurs(q) ==
    q.about = "shared" => \A name \in Orphans(Untouched(q.noise)) : Len(name) = 1
\* "an uncloned repository is reported, not refused", "rather than skipped"
ListNamesEveryRepository(q) == q.about = "list" => Listed(q.cloned) = Repos
\* What a twin's memory kept is named by the project's branch.
PreservedInMemory(q) ==
    q.about = "preserved" /\ q.repo = "memory" =>
        LET name == PrivateName(Twin, B) IN PreservedName(IF q.closed THEN Closed(name) ELSE name) = <<B>>
=====================================================================================
