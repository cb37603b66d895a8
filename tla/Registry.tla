---------------------------------- MODULE Registry ----------------------------------
(****************************************************************************)
(* The registry of a tree and the documents it is read from and written to  *)
(* (tree/registry.py, tree/discovery.py, tree/mount_guard.py,               *)
(* tree/mount_denial.py, tree/git_tree_branch.py): a .cgs is loaded, what   *)
(* its repositories declare is discovered, or denied; the tree moves to a   *)
(* branch; a .gts records it and gives it back.                             *)
(*                                                                          *)
(* An entry's id is the sequence of the paths under which each repository   *)
(* on the way from the root mounts the next; a path is the sequence of its  *)
(* segments.                                                                *)
(****************************************************************************)
EXTENDS Naturals, Sequences, SequencesExt, FiniteSets

CONSTANT None

LOCAL Written == INSTANCE Authoring
LOCAL Forest  == INSTANCE Trees WITH MaxFlagged <- 1, MaxOrdered <- 1, MaxNodes <- 1, MaxPaths <- 1

Main == Written!DefaultBranch
Tool == Written!Twin
PrivateLocal(project, branch, owner) == Written!PrivateLocal(project, branch, owner)

Root       == <<>>
MemoryPath == <<"memory">>
Gate       == <<"CGS-ALPHA">>

-----------------------------------------------------------------------------
(* The tree: its project, whether its memory is a twin's, whether its discovery was refused, its entries as added *)

Ids(tree)      == {tree.entries[i].id : i \in DOMAIN tree.entries}
At(tree, id)   == tree.entries[CHOOSE i \in DOMAIN tree.entries : tree.entries[i].id = id]
Entries(tree)  == Range(tree.entries)
ParentId(id)   == Front(id)
Key(id)        == IF id = Root THEN Root ELSE Last(id)
Path(id)       == FlattenSeq(id)
Update(tree, F(_)) == [tree EXCEPT !.entries = [i \in DOMAIN @ |-> F(@[i])]]

RECURSIVE Effective(_, _)
Effective(tree, e) ==
    IF e.id = Root THEN [private |-> e.private, writable |-> e.writable]
    ELSE Forest!Inherited([private |-> e.private, writable |-> e.writable], Effective(tree, At(tree, ParentId(e.id))))
PrivateLocalIn(tree, e) == Effective(tree, e).private /\ Effective(tree, e).writable

-----------------------------------------------------------------------------
(* Whose branch an entry is on *)

\* MountGuard.owner: the nested Parent whose .cgs declared the entry, or None when the Project did.
\* The code answers with the name of the Parent; here the identity of its repository stands for it.
OwnerNever(tree, e) == None
RECURSIVE Owner(_, _)
Owner(tree, e) ==
    IF e.id = Root \/ e.spec = Root \/ ParentId(e.id) = Root THEN None
    ELSE LET parent == At(tree, ParentId(e.id)) IN
         IF parent.spec = e.spec \/ IsPrefix(Path(parent.id), Path(parent.spec))
         THEN IF Effective(tree, parent).private THEN Owner(tree, parent) ELSE parent.repo
         ELSE None

\* GitTreeBranches.in_memory: the memory of the root, or what it nests.
InMemory(tree, e) == \E m \in Entries(tree) : m.id # Root /\ Path(m.id) = MemoryPath /\ IsPrefix(MemoryPath, Path(e.id))

\* behind_gate: ComplexGitSync mounted by another project's level tree.
Guest(tree, e) ==
    /\ e.id # Root /\ ~Effective(tree, e).private
    /\ At(tree, Root).fallback = Gate /\ e.repo = Tool /\ tree.project # Tool

\* resolve_propagated_ref: what an entry targets when the tree moves to a branch.
OnBranch(tree, e, branch) ==
    IF Effective(tree, e).private
    THEN IF Effective(tree, e).writable
         THEN PrivateLocal(tree.project, branch, IF tree.twin /\ InMemory(tree, e) THEN Tool ELSE Owner(tree, e))
         ELSE e.default
    ELSE IF Guest(tree, e) THEN PrivateLocal(tree.project, branch, None)
    ELSE branch

\* level_of: a root that waits on its fallback derives its private branches from the branch it waits for.
LevelOf(tree, branch) ==
    LET root == At(tree, Root) IN
    IF root.waits /\ root.target # branch /\ branch \in {root.fallback, Main} THEN root.target ELSE branch
Expected(tree, e, branch) ==
    OnBranch(tree, e, IF Guest(tree, e) \/ PrivateLocalIn(tree, e) THEN LevelOf(tree, branch) ELSE branch)

\* The repositories on another branch than the one expected of them now.
Deviations(tree) == {e \in Entries(tree) : e.on \notin {None, Expected(tree, e, At(tree, Root).on)}}
\* project_branches: who follows the project, and holds what a branch of it would put it on.
Followers(tree) == {e \in Entries(tree) : e.kind # "tag" /\ ~(Effective(tree, e).private /\ ~Effective(tree, e).writable)}
Following(tree, branch) == {e \in Followers(tree) : OnBranch(tree, e, branch) = e.on}

\* propagate_global_branch, and each repository put where it says; a private entry keeps the kind of its ref.
Move(tree, branch) ==
    Update(tree, LAMBDA e : [e EXCEPT !.target = OnBranch(tree, e, branch), !.waits = FALSE,
                                      !.kind = IF Effective(tree, e).private THEN @ ELSE "branch"])
\* checkout_tag_tree: what the project may write, but for the memory, is put on the tag.
CheckoutTag(tree, tag) ==
    Update(tree, LAMBDA e :
        IF InMemory(tree, e) \/ (Effective(tree, e).private /\ ~Effective(tree, e).writable) THEN e
        ELSE [e EXCEPT !.target = tag, !.kind = "tag", !.on = tag, !.waits = FALSE])
\* A clone lands on what it asked for, or on the fallback where origin lacks it.
Land(tree, absent) ==
    Update(tree, LAMBDA e :
        LET on == IF e.target \in absent THEN e.fallback ELSE e.target
        IN  [e EXCEPT !.on = on, !.waits = on # e.target, !.life = IF on = e.target THEN "ready" ELSE "fallback"])

Aimed(e, branch) == [e EXCEPT !.target = branch, !.default = branch]
\* declare_targets: a private/local entry that was not cloned targets the branch the tree gives it.
DeclareTargets(tree) ==
    Update(tree, LAMBDA e :
        IF e.id # Root /\ e.kind # "tag" /\ e.life = "declared" /\ (PrivateLocalIn(tree, e) \/ Guest(tree, e))
        THEN Aimed(e, OnBranch(tree, e, At(tree, Root).target))
        ELSE e)

-----------------------------------------------------------------------------
(* Loading a .cgs, and what its repositories declare *)

\* _placement: a repository inside another belongs to the innermost one.
RECURSIVE IdOf(_, _)
IdOf(paths, path) ==
    LET container == Forest!InnermostContaining(paths, path) IN
    IF container = {} THEN <<path>>
    ELSE LET c == CHOOSE c \in container : TRUE
         IN  Append(IdOf(paths, c), SubSeq(path, Len(c) + 1, Len(path)))

\* resolve_declared_ref, for an entry that declares a branch of its own or a tag, or neither.
Declared(id, spec, repo) ==
    [id |-> id, spec |-> spec, repo |-> repo.repo, private |-> repo.private, writable |-> repo.writable,
     default |-> repo.default, fallback |-> repo.fallback,
     target |-> IF repo.ref = None THEN repo.default ELSE repo.ref, kind |-> repo.kind,
     on |-> None, waits |-> FALSE, life |-> "declared", found |-> "pending"]

FromCgs(doc, twin) ==
    LET paths == {doc.repos[i].path : i \in DOMAIN doc.repos}
        root  == [Declared(Root, Root, doc.self) EXCEPT !.private = FALSE, !.writable = FALSE, !.found = "resolved"]
    IN  DeclareTargets([project |-> doc.project, twin |-> twin, refused |-> FALSE,
                        entries |-> <<root>> \o
                          [i \in DOMAIN doc.repos |-> Declared(IdOf(paths, doc.repos[i].path), Root, doc.repos[i])]])

Depth(id) == Len(id)
Shallow(ids) == SortSeq(ids, LAMBDA a, b : Depth(a) < Depth(b))
Held(tree) == {Path(id) : id \in Ids(tree)}

\* One nested .cgs: what it declares is added, but for a path that is already used; denial 1 says
\* so. A path that the repository's own entries already have refuses the discovery.
Nested(tree, id, doc) ==
    LET declared(t, repo) ==
            LET child == Append(id, repo.path) IN
            IF child \in Ids(t) \/ Path(child) \in Held(t) THEN t
            ELSE [t EXCEPT !.entries = Append(@, Declared(child, id, repo))]
        promoted == Update(tree, LAMBDA e :
            IF e.id # id THEN e
            ELSE IF doc.self = None THEN [e EXCEPT !.spec = id, !.found = "resolved"]
            ELSE [e EXCEPT !.spec = id, !.found = "resolved", !.default = doc.self.default, !.fallback = doc.self.fallback,
                           !.target = IF doc.self.ref = None THEN doc.self.default ELSE doc.self.ref, !.kind = doc.self.kind])
    IN  IF \E i \in DOMAIN doc.repos : Append(id, doc.repos[i].path) \in Ids(tree)
        THEN [promoted EXCEPT !.refused = TRUE] ELSE FoldLeft(declared, promoted, doc.repos)
\* discover_nested_configs, for the repositories that are on disk.
Discover(tree, specs, disk) ==
    LET pending == Shallow(SelectSeq([i \in DOMAIN tree.entries |-> tree.entries[i].id],
                                     LAMBDA id : id # Root /\ At(tree, id).found # "resolved"))
        visited(t, id) ==
            IF t.refused THEN t
            ELSE IF id \notin disk THEN Update(t, LAMBDA e : IF e.id = id THEN [e EXCEPT !.found = "missing"] ELSE e)
            ELSE IF specs[At(t, id).repo] = None
            THEN Update(t, LAMBDA e : IF e.id = id THEN [e EXCEPT !.found = "resolved"] ELSE e)
            ELSE Nested(t, id, specs[At(t, id).repo])
    IN  FoldLeft(visited, tree, pending)

\* MountDenial.deny: the entries just added, from the trunk outwards, but for a repository that is
\* held on the same branch and for a key that is used.
RefusedKeyOnly(tree, kept, e) == \E k \in Range(kept) : Key(k.id) = Key(e.id)
Refused(tree, kept, e) ==
    LET on(x) == OnBranch(tree, x, At(tree, Root).target) IN
    \E k \in Range(kept) : (k.repo = e.repo /\ on(k) = on(e)) \/ Key(k.id) = Key(e.id)
Deny(tree, before) ==
    LET new  == Shallow(SelectSeq([i \in DOMAIN tree.entries |-> tree.entries[i].id], LAMBDA id : id \notin before))
        kept == SelectSeq(tree.entries, LAMBDA e : e.id \in before)
        all  == FoldLeft(LAMBDA k, id : IF Refused(tree, k, At(tree, id)) THEN k ELSE Append(k, At(tree, id)), kept, new)
    IN  [tree EXCEPT !.entries = SelectSeq(@, LAMBDA e : e \in Range(all))]
\* DiscoveryCommands.discover_nested_configs
DiscoverNested(tree, specs, disk) ==
    LET found == Discover(tree, specs, disk) IN
    IF found.refused THEN found ELSE DeclareTargets(Deny(found, Ids(tree)))

-----------------------------------------------------------------------------
(* A .gts *)

\* _write_compact_refs: one ref when all that are there agree.
Refs(e) ==
    IF e.on = None \/ (e.on = e.target /\ e.kind = "branch") THEN [ref |-> <<e.kind, e.target>>]
    ELSE [on |-> <<"branch", e.on>>, target |-> <<e.kind, e.target>>]
RefIn(refs, key) == IF key \in DOMAIN refs THEN refs[key] ELSE refs.ref

\* The default of an entry is recorded when it is not what it targets.
RecordedNoDefault(e) == None
RecordedDefault(e) == IF e.default = e.target THEN None ELSE e.default

\* repo_state_dict and to_gts_document: no two repositories may share a key.
KeysUnique(tree) == \A a, b \in Ids(tree) : Key(a) = Key(b) => a = b
Snapshot(tree) ==
    {[path |-> Path(e.id), own |-> Key(e.id),
      parent |-> IF e.id = Root THEN None ELSE Path(ParentId(e.id)), spec |-> Path(e.spec), refs |-> Refs(e),
      default |-> RecordedDefault(e), repo |-> e.repo, private |-> e.private, writable |-> e.writable,
      fallback |-> e.fallback, waits |-> e.waits, life |-> e.life, found |-> e.found] : e \in Entries(tree)}

\* from_gts_document: in the order of their paths, each under the entry at its parent's path.
FromGts(project, states) ==
    LET order == SetToSortSeq(states, LAMBDA a, b : Len(a.path) < Len(b.path))
        read(s, known) ==
            [id |-> IF s.parent = None THEN Root ELSE Append(known[s.parent], s.own),
             spec |-> s.spec, repo |-> s.repo, private |-> s.private, writable |-> s.writable,
             default |-> IF s.default = None THEN RefIn(s.refs, "target")[2] ELSE s.default,
             fallback |-> s.fallback, target |-> RefIn(s.refs, "target")[2], kind |-> RefIn(s.refs, "target")[1],
             on |-> RefIn(s.refs, "on")[2], waits |-> s.waits, life |-> s.life, found |-> s.found]
        next(k, s) ==
            LET e == read(s, k.known)
            IN  [known |-> [p \in DOMAIN k.known \cup {s.path} |-> IF p = s.path THEN e.id ELSE k.known[p]],
                 entries |-> Append(k.entries, e)]
        all == FoldLeft(next, [known |-> <<>>, entries |-> <<>>], order).entries
        idAt(path) == all[CHOOSE i \in DOMAIN all : Path(all[i].id) = path].id
    IN  [project |-> project, twin |-> FALSE, refused |-> FALSE, entries |-> [i \in DOMAIN all |-> [all[i] EXCEPT !.spec = idAt(@)]]]

\* is_twin_branch, and settle_memory_twin: the branch of the memory says whether the tree is a twin.
\* A memory that is on no branch is on no twin's, whatever it targets.
IsTwinBranch(project, branch) == IsPrefix(PrivateLocal(project, Main, Tool), branch)
Settle(tree) ==
    LET memories == {e \in Entries(tree) : e.id # Root /\ Path(e.id) = MemoryPath}
        branchOf(m) == IF m.on = m.fallback THEN m.target ELSE m.on
    IN  IF \E m \in memories : m.on # None /\ IsTwinBranch(tree.project, branchOf(m))
        THEN DeclareTargets([tree EXCEPT !.twin = TRUE]) ELSE tree
Reload(tree) == Settle(FromGts(tree.project, Snapshot(tree)))

-----------------------------------------------------------------------------
(* What they promise; an input is one question *)

Mount(repo, path, private, writable, default) ==
    [repo |-> repo, path |-> path, private |-> private, writable |-> writable, default |-> default,
     fallback |-> IF private /\ writable THEN default ELSE Main, ref |-> None, kind |-> "branch"]
OfProject(repo, path) == Mount(repo, path, FALSE, FALSE, Main)
Settings(repo, path)  == Mount(repo, path, TRUE, TRUE, Main)
Shared(repo, path)    == Mount(repo, path, TRUE, FALSE, <<"dev">>)

Asked == {OfProject("a", <<"a">>), OfProject("a", <<"d">>), OfProject(Tool, <<"d">>), Settings("b", <<"a">>),
          Settings("m", MemoryPath), Settings("m", <<"a", "b">>), Shared("s", <<"d">>), Shared("s", <<"a", "b">>)}
Tops == {<<x>> : x \in Asked}
        \cup {t \in Asked \X Asked : t[1].path # t[2].path /\ t[1].repo # t[2].repo}
        \cup {<<OfProject("a", <<"a">>), OfProject("b", <<"b">>), Settings("m", <<"a", "c">>), Shared("s", <<"b", "c">>)>>}
Doc(self, repos) == [self |-> self, repos |-> repos]
OwnDefault == OfProject("a", Root)
Nests == {OfProject("a", <<"c">>), Settings("b", <<"b">>), Settings("m", <<"c">>), Shared("s", <<"b">>), Settings("h", <<"h">>)}
OfA == {None} \cup {Doc(self, r) : self \in {None, [OwnDefault EXCEPT !.default = <<"dev">>]},
                                   r \in {<<x>> : x \in Nests} \cup {<<Settings("m", <<"c">>), Shared("s", <<"d">>)>>,
                                                                    <<OfProject("a", <<"a">>), Settings("b", <<"c">>)>>}}
DocOfB == Doc(None, <<OfProject("a", <<"c">>)>>)
OfB == {None, DocOfB, Doc(None, <<Settings("m", <<"b">>)>>), Doc(None, <<Shared("a", <<"c">>)>>)}
OfM == {None, Doc(None, <<Settings("h", <<"h">>)>>)}
Variants == {"plain", "twin", "gate", "waiting", "late"}
Mounts(q, repo) == \E x \in Range(q.top) : x.repo = repo
\* What a repository declares is asked where it is mounted.
Questions ==
    {q \in [kind : {"registry"}, top : Tops, a : OfA, b : OfB, m : OfM, variant : Variants] :
        /\ Mounts(q, "a") \/ (Mounts(q, "b") /\ q.b = DocOfB) \/ q.a = None
        /\ Mounts(q, "b") \/ q.b = None
        /\ Mounts(q, "m") \/ q.m = None}

Loaded(q) ==
    LET self == [OfProject("p", Root) EXCEPT !.fallback = IF q.variant = "gate" THEN Gate ELSE Main,
                                             !.ref = IF q.variant = "waiting" THEN <<"x">> ELSE None]
    IN  FromCgs([project |-> "P", self |-> self, repos |-> q.top], q.variant = "twin")
Specs(q) == [r \in {"a", "b", "m", "s", "h", "p", Tool} |->
                CASE r = "a" -> q.a [] r = "b" -> q.b [] r = "m" -> q.m [] OTHER -> None]
\* Three passes, as the clone goes down; a repository that is late is not on disk for the first.
Discovered(q) ==
    LET top  == Loaded(q)
        disk == IF q.variant = "late" THEN {id \in Ids(top) : ~IsPrefix(<<q.top[1].path>>, id)} ELSE Ids(top)
        pass(tree, i) == IF tree.refused THEN tree ELSE DiscoverNested(tree, Specs(q), IF i = 1 THEN disk ELSE Ids(tree))
    IN  FoldLeft(pass, top, <<1, 2, 3>>)
Targets(tree) == {<<e.id, e.target>> : e \in Entries(tree)}
OnDev(tree)   == Move(tree, <<"dev">>)
Landed(found, q) == Land(found, IF q.variant = "waiting" THEN {<<"x">>} ELSE {})

\* What a nested .cgs asks for never puts a repository twice on one branch, two entries under one
\* key, or two at one path; nothing is left without the entry that mounts it.
HeldOnce(tree, q) ==
    \A a, b \in Entries(tree) :
        /\ a.id # Root => ParentId(a.id) \in Ids(tree)
        /\ Path(a.id) = Path(b.id) => a = b
        /\ a # b /\ a.id \notin Ids(Loaded(q)) =>
              /\ Key(a.id) # Key(b.id)
              /\ a.repo = b.repo => OnBranch(tree, a, At(tree, Root).target) # OnBranch(tree, b, At(tree, Root).target)

\* What a project repository declares as its own settings is held, whatever else the tree mounts,
\* unless its path or its key is taken, or the Project mounts the same inside that repository.
SettingsAreHeld(tree, q) ==
    \A p \in Entries(tree) :
        p.id # Root /\ ~Effective(tree, p).private /\ p.found = "resolved" /\ Specs(q)[p.repo] # None =>
            \A i \in DOMAIN Specs(q)[p.repo].repos :
                LET r == Specs(q)[p.repo].repos[i] IN
                r.private /\ r.writable =>
                    (Path(p.id) \o r.path) \in Held(tree) \/ \E e \in Entries(tree) : Key(e.id) = r.path
                    \/ \E x \in Entries(Loaded(q)) : x.repo = r.repo /\ IsPrefix(p.id, x.id)

\* A State that was written says what it was written from, whose the branches are and whether the tree is a twin included.
StateSaysTheTree(tree) ==
    KeysUnique(tree) => LET back == Reload(tree) IN
        /\ Entries(back) = Entries(tree)
        /\ \A e \in Entries(tree) : Owner(back, e) = Owner(tree, e) /\ Effective(back, e) = Effective(tree, e)
        /\ (\E e \in Entries(tree) : InMemory(tree, e) /\ e.writable) => back.twin = tree.twin

\* Branches derive from the project and never from each other: by way of another branch, or of a
\* tag, and of a State, a tree comes to the branches it would have moved to at once.
NothingCompounds(tree) ==
    KeysUnique(tree) => \A way \in {Move(tree, <<"x">>), CheckoutTag(tree, <<"v1">>)} :
        Targets(OnDev(Reload(Land(way, {})))) = Targets(OnDev(tree))

\* While the root waits on its fallback, its private repositories are expected where they are. A
\* tree that moved as a whole deviates nowhere, and its branch is covered by all that follow it.
NothingDeviates(tree) ==
    LET moved == Land(OnDev(tree), {}) IN
    /\ \A e \in Deviations(tree) : ~PrivateLocalIn(tree, e) /\ ~Guest(tree, e)
    /\ Deviations(moved) = {} /\ Following(moved, <<"dev">>) = Followers(moved)

Right(q) ==
    \A found \in {Discovered(q)} : \A tree \in {Landed(found, q)} :
        ~found.refused =>
            HeldOnce(found, q) /\ SettingsAreHeld(found, q) /\ StateSaysTheTree(tree) /\ NothingCompounds(tree) /\ NothingDeviates(tree)

(* What does not hold. *)

\* The keys are unique before anything is discovered: two repositories of one .cgs may end in one name.
TopKeysUnique(q) == KeysUnique(Loaded(q))
\* What the Project mounts belongs to no Parent, inside whose directory it may be.
ProjectOwnsItsOwn(q) ==
    LET tree == Discovered(q) IN
    \A e \in Entries(tree) : e.id \in Ids(Loaded(q)) => Owner(tree, e) = None
\* No repository is twice on one branch after the whole tree moved.
HeldOnceOnEveryBranch(q) ==
    LET tree == OnDev(Discovered(q)) IN
    ~tree.refused => \A a, b \in Entries(tree) : a # b /\ a.repo = b.repo => a.target # b.target
\* An entry that never landed reads back as one that never landed.
NeverLandedReadsBack(q) ==
    KeysUnique(Loaded(q)) => \A e \in Entries(Reload(Loaded(q))) : e.life = "declared" => e.on = None
\* After a branch checkout, no repository is recorded on a tag.
BranchIsNoTag(q) ==
    LET tree == OnDev(CheckoutTag(Landed(Discovered(q), q), <<"v1">>)) IN
    ~tree.refused => \A e \in Entries(tree) : e.kind = "branch"
=============================================================================
