---------------------------------- MODULE Survey ----------------------------------
(****************************************************************************)
(* discover: a directory is walked for repositories                         *)
(* (orchestre/git_probes.py) and a .cgs is drafted from what is checked out *)
(* there (orchestre/discovery_commands.py); and the creation of a           *)
(* repository on its host by the provider's own tool                        *)
(* (git_repo/provider.py).  What the draft means is what Authoring reads    *)
(* in it.                                                                   *)
(*                                                                          *)
(* A directory is the sequence of its segments below the root that is       *)
(* walked.  A remote's URL is a record of its form, host, owner and name.   *)
(****************************************************************************)
EXTENDS Naturals, Sequences, SequencesExt, FiniteSets, FiniteSetsExt, TLC

CONSTANT None

Documents == INSTANCE Authoring

-----------------------------------------------------------------------------
(* The walk *)

Sorted == <<".git", ".spec", "lib", "sub">>

\* disk: its directories, those that hold a .git, and those that are symbolic links.
Below(disk, dir) ==
    LET names == SelectSeq(Sorted, LAMBDA s : /\ s # ".git"
                                              /\ Append(dir, s) \in disk.dirs \ disk.links)
    IN  [i \in DOMAIN names |-> Append(dir, names[i])]

\* Mutant: a directory at the bound is looked into.
AtBoundBeyond(dir, max) == max # None /\ Len(dir) > max
AtBound(dir, max) == max # None /\ Len(dir) >= max

\* walk_git_repositories, from the stack of what is left to look into, its top first.
RECURSIVE Visit(_, _, _, _, _)
Visit(disk, max, stack, found, stopped) ==
    IF stack = <<>> THEN [found |-> found, stopped |-> stopped]
    ELSE LET dir   == Head(stack)
             below == Below(disk, dir)
         IN  Visit(disk, max, IF AtBound(dir, max) THEN Tail(stack) ELSE below \o Tail(stack),
                   IF dir \in disk.git THEN Append(found, dir) ELSE found,
                   stopped \/ (AtBound(dir, max) /\ below # <<>>))
Walk(disk, max) == Visit(disk, max, <<<<>>>>, <<>>, FALSE)

-----------------------------------------------------------------------------
(* The draft *)

Providers == [host \in {"github.com", "gitlab.com", "codeberg.org"} |->
                 CASE host = "github.com" -> "github" [] host = "gitlab.com" -> "gitlab" [] OTHER -> "codeberg"]
\* url_to_repo_identifier, then parse_repo_id: an address this program can spell, or none.
IdentifierOf(url) ==
    IF url # None /\ url.form \in {"git@", "https"} /\ url.host \in DOMAIN Providers
    THEN [owner |-> url.owner, name |-> url.name] ELSE None

DotNamed == {".git", ".spec"}
IsDotNamedMount(dir) == \E i \in DOMAIN dir : dir[i] \in DotNamed
AsPosix(dir) == IF dir = <<>> THEN "." ELSE FoldLeft(LAMBDA path, segment : path \o "/" \o segment, dir[1], Tail(dir))

\* heads: of each repository its remote and its branch, none when it is detached or has no commit.
RootBranch(heads) == IF <<>> \in DOMAIN heads THEN heads[<<>>].branch ELSE None
RootIdentifier(heads) == IF <<>> \in DOMAIN heads THEN IdentifierOf(heads[<<>>].url) ELSE None
ProjectName(heads, directory) ==
    IF RootIdentifier(heads) = None THEN directory ELSE RootIdentifier(heads).name

\* Mutant: a branch is drafted only as what to fall back on.
DraftedKeysFallback(head, dir, rootBranch) ==
    {"repository", "path"} \cup (IF head.branch # None THEN {"fallback"} ELSE {})
    \cup (IF IsDotNamedMount(dir) THEN {"private"} ELSE {})
DraftedKeys(head, dir, rootBranch) ==
    {"repository", "path"} \cup (IF head.branch # None THEN {"fallback"} ELSE {})
    \cup (IF head.branch \notin {None, rootBranch} THEN {"default"} ELSE {})
    \cup (IF IsDotNamedMount(dir) THEN {"private"} ELSE {})
Drafted(head, dir, rootBranch) ==
    [key \in DraftedKeys(head, dir, rootBranch) |->
        CASE key = "repository" -> IdentifierOf(head.url)
          [] key = "path"       -> AsPosix(dir)
          [] key = "private"    -> TRUE
          [] OTHER              -> head.branch]

\* discover_repos: the identified repositories in the order of the walk, and the project's own default.
DraftOf(order, heads, directory) ==
    LET named == SelectSeq(order, LAMBDA dir : IdentifierOf(heads[dir].url) # None)
    IN  [project |-> [name |-> ProjectName(heads, directory), default |-> RootBranch(heads), fallback |-> None],
         repos   |-> [i \in DOMAIN named |-> Drafted(heads[named[i]], named[i], RootBranch(heads))]]
\* init_from_submodules hands configure the project's name, and not its default.
Adopted(draft) == [draft EXCEPT !.project.default = None]

-----------------------------------------------------------------------------
(* The creation of a repository *)

\* repo_create, what the tool's run means: host.there is whether the repository exists.
Run(host, tool) ==
    CASE ~tool.installed                                 -> [answer |-> "unavailable", there |-> host.there]
      [] tool.says = "ok"                                -> [answer |-> "created", there |-> TRUE]
      [] tool.says \in {"already there", "creation failed"} -> [answer |-> "exists", there |-> host.there]
      [] tool.says = "signed out"                        -> [answer |-> "unavailable", there |-> host.there]
      [] OTHER                                           -> [answer |-> "error", there |-> TRUE]
\* The host is asked before the tool is run. Mutant: it is not.
CreateUnasked(host, tool) == Run(host, tool)
Create(host, tool) == IF host.there /\ host.readable THEN [answer |-> "exists", there |-> TRUE] ELSE Run(host, tool)
\* What a tool can say of a host: it never makes a repository that is there; an answer can be lost
\* after the repository was made, and "creation failed" opens a list of reasons.
Sayings(there) ==
    {"signed out"} \cup IF there THEN {"already there"} ELSE {"ok", "made, then lost", "creation failed"}

-----------------------------------------------------------------------------
(* What they promise; an input is one question *)

Lib  == <<"lib">>
Sub  == <<"lib", "sub">>
Spec == <<".spec">>
Dirs == {Lib, Sub, Spec, <<"lib", ".git">>, <<"lib", ".git", "sub">>, <<"lib", "sub", "lib">>}
Trees == {dirs \cup {<<>>} : dirs \in {d \in SUBSET Dirs : \A x \in d : Len(x) > 1 => Front(x) \in d}}
Disks == UNION {[dirs : {dirs}, git : SUBSET dirs, links : SUBSET (dirs \cap {Lib, Sub})] : dirs \in Trees}

Url(form, host, name) == [form |-> form, host |-> host, owner |-> "o", name |-> name]
Urls(name) == {None, Url("git@", "github.com", name), Url("https", "gitlab.com", name), Url("ssh://", "github.com", name),
               Url("https", "elsewhere", name), Url("https", "github.com", "P")}
Heads(name) == [url : Urls(name), branch : {None, <<"main">>, <<"dev">>}]
Questions ==
    [kind : {"survey"}, about : {"walk"}, disk : Disks, max : {None, 0, 1, 2}]
    \cup [kind : {"survey"}, about : {"draft"}, root : Heads("P"), sub : Heads("sub"), spec : Heads("spec")]
    \cup [kind : {"survey"}, about : {"create"}, readable : BOOLEAN, there : BOOLEAN, installed : BOOLEAN, again : BOOLEAN]

\* The repositories that are reported are those of the directories down to the bound, each after the
\* one that holds it; and when some directory was not looked into, that is said.
Reached(disk) ==
    {d \in disk.dirs : \A i \in DOMAIN d : d[i] # ".git" /\ SubSeq(d, 1, i) \notin disk.links}
WalkFindsAll(q) ==
    \A walk \in {Walk(q.disk, q.max)} : LET seen == {d \in Reached(q.disk) : q.max = None \/ Len(d) <= q.max} IN
        /\ ToSet(walk.found) = seen \cap q.disk.git
        /\ Len(walk.found) = Cardinality(seen \cap q.disk.git)
        /\ \A i, k \in DOMAIN walk.found : IsStrictPrefix(walk.found[i], walk.found[k]) => i < k
        /\ walk.stopped <=> seen # Reached(q.disk)

\* A draft that can be read targets, at every path, the repository and the branch that were found
\* there; and a survey of what it installs drafts the same.
HeadsOf(q) == (<<>> :> q.root) @@ (Sub :> q.sub) @@ (Spec :> q.spec)
Order == <<<<>>, Spec, Sub>>
Targets(doc, heads) ==
    \A dir \in DOMAIN heads : IdentifierOf(heads[dir].url) # None =>
        \E i \in DOMAIN doc.repos :
            /\ doc.repos[i].path = AsPosix(dir)
            /\ [owner |-> doc.repos[i].owner, name |-> doc.repos[i].repo] = IdentifierOf(heads[dir].url)
            /\ doc.repos[i].default = Documents!Or(heads[dir].branch, Documents!Or(RootBranch(heads), Documents!DefaultBranch))
InstalledFrom(doc, heads) ==
    [dir \in {d \in DOMAIN heads : IdentifierOf(heads[d].url) # None} |->
        [heads[dir] EXCEPT !.branch = (CHOOSE r \in ToSet(doc.repos) : r.path = AsPosix(dir)).default]]
DraftReproduces(q) ==
    \A draft \in {DraftOf(Order, HeadsOf(q), "P")} : \A doc \in {Documents!Normalize(draft)} :
        Documents!Valid(doc) =>
            /\ Targets(doc, HeadsOf(q))
            /\ IdentifierOf(q.root.url) # None /\ None \notin {q.root.branch, q.sub.branch, q.spec.branch} =>
                   \A installed \in {InstalledFrom(doc, HeadsOf(q))} :
                       DraftOf(SelectSeq(Order, LAMBDA d : d \in DOMAIN installed), installed, "P") = draft
\* And a tree whose repositories are at different addresses has a draft that can be read.
DraftIsValid(q) ==
    LET named == {h \in {q.root, q.sub, q.spec} : IdentifierOf(h.url) # None}
    IN  Cardinality({IdentifierOf(h.url) : h \in named}) = Cardinality({d \in {<<>>, Sub, Spec} : IdentifierOf(HeadsOf(q)[d].url) # None})
        <=> Documents!Valid(Documents!Normalize(DraftOf(Order, HeadsOf(q), "P")))

\* Asked twice, a repository is made once at most; what is there and can be read is found whatever
\* the tool is good for; and after an answer that was lost the second call finds it.
CreatedOnce(q) ==
    \A says \in Sayings(q.there) :
        LET first == Create([there |-> q.there, readable |-> q.readable], [installed |-> q.installed, says |-> says])
        IN  /\ q.there /\ q.readable => first.answer = "exists"
            /\ first.answer = "created" => first.there
            /\ \A next \in Sayings(first.there) :
                   LET second == Create([there |-> first.there, readable |-> q.readable], [installed |-> q.again, says |-> next])
                   IN  /\ ~(first.answer = "created" /\ second.answer = "created")
                       /\ first.there /\ q.readable => second.answer = "exists"

Right(q) ==
    CASE q.about = "walk"   -> WalkFindsAll(q)
      [] q.about = "draft"  -> DraftReproduces(q) /\ DraftIsValid(q)
      [] q.about = "create" -> CreatedOnce(q)

(* What does not hold. *)

\* "Without this, a tree scanned entirely on branch1 drafted a .cgs that targeted main everywhere":
\* the draft that submodules init writes does.
AdoptionReproduces(q) ==
    q.about = "draft" =>
        \A doc \in {Documents!Normalize(Adopted(DraftOf(Order, HeadsOf(q), "P")))} :
            Documents!Valid(doc) => Targets(doc, HeadsOf(q))
\* What is said to exist does.
ExistsIsTrue(q) ==
    q.about = "create" => \A says \in Sayings(q.there) :
        LET first == Create([there |-> q.there, readable |-> q.readable], [installed |-> q.installed, says |-> says])
        IN  first.answer = "exists" => first.there
=============================================================================
