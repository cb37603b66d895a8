-------------------------------- MODULE Environment --------------------------------
(****************************************************************************)
(* What a tree needs of the machine and what the machine has                *)
(* (tree/environment_spec.py, tree/tree_env.py, tree/toolchain.py,          *)
(* orchestre/environment_commands.py): the declaration in a .cgs, the       *)
(* observation and its cache, and the comparison.                           *)
(*                                                                          *)
(* A version is the sequence of its numbers.  A machine says of every tool  *)
(* the version it has, or none.                                             *)
(****************************************************************************)
EXTENDS Naturals, Sequences, SequencesExt, FiniteSets, FiniteSetsExt

CONSTANT None

-----------------------------------------------------------------------------
(* The declaration *)

Keys == {"tools", "compilers", "system_libraries", "libraries", "services"}
Category == [key \in Keys |->
    CASE key = "tools" -> "tool" [] key = "compilers" -> "compiler" [] key = "services" -> "service" [] OTHER -> "system-library"]

\* validate_environment_declaration, of one key: an array or a table of strings.
ValidValue(value) == value = None \/ value.shape \in {"array", "table"}
\* _requirements_from_value: an array gives names only, a text is one name, a blank name is none.
ReadValue(key, value) ==
    IF value = None \/ value.shape = "number" THEN {}
    ELSE {[category |-> Category[key], name |-> item.name,
           minimum |-> IF value.shape = "table" THEN item.minimum ELSE <<>>] : item \in {i \in value.items : i.name # ""}}
\* Requirements.from_cgs
FromCgs(table) == UNION {ReadValue(key, table[key]) : key \in Keys}
IsExecutable(r) == r.category \in {"tool", "compiler"}
DeclaredExecutables(requirements) == {r.name : r \in {r \in requirements : IsExecutable(r)}}

-----------------------------------------------------------------------------
(* The observation *)

\* Toolchain.read: the backends are asked only where one was used.
Backends == {"dvc"}
Recorded == {"git"} \cup Backends
\* observe: the tools that are asked; a tool that is recorded is never asked again for being declared.
Asked(declared, backends) == (Recorded \ IF backends THEN {} ELSE Backends) \cup (declared \ Recorded)
\* _parsed_version: two numbers at least.
Parsed(version) == IF version # None /\ Len(version) < 2 THEN "unparsed" ELSE version
Observed(machine, declared, backends) ==
    [tool \in Recorded \cup declared |-> IF tool \in Asked(declared, backends) THEN machine[tool] ELSE None]

\* observe's key within one process. Mutant: what is declared is not part of it.
KeyWithoutDeclared(declared, backends) == backends
Key(declared, backends) == <<declared, backends>>
\* The answers to several calls, each given the machine as it is then.
Answers(calls) ==
    [i \in DOMAIN calls |->
        LET first == Min({k \in 1..i : Key(calls[k].declared, calls[k].backends) = Key(calls[i].declared, calls[i].backends)})
        IN  Observed(calls[first].machine, calls[first].declared, calls[first].backends)]

\* _provider_auth: tea succeeds in listing no login at all.
Authenticated(tool, run) == run.installed /\ run.ok /\ (tool # "tea" \/ run.lists)

\* _pixi_platform
Platform(system, architecture) ==
    <<CASE system = "darwin" -> "osx" [] system = "win32" -> "win" [] OTHER -> system,
      CASE architecture \in {"x86_64", "amd64"} -> "64" [] architecture \in {"aarch64", "arm64"} -> "arm64" [] OTHER -> architecture>>

\* _discover_manifests: repos in the order of the tree; of a file that several reach, the last.
Reaches(repo, file) == IsPrefix(repo, file)
Manifests(repos, files) ==
    {[file |-> file, repository |-> repos[Max({i \in DOMAIN repos : Reaches(repos[i], file)})]] :
        file \in {f \in files : \E i \in DOMAIN repos : Reaches(repos[i], f)}}

-----------------------------------------------------------------------------
(* The comparison *)

At(version, i) == IF i \in DOMAIN version THEN version[i] ELSE 0
\* _is_older: the shorter one filled up with zeros. Mutant: it is not.
IsOlderUnpadded(version, minimum) ==
    \E i \in 1..Max({Len(version), Len(minimum)}) :
        /\ i \notin DOMAIN version \/ (i \in DOMAIN minimum /\ version[i] < minimum[i])
        /\ \A k \in 1..(i - 1) : k \in DOMAIN minimum /\ version[k] = minimum[k]
IsOlder(version, minimum) ==
    \E i \in 1..Max({Len(version), Len(minimum)}) :
        At(version, i) < At(minimum, i) /\ \A k \in 1..(i - 1) : At(version, k) = At(minimum, k)

TooOld(version, minimum) ==
    minimum # <<>> /\ (Parsed(version) = "unparsed" \/ IsOlder(version, minimum))
\* compare; nothing looks for a library or a service.
Compare(observed, requirements) ==
    LET there(r) == IsExecutable(r) /\ r.name \in DOMAIN observed /\ observed[r.name] # None
    IN  [missing    |-> {r \in requirements : ~there(r)},
         older      |-> {r \in requirements : there(r) /\ TooOld(observed[r.name], r.minimum)},
         undeclared |-> {t \in DOMAIN observed : observed[t] # None} \ DeclaredExecutables(requirements)]
Matches(drift) == drift.missing = {} /\ drift.older = {}
\* check_environment
Check(machine, requirements) == Compare(Observed(machine, DeclaredExecutables(requirements), FALSE), requirements)

-----------------------------------------------------------------------------
(* What they promise; an input is one question *)

Versions == {<<n>> : n \in 1..2} \cup {<<m, n>> : m, n \in 0..2} \cup {<<1, n, o>> : n, o \in 0..1}
Dotted   == {v \in Versions : Len(v) > 1}
Items    == [name : {"git", "gcc", ""}, minimum : {<<>>, <<1, 1>>}]
Values   == {None} \cup [shape : {"array", "table", "text", "number"}, items : {s \in SUBSET Items : Cardinality(s) \in 1..2}]
Tables   == {[key \in Keys |-> IF key = k THEN v ELSE IF key = l THEN w ELSE None] : k \in {"tools", "services"}, v \in Values,
                l \in {"compilers", "libraries"}, w \in {None, [shape |-> "array", items |-> {[name |-> "gcc", minimum |-> <<>>]}]}}
Machines == [{"git", "gcc", "dvc"} -> {None, <<1, 1>>, <<1, 0>>}]
Calls    == [machine : {m \in Machines : m["git"] = <<1, 1>>}, declared : SUBSET {"gcc", "dvc"}, backends : BOOLEAN]
Needs    == {{}, {[category |-> "tool", name |-> "gcc", minimum |-> <<1, 1>>]},
             {[category |-> "compiler", name |-> "gcc", minimum |-> <<1>>], [category |-> "tool", name |-> "git", minimum |-> <<>>]},
             {[category |-> "tool", name |-> "dvc", minimum |-> <<>>]},
             {[category |-> "service", name |-> "git", minimum |-> <<>>]}}
Places   == {<<>>, <<"lib">>, <<"lib", "sub">>, <<"lib2">>}
Questions ==
    [kind : {"environment"}, about : {"table"}, table : Tables]
    \cup [kind : {"environment"}, about : {"version"}, has : Versions, wants : Versions, also : Versions]
    \cup [kind : {"environment"}, about : {"calls"}, calls : {<<a, b>> : a, b \in Calls}]
    \cup [kind : {"environment"}, about : {"drift"}, machine : Machines, needs : Needs]
    \cup [kind : {"environment"}, about : {"signed in"}, tool : {"gh", "tea"}, installed : BOOLEAN, signedIn : BOOLEAN]
    \cup [kind : {"environment"}, about : {"platform"}, system : {"linux", "darwin", "win32"}, arch : {"x86_64", "amd64", "aarch64", "arm64"}]
    \cup [kind : {"environment"}, about : {"manifests"}, repos : SetToAllKPermutations(Places), files : SUBSET {<<"f">>, <<"lib", "f">>, <<"lib", "sub", "f">>}]

\* A declaration that is valid is read whole.
ReadWhole(q) ==
    (\A key \in Keys : ValidValue(q.table[key])) =>
        \A key \in Keys : q.table[key] # None => \A item \in q.table[key].items :
            item.name # "" => \E r \in FromCgs(q.table) : r.category = Category[key] /\ r.name = item.name

\* Of versions that are read, being older is the order of their numbers: no version is older than
\* itself or than one it is newer than, a newer one meets what an older one does, and a zero at
\* the end says nothing.
VersionsAreOrdered(q) ==
    /\ ~(IsOlder(q.has, q.wants) /\ IsOlder(q.wants, q.has))
    /\ IsOlder(q.has, q.wants) /\ ~IsOlder(q.also, q.wants) => IsOlder(q.has, q.also)
    /\ IsOlder(Append(q.has, 0), q.wants) = IsOlder(q.has, q.wants)
    /\ IsOlder(q.wants, Append(q.has, 0)) = IsOlder(q.wants, q.has)
    /\ Len(q.has) > 1 /\ q.wants # <<>> => (TooOld(q.has, q.wants) <=> IsOlder(q.has, q.wants))

\* While the machine stays as it is, the second answer is what a first one would be.
CacheIsHonest(q) ==
    q.calls[1].machine = q.calls[2].machine =>
        Answers(q.calls)[2] = Observed(q.calls[2].machine, q.calls[2].declared, q.calls[2].backends)

\* A check that matches means that every executable is there and new enough; and a tool that is
\* newly installed or updated takes nothing away from that.
DriftIsTrue(q) ==
    LET drift == Check(q.machine, q.needs) IN
    /\ Matches(drift) => \A r \in q.needs :
          IsExecutable(r) /\ q.machine[r.name] # None /\ ~TooOld(q.machine[r.name], r.minimum)
    /\ \A tool \in DOMAIN q.machine :
          LET better == Check([q.machine EXCEPT ![tool] = <<1, 1>>], q.needs)
          IN  better.missing \subseteq drift.missing /\ better.older \subseteq drift.older
    /\ DeclaredExecutables(q.needs) \cap drift.undeclared = {}

\* Signed in is what the tool is.
SignedInIsTrue(q) ==
    Authenticated(q.tool, [installed |-> q.installed, ok |-> q.tool = "tea" \/ q.signedIn, lists |-> q.signedIn])
        <=> q.installed /\ q.signedIn

\* A tree that is read with parents first gives every manifest to the repository that holds it.
ParentsFirst(repos) == \A i, k \in DOMAIN repos : IsStrictPrefix(repos[i], repos[k]) => i < k
ManifestsAreOwned(q) ==
    ParentsFirst(q.repos) => \A m \in Manifests(q.repos, q.files) :
        \A i \in DOMAIN q.repos : Reaches(q.repos[i], m.file) => IsPrefix(q.repos[i], m.repository)

\* The two names of an architecture are recorded alike, and a platform by the name that a Pixi lock
\* has for it, Linux on ARM apart.
Pixis == {<<"linux", "64">>, <<"linux", "aarch64">>, <<"osx", "64">>, <<"osx", "arm64">>, <<"win", "64">>, <<"win", "arm64">>}
Synonyms == {{"x86_64", "amd64"}, {"aarch64", "arm64"}}
PlatformIsNamed(q) ==
    /\ \A names \in Synonyms : q.arch \in names => \A name \in names : Platform(q.system, name) = Platform(q.system, q.arch)
    /\ (q.system = "linux" => q.arch \notin {"aarch64", "arm64"}) => Platform(q.system, q.arch) \in Pixis

Right(q) ==
    CASE q.about = "table"     -> ReadWhole(q)
      [] q.about = "version"   -> VersionsAreOrdered(q)
      [] q.about = "calls"     -> CacheIsHonest(q)
      [] q.about = "drift"     -> DriftIsTrue(q)
      [] q.about = "signed in" -> SignedInIsTrue(q)
      [] q.about = "manifests" -> ManifestsAreOwned(q)
      [] q.about = "platform"  -> PlatformIsNamed(q)

(* What does not hold. *)

\* "Return missing, too-old, and installed-but-undeclared dependencies": what is installed is not
\* missing; yet a data backend is not asked, and a library never is.
InstalledIsNotMissing(q) ==
    q.about = "drift" => \A r \in Check(q.machine, q.needs).missing : IsExecutable(r) => q.machine[r.name] = None
\* A version of one number is compared like any other.
ShortVersionsCompare(q) ==
    q.about = "version" => (q.wants # <<>> => (TooOld(q.has, q.wants) <=> IsOlder(q.has, q.wants)))
\* An observation is of the machine as it is.
ObservedNow(q) ==
    q.about = "calls" => Answers(q.calls)[2] = Observed(q.calls[2].machine, q.calls[2].declared, q.calls[2].backends)
\* A recorded platform is one that a Pixi lock can name.
PlatformIsPixis(q) == q.about = "platform" => Platform(q.system, q.arch) \in Pixis
=============================================================================
