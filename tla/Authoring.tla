--------------------------------- MODULE Authoring ---------------------------------
(****************************************************************************)
(* A .cgs as its author writes it, and as the program holds it              *)
(* (tree/cgs_format.py, git_repo/git_branch.py): normalisation fills in     *)
(* what an entry leaves out, to_authoring_dict leaves out what              *)
(* normalisation would fill in.                                             *)
(*                                                                          *)
(* An entry as written is a function from the keys it states to their       *)
(* values, and names its repository by owner and name.  A branch name is    *)
(* the sequence of its parts, joined by "_" in the code.                    *)
(****************************************************************************)
EXTENDS Naturals, Sequences, SequencesExt, FiniteSets

CONSTANT None

-----------------------------------------------------------------------------
(* Branch names *)

DefaultBranch == <<"main">>
Twin == "ComplexGitSync"

\* private_local_branch: <owner>_<project>, then the branch unless it is main.
PrivateLocal(project, branch, owner) ==
    (IF owner = None THEN <<>> ELSE <<owner>>) \o <<project>> \o (IF branch = DefaultBranch THEN <<>> ELSE branch)

Or(value, otherwise) == IF value = None THEN otherwise ELSE value
Get(entry, key, otherwise) == IF key \in DOMAIN entry THEN entry[key] ELSE otherwise

\* apply_declared_defaults, on the default and the fallback an entry states.
DeclaredDefault(default, project) == Or(default, project.default)
DeclaredFallback(fallback, default, privateLocal, project) ==
    Or(fallback, IF privateLocal THEN default ELSE Or(project.fallback, DefaultBranch))

-----------------------------------------------------------------------------
(* Reading *)

\* parse_repo_id: the last segment names both the repository and its project.
Parsed(entry) == [owner |-> entry.repository.owner, repo |-> entry.repository.name,
                  project |-> Get(entry, "project", entry.repository.name)]

\* How many entries are named like the project.
Matching(project, entries) == Cardinality({i \in DOMAIN entries : Parsed(entries[i]).project = project.name})
ImpliedPath(project, matching, parsed) ==
    IF matching = 1 /\ parsed.project = project.name THEN "." ELSE parsed.repo

Normalized(project, matching, entry) ==
    LET parsed  == Parsed(entry)
        private == Get(entry, "private", FALSE)
        write   == Get(entry, "writable", FALSE)
        default == DeclaredDefault(Get(entry, "default", None), project)
    IN  [owner |-> parsed.owner, repo |-> parsed.repo, project |-> parsed.project,
         default |-> default,
         fallback |-> DeclaredFallback(Get(entry, "fallback", None), default, private /\ write, project),
         private |-> private, writable |-> write, nested |-> Get(entry, "nested", "auto"),
         path |-> LET path == Get(entry, "path", None) IN
                  IF path = None THEN ImpliedPath(project, matching, parsed) ELSE IF path = "" THEN "." ELSE path]
\* normalize_cgs
Normalize(doc) ==
    LET project == [doc.project EXCEPT !.default = Or(@, DefaultBranch)]
    IN  [project |-> project,
         repos |-> [i \in DOMAIN doc.repos |->
                      Normalized(project, Matching(project, doc.repos), doc.repos[i])]]

\* declared_private_local_mismatch: a private, writable repository states no branch, the derived one, or the project's.
BranchFits(project, entry) ==
    entry.private /\ entry.writable =>
        entry.default \in {PrivateLocal(project.name, project.default, None), project.default}

Identity(entry) == <<entry.owner, entry.repo>>
\* CgsDocument.validate
Valid(doc) ==
    /\ \A i, k \in DOMAIN doc.repos : i # k =>
          Identity(doc.repos[i]) # Identity(doc.repos[k]) /\ doc.repos[i].path # doc.repos[k].path
    /\ \A i \in DOMAIN doc.repos :
          (doc.repos[i].writable => doc.repos[i].private) /\ BranchFits(doc.project, doc.repos[i])

-----------------------------------------------------------------------------
(* Writing *)

ImpliedFallbackAlone(entry, project) ==
    DeclaredFallback(None, entry.default, entry.private /\ entry.writable, [project EXCEPT !.fallback = None])
\* The fallback an entry gets by stating none.
ImpliedFallback(entry, project) ==
    DeclaredFallback(None, entry.default, entry.private /\ entry.writable, project)

\* _resolve_override: the keys of an entry whose value is not the one it would get by leaving it out.
Stated(values, implied) == {key \in DOMAIN values : values[key] # implied[key]}

Authored(project, matching, entry) ==
    LET values  == [project |-> entry.project, default |-> entry.default, fallback |-> entry.fallback,
                    private |-> entry.private, writable |-> entry.writable, nested |-> entry.nested, path |-> entry.path]
        implied == [project |-> entry.repo, default |-> project.default,
                    fallback |-> ImpliedFallback(entry, project), private |-> FALSE, writable |-> FALSE,
                    nested |-> "auto", path |-> ImpliedPath(project, matching, entry)]
        kept    == Stated(values, implied)
    IN  [key \in kept \cup {"repository"} |->
            IF key = "repository" THEN [owner |-> entry.owner, name |-> entry.repo] ELSE values[key]]
\* to_authoring_dict
Author(doc) ==
    LET matching == Cardinality({i \in DOMAIN doc.repos : doc.repos[i].project = doc.project.name})
    IN  [project |-> [doc.project EXCEPT !.default = IF @ = DefaultBranch THEN None ELSE @],
         repos |-> [i \in DOMAIN doc.repos |-> Authored(doc.project, matching, doc.repos[i])]]

-----------------------------------------------------------------------------
(* What they promise; an input is one question *)

Branches == {<<"dev">>, DefaultBranch}
Wordings  == [project : {None, "P"}, path : {None, "", "lib"}, nested : {None, "disabled"},
             default : {None, <<"dev">>, <<"P">>, <<"P", "dev">>}, fallback : {None} \cup Branches,
             private : {None, TRUE}, writable : {None, TRUE}]
States(name, choice) ==
    [key \in {"repository"} \cup {k \in DOMAIN choice : choice[k] # None} |->
        IF key = "repository" THEN [owner |-> "o", name |-> name] ELSE choice[key]]
Silent == [key \in {"project", "path", "nested", "default", "fallback", "private", "writable"} |-> None]
Others == {<<>>, <<States("P", Silent)>>, <<States("lib", [Silent EXCEPT !.path = "P"])>>}
Questions ==
    [kind : {"authoring"},
     project : [name : {"P"}, default : {None, <<"dev">>}, fallback : {None} \cup Branches],
     name : {"P", "lib"}, choice : Wordings, others : Others]

\* A .cgs that was read, written back and read again says the same, whatever it left out; and
\* what was written back states nothing that could be left out.
WritingIsLossless(q) ==
    LET doc     == Normalize([project |-> q.project, repos |-> <<States(q.name, q.choice)>> \o q.others])
        written == Author(doc)
        without(i, key) == [written EXCEPT !.repos[i] = [k \in DOMAIN @ \ {key} |-> @[k]]]
    IN  Valid(doc) =>
            /\ Normalize(written) = doc
            /\ \A i \in DOMAIN written.repos : \A key \in DOMAIN written.repos[i] \ {"repository"} :
                   Normalize(without(i, key)) # doc
Right(q) == WritingIsLossless(q)
=============================================================================
