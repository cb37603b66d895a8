-------------------------------- MODULE Submodules --------------------------------
(****************************************************************************)
(* Adopting a checkout that uses Git submodules                             *)
(* (orchestre/discovery_commands.py, orchestre/git_probes.py,               *)
(* tree/discovery.py): `submodules init` installs the tree in place and     *)
(* converts it, `submodules import --recursive` converts a tree, the root   *)
(* first.  A converted submodule is a plain clone that the repository it    *)
(* sits in ignores.                                                         *)
(*                                                                          *)
(* The root is repository 1; a repository is numbered after the one that    *)
(* holds it.  What the clones of `submodules init` can do wrong is Install's*)
(* subject: here they are one step.                                         *)
(****************************************************************************)
EXTENDS Naturals, Sequences, SequencesExt, FiniteSets

CONSTANTS
    Holder,    \* of each repository, the one it sits in; the root's is 0
    Behind,    \* submodules whose branch moved on since their holder recorded a commit of it
    During,    \* whether people work, and kill commands, while one runs
    MaxWork,   \* bound: pieces of work of people
    MaxRuns,   \* bound: commands
    None

LOCAL Written == INSTANCE Authoring

VARIABLES
    checkout,  \* each checkout, as Git and the two files see it
    conv,      \* the command that runs, or how the last one ended
    disturbed, \* somebody worked, or killed the command, while it ran
    torn,      \* a command ended without having converted all it began to
    typed, edits

vars == <<checkout, conv, disturbed, torn, typed, edits>>

Repos       == DOMAIN Holder
Children(r) == {c \in Repos : Holder[c] = r}

\* The order in which a .gitmodules has them.
InOrder(S)  == SetToSeq(S)

\* The repositories are a tree.
Nested ==
    /\ Holder \in Seq(Nat) /\ 1 \in Repos /\ Holder[1] = 0
    /\ \A r \in Repos \ {1} : Holder[r] \in 1..(r - 1)

\* linked: its holder's index has it as a submodule.  listed: its holder's .gitignore names it.
\* modules: its own .gitmodules is there.  dirt: what of it is not committed.  ahead: commits
\* that no remote has.  moved: it is at another commit than its holder recorded.
Pristine(r) == [linked |-> r # 1, listed |-> FALSE, modules |-> Children(r) # {}, dirt |-> {}, ahead |-> FALSE, moved |-> FALSE]
Ended(how)  == [at |-> "idle", how |-> how]

Init ==
    /\ checkout = [r \in Repos |-> Pristine(r)]
    /\ conv = Ended("nothing")
    /\ disturbed = FALSE /\ torn = FALSE /\ typed = 0 /\ edits = 0

-----------------------------------------------------------------------------
(* What git status says *)

\* A submodule shows as changed in its holder, whatever it is that changed in it; one that the
\* index lost shows until it is ignored.
Shows[c \in Repos] ==
    IF checkout[c].linked
    THEN checkout[c].moved \/ checkout[c].dirt # {} \/ \E d \in Children(c) : Shows[d]
    ELSE ~checkout[c].listed
Dirty(r, spare) == checkout[r].dirt \ spare # {} \/ \E c \in Children(r) : Shows[c]

\* blocking_worktree_dirt: all but the repository's own .gitignore.
Blocks(r) == Dirty(r, {"ignore"})

\* _gitmodules_levels_root_first. Mutant: as the other commands, leaves first.
Levels(tree) ==
    LET from[r \in Repos] ==
            IF ~tree[r].modules THEN <<>>
            ELSE <<r>> \o FlattenSeq([i \in 1..Cardinality(Children(r)) |-> from[InOrder(Children(r))[i]]])
    IN  from[1]
RootFirstLeaves(tree) == Reverse(Levels(tree))
RootFirst(tree) == Levels(tree)

-----------------------------------------------------------------------------
(* The commands *)

Links == [r \in Repos |-> checkout[r].linked]
Idle  == conv.at = "idle"
End(how) ==
    /\ conv' = Ended(how)
    /\ torn' = (torn \/ (how \notin {"done", "nothing"} /\ Links # conv.was))

\* import_submodules(apply, recursive): the levels are read once.
Begin(tree, cmd) ==
    conv' = IF RootFirst(tree) = <<>> THEN Ended("nothing")
            ELSE [at |-> "preflight", cmd |-> cmd, levels |-> RootFirst(tree), left |-> <<>>,
                  was |-> [r \in Repos |-> tree[r].linked]]

Import ==
    /\ Idle /\ typed < MaxRuns /\ typed' = typed + 1
    /\ Begin(checkout, "import") /\ UNCHANGED <<checkout, disturbed, torn, edits>>

\* CloneGuard: a checkout that is not the root and holds what no remote has.
Guarded == \E r \in Repos \ {1} : Dirty(r, {}) \/ checkout[r].ahead

\* initialise_cgs: the root stays, every other repository is cloned anew on its branch, and every
\* holder's .gitignore is brought up to date.
Installed ==
    [r \in Repos |->
        IF r = 1
        THEN [checkout[1] EXCEPT !.dirt = IF \A c \in Children(1) : checkout[c].listed THEN @ ELSE @ \cup {"ignore"}]
        ELSE [Pristine(r) EXCEPT !.linked = Holder[r] = 1 => checkout[r].linked, !.listed = TRUE,
                                 !.moved = r \in Behind, !.dirt = IF Children(r) = {} THEN {} ELSE {"ignore"}]]
\* _assert_adoptable, without --force.
Adoptable == checkout[1].modules
\* init_from_submodules
Adopt ==
    /\ Idle /\ typed < MaxRuns /\ typed' = typed + 1
    /\ IF ~Adoptable THEN conv' = Ended("not adoptable") /\ UNCHANGED checkout
       ELSE IF Guarded THEN conv' = Ended("guarded") /\ UNCHANGED checkout
       ELSE checkout' = Installed /\ Begin(Installed, "init")
    /\ UNCHANGED <<disturbed, torn, edits>>

Quiet == UNCHANGED <<disturbed, typed, edits>>
Level == Head(conv.levels)

\* Every submodule of a level is asked before the first of it is converted.
Preflight ==
    /\ conv.at = "preflight" /\ UNCHANGED checkout /\ Quiet
    /\ IF \E c \in Children(Level) : Blocks(c) THEN End("refused")
       ELSE conv' = [conv EXCEPT !.at = "convert", !.left = InOrder(Children(Level))] /\ UNCHANGED torn

\* git rm --cached, of what the index has.
Unlink ==
    /\ conv.at = "convert" /\ conv.left # <<>> /\ Quiet
    /\ IF ~checkout[Head(conv.left)].linked THEN End("failed") /\ UNCHANGED checkout
       ELSE /\ checkout' = [checkout EXCEPT ![Head(conv.left)].linked = FALSE, ![Level].dirt = @ \cup {"staged"}]
            /\ conv' = [conv EXCEPT !.at = "ignore"] /\ UNCHANGED torn

\* _update_gitignore_file: what is missing is appended.
Ignore ==
    /\ conv.at = "ignore" /\ Quiet
    /\ LET c == Head(conv.left) IN
       checkout' = IF checkout[c].listed THEN checkout
                   ELSE [checkout EXCEPT ![c].listed = TRUE, ![Level].dirt = @ \cup {"ignore"}]
    /\ conv' = [conv EXCEPT !.at = "convert", !.left = Tail(@)] /\ UNCHANGED torn

\* .gitmodules goes from the index and from the disk; then the next level.
Drop ==
    /\ conv.at = "convert" /\ conv.left = <<>> /\ Quiet
    /\ checkout' = [checkout EXCEPT ![Level].modules = FALSE, ![Level].dirt = @ \cup {"staged"}]
    /\ IF Len(conv.levels) = 1 THEN End("done")
       ELSE conv' = [conv EXCEPT !.at = "preflight", !.levels = Tail(@)] /\ UNCHANGED torn

-----------------------------------------------------------------------------
(* People *)

May == (Idle \/ During) /\ edits < MaxWork
Acts == edits' = edits + 1 /\ disturbed' = (disturbed \/ ~Idle) /\ UNCHANGED <<conv, torn, typed>>

Work(r) ==
    /\ May /\ "work" \notin checkout[r].dirt /\ Acts
    /\ checkout' = [checkout EXCEPT ![r].dirt = @ \cup {"work"}]
\* git add of its files and submodules, git commit.
Commit(r) ==
    /\ May /\ Dirty(r, {}) /\ Acts
    /\ checkout' = [x \in Repos |->
          IF x = r THEN [checkout[r] EXCEPT !.dirt = {}, !.ahead = TRUE, !.moved = checkout[r].linked]
          ELSE IF Holder[x] = r THEN [checkout[x] EXCEPT !.moved = FALSE] ELSE checkout[x]]
Kill ==
    /\ During /\ ~Idle /\ edits < MaxWork /\ edits' = edits + 1
    /\ End("killed") /\ disturbed' = TRUE /\ UNCHANGED <<checkout, typed>>

Next ==
    \/ Import \/ Adopt \/ Preflight \/ Unlink \/ Ignore \/ Drop \/ Kill
    \/ \E r \in Repos : Work(r) \/ Commit(r)

-----------------------------------------------------------------------------
(* Properties *)

Converted == \A c \in Repos \ {1} : ~checkout[c].linked /\ checkout[c].listed /\ ~checkout[c].modules

\* A command that nobody disturbs converts every submodule at every depth, or none; when it says
\* it is done, each is ignored by its holder and no .gitmodules is left, unless an earlier command was cut.
ConversionIsWhole ==
    /\ ~disturbed => ~torn
    /\ Idle /\ conv.how = "done" /\ ~torn => Converted

(* What does not hold. *)

\* What `submodules init` itself writes never blocks its own conversion.
OwnFilesNeverBlock == Idle /\ conv.how = "refused" => edits > 0 \/ Behind # {}
\* "Fix the cause above, then finish the job with submodules import --recursive": when that has
\* nothing left to do, nothing is left to do.
ImportFinishesTheJob == Idle /\ conv.how \in {"done", "nothing"} /\ typed > 0 => Converted
=============================================================================
