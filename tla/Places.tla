---------------------------------- MODULE Places ----------------------------------
(****************************************************************************)
(* Where a command works, before anything is loaded: the workspace and the  *)
(* State that are meant (tree/snapshot_resolver.py, tree/settings.py,       *)
(* tree/memory/pending.py, cli/cgshome_guard.py), and a path that one       *)
(* machine records and another reads (tree/paths.py).                       *)
(*                                                                          *)
(* A path is the sequence of its segments from the root of the disk; a      *)
(* recorded one may begin with a marker instead.                            *)
(****************************************************************************)
EXTENDS Naturals, Sequences, SequencesExt, FiniteSets, FiniteSetsExt

CONSTANT None

-----------------------------------------------------------------------------
(* The workspace *)

\* world: the directories that hold a .cgitsync, and the one the pointer file names.
Nearest(held, start) ==
    LET found == held \cap Prefixes(start)
    IN  IF found = {} THEN None ELSE CHOOSE p \in found : \A other \in found : Len(other) <= Len(p)

\* --search-dir, $CGSHOME, the current directory: the first that is given decides alone.
Given(call) ==
    IF call.search # None THEN [origin |-> "search", dir |-> call.search]
    ELSE IF call.env # None THEN [origin |-> "environment", dir |-> call.env]
    ELSE [origin |-> "directory", dir |-> call.cwd]

\* read_default_workspace: a pointer to a workspace that is gone is none. Mutant: whatever it says.
RecordedUnchecked(world) == world.pointer
Recorded(world) == IF world.pointer \in world.held THEN world.pointer ELSE None
\* default_workspace and _mint_default_workspace; a new one has a name nothing else has.
Default(world, now) ==
    IF Recorded(world) # None THEN world
    ELSE LET made == <<"cgs", now, "cgitsync">> IN [held |-> world.held \cup {made}, pointer |-> made]

\* describe_cgshome: the world afterwards, and the answer, or none.
Describe(world, call, now) ==
    LET given == Given(call)
        near  == Nearest(world.held, given.dir)
        after == Default(world, now)
    IN  IF near # None THEN [world |-> world, path |-> near, origin |-> given.origin]
        ELSE IF given.origin = "search" THEN [world |-> world, path |-> None, origin |-> None]
        ELSE [world |-> after, path |-> after.pointer, origin |-> "default"]

ContainsCwd(answer, call) == IsPrefix(answer.path, call.cwd)
\* CgshomeGuard: a writing command where $CGSHOME alone chose.
Guarded(answer, call) == answer.origin = "environment" /\ ~ContainsCwd(answer, call)

-----------------------------------------------------------------------------
(* The State *)

\* memory: its ledger entries and the States on disk, each in a half, the State whose file is the
\* newest, and the one that an old register names.
LastEntry(entries) ==
    CHOOSE e \in entries : \A other \in entries :
        other.seq < e.seq \/ (other.seq = e.seq /\ (other.half = "folded" \/ e.half = "pending"))
\* state_path: wherever it is. Mutant: in the half of the entry.
StateAtItsEntry(memory, e) == e.state \in memory.files[e.half]
StateAt(memory, e) == \E half \in {"folded", "pending"} : e.state \in memory.files[half]
\* current_state_from_ledger
FromLedger(memory) ==
    IF memory.entries = {} THEN None
    ELSE LET e == LastEntry(memory.entries) IN IF StateAt(memory, e) THEN e.state ELSE None
\* describe_gts_path
Current(memory) ==
    LET ledger == FromLedger(memory)
        there  == memory.files.folded \cup memory.files.pending
    IN  IF ledger # None THEN [state |-> ledger, origin |-> "ledger"]
        ELSE IF memory.register # None THEN [state |-> memory.register, origin |-> "register"]
        ELSE IF there # {} THEN [state |-> memory.newest, origin |-> "most recent"]
        ELSE [state |-> None, origin |-> None]

-----------------------------------------------------------------------------
(* A recorded path *)

TreeMarker == "$CGSTREE"
After(path, base) == SubSeq(path, Len(base) + 1, Len(path))

\* against_tree
AgainstTree(path, tree) == IF IsPrefix(tree, path) THEN <<TreeMarker>> \o After(path, tree) ELSE None

\* environment_markers: of two variables with one value, the first.
Markers(env) ==
    <<<<"$HOME", env.home>>>>
    \o IF env.profile \in {None, env.home} THEN <<>> ELSE <<<<"%USERPROFILE%", env.profile>>>>
\* to_environment_marker: the first that holds the path.
ToMarker(path, env) ==
    LET under == SelectSeq(Markers(env), LAMBDA m : IsPrefix(m[2], path))
    IN  IF under = <<>> THEN path ELSE <<under[1][1]>> \o After(path, under[1][2])
\* expand_environment_markers
Expand(raw, env) ==
    IF raw = <<>> THEN raw
    ELSE IF raw[1] = "$HOME" THEN env.home \o Tail(raw)
    ELSE IF raw[1] = "%USERPROFILE%" /\ env.profile # None THEN env.profile \o Tail(raw) ELSE raw
\* from_tree
FromTree(raw, tree, env) ==
    IF raw # <<>> /\ raw[1] = TreeMarker THEN tree \o Tail(raw) ELSE Expand(raw, env)

-----------------------------------------------------------------------------
(* What they promise; an input is one question *)

Home   == <<"home">>
Work   == <<"home", "work">>
Inside == <<"home", "work", "lib">>
Spare  == <<"spare">>
Dirs   == {Home, Work, Inside, Spare}
Lost   == <<"cgs", "then", "cgitsync">>  \* a default workspace that was deleted

Calls  == [search : {None, Work, Spare}, env : {None, Work, Spare, Home}, cwd : Dirs]
Finds  == [kind : {"places"}, about : {"workspace"}, held : SUBSET {Home, Work, Inside}, pointer : {None, Lost, Work},
           first : {c \in Calls : c.search = None /\ c.env \in {None, Spare}}, next : Calls]
Entries == [seq : 1..2, half : {"folded", "pending"}, state : {"s", "t"}]
Halves  == {m \in [entries : {e \in SUBSET Entries : Cardinality(e) <= 2},
                   files : [folded : SUBSET {"s", "t"}, pending : SUBSET {"s", "t"}], newest : {"s", "t"}, register : {None, "r"}] :
              /\ m.files.folded \cup m.files.pending \in {{}, {m.newest}, {"s", "t"}}
              \* numbers go on across the fold
              /\ \A a, b \in m.entries : a # b => a.seq # b.seq /\ (a.half = "pending" /\ b.half = "folded" => a.seq > b.seq)}
Envs == [home : {Home, <<"u">>}, profile : {None, Home, <<"u">>, Spare}]
Questions ==
    Finds
    \cup [kind : {"places"}, about : {"state"}, memory : Halves]
    \cup [kind : {"places"}, about : {"path"}, path : {Work, Inside, Home, Spare, <<"u", "x">>},
          tree : {Work, <<"u">>}, env : Envs, otherTree : {Home, Spare, <<"u", "x">>}, otherEnv : Envs]

\* A writing command works where one stands, or where one pointed, or where nothing else was found;
\* it works in a workspace; a directory that was named is never replaced; and the default workspace
\* stays the one it was.
WorksWhereMeant(q) ==
    LET first  == Describe([held |-> q.held, pointer |-> q.pointer], q.first, "now")
        second == Describe(first.world, q.next, "later")
        Meant(answer, call) ==
            /\ answer.path \in {None} \cup answer.world.held
            /\ call.search # None => answer.path \in {None} \cup Prefixes(call.search)
            /\ answer.path # None /\ ~Guarded(answer, call) =>
                  ContainsCwd(answer, call) \/ call.search # None \/ answer.origin = "default"
    IN  /\ Meant(first, q.first)
        /\ Meant(second, q.next)
        /\ first.origin = "default" /\ second.origin = "default" => first.path = second.path

\* The State that is current stays so wherever a fold stops: it moves the entries first to last, and
\* then the States.
Folded(memory, upto, moved) ==
    [memory EXCEPT !.entries = {[e EXCEPT !.half = IF e.seq <= upto THEN "folded" ELSE @] : e \in memory.entries},
                   !.files = [folded |-> @.folded \cup moved, pending |-> @.pending \ moved]]
Halfway(memory) ==
    {Folded(memory, upto, {}) : upto \in 1..2} \cup {Folded(memory, 2, moved) : moved \in SUBSET memory.files.pending}
FoldKeepsTheState(memory) == \A stopped \in Halfway(memory) : Current(stopped) = Current(memory)

\* What is recorded against the tree means the same in every workspace and is written the same from
\* there; what older States recorded means on its own machine what it meant.
PathsTravel(q) ==
    /\ LET raw == AgainstTree(q.path, q.tree) IN
       raw # None => LET there == FromTree(raw, q.otherTree, q.otherEnv) IN
           there = q.otherTree \o After(q.path, q.tree) /\ AgainstTree(there, q.otherTree) = raw
    /\ FromTree(ToMarker(q.path, q.env), q.tree, q.env) = q.path

Right(q) ==
    CASE q.about = "workspace" -> WorksWhereMeant(q)
      [] q.about = "state"     -> FoldKeepsTheState(q.memory)
      [] q.about = "path"      -> PathsTravel(q)

(* What does not hold. *)

\* "3. Walk up from the current working directory": who stands in a workspace and names none is not
\* given the default one.
StandingInOneIsEnough(q) ==
    q.about = "workspace" => LET answer == Describe([held |-> q.held, pointer |-> q.pointer], q.first, "now") IN
        answer.origin = "default" => Nearest(q.held, q.first.cwd) = None
\* A path that an older State recorded on another machine is a place of this one.
OldPathsTravel(q) ==
    q.about = "path" => LET raw == ToMarker(q.path, q.env) IN
        FromTree(raw, q.tree, q.otherEnv) = <<>> \/ FromTree(raw, q.tree, q.otherEnv)[1] \notin {"$HOME", "%USERPROFILE%"}
=============================================================================
