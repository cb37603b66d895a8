---------------------------------- MODULE Reading ----------------------------------
(****************************************************************************)
(* What a memory answers (orchestre/memory_commands.py,                     *)
(* tree/memory/pending.py, tree/memory/commit_log.py, tree/memory/as_of.py, *)
(* orchestre/memory_chapters.py): its entries, States, environment records  *)
(* and commit rows are read in two halves, folded and pending, as one; a    *)
(* chapter that is not checked out is read from the memory's branches.      *)
(*                                                                          *)
(* A memory is its four stores, each a set of what is in each half.  A name *)
(* is a hash, the sequence of its digits.                                   *)
(****************************************************************************)
EXTENDS Naturals, Sequences, SequencesExt, FiniteSets, FiniteSetsExt

CONSTANT None

Halves == {"folded", "pending"}
Both(store) == store.folded \cup store.pending

-----------------------------------------------------------------------------
(* Entries in time *)

\* AsOf.select: times is what each entry says, in chain order, or none.
Select(times, moment) ==
    Max({0} \cup {i \in DOMAIN times : times[i] # None /\ times[i] <= moment})
\* _check_time_monotonic: against the last entry that has a time. Mutant: against the one before.
RegressesFromTheOneBefore(times, i) ==
    /\ i > 1 /\ None \notin {times[i], times[i - 1]}
    /\ times[i] < times[i - 1]
Regresses(times, i) ==
    LET dated == {k \in 1..(i - 1) : times[k] # None}
    IN  times[i] # None /\ dated # {} /\ times[i] < times[Max(dated)]
\* resolve_state of a chain whose links hold.
Reliable(times) == times # <<>> /\ \A i \in DOMAIN times : ~Regresses(times, i)
\* memory_as_of
AsOf(times, moment) == [entry |-> Select(times, moment), reliable |-> Reliable(times)]

-----------------------------------------------------------------------------
(* The two halves *)

\* state_files, environment_files: every file, so that a name can be there twice.
Matching(store, prefix) == {f \in {<<h, name>> : h \in Halves, name \in Both(store)} :
                               f[2] \in store[f[1]] /\ IsPrefix(prefix, f[2])}
\* normalise_state_argument and its sibling: a whole id, a label, or what was typed.
Normalised(arg) == IF arg.form = "id" /\ Len(arg.text) < 2 THEN <<"(", "">> ELSE arg.text

RowsIn(half, rows, table) == {r \in rows[half] : r.table = table}
\* commit_log_rows, of one entry. Mutant: the pending log of a State that has a folded one is not read.
RowsOfFolded(memory, table, seq) ==
    {r \in RowsIn("folded", memory.rows, table) \cup RowsIn("pending", memory.rows, table) :
        /\ r.entry = seq
        /\ r \in memory.rows.folded \/ \A other \in memory.rows.folded : other.state # r.state}
RowsOf(memory, table, seq) ==
    {r \in RowsIn("folded", memory.rows, table) \cup RowsIn("pending", memory.rows, table) : r.entry = seq}
\* read_commit_log: the folded log of the State, when there is one.
LogOf(memory, state) ==
    LET log(half) == {r \in memory.rows[half] : r.state = state}
    IN  IF log("folded") # {} THEN log("folded") ELSE log("pending")
\* resolve_references: wherever the record is.
EnvironmentOf(memory, e) == IF e.env \in Both(memory.envs) THEN e.env ELSE None

\* memory_show
Show(memory, arg) ==
    LET found == Matching(memory.states, Normalised(arg))
        state == (CHOOSE f \in found : TRUE)[2]
        log   == LogOf(memory, state)
        named == {e \in Both(memory.entries) : e.state = state}
    IN  IF Cardinality(found) # 1 THEN [matches |-> Cardinality(found)]
        ELSE [state |-> state,
              entries |-> {[seq |-> e.seq, env |-> EnvironmentOf(memory, e),
                            commits |-> {[sha |-> r.sha, published |-> \E p \in log : p.table = "published" /\ p.sha = r.sha] :
                                            r \in {r \in log : r.table = "commit" /\ r.entry = e.seq}}] : e \in named}]
\* memory_show_environment
ShowEnvironment(memory, arg) ==
    LET found == Matching(memory.envs, Normalised(arg))
    IN  IF Cardinality(found) # 1 THEN [matches |-> Cardinality(found)] ELSE [env |-> (CHOOSE f \in found : TRUE)[2]]

\* memory_list: of a State that is there twice, only the first row has its entries.
List(memory) ==
    LET named(state) == {e.seq : e \in {e \in Both(memory.entries) : e.state = state}}
        first(f) == f[1] = "folded" \/ f[2] \notin memory.states.folded
    IN  {[state |-> f[2], half |-> f[1], entries |-> IF first(f) THEN named(f[2]) ELSE {}] : f \in Matching(memory.states, <<>>)}
        \cup {[state |-> e.state, half |-> None, entries |-> named(e.state)] :
                 e \in {e \in Both(memory.entries) : e.state \notin Both(memory.states)}}
\* timeline
Timeline(memory) ==
    {[seq |-> e.seq, state |-> e.state,
      commits |-> {r.sha : r \in RowsOf(memory, "commit", e.seq)},
      published |-> {r.sha : r \in RowsOf(memory, "published", e.seq)}] : e \in Both(memory.entries)}
\* published_commits: each half joins its own rows.
PublishedIn(half, rows) ==
    {r.sha : r \in {r \in RowsIn(half, rows, "commit") :
                       \E p \in RowsIn(half, rows, "published") : p.sha = r.sha /\ p.state = r.state}}
PublishedCommits(memory) == PublishedIn("folded", memory.rows) \cup PublishedIn("pending", memory.rows)
\* resolve_ledger_state: an entry names it, and it is there whole.
Resolves(memory, state) ==
    (\E e \in Both(memory.entries) : e.state = state) /\ state \in Both(memory.states) \ memory.damaged

\* repos_written_between: trees of the repositories' names and commits, by path; names need not differ.
WrittenBetween(before, after) ==
    LET shas(name) == {before[d].sha : d \in {d \in DOMAIN before : before[d].name = name}}
    IN  {d \in DOMAIN after : after[d].sha \notin shas(after[d].name)}
\* self_history_add: what a record cites, or none when it is refused.
Recorded(memory, before, after) ==
    LET cited == {before, after} \ {None}
    IN  IF \A state \in cited : Resolves(memory, state) THEN cited ELSE None

-----------------------------------------------------------------------------
(* Chapters *)

\* world: branch, of the names a chapter goes by the tips they are at, here and on origin; kept, the
\* keep-merges of each ancestors branch, newest first; moves, what the ledger records, newest first.
Names == <<<<"heads", "c">>, <<"origin", "c">>, <<"heads", "closed/c">>, <<"origin", "closed/c">>>>
AncestorsRefs(world) ==
    LET recorded == {m.to : m \in ToSet(world.moves)}
    IN  IF recorded # {} THEN recorded \cap DOMAIN world.kept ELSE DOMAIN world.kept
RecordedTip(world) ==
    LET moved == SelectSeq(world.moves, LAMBDA m : /\ m.from \in {"c", "closed/c"}
                                                   /\ m.to \in DOMAIN world.kept
                                                   /\ \E k \in ToSet(world.kept[m.to]) : k.tip = m.tip)
    IN  IF moved = <<>> THEN None ELSE moved[1].tip
\* preserved_reading
KeptTips(world, ref) == SelectSeq(world.kept[ref], LAMBDA k : k.from \in {"c", "closed/c"})
\* locate
Locate(world) ==
    LET there == SelectSeq(Names, LAMBDA name : world.branch[name] # None)
        refs  == {ref \in AncestorsRefs(world) : KeptTips(world, ref) # <<>>}
    IN  IF there # <<>> THEN world.branch[there[1]]
        ELSE IF RecordedTip(world) # None THEN RecordedTip(world)
        ELSE IF refs # {} THEN KeptTips(world, CHOOSE ref \in refs : TRUE)[1].tip ELSE None
\* find_state: in every branch and in everything that ancestors keeps; a tip holds the States up to it.
FindState(world, state) ==
    \/ \E name \in DOMAIN world.branch : world.branch[name] # None /\ state <= world.branch[name]
    \/ \E ref \in AncestorsRefs(world) : \E k \in ToSet(world.kept[ref]) : state <= k.tip

-----------------------------------------------------------------------------
(* What they promise; an input is one question *)

A == <<"a", "a">>
B == <<"a", "b">>
Args == {[form |-> "bare", text |-> <<"a">>], [form |-> "bare", text |-> A], [form |-> "label", text |-> B],
         [form |-> "id", text |-> A], [form |-> "id", text |-> <<"a">>]}
Commands  == [state : {A, B}, env : {A, B}, does : {"nothing", "commit", "push"}]
Histories == UNION {[1..n -> Commands] : n \in 1..3}
Times == UNION {[1..n -> {None} \cup 1..3] : n \in 0..4}
Shas  == {1, 2}
Trees == UNION {[dirs -> [name : {"n", "o"}, sha : Shas]] : dirs \in SUBSET {"x", "y"}}
\* A chapter's life: it is closed, deleted, and opened again at another commit; a ref can be left over.
Worlds ==
    [branch : [ToSet(Names) -> {None, 1, 2}],
     kept   : [{"ancestors"} -> {<<>>, <<[from |-> "c", tip |-> 2]>>, <<[from |-> "closed/c", tip |-> 2], [from |-> "d", tip |-> 3]>>}],
     moves  : {<<>>, <<[from |-> "c", to |-> "ancestors", tip |-> 2]>>, <<[from |-> "d", to |-> "elsewhere", tip |-> 3]>>}]
Questions ==
    [kind : {"reading"}, about : {"halves"}, history : Histories]
    \cup [kind : {"reading"}, about : {"time"}, times : Times]
    \cup [kind : {"reading"}, about : {"written"}, before : Trees, after : Trees]
    \cup [kind : {"reading"}, about : {"chapter"}, world : Worlds]

\* A push publishes every commit that none did before it, under the State of the commit.
PushedAt(history, j) ==
    LET pushes == {i \in DOMAIN history : i > j /\ history[i].does = "push"}
    IN  IF history[j].does = "commit" /\ pushes # {} THEN Min(pushes) ELSE None
Written(history) ==
    {[table |-> "commit", state |-> history[i].state, sha |-> i, entry |-> i] : i \in {i \in DOMAIN history : history[i].does = "commit"}}
    \cup {[table |-> "published", state |-> history[j].state, sha |-> j, entry |-> PushedAt(history, j)] :
             j \in {j \in DOMAIN history : PushedAt(history, j) # None}}
\* The memory of a history whose first k commands were folded, and of a fold that stopped after some stores.
Store(items, k, moved) ==
    [folded  |-> {x.it : x \in {x \in items : x.at <= k \/ moved}}, pending |-> {x.it : x \in {x \in items : x.at > k /\ ~moved}}]
Memory(history, k, stores) ==
    LET of(F(_)) == {[at |-> i, it |-> F(i)] : i \in DOMAIN history}
    IN  [entries |-> Store(of(LAMBDA i : [seq |-> i, state |-> history[i].state, env |-> history[i].env]), k, stores >= 1),
         states  |-> Store(of(LAMBDA i : history[i].state), k, stores >= 2),
         envs    |-> Store(of(LAMBDA i : history[i].env), k, stores >= 3),
         rows    |-> Store({[at |-> r.entry, it |-> r] : r \in Written(history)}, k, stores >= 4),
         damaged |-> {}]
Once(store) == store.folded \cap store.pending = {}
LogsInOne(memory) == \A r \in memory.rows.folded, p \in memory.rows.pending : r.state # p.state

\* Wherever a fold is, stopped or not, the timeline is the history and what a record may cite is the
\* same; and when no name is there twice and no log is in two halves, every other answer is too.
ReadsAsOne(q) ==
    \A whole \in {Memory(q.history, 0, 0)} : \A k \in 0..Len(q.history), stores \in 0..4 :
        \A memory \in {Memory(q.history, k, stores)} :
            /\ Timeline(memory) =
                  {[seq |-> i, state |-> q.history[i].state,
                    commits |-> {j \in {i} : q.history[j].does = "commit"},
                    published |-> {j \in DOMAIN q.history : PushedAt(q.history, j) = i}] : i \in DOMAIN q.history}
            /\ \A before, after \in {None, A, B} : Recorded(memory, before, after) = Recorded(whole, before, after)
            /\ Once(memory.states) =>
                  {<<r.state, r.entries>> : r \in List(memory)} = {<<r.state, r.entries>> : r \in List(whole)}
            /\ Once(memory.states) /\ LogsInOne(memory) =>
                  \A arg \in Args : Show(memory, arg) = Show(whole, arg)
            /\ Once(memory.envs) => \A arg \in Args : ShowEnvironment(memory, arg) = ShowEnvironment(whole, arg)
            /\ LogsInOne(memory) => PublishedCommits(memory) = {j \in DOMAIN q.history : PushedAt(q.history, j) # None}

\* An answer that is called reliable names the entry the workspace was at: what is dated up to it had
\* happened, what is dated after it had not. And a later moment never gives an earlier entry.
AsOfIsTrue(q) ==
    \A moment \in 0..4 : LET answer == AsOf(q.times, moment) IN
        /\ answer.reliable => \A i \in DOMAIN q.times :
              q.times[i] # None => (i <= answer.entry <=> q.times[i] <= moment)
        /\ Select(q.times, moment) <= Select(q.times, moment + 1)

\* Between two trees whose repositories have different names, what is new or moved was written.
OneName(tree) == \A d, e \in DOMAIN tree : d # e => tree[d].name # tree[e].name
SameNames(q) == \A d \in DOMAIN q.before \cap DOMAIN q.after : q.before[d].name = q.after[d].name
WrittenIsWhatMoved(q) ==
    OneName(q.before) /\ OneName(q.after) /\ SameNames(q) /\ DOMAIN q.before = DOMAIN q.after =>
        WrittenBetween(q.before, q.after) = {d \in DOMAIN q.after : q.before[d] # q.after[d]}

\* A chapter that some ref or the ledger's own record leads to is found, a branch before what is kept
\* of it; and every State up to where it was found can be.
ChapterIsFound(q) ==
    LET at   == Locate(q.world)
        kept == \E k \in ToSet(q.world.kept.ancestors) : k.from \in {"c", "closed/c"}
        open == {q.world.branch[name] : name \in ToSet(Names)} \ {None}
    IN  /\ open # {} => at \in open
        /\ open = {} /\ kept /\ "elsewhere" \notin {m.to : m \in ToSet(q.world.moves)} => at = 2
        /\ at # None => \A state \in 1..at : FindState(q.world, state)

Right(q) ==
    CASE q.about = "halves"  -> ReadsAsOne(q)
      [] q.about = "time"    -> AsOfIsTrue(q)
      [] q.about = "written" -> WrittenIsWhatMoved(q)
      [] q.about = "chapter" -> ChapterIsFound(q)

(* What does not hold. *)

\* "state may be the full content hash", and an environment's as well: after a fold the next command
\* writes a record of the same name, and that name is then said to match more than one.
AWholeNameIsFound(q) ==
    q.about = "halves" => \A k \in 0..Len(q.history) : \A i \in DOMAIN q.history :
        ShowEnvironment(Memory(q.history, k, 0), [form |-> "id", text |-> q.history[i].env]) = [env |-> q.history[i].env]
\* "a commit published before the last fold and one published since are one list to a reader".
PublishedIsOneList(q) ==
    q.about = "halves" => \A k \in 0..Len(q.history) :
        PublishedCommits(Memory(q.history, k, 0)) = {j \in DOMAIN q.history : PushedAt(q.history, j) # None}
\* "any repository whose commit changed between them was written".
ChangedIsWritten(q) ==
    q.about = "written" => {d \in DOMAIN q.after : d \notin DOMAIN q.before \/ q.before[d].sha # q.after[d].sha}
                               \subseteq WrittenBetween(q.before, q.after)
\* What ancestors keeps of a chapter is found whatever the ledger records of others.
KeptIsFound(q) ==
    q.about = "chapter" =>
        ((\E k \in ToSet(q.world.kept.ancestors) : k.from \in {"c", "closed/c"}) => Locate(q.world) # None)
=============================================================================
