------------------------------- MODULE Records -------------------------------
(****************************************************************************)
(* What a memory writes so that it can be checked later: the State with its *)
(* hashes (tree/gts_document.py), the entry of the ledger and the file it   *)
(* is read back from (tree/memory/ledger_entry.py, ledger_store.py,         *)
(* integrity.py), the contract that `current` names and the record of a     *)
(* piece of work (agent_contract.py, self_history.py, conformity.py), and   *)
(* the events of the register that came before (store.py).                  *)
(*                                                                          *)
(* A hash is what it is computed from: two are equal when that is.          *)
(****************************************************************************)
EXTENDS Integers, Sequences, FiniteSets, SequencesExt

Absent == "absent"
Unset  == <<>>

-----------------------------------------------------------------------------
(* A State and its hashes *)

Schema   == 1
RefKeys == {"current", "target", "resolved"}
Tokens   == {"branch:main", "tag:v1"}

\* _repo_ref_pair, _repo_ref_token: the prefix's own key, or `ref` for all three; a value
\* that names no kind is set aside for the older pair of keys.
Token(repo, prefix) ==
    LET compact == IF repo.compact[prefix] = Absent THEN repo.ref ELSE repo.compact[prefix]
    IN  IF compact \in Tokens THEN compact ELSE repo.older[prefix]

\* repo_leaf. Mutant: what is checked out is not in it.
LeafWithoutCommit(repo) ==
    [path |-> repo.path, name |-> repo.name, lifecycle |-> repo.lifecycle,
     refs |-> [p \in RefKeys |-> Token(repo, p)],
     fallback |-> IF repo.fallback = Absent THEN "main" ELSE repo.fallback,
     reach |-> repo.reach # "no"]
Leaf(repo) ==
    [path |-> repo.path, name |-> repo.name, lifecycle |-> repo.lifecycle, sha |-> repo.sha,
     refs |-> [p \in RefKeys |-> Token(repo, p)],
     fallback |-> IF repo.fallback = Absent THEN "main" ELSE repo.fallback,
     reach |-> repo.reach # "no"]
Leaves(doc) == {Leaf(doc.repos[i]) : i \in DOMAIN doc.repos}
\* check_leaves: every leaf has a path, and one of its own.
OneTree(doc) ==
    /\ \A leaf \in Leaves(doc) : leaf.path # ""
    /\ \A i, j \in DOMAIN doc.repos : i # j => doc.repos[i].path # doc.repos[j].path

RepoHash(repo) == <<"repo", Leaf(repo)>>
\* gittree_root sorts the leaves: their order in the document is not in it.
TreeHash(doc) == <<"tree", {RepoHash(doc.repos[i]) : i \in DOMAIN doc.repos}>>
\* _state_payload, state_hash
StateHash(doc) ==
    <<"state", [name |-> doc.name, lifecycle |-> doc.lifecycle, ready |-> doc.ready, tree |-> TreeHash(doc),
                manifest |-> [tag |-> doc.tag, release |-> doc.release, sound |-> doc.sound]]>>

\* _check_integrity_schema. Mutant: the stamp's own schema is not looked at.
GuardNewer(doc) == IF doc.schema > Schema THEN "newer" ELSE "read"
Guard(doc) ==
    CASE doc.schema > Schema                        -> "newer"
      [] doc.stamp # Unset /\ doc.schema # Schema   -> "older"
      [] OTHER                                      -> "read"

\* ensure_snapshot_hash: the leaves are checked before anything is stamped.
Seal(doc) ==
    IF ~OneTree(doc) THEN doc
    ELSE [doc EXCEPT !.schema = Schema, !.root = TreeHash(doc), !.stamp = StateHash(doc),
                     !.repos = [i \in DOMAIN doc.repos |-> [doc.repos[i] EXCEPT !.hash = RepoHash(doc.repos[i])]]]

\* integrity_mismatches: every one, from the repositories up.
Mismatches(doc) ==
    {<<"repo", doc.repos[i].path>> : i \in {k \in DOMAIN doc.repos : doc.repos[k].hash # RepoHash(doc.repos[k])}}
    \cup (IF doc.root # TreeHash(doc) THEN {<<"root", "">>} ELSE {})
    \cup (IF doc.stamp # StateHash(doc) THEN {<<"stamp", "">>} ELSE {})

\* validate: the keys that are missing, what is no tree, a READY State without a repository, a READY
\* repository without a commit or a ref, and the manifest that a freeze writes.
Faulty(doc) ==
    \/ ~OneTree(doc)
    \/ doc.ready = "yes" /\ doc.repos = <<>>
    \/ \E i \in DOMAIN doc.repos :
           \/ doc.repos[i].name = ""
           \/ doc.repos[i].lifecycle = "READY" /\ doc.repos[i].sha = ""
           \/ \A p \in RefKeys : Token(doc.repos[i], p) = Absent
FaultyManifest(doc) ==
    doc.origin = "freeze" /\ (\/ doc.sound # "yes"
                              \/ doc.tag \in {Absent, ""}
                              \/ doc.release # Absent /\ doc.release # doc.tag)
Verdict(doc) ==
    CASE Guard(doc) # "read"  -> Guard(doc)
      [] Faulty(doc)          -> "invalid"
      [] FaultyManifest(doc)  -> "invalid"
      [] doc.stamp # Unset /\ Mismatches(doc) # {} -> "mismatch"
      [] OTHER                -> "ok"

\* unmeasured: the topology of a State that another build stamped.
Unmeasured(doc) ==
    [doc EXCEPT !.schema = 0, !.root = Unset, !.stamp = Unset,
                !.repos = [i \in DOMAIN doc.repos |-> [doc.repos[i] EXCEPT !.hash = Unset]]]

\* What happens to a file between the command that wrote it and the one that reads it.
Edited(doc, edit) ==
    CASE edit.kind = "none" -> doc
      [] edit.kind = "repo" -> [doc EXCEPT !.repos[edit.at] = [@ EXCEPT ![edit.field] = edit.to]]
      [] edit.kind = "doc"  -> [doc EXCEPT ![edit.field] = edit.to]
      [] edit.kind = "hash" -> [doc EXCEPT !.repos[edit.at] = [@ EXCEPT !.hash = <<"other">>]]
      [] edit.kind = "mark" -> [doc EXCEPT ![edit.field] = IF edit.gone THEN Unset ELSE <<"other">>]
      [] edit.kind = "swap" -> [doc EXCEPT !.repos = Reverse(@)]
      [] edit.kind = "drop" -> [doc EXCEPT !.repos = RemoveAt(@, edit.at)]
      [] edit.kind = "copy" -> [doc EXCEPT !.repos = Append(@, @[edit.at])]
      [] edit.kind = "refs" -> [doc EXCEPT !.repos[edit.at] = [@ EXCEPT !.ref = Absent,
                                           !.older = [p \in RefKeys |-> "branch:main"]]]

Written(path, name, sha) ==
    [path |-> path, name |-> name, sha |-> sha, lifecycle |-> "READY", ref |-> "branch:main",
     compact |-> [p \in RefKeys |-> Absent], older |-> [p \in RefKeys |-> Absent],
     fallback |-> Absent, reach |-> "yes", via |-> "ssh", writes |-> "yes", place |-> "here", hash |-> Unset]
Document(origin, tag) ==
    [name |-> "project", lifecycle |-> "READY", ready |-> "yes", origin |-> origin, tag |-> tag, release |-> tag,
     sound |-> "yes", where |-> "here", built |-> "now", schema |-> 0, root |-> Unset, stamp |-> Unset,
     repos |-> <<Written(".", "root", "1"), Written("lib", "lib", "2")>>]

\* What a State attests, what it only carries, and what attests the rest.
AttestedOfRepo == {<<"sha", "3">>, <<"sha", "">>, <<"name", "z">>, <<"path", "z">>, <<"path", "">>, <<"path", "lib">>,
                   <<"ref", "tag:v1">>, <<"ref", "main">>, <<"fallback", "dev">>, <<"reach", "no">>, <<"lifecycle", "ERROR">>}
AttestedOfTree == {<<"name", "z">>, <<"lifecycle", "ERROR">>, <<"ready", "no">>, <<"tag", "v2">>, <<"release", "v2">>, <<"sound", "no">>}
Carried == {<<"via", "https">>, <<"writes", "no">>, <<"place", "there">>, <<"fallback", "main">>, <<"reach", Absent>>}
Edits ==
    {[kind |-> k] : k \in {"none", "swap"}}
    \cup [kind : {"drop", "copy", "refs", "hash"}, at : 1..2]
    \cup {[kind |-> "repo", at |-> i, field |-> c[1], to |-> c[2]] : i \in 1..2, c \in AttestedOfRepo \cup Carried}
    \cup {[kind |-> "mark", field |-> c[1], gone |-> c[2]] : c \in {<<"root", FALSE>>, <<"stamp", FALSE>>, <<"stamp", TRUE>>}}
    \cup {[kind |-> "doc", field |-> c[1], to |-> c[2]] :
              c \in AttestedOfTree \cup {<<"where", "there">>, <<"built", "then">>}}

OfRepo(edit) == edit.kind = "repo" /\ <<edit.field, edit.to>> \in AttestedOfRepo
OfTree(edit) == edit.kind = "doc" /\ edit.field \in {c[1] : c \in AttestedOfTree}
IsMark(edit) == edit.kind \in {"hash", "mark"}
NoEffect(doc, edit) ==
    \/ edit.kind \in {"none", "swap", "refs"}
    \/ edit.kind = "repo" /\ <<edit.field, edit.to>> \in Carried
    \/ edit.kind = "doc" /\ edit.field \in {"where", "built"}
    \/ edit.kind = "repo" /\ doc.repos[edit.at][edit.field] = edit.to
Upper == {<<"root", "">>, <<"stamp", "">>}

\* A State that was written is read back whatever place, protocol or build reads it, and another
\* spelling of the same refs is the same State; an edit of anything it attests is refused, and the
\* report names that repository and everything above it, or the one mark that was edited. One of
\* another schema is refused as such, damaged or not.
StateRight(q) ==
    LET sealed  == Seal(q.doc)
        damaged == [Edited(sealed, q.edit) EXCEPT !.schema = q.schema]
        found   == Mismatches(damaged)
    IN  /\ Verdict(sealed) = "ok" /\ Mismatches(sealed) = {} /\ Seal(sealed) = sealed
        /\ q.schema > Schema => Verdict(damaged) = "newer"
        /\ q.schema < Schema /\ damaged.stamp # Unset => Verdict(damaged) = "older"
        /\ q.schema = Schema =>
            /\ NoEffect(sealed, q.edit) => Verdict(damaged) = "ok" /\ Seal(damaged).stamp = sealed.stamp
            /\ ~NoEffect(sealed, q.edit) /\ damaged.stamp # Unset => Verdict(damaged) \in {"invalid", "mismatch"}
            /\ OfRepo(q.edit) /\ ~NoEffect(sealed, q.edit) =>
                   found = Upper \cup {<<"repo", damaged.repos[q.edit.at].path>>}
            /\ q.edit.kind = "drop" => found = Upper
            /\ OfTree(q.edit) /\ ~NoEffect(sealed, q.edit) => found = {<<"stamp", "">>}
            /\ IsMark(q.edit) => Cardinality(found) = 1
        /\ Leaves(Unmeasured(damaged)) = Leaves(damaged)
        /\ Verdict(Unmeasured(damaged)) = "ok" <=> ~Faulty(damaged) /\ ~FaultyManifest(damaged)

\* Does not hold: a State whose stamp is gone is read as one that is still being built.
EditIsNoticed(q) ==
    q.about = "state" =>
        LET sealed == Seal(q.doc)
        IN  ~NoEffect(sealed, q.edit) => Verdict(Edited(sealed, q.edit)) # "ok"

-----------------------------------------------------------------------------
(* An entry of the ledger and its file *)

Genesis == <<"genesis">>
\* What an older build never wrote is absent, and not an empty value.
If(present, pair) == IF present THEN {pair} ELSE {}

\* _canonical_payload. Mutant: an empty toolchain is written as one.
PayloadAlways(entry) ==
    {<<"seq", entry.seq>>, <<"prev", entry.prev>>, <<"at", entry.at>>, <<"command", entry.command>>,
     <<"toolchain", entry.tools>>, <<"commit_log", entry.log>>}
    \cup If(entry.release # {}, <<"release", entry.release>>)
    \cup If(entry.moves # <<>>, <<"relocations", entry.moves>>)
Payload(entry) ==
    {<<"seq", entry.seq>>, <<"prev", entry.prev>>, <<"at", entry.at>>, <<"command", entry.command>>}
    \cup If(entry.tools # {}, <<"toolchain", entry.tools>>)
    \cup If(entry.log # "", <<"commit_log", entry.log>>)
    \cup If(entry.env # "", <<"environment", entry.env>>)
    \cup If(entry.release # {}, <<"release", entry.release>>)
    \cup If(entry.moves # <<>>, <<"relocations", entry.moves>>)
\* compute_hash, recompute_hash
EntryHash(entry) == <<"entry", Payload(entry)>>

\* build_next, by this build or by an older one, which knew four of the fields.
OldPayload(entry) == {<<"seq", entry.seq>>, <<"prev", entry.prev>>, <<"at", entry.at>>, <<"command", entry.command>>}
BuildNext(chain, fact) ==
    LET entry == [seq |-> Len(chain) + 1, prev |-> IF chain = <<>> THEN Genesis ELSE Last(chain).hash,
                  at |-> fact.at, command |-> "command", tools |-> fact.tools, log |-> fact.log,
                  env |-> fact.env, release |-> fact.release, moves |-> fact.moves, by |-> fact.by, hash |-> Unset]
    IN  Append(chain, [entry EXCEPT !.hash = IF fact.by = "older" THEN <<"entry", OldPayload(entry)>>
                                                                  ELSE EntryHash(entry)])

\* _entry_to_toml_payload: the toolchain and the log are always there, in the files of this build.
File(entry) ==
    [entry EXCEPT !.tools = If(entry.by = "this build", @), !.log = If(entry.by = "this build", @),
                  !.env = If(@ # "", @), !.release = If(@ # {}, @), !.moves = If(@ # <<>>, @)]
OrElse(some, default) == IF some = {} THEN default ELSE CHOOSE x \in some : TRUE
\* _entry_from_toml_payload. Mutant: what came last to the format is not read.
EntryWithoutMoves(file) ==
    [file EXCEPT !.tools = OrElse(@, {}), !.log = OrElse(@, ""), !.env = OrElse(@, ""),
                 !.release = OrElse(@, {}), !.moves = <<>>]
Entry(file) ==
    [file EXCEPT !.tools = OrElse(@, {}), !.log = OrElse(@, ""), !.env = OrElse(@, ""),
                 !.release = OrElse(@, {}), !.moves = OrElse(@, <<>>)]

\* _check_hash_chain: the link is to what the entry before hashes to now, whatever it says it does,
\* and once one link does not hold, none after it does. Mutant: to what it says.
LinkAsStored(chain, i) == IF i = 0 THEN Genesis ELSE chain[i].hash
Recomputed(chain, i) == IF i = 0 THEN Genesis ELSE EntryHash(chain[i])
BrokenLinks(chain) == {i \in DOMAIN chain : \E k \in 1..i : chain[k].prev # Recomputed(chain, k - 1)}
BadHashes(chain) == {i \in DOMAIN chain : chain[i].hash # EntryHash(chain[i])}
\* _check_seq_integrity, over the numbers there are
MisCounted(chain) ==
    LET seqs == {chain[i].seq : i \in DOMAIN chain}
    IN  Cardinality(seqs) # Len(chain) \/ \E s \in seqs : s - 1 \notin seqs /\ \E t \in seqs : t < s
\* _check_time_monotonic passes over an entry with no moment.
Regressions(chain) ==
    LET dated == SelectSeq(chain, LAMBDA entry : entry.at # 0)
    IN  {dated[i].seq : i \in {k \in DOMAIN dated : k > 1 /\ dated[k].at < dated[k - 1].at}}
\* check_relocations
Unresolved(chain, gone) == {i \in DOMAIN chain : \E k \in DOMAIN chain[i].moves : chain[i].moves[k] \in gone}
\* resolve_state: damage before a clock that ran backwards
History(chain, gone) ==
    CASE chain = <<>> -> "none"
      [] BrokenLinks(chain) \cup BadHashes(chain) \cup Unresolved(chain, gone) # {} \/ MisCounted(chain) -> "corrupt"
      [] Regressions(chain) # {} -> "time"
      [] OTHER -> "verified"

\* What an entry records: as an older build did, with nothing more to say, and with all there is.
Fact(by, at) ==
    CASE by = "older" -> [by |-> "older", at |-> at, tools |-> {}, log |-> "", env |-> "", release |-> {}, moves |-> <<>>]
      [] by = "plain" -> [by |-> "this build", at |-> at, tools |-> {"git"}, log |-> "", env |-> "", release |-> {}, moves |-> <<>>]
      [] by = "rich"  -> [by |-> "this build", at |-> at, tools |-> {"git"}, log |-> "rows", env |-> "environment",
                          release |-> {"v1"}, moves |-> <<"kept">>]
\* And what the file of one of them is changed into.
Fields == {"seq", "prev", "at", "command", "tools", "log", "env", "release", "moves", "hash"}
Changed(file, field) ==
    CASE field = "seq"              -> [file EXCEPT !.seq = 9]
      [] field = "at"               -> [file EXCEPT !.at = 3]
      [] field = "command"          -> [file EXCEPT !.command = "other"]
      [] field = "tools"            -> [file EXCEPT !.tools = {{"other"}}]
      [] field \in {"log", "env"}   -> [file EXCEPT ![field] = {"other"}]
      [] field = "release"          -> [file EXCEPT !.release = {}]
      [] field = "moves"            -> [file EXCEPT !.moves = {<<"other">>}]
      [] field \in {"prev", "hash"} -> [file EXCEPT ![field] = <<"other">>]
Alterations(n) ==
    {[kind |-> "none", at |-> 0, rehash |-> FALSE]} \cup [kind : {"drop"}, at : 1..n, rehash : {TRUE}]
    \cup {[kind |-> "change", at |-> i, field |-> f, rehash |-> r] : i \in 1..n, f \in Fields, r \in BOOLEAN}
Altered(files, alter) ==
    CASE alter.kind = "none" -> files
      [] alter.kind = "drop" -> RemoveAt(files, alter.at)
      [] OTHER -> LET file == Changed(files[alter.at], alter.field)
                  IN  [files EXCEPT ![alter.at] = IF alter.rehash THEN [file EXCEPT !.hash = EntryHash(Entry(file))] ELSE file]

Chain(facts) == FoldLeft(BuildNext, <<>>, [i \in DOMAIN facts |-> Fact(facts[i][1], facts[i][2])])
ReadBack(files) == [i \in DOMAIN files |-> Entry(files[i])]

\* A ledger is read back as it was written, an older build's entries among this one's, and holds
\* unless its clock ran backwards or something it kept is no longer where it says. One changed entry
\* is found where it is, and from the entry after it on nothing is trusted; when its hash was made
\* again with it, by the entry after it alone.
ChainRight(q) ==
    LET chain == Chain(q.facts)
        gone  == IF q.kept THEN {} ELSE {"kept"}
        was   == [i \in DOMAIN chain |-> File(chain[i])]
        read  == ReadBack(Altered(was, q.alter))
        after == {i \in DOMAIN chain : i > q.alter.at}
        same  == read = ReadBack(was)
    IN  /\ ReadBack(was) = chain
        /\ BrokenLinks(chain) = {} /\ BadHashes(chain) = {} /\ ~MisCounted(chain)
        /\ same => History(read, gone) = CASE Unresolved(chain, gone) # {} -> "corrupt"
                                           [] Regressions(chain) # {}      -> "time"
                                           [] OTHER                        -> "verified"
        /\ q.alter.kind = "change" /\ ~same =>
            /\ BadHashes(read) = IF q.alter.rehash THEN {} ELSE {q.alter.at}
            /\ BrokenLinks(read) = CASE q.alter.field = "hash" -> {}
                                     [] q.alter.field = "prev" -> after \cup {q.alter.at}
                                     [] OTHER                  -> after
        /\ q.alter.kind # "none" /\ ~same /\ (~q.alter.rehash \/ after # {}) => History(read, gone) = "corrupt"

\* Does not hold: the newest entry, taken away or written again with its hash, leaves no trace.
LastEntryIsWitnessed(q) ==
    q.about = "chain" /\ q.alter.kind # "none" =>
        LET was  == [i \in DOMAIN q.facts |-> File(Chain(q.facts)[i])]
            read == ReadBack(Altered(was, q.alter))
        IN  read # ReadBack(was) => History(read, {}) \notin {"verified", "time"}

-----------------------------------------------------------------------------
(* The contract that was signed, and the one that `current` names *)

Terms    == {"a", "b"}
NoRecord == "no record"
\* AgentContractRecord.write, up to where it is killed: the record under the name of its digest,
\* then `current` emptied, then `current` written. Mutant: `current` first.
SignPointing(disk, signing) ==
    IF signing.reach = "temporary" THEN disk
    ELSE IF signing.reach = "record" THEN [disk EXCEPT !.current = signing.terms]
    ELSE [disk EXCEPT !.current = signing.terms, !.files = @ \cup {signing.terms}]
Sign(disk, signing) ==
    IF signing.reach = "temporary" \/ signing.terms \in disk.edited THEN disk
    ELSE [disk EXCEPT !.files = @ \cup {signing.terms},
                      !.current = CASE signing.reach = "record"  -> @
                                    [] signing.reach = "emptied" -> ""
                                    [] OTHER                     -> signing.terms]
\* AgentContractRecord.read: a record whose content is not what its name says is refused.
RecordOf(disk, terms) == IF terms \in disk.files \ disk.edited THEN terms ELSE "refused"
\* read_current
ReadCurrent(disk) == IF disk.current \in {"", NoRecord} THEN "nothing signed" ELSE RecordOf(disk, disk.current)

Signings == [terms : Terms, reach : {"temporary", "record", "emptied", "all"}]
Bare     == [files |-> {}, edited |-> {}, current |-> NoRecord]
SignedAll(signings) == FoldLeft(Sign, Bare, signings)

\* Whatever is killed where, `current` names a record that is there, the one of the last signing that
\* got as far as `current`; every record that was written stays readable under its own name; and one
\* that somebody edited is refused, and is not written over by signing it again.
ContractRight(q) ==
    LET disk    == SignedAll(q.signings)
        written == {q.signings[i].terms : i \in {k \in DOMAIN q.signings : q.signings[k].reach # "temporary"}}
        reached == SelectSeq(q.signings, LAMBDA s : s.reach \in {"emptied", "all"})
        broken  == [disk EXCEPT !.edited = written \cap {q.edit}]
        again   == Sign(broken, [terms |-> q.edit, reach |-> "all"])
    IN  /\ ReadCurrent(disk) = IF reached = <<>> \/ Last(reached).reach = "emptied" THEN "nothing signed" ELSE Last(reached).terms
        /\ \A terms \in written : RecordOf(disk, terms) = terms
        /\ q.edit \in written => again = broken
        /\ q.edit \notin written => ReadCurrent(again) = q.edit

\* Does not hold: killed between the two writes of `current`, it reads as if nothing was ever signed.
SignedStaysSigned(q) ==
    q.about = "contract" =>
        ((\E i \in DOMAIN q.signings : q.signings[i].reach = "all") => ReadCurrent(SignedAll(q.signings)) # "nothing signed")

-----------------------------------------------------------------------------
(* The record of a piece of work *)

\* ConformityCriterion: a score is kept as a decimal, whatever it was given as. Mutant: as given.
MadeAsGiven(given) == given
Made(given) == [given EXCEPT !.score.kind = "decimal"]
\* to_dict: nothing for a blank account, nor for a check that did not run.
ToDict(record) ==
    {<<"score", record.score>>, <<"contract", record.contract>>, <<"pushed", record.pushed>>}
    \cup If(record.account \notin {"", "blank"}, <<"account", record.account>>)
    \cup If(record.lint # "not run", <<"lint", record.lint>>)
    \cup If(record.errors # "not run", <<"errors", record.errors>>)
Get(file, key, default) == IF \E p \in file : p[1] = key THEN (CHOOSE p \in file : p[1] = key)[2] ELSE default
\* from_dict
FromDict(file) ==
    Made([score |-> [Get(file, "score", Unset) EXCEPT !.kind = "decimal"], contract |-> Get(file, "contract", ""),
          pushed |-> Get(file, "pushed", FALSE), account |-> Get(file, "account", ""),
          lint |-> Get(file, "lint", "not run"), errors |-> Get(file, "errors", "not run")])
\* digest, and read under the name that is the digest of what was written
ReadRecord(name, file) == IF ToDict(FromDict(file)) = name THEN "read" ELSE "refused"

Given == [score : [kind : {"whole", "decimal"}, value : {33}], contract : {"", "terms"}, pushed : BOOLEAN,
          account : {"", "blank", "said"}, lint : {"not run", "yes", "no"}, errors : {"not run", "none", "some"}]
Touches ==
    {[kind |-> "none"]} \cup [kind : {"forget"}, key : {"contract", "pushed", "account", "lint", "errors"}]
    \cup {[kind |-> "put", key |-> c[1], to |-> c[2]] :
              c \in {<<"contract", "others">>, <<"account", "other">>, <<"lint", "yes">>, <<"errors", "none">>}}
Touched(file, touch) ==
    CASE touch.kind = "none" -> file
      [] touch.kind = "forget" -> {p \in file : p[1] # touch.key}
      [] OTHER -> {p \in file : p[1] # touch.key} \cup {<<touch.key, touch.to>>}
\* Whatever it was given, a record is found again under its name and says what it said, a check that
\* failed and one that never ran told apart; and a file that says anything else is refused, while one
\* that leaves out what was not said in the first place is the same record.
RecordRight(q) ==
    LET record == Made(q.given)
        name   == ToDict(record)
        file   == Touched(name, q.touch)
        plain  == [record EXCEPT !.account = IF @ = "blank" THEN "" ELSE @]
    IN  /\ ReadRecord(name, name) = "read" /\ FromDict(name) = plain
        /\ ReadRecord(name, file) = IF FromDict(file) = plain THEN "read" ELSE "refused"

-----------------------------------------------------------------------------
(* The events of the register that came before *)

\* A later event of the same id takes the place of the earlier one.
ById(events) == [sid \in {events[i].id : i \in DOMAIN events} \ {0} |-> events[CHOOSE i \in DOMAIN events :
                    events[i].id = sid /\ \A k \in DOMAIN events : events[k].id = sid => k <= i]]
Ascending(ids) == SetToSortSeq(ids, LAMBDA a, b : a < b)
\* _topological_sort_events: those whose parents are all behind them, in turn.
\* Mutant: as soon as one parent is.
RECURSIVE SettledAtFirst(_, _, _, _), Settled(_, _, _, _)
SettledAtFirst(by, waits, queue, done) ==
    IF queue = <<>> THEN done
    ELSE LET kids  == {k \in DOMAIN by : Head(queue) \in by[k].parents}
             left  == [k \in DOMAIN by |-> IF k \in kids THEN 0 ELSE waits[k]]
             ready == {k \in kids : waits[k] > 0}
         IN  SettledAtFirst(by, left, Tail(queue) \o Ascending(ready), Append(done, by[Head(queue)]))
Settled(by, waits, queue, done) ==
    IF queue = <<>> THEN done
    ELSE LET kids  == {k \in DOMAIN by : Head(queue) \in by[k].parents}
             left  == [k \in DOMAIN by |-> IF k \in kids THEN waits[k] - 1 ELSE waits[k]]
             ready == {k \in kids : left[k] = 0}
         IN  Settled(by, left, Tail(queue) \o Ascending(ready), Append(done, by[Head(queue)]))
InOrder(events) ==
    LET by    == ById(events)
        waits == [sid \in DOMAIN by |-> Cardinality(by[sid].parents \cap DOMAIN by)]
        done  == Settled(by, waits, Ascending({sid \in DOMAIN by : waits[sid] = 0}), <<>>)
        seen  == {done[i].id : i \in DOMAIN done}
    IN  done \o SelectSeq(events, LAMBDA event : event.id \notin seen)

Events  == [id : 0..3, parents : {{}, {1}, {3}, {1, 2}}]
Named(events) == \A i, j \in DOMAIN events : i # j => events[i].id = 0 \/ events[i].id # events[j].id
\* The events of a cycle, and of what hangs from one, have no order of their own.
RECURSIVE Sorted(_, _)
Sorted(events, placed) ==
    LET more == {events[i].id : i \in {k \in DOMAIN events : events[k].id # 0
                     /\ events[k].parents \cap {events[j].id : j \in DOMAIN events} \subseteq placed}} \ placed
    IN  IF more = {} THEN placed ELSE Sorted(events, placed \cup more)
\* An older register is told in full, each event after the ones it came from unless they go round in
\* a circle, which then come last as they stand; and in one order, whatever order the file is in.
OrderRight(q) ==
    LET told  == InOrder(q.events)
        At(e) == CHOOSE i \in DOMAIN told : told[i] = e
        clear == Sorted(q.events, {})
    IN  Named(q.events) =>
            /\ Len(told) = Len(q.events) /\ ToSet(told) = ToSet(q.events)
            /\ \A e, f \in ToSet(told) : e.id \in clear /\ f.id \in clear \cap e.parents => At(f) < At(e)
            /\ \A e, f \in ToSet(told) : e.id \in clear /\ f.id \notin clear => At(e) < At(f)
            /\ (\A i \in DOMAIN q.events : q.events[i].id \in clear) => InOrder(Reverse(q.events)) = told

\* Does not hold: of two events of one id the first is not told.
NoEventIsLost(q) == q.about = "events" => Len(InOrder(q.events)) = Len(q.events)

-----------------------------------------------------------------------------
Documents == {Document("memory", Absent), Document("freeze", "v1")}
Questions ==
    {[about |-> "state", doc |-> d, edit |-> e, schema |-> s] : d \in Documents, e \in Edits, s \in 0..2}
    \cup UNION {{[about |-> "chain", facts |-> f, kept |-> k, alter |-> a] :
                     f \in [1..n -> {"older", "plain", "rich"} \X {0, 1, 2}],
                     k \in BOOLEAN, a \in Alterations(0)} : n \in 1..2}
    \cup {[about |-> "chain", facts |-> f, kept |-> TRUE, alter |-> a] :
              f \in [1..3 -> {<<"older", 1>>, <<"plain", 2>>, <<"rich", 1>>}], a \in Alterations(3)}
    \cup {[about |-> "chain", facts |-> <<f>>, kept |-> TRUE, alter |-> a] : f \in {"older", "rich"} \X {1}, a \in Alterations(1)}
    \cup UNION {{[about |-> "contract", signings |-> s, edit |-> e] : s \in [1..n -> Signings], e \in Terms} : n \in 0..3}
    \cup {[about |-> "record", given |-> g, touch |-> t] : g \in Given, t \in Touches}
    \cup UNION {{[about |-> "events", events |-> e] : e \in [1..n -> Events]} : n \in 0..3}

\* What a memory writes can be told later from what was made of it.
Right(q) ==
    CASE q.about = "state"    -> StateRight(q)
      [] q.about = "chain"    -> ChainRight(q)
      [] q.about = "contract" -> ContractRight(q)
      [] q.about = "record"   -> RecordRight(q)
      [] q.about = "events"   -> OrderRight(q)
=============================================================================
