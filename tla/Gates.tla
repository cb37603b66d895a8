-------------------------------- MODULE Gates --------------------------------
(****************************************************************************)
(* What stands before a commit and what is made of a failure: the message   *)
(* that is asked for (tree/commit_message.py) and the damage that is        *)
(* suspected afterwards (tree/autofix/repair_commit_message.py), the ticket *)
(* that needs a record (tree/ticket_gate.py), the error that autofix reads  *)
(* and the repository it takes for the one to blame (tree/autofix), and the *)
(* logs it reads it from (orchestre/command_run_logger.py, cli/_shared.py). *)
(****************************************************************************)
EXTENDS Integers, Sequences, FiniteSets, SequencesExt

-----------------------------------------------------------------------------
(* The message of a commit *)

\* The version a tree declares: pixi.toml's workspace, its project, then pyproject.toml.
Version(tree) ==
    CASE tree.workspace # <<>> -> tree.workspace
      [] tree.project # <<>>   -> tree.project
      [] OTHER                 -> tree.python
\* CommitMessagePolicy.for_tree: a tree that adopted the conduct, and names a project and a version.
IsBound(tree) == tree.conduct /\ tree.named /\ Version(tree) # <<>>

\* _has_prefix: the version is there and does not go on. Mutant: it may go on.
StartsWith(body, tree) ==
    /\ Len(Version(tree)) <= Len(body)
    /\ SubSeq(body, 1, Len(Version(tree))) = Version(tree)
HasPrefix(body, tree) ==
    /\ Len(Version(tree)) <= Len(body)
    /\ SubSeq(body, 1, Len(Version(tree))) = Version(tree)
    /\ Len(body) = Len(Version(tree)) \/ body[Len(Version(tree)) + 1] \notin {"1", "."}

\* What stands after the name and the dash, up to where no version goes on.
VersionSaid(body) ==
    LET ends == {i \in DOMAIN body : body[i] \notin {"1", "."}}
    IN  IF ends = {} THEN body ELSE SubSeq(body, 1, (CHOOSE i \in ends : \A k \in ends : i <= k) - 1)
Versions == {<<>>, <<"1">>, <<"1", ".", "1">>}
\* A commit is asked for the version that a release of the same tree is tagged with, and for no longer one.
VersionRight(q) ==
    IsBound(q.tree) => /\ HasPrefix(q.body, q.tree) <=> VersionSaid(q.body) = Version(q.tree)
                       /\ q.tree.workspace # <<>> => Version(q.tree) = q.tree.workspace

\* A message in words, quoted phrases and full stops, as it is typed and as a shell leaves it.
Words == {"word", "dotted", "quote", "stop"}
Spelt(tokens, gap) ==
    FoldLeft(LAMBDA text, t : CASE t = "stop" -> text \o <<".">>
                                [] OTHER      -> text \o (IF text = <<>> THEN <<>> ELSE <<" ">>)
                                                      \o (CASE t = "word" -> <<"w">> [] t = "dotted" -> <<".", "w">> [] OTHER -> gap),
             <<>>, tokens)
Quote == <<"tick", "w", "tick">>
Trimmed(text) == IF text # <<>> /\ Last(text) = " " THEN Front(text) ELSE text
RECURSIVE Stripped(_)
Stripped(text) == IF Trimmed(text) = text THEN text ELSE Stripped(Trimmed(text))
\* _DAMAGE_SIGNS: two spaces between words, a space before a stop that ends something.
\* Mutant: a stop anywhere.
StopAnywhere(text) == \E i \in DOMAIN text : i > 1 /\ text[i - 1] = " " /\ text[i] = "."
LooseStop(text) ==
    \E i \in DOMAIN text :
        /\ i > 2 /\ text[i - 2] # " " /\ text[i - 1] = " " /\ text[i] = "."
        /\ i = Len(text) \/ text[i + 1] = " "
WideGap(text) ==
    \E i, k \in DOMAIN text : i + 2 < k /\ text[i] # " " /\ text[k] # " " /\ \A j \in i + 1..k - 1 : text[j] = " "
Suspected(text) == WideGap(text) \/ LooseStop(text)
\* violations: a quote that is still there.
Refused(text) == "tick" \in ToSet(text)
Sentences == {s \in UNION {[1..n -> Words] : n \in 1..4} : \A i \in 1..Len(s) - 1 : s[i] = "stop" => s[i + 1] # "stop"}
\* A quoted phrase is refused while it is there, and suspected once a shell has taken it out from between
\* two words or before a full stop; a sentence without one is neither, names that start with a dot included.
DamageRight(q) ==
    LET typed == Spelt(q.tokens, Quote)
        left  == Stripped(Spelt(q.tokens, <<>>))
        At(i) == q.tokens[i] = "quote" /\ \E k \in 1..i - 1 : q.tokens[k] \in {"word", "dotted"}
    IN  /\ Refused(typed) <=> "quote" \in ToSet(q.tokens)
        /\ ~Refused(left)
        /\ "quote" \notin ToSet(q.tokens) => ~Suspected(left)
        /\ (\E i \in DOMAIN q.tokens : At(i) /\ \E k \in DOMAIN q.tokens : k > i /\ q.tokens[k] \in {"word", "dotted"}) => Suspected(left)
        /\ (\E i \in DOMAIN q.tokens : At(i) /\ i < Len(q.tokens) /\ q.tokens[i + 1] = "stop") => Suspected(left)

\* Does not hold: the phrase that ends a message leaves nothing behind.
DamageIsSeen(q) ==
    q.about = "damage" => (q.tokens[1] = "word" /\ "quote" \in ToSet(q.tokens) => Suspected(Stripped(Spelt(q.tokens, <<>>))))

-----------------------------------------------------------------------------
(* The ticket that is archived *)

Clean == [file |-> "none", index |-> "none", head |-> "none", record |-> "none", unread |-> FALSE, refused |-> FALSE]
\* TicketGate.added_paths, from the index and the untracked files. Mutant: from the index alone.
AddedStaged(disk, all) == disk.head = "none" /\ disk.index # "none"
Added(disk, all) ==
    /\ disk.head = "none"
    /\ disk.index # "none" \/ (all /\ disk.file # "none")
\* gated, _dropped: the file in the worktree is read, and not what is staged of it; under a name that
\* Git quotes there is none to read.
Gated(disk, name) == name = "quoted" \/ (name = "plain" /\ disk.file # "dropped")
\* unrecorded, _records: a record that cannot be read may be the one; a lone agent's is none;
\* a name that Git quotes is not the one that was recorded. Mutant: any record will do.
RecordedByAny(disk, name) == disk.record # "none"
Recorded(disk, name) == disk.record = "pair" /\ name # "quoted"
Passes(disk, name, all) ==
    Added(disk, all) /\ Gated(disk, name) => ~disk.unread /\ Recorded(disk, name)
\* TreeCommands.commit, as far as the ticket goes
Committed(disk, name, all) ==
    IF ~Passes(disk, name, all) THEN [disk EXCEPT !.refused = TRUE]
    ELSE [disk EXCEPT !.refused = FALSE, !.index = IF all THEN disk.file ELSE @,
                      !.head = IF all THEN disk.file ELSE disk.index]

Moves == {"archive", "stage", "banner", "record", "lone", "damage", "commit", "bare"}
Moved(disk, move, name) ==
    CASE move = "archive" -> [disk EXCEPT !.file = IF @ = "none" THEN "plain" ELSE @]
      [] move = "stage"   -> [disk EXCEPT !.index = disk.file]
      [] move = "banner"  -> [disk EXCEPT !.file = IF @ = "plain" THEN "dropped" ELSE IF @ = "dropped" THEN "plain" ELSE @]
      [] move = "record"  -> [disk EXCEPT !.record = "pair"]
      [] move = "lone"    -> [disk EXCEPT !.record = IF @ = "none" THEN "lone" ELSE @]
      [] move = "damage"  -> [disk EXCEPT !.unread = TRUE]
      [] move = "commit"  -> Committed(disk, name, FALSE)
      [] move = "all"     -> Committed(disk, name, TRUE)
      [] move = "bare"    -> [disk EXCEPT !.head = disk.index]
After(q) == FoldLeft(LAMBDA disk, move : Moved(disk, move, q.name), Clean, q.moves)

\* Whatever was written, staged and recorded in whatever order, a ticket that these commits brought in has
\* its record, unless somebody called it dropped on the way or it is older than the rule; and one that has
\* its record is not refused, while every record can be read.
TicketsRight(q) ==
    LET disk == After(q)
    IN  /\ disk.head # "none" /\ q.name # "old" /\ ToSet(q.moves) \cap {"banner", "bare"} = {} => disk.record = "pair"
        /\ disk.refused => q.name # "old" /\ disk.file # "none"
        /\ q.name = "plain" /\ disk.refused /\ Last(q.moves) \in {"commit", "all"} => disk.unread \/ disk.record # "pair"

\* Does not hold: the banner is read from the file, while the commit takes what was staged without it; and
\* a ticket that came in with it is not looked at when it goes.
UndroppedHasRecord(q) ==
    q.about = "tickets" => (After(q).head = "plain" /\ q.name = "plain" /\ "bare" \notin ToSet(q.moves) => After(q).record = "pair")
\* Does not hold: a recorded ticket whose name is not plain ASCII is refused.
RecordedIsAccepted(q) ==
    q.about = "tickets" => (After(q).record = "pair" /\ ~After(q).unread /\ q.moves # <<>> /\ Last(q.moves) = "all" => ~After(q).refused)

-----------------------------------------------------------------------------
(* The repository that an error is about *)

RepoNames == {"lib", "mylib", ".memory"}
EndsIn(longer, name) == longer = name \/ <<longer, name>> = <<"mylib", "lib">>
\* describe_merge_conflict names each with a colon, and Git's own text names the remote.
Mentions(error, name) == \E i \in DOMAIN error.blamed : error.blamed[i].repo = name
\* DivergentUserRepair.matches: a divergence, and a repository with a chain, whichever diverged.
MatchesDivergence(error, name) == error.kind = "diverged" /\ name = ".memory"
\* MergeConflictRepair.matches: `name:` somewhere in a refusal. Mutant: in any of them.
MatchesAnyRefusal(error, name) == error.kind = "refusal"
MatchesRefusal(error, name) == error.kind = "refusal" /\ \E i \in DOMAIN error.blamed : EndsIn(error.blamed[i].repo, name)
\* FromCliRepair.run: the one that was named, the memory when the error mentions it, or each in turn.
Candidates(q) ==
    CASE q.given # "none"              -> <<q.given>>
      [] Mentions(q.error, ".memory")  -> <<".memory">>
      [] OTHER                         -> q.tree
Answer(q) ==
    LET found == SelectSeq(Candidates(q), LAMBDA name : MatchesDivergence(q.error, name) \/ MatchesRefusal(q.error, name))
    IN  CASE ToSet(Candidates(q)) \ ToSet(q.tree) # {}     -> [did |-> "no repository", repo |-> "none", branch |-> "none"]
          [] found = <<>>                                 -> [did |-> "no match", repo |-> "none", branch |-> "none"]
          [] MatchesDivergence(q.error, Head(found))      -> [did |-> "splice", repo |-> Head(found), branch |-> "none"]
          [] OTHER -> [did |-> "report", repo |-> Head(found), branch |-> q.error.blamed[1].branch]

Blames == {b \in UNION {[1..n -> [repo : RepoNames, branch : {"main", "lib_main"}]] : n \in 1..2} :
              Len(b) = 2 => b[1].repo # b[2].repo}
Orders == {t \in UNION {[1..n -> RepoNames] : n \in 1..3} : \A i, j \in DOMAIN t : i # j => t[i] # t[j]}
\* A refused merge is always answered, of a repository that is in the tree, when one that it blames is; only
\* the memory is ever spliced, and only after a divergence; an error that no repair knows changes nothing;
\* and who names a repository is answered about that one or not at all.
BlameRight(q) ==
    LET answer == Answer(q)
        blamed == {q.error.blamed[i].repo : i \in DOMAIN q.error.blamed}
    IN  /\ answer.did = "splice" => answer.repo = ".memory" /\ q.error.kind = "diverged"
        /\ answer.did \in {"splice", "report"} => answer.repo \in ToSet(q.tree) /\ q.given \in {"none", answer.repo}
        /\ q.error.kind = "other" => answer.did \in {"no match", "no repository"}
        /\ q.error.kind = "refusal" /\ q.given = "none" /\ blamed \subseteq ToSet(q.tree) => answer.did = "report"
        /\ answer.did = "report" => \E name \in blamed : EndsIn(name, answer.repo)
        /\ q.given = "lib" /\ "mylib" \notin blamed /\ answer.did = "report" => "lib" \in blamed

\* Does not hold: `lib:` is in what is said of `mylib`.
BlamedIsReported(q) ==
    q.about = "blame" => (Answer(q).did = "report" => Mentions(q.error, Answer(q).repo))
\* Does not hold: the branch that is asked again is the one of whoever is blamed first.
BranchIsTheirs(q) ==
    q.about = "blame" =>
        (Answer(q).did = "report" /\ Mentions(q.error, Answer(q).repo) =>
            \E i \in DOMAIN q.error.blamed : q.error.blamed[i] = [repo |-> Answer(q).repo, branch |-> Answer(q).branch])
\* Does not hold: another repository's divergence is answered with the memory's.
SplicesWhatDiverged(q) ==
    q.about = "blame" => (Answer(q).did = "splice" => Mentions(q.error, ".memory"))

-----------------------------------------------------------------------------
(* The logs of the runs *)

Keep == 2
\* prune_old_logs: the oldest beyond the bound, never the one just written. Mutant: one is left over.
PruneOneMore(logs) == IF Len(logs) > Keep + 1 THEN Tail(logs) ELSE logs
Prune(logs) == IF Len(logs) > Keep THEN SubSeq(logs, Len(logs) - Keep + 1, Len(logs)) ELSE logs
\* bind_log_file, log_event: a log of the same name is written over, and is the newest again.
Bind(logs, log) == Prune(Append(SelectSeq(logs, LAMBDA l : l.name # log.name), log))
\* find_last_error: what the newest log ends with.
FormerError(logs) == IF logs = <<>> \/ Last(logs).error = "none" THEN "none" ELSE Last(logs).error

\* _run_with_logging: a run that wrote a State has its log; so has one that failed where the workspace is
\* known, since ensure_log_file. Mutant: as it was before.
LoggedWithState(run) == run \in {"state", "late"}
Logged(run) == run \in {"state", "late", "refused", "failed"}
\* autofix: answers of a refusal, and fails of its own otherwise.
Resolved(run, logs) ==
    IF run # "autofix" THEN run ELSE IF FormerError(logs) = "refused" THEN "answered" ELSE "failed"
ErrorOf(run, kind) == CASE run = "autofix" -> "autofix" [] kind \in {"late", "refused", "failed"} -> kind [] OTHER -> "none"
\* One State's log is named by it; a failure's by its command and second.
NameOf(q, i, kind) ==
    IF kind \in {"state", "late"} THEN <<"state", i>> ELSE <<q.runs[i], IF q.fast THEN 0 ELSE i>>
Run(q, logs, i) ==
    LET kind == Resolved(q.runs[i], logs)
    IN  IF Logged(kind) THEN Bind(logs, [name |-> NameOf(q, i, kind), error |-> ErrorOf(q.runs[i], kind)]) ELSE logs
Runs == {"state", "late", "refused", "failed", "quiet", "outside", "autofix"}
LogsUpTo(q, n) == FoldLeft(LAMBDA logs, i : Run(q, logs, i), <<>>, [i \in 1..n |-> i])

\* A run that fails in a workspace is the former error of the next one, whatever it had written; there are
\* never more logs than the bound; and autofix that answered says the same when it is asked again.
LogsRight(q) ==
    LET n      == Len(q.runs)
        before == LogsUpTo(q, n - 1)
        logs   == LogsUpTo(q, n)
    IN  /\ Len(logs) <= Keep
        /\ q.runs[n] \in {"late", "refused", "failed"} => FormerError(logs) = q.runs[n]
        /\ q.runs[n] = "state" => FormerError(logs) = "none"
        /\ q.runs[n] = "outside" => logs = before
        /\ q.runs[n] = "autofix" /\ Resolved("autofix", before) = "answered" => FormerError(logs) = "refused"

\* Does not hold: a run that succeeds and writes no State leaves the error before it the former one.
SuccessIsNoError(q) ==
    q.about = "logs" => (Last(q.runs) = "quiet" => FormerError(LogsUpTo(q, Len(q.runs))) = "none")
\* Does not hold: autofix that found no answer reads its own complaint the next time.
AskedAgainReadsTheSame(q) ==
    q.about = "logs" =>
        LET before == FormerError(LogsUpTo(q, Len(q.runs) - 1))
        IN  Last(q.runs) = "autofix" /\ before # "none" => FormerError(LogsUpTo(q, Len(q.runs))) = before

-----------------------------------------------------------------------------
Bodies == UNION {[1..n -> {"1", ".", "-"}] : n \in 0..4}
Questions ==
    {[about |-> "version", body |-> b, tree |-> t] : b \in Bodies,
        t \in [conduct : BOOLEAN, named : {TRUE}, workspace : Versions, project : Versions, python : {<<"1">>}]}
    \cup {[about |-> "damage", tokens |-> s] : s \in Sentences}
    \cup UNION {{[about |-> "tickets", name |-> "plain", moves |-> m] : m \in [1..n -> Moves \cup {"all"}]} : n \in 0..4}
    \cup UNION {{[about |-> "tickets", name |-> n, moves |-> Append(m, "all")] : n \in {"old", "quoted"}, m \in [1..k -> Moves]} : k \in 0..3}
    \cup {[about |-> "blame", tree |-> t, given |-> g, error |-> [kind |-> k, blamed |-> b]] :
             t \in Orders, g \in RepoNames \cup {"none"}, k \in {"refusal", "diverged", "other"}, b \in Blames}
    \cup UNION {{[about |-> "logs", runs |-> r, fast |-> f] : r \in [1..n -> Runs], f \in BOOLEAN} : n \in 1..4}

\* What is asked of a commit, and what is made of a failure.
Right(q) ==
    CASE q.about = "version" -> VersionRight(q)
      [] q.about = "damage"  -> DamageRight(q)
      [] q.about = "tickets" -> TicketsRight(q)
      [] q.about = "blame"   -> BlameRight(q)
      [] q.about = "logs"    -> LogsRight(q)
=============================================================================
