------------------------------- MODULE Memory -------------------------------
(****************************************************************************)
(* The memory of one workspace: the hash-chained ledger, the States it      *)
(* names and the commit logs it vouches for, in their two halves.  Commands *)
(* write into the pending half (.cgitsync); `memory push`, and every push   *)
(* before it publishes, folds it into the mount (.cgitsync/.memory).        *)
(*                                                                          *)
(* One step is one file operation, so a command may be killed between any   *)
(* two of them.  Commands that take the workspace lock run one at a time    *)
(* (module WorkspaceLock); the processes in Free run a State-writing method *)
(* that does not take it (load, expand, validate, initialise, clone).       *)
(* An entry's hash is modelled by a fresh number: two entries never share   *)
(* one.  The digest of commit rows is the sequence of rows itself.          *)
(****************************************************************************)
EXTENDS Naturals, Sequences, FiniteSets, SequencesExt

CONSTANTS
    Procs,       \* processes that run commands
    Free,        \* those of them whose command takes no lock
    NRepos,      \* repositories, numbered in leaf-first order
    NStates,     \* State names (content hashes), in the order they sort
    MaxEntries,  \* bound: no command starts once that many entries were built
    MaxCommits,  \* bound: commits per repository
    Faults,      \* the faults that may happen, of "stop", "append", "partial", "refuse"
    MaxFaults    \* bound: how many of them

ASSUME MemoryAssumption ==
    /\ Free \subseteq Procs
    /\ NRepos \in Nat /\ NStates \in Nat /\ MaxEntries \in Nat
    /\ MaxCommits \in Nat /\ MaxFaults \in Nat
    /\ Faults \subseteq {"stop", "append", "partial", "refuse"}

Repos  == 1..NRepos
States == 1..NStates
Halves == {"folded", "pending"}

VARIABLES
    lgr,      \* lgr/NNNNNN.toml: the entries of each half
    head,     \* lgr/HEAD: the hash cached in each half, 0 when there is none
    states,   \* state/<hash>.gts: the States of each half
    log,      \* commit-logs/<hash>.toml: per half and State, its two tables
    litter,   \* States whose .<hash>.toml.tmp was left in the pending commit-logs
    made,     \* commits of each repository
    pushed,   \* how many of them its remote has
    at,       \* the step each process takes next
    push,     \* whether the process's command is `push`
    job,      \* what its snapshot has to record
    fold,     \* what its fold still has to move
    last,     \* the entry it read as the last one
    built,    \* entries built so far
    faults    \* faults so far

vars == <<lgr, head, states, log, litter, made, pushed, at, push, job, fold, last, built, faults>>
disk == <<lgr, head, states, log, litter>>
git  == <<made, pushed>>

Sha   == [repo : Repos, nr : 1..MaxCommits]
Row   == [table : {"commit", "published"}, sha : Sha, entry : Nat]
Entry == [seq : Nat, id : Nat, prev : Nat, state : States, vouches : Seq(Row)]

NoLog   == [commit |-> <<>>, published |-> <<>>]
NoEntry == [seq |-> 0, id |-> 0]  \* its id is GENESIS_PREV
NoFold  == [entries |-> {}, head |-> FALSE, states |-> {}]
NoPubs  == [s \in States |-> <<>>]
Job(state, commits, pubs) ==
    [state |-> state, commits |-> commits, pubs |-> pubs, seq |-> 0, written |-> <<>>]
NoJob == Job(0, <<>>, NoPubs)

\* read_ledger_entries: what a reader of both halves sees.
Entries == lgr.folded \cup lgr.pending
Newest(entries) == CHOOSE e \in entries : \A f \in entries : f.seq <= e.seq

Locked == Procs \ Free

Init ==
    /\ lgr = [h \in Halves |-> {}]
    /\ head = [h \in Halves |-> 0]
    /\ states = [h \in Halves |-> {}]
    /\ log = [h \in Halves |-> [s \in States |-> NoLog]]
    /\ litter = {}
    /\ made = [r \in Repos |-> 0]
    /\ pushed = [r \in Repos |-> 0]
    /\ at = [p \in Procs |-> "idle"]
    /\ push = [p \in Procs |-> FALSE]
    /\ job = [p \in Procs |-> NoJob]
    /\ fold = [p \in Procs |-> NoFold]
    /\ last = [p \in Procs |-> NoEntry]
    /\ built = 0
    /\ faults = 0

Go(p, step) == at' = [at EXCEPT ![p] = step]

\* The command returns, or raises: what it knew is gone.
End(p) ==
    /\ Go(p, "idle")
    /\ push' = [push EXCEPT ![p] = FALSE]
    /\ job' = [job EXCEPT ![p] = NoJob]
    /\ fold' = [fold EXCEPT ![p] = NoFold]
    /\ last' = [last EXCEPT ![p] = NoEntry]

\* A writing command starts: no other holder of the workspace lock.
MayStart(p) ==
    /\ at[p] = "idle"
    /\ built < MaxEntries
    /\ p \in Locked => \A q \in Locked : at[q] = "idle"

Fault(kind) ==
    /\ kind \in Faults
    /\ faults < MaxFaults
    /\ faults' = faults + 1

-----------------------------------------------------------------------------
(* Commands *)

Recorded(s) ==
    \/ \E h \in Halves : s \in states[h]
    \/ \E p \in Procs : job[p].state = s

\* commit_tree, then _collect_commit_records: one row per repository that
\* committed, in the walk's order, under a State the tree was never in.
Commit(p) ==
    /\ p \in Locked
    /\ MayStart(p)
    /\ \E repos \in SUBSET {r \in Repos : made[r] < MaxCommits} \ {{}}, s \in States :
          /\ ~Recorded(s)
          /\ made' = [r \in Repos |-> IF r \in repos THEN made[r] + 1 ELSE made[r]]
          /\ LET shas == [r \in Repos |-> IF r \in repos
                                          THEN << [repo |-> r, nr |-> made'[r]] >> ELSE <<>>]
             IN job' = [job EXCEPT ![p] = Job(s, FlattenSeq(shas), NoPubs)]
    /\ Go(p, "state")
    /\ UNCHANGED <<disk, pushed, push, fold, last, built, faults>>

\* Any other command that writes a State (branch, checkout, merge, pull, load,
\* expand, ...): the tree may be in a State it was in before.
Snapshot(p) ==
    /\ MayStart(p)
    /\ \E s \in States : job' = [job EXCEPT ![p] = Job(s, <<>>, NoPubs)]
    /\ Go(p, "state")
    /\ UNCHANGED <<disk, git, push, fold, last, built, faults>>

\* push, or `memory push` on its own: _fold_memory_pending lists lgr/ first.
StartFold(p) ==
    /\ p \in Locked
    /\ MayStart(p)
    /\ \E publishes \in BOOLEAN : push' = [push EXCEPT ![p] = publishes]
    /\ fold' = [fold EXCEPT ![p] = [NoFold EXCEPT !.entries = {e.seq : e \in lgr.pending},
                                                  !.head = head.pending # 0]]
    /\ Go(p, "entries")
    /\ UNCHANGED <<disk, git, job, last, built, faults>>

\* memory_push refuses before it moves anything (the mount is on the wrong
\* branch, self-history cannot be pushed): a push warns and goes on.
RefuseFold(p) ==
    /\ Fault("refuse")
    /\ p \in Locked
    /\ MayStart(p)
    /\ push' = [push EXCEPT ![p] = TRUE]
    /\ Go(p, "publish")
    /\ UNCHANGED <<disk, git, job, fold, last, built>>

\* verify --repair: the HEAD of the half that holds the newest entry.
Active == IF lgr.pending # {} THEN "pending" ELSE "folded"

Repair(p) ==
    /\ p \in Locked
    /\ MayStart(p)
    /\ Entries # {}
    /\ head' = [head EXCEPT ![Active] = Newest(lgr[Active]).id]
    /\ UNCHANGED <<lgr, states, log, litter, git, at, push, job, fold, last, built, faults>>

-----------------------------------------------------------------------------
(* _fold_memory_pending: lgr/, then state/, then the commit logs *)

\* Mutant of MoveEntry: the newest entry first.
MoveNewestFirst(p) ==
    /\ at[p] = "entries"
    /\ fold[p].entries # {}
    /\ LET n == Max(fold[p].entries)
           moved == {e \in lgr.pending : e.seq = n}
       IN /\ lgr' = [folded  |-> {e \in lgr.folded : e.seq # n} \cup moved,
                     pending |-> lgr.pending \ moved]
          /\ fold' = [fold EXCEPT ![p].entries = @ \ {n}]
    /\ UNCHANGED <<head, states, log, litter, git, at, push, job, last, built, faults>>

\* Path.replace, in name order: entries ascending; HEAD sorts after them.
MoveEntry(p) ==
    /\ at[p] = "entries"
    /\ fold[p].entries # {}
    /\ LET n == Min(fold[p].entries)
           moved == {e \in lgr.pending : e.seq = n}
       IN /\ lgr' = [folded  |-> {e \in lgr.folded : e.seq # n} \cup moved,
                     pending |-> lgr.pending \ moved]
          /\ fold' = [fold EXCEPT ![p].entries = @ \ {n}]
    /\ UNCHANGED <<head, states, log, litter, git, at, push, job, last, built, faults>>

MoveHead(p) ==
    /\ at[p] = "entries"
    /\ fold[p].entries = {}
    /\ fold[p].head
    /\ head' = [folded |-> head.pending, pending |-> 0]
    /\ fold' = [fold EXCEPT ![p].head = FALSE]
    /\ UNCHANGED <<lgr, states, log, litter, git, at, push, job, last, built, faults>>

LgrMoved(p) == at[p] = "entries" /\ fold[p].entries = {} /\ ~fold[p].head

\* rmdir of lgr/, then state/ is listed.
RemoveLgr(p) ==
    /\ LgrMoved(p)
    /\ lgr.pending = {} /\ head.pending = 0
    /\ fold' = [fold EXCEPT ![p].states = states.pending]
    /\ Go(p, "states")
    /\ UNCHANGED <<disk, git, push, job, last, built, faults>>

MoveState(p) ==
    /\ at[p] = "states"
    /\ fold[p].states # {}
    /\ LET s == Min(fold[p].states)
       IN /\ states' = [folded |-> states.folded \cup {s}, pending |-> states.pending \ {s}]
          /\ fold' = [fold EXCEPT ![p].states = @ \ {s}]
    /\ UNCHANGED <<lgr, head, log, litter, git, at, push, job, last, built, faults>>

StatesMoved(p) == at[p] = "states" /\ fold[p].states = {}

RemoveStates(p) ==
    /\ StatesMoved(p)
    /\ states.pending = {}
    /\ Go(p, "log_commits")
    /\ UNCHANGED <<disk, git, push, job, fold, last, built, faults>>

\* The commit logs are merged, in name order, and each is unlinked afterwards.
Logs == {s \in States : log.pending[s] # NoLog}

\* Mutant of FoldCommits: the fold before 6.8.1, which did not merge the rows.
FoldCommitsSkipped(p) ==
    /\ at[p] = "log_commits"
    /\ Logs # {}
    /\ Go(p, "log_published")
    /\ UNCHANGED <<lgr, head, states, log, litter, git, push, job, fold, last, built, faults>>

FoldCommits(p) ==
    /\ at[p] = "log_commits"
    /\ Logs # {}
    /\ LET s == Min(Logs)
       IN log' = [log EXCEPT !.folded[s].commit = @ \o log.pending[s].commit]
    /\ Go(p, "log_published")
    /\ UNCHANGED <<lgr, head, states, litter, git, push, job, fold, last, built, faults>>

FoldPublished(p) ==
    /\ at[p] = "log_published"
    /\ LET s == Min(Logs)
       IN log' = [log EXCEPT !.folded[s].published = @ \o log.pending[s].published]
    /\ Go(p, "unlink_log")
    /\ UNCHANGED <<lgr, head, states, litter, git, push, job, fold, last, built, faults>>

UnlinkLog(p) ==
    /\ at[p] = "unlink_log"
    /\ log' = [log EXCEPT !.pending[Min(Logs)] = NoLog]
    /\ Go(p, "log_commits")
    /\ UNCHANGED <<lgr, head, states, litter, git, push, job, fold, last, built, faults>>

LogsMerged(p) == at[p] = "log_commits" /\ Logs = {}

EndFold(p) ==
    /\ LogsMerged(p)
    /\ litter = {}
    /\ IF push[p] THEN Go(p, "publish") /\ UNCHANGED <<push, job, fold, last>>
                   ELSE End(p)
    /\ UNCHANGED <<disk, git, built, faults>>

\* A rmdir raises, because something was written there since the listing, or a
\* temporary file was left among the commit logs: an OSError, which
\* _fold_memory_before_push does not catch.
FoldRaises(p) ==
    /\ \/ LgrMoved(p) /\ ~(lgr.pending = {} /\ head.pending = 0)
       \/ StatesMoved(p) /\ states.pending # {}
       \/ LogsMerged(p) /\ litter # {}
    /\ End(p)
    /\ UNCHANGED <<disk, git, built, faults>>

-----------------------------------------------------------------------------
(* push: every repository leaf-first, then what became public *)

\* Mutant of Unpublished: every remembered commit, published or not.
Remembered(h, s, r) ==
    LET rows == log[h][s].commit
    IN FlattenSeq([i \in DOMAIN rows |->
           IF rows[i].sha.repo = r THEN << rows[i].sha >> ELSE <<>>])

\* CommitLog.unpublished_commits: each half's log is asked about itself.
Unpublished(h, s, r) ==
    LET rows == log[h][s].commit
        owed(sha) == /\ sha.repo = r
                     /\ \A q \in ToSet(log[h][s].published) : q.sha # sha
    IN FlattenSeq([i \in DOMAIN rows |->
           IF owed(rows[i].sha) THEN << rows[i].sha >> ELSE <<>>])

\* Mutant of Publications: the folded half is forgotten.
PendingPublications(s) ==
    FlattenSeq([r \in Repos |->
        IF made[r] > pushed[r] THEN Unpublished("pending", s, r) ELSE <<>>])

\* _collect_publication_records, for the repositories the push carried something from.
Publications(s) ==
    FlattenSeq([r \in Repos |->
        IF made[r] > pushed[r]
        THEN Unpublished("folded", s, r) \o Unpublished("pending", s, r)
        ELSE <<>>])

Publish(p) ==
    /\ at[p] = "publish"
    /\ pushed' = made
    /\ \E s \in States :
          job' = [job EXCEPT ![p] = Job(s, <<>>, [t \in States |-> Publications(t)])]
    /\ Go(p, "state")
    /\ UNCHANGED <<disk, made, push, fold, last, built, faults>>

\* Mutant of PublishFails: the failed push is recorded as if it had gone through.
PublishFailsRecorded(p) ==
    /\ Fault("partial")
    /\ at[p] = "publish"
    /\ \E failed \in Repos, s \in States :
          /\ pushed' = [r \in Repos |-> IF r < failed THEN made[r] ELSE pushed[r]]
          /\ job' = [job EXCEPT ![p] = Job(s, <<>>, [t \in States |-> Publications(t)])]
    /\ Go(p, "state")
    /\ UNCHANGED <<disk, made, push, fold, last, built>>

\* TreeSweep: one repository fails, those before it stay pushed, and no State
\* is recorded.
PublishFails(p) ==
    /\ Fault("partial")
    /\ at[p] = "publish"
    /\ \E failed \in Repos :
          pushed' = [r \in Repos |-> IF r < failed THEN made[r] ELSE pushed[r]]
    /\ End(p)
    /\ UNCHANGED <<disk, made, built>>

-----------------------------------------------------------------------------
(* write_gts_snapshot: the State, the rows, then the entry that vouches *)

WriteState(p) ==
    /\ at[p] = "state"
    /\ states' = [states EXCEPT !.pending = @ \cup {job[p].state}]
    /\ Go(p, IF job[p].commits # <<>> \/ job[p].pubs # NoPubs THEN "seq" ELSE "read_folded")
    /\ UNCHANGED <<lgr, head, log, litter, git, push, job, fold, last, built, faults>>

\* Mutant of AskSeq: the pending half is asked alone (LedgerStore.next_seq).
AskPendingSeq(p) ==
    /\ at[p] = "seq"
    /\ job' = [job EXCEPT ![p].seq = IF lgr.pending = {} THEN 1 ELSE Newest(lgr.pending).seq + 1]
    /\ Go(p, "commits")
    /\ UNCHANGED <<disk, git, push, fold, last, built, faults>>

\* next_ledger_seq: the rows name an entry that is not written yet.
AskSeq(p) ==
    /\ at[p] = "seq"
    /\ job' = [job EXCEPT ![p].seq = IF Entries = {} THEN 1 ELSE Newest(Entries).seq + 1]
    /\ Go(p, "commits")
    /\ UNCHANGED <<disk, git, push, fold, last, built, faults>>

RowsFor(p, table, shas) ==
    [i \in DOMAIN shas |-> [table |-> table, sha |-> shas[i], entry |-> job[p].seq]]

\* The States whose logs still wait for publication rows.
Due(p) == {s \in States : job[p].pubs[s] # <<>>}

\* The commit log p is replacing, through its temporary file.
Writing(p) ==
    CASE at[p] = "commits" /\ job[p].commits # <<>> -> {job[p].state}
      [] at[p] = "publications" /\ Due(p) # {}      -> {Min(Due(p))}
      [] OTHER                                       -> {}

\* CommitLog._append replaces the file, and with it a temporary file left there.
WriteCommits(p) ==
    /\ at[p] = "commits"
    /\ LET rows == RowsFor(p, "commit", job[p].commits)
       IN /\ log' = [log EXCEPT !.pending[job[p].state].commit = @ \o rows]
          /\ job' = [job EXCEPT ![p].written = rows]
    /\ litter' = litter \ Writing(p)
    /\ Go(p, "publications")
    /\ UNCHANGED <<lgr, head, states, git, push, fold, last, built, faults>>

\* Into the logs of the States whose commits they publish, in State order.
WritePublications(p) ==
    /\ at[p] = "publications"
    /\ Due(p) # {}
    /\ LET s == Min(Due(p))
           rows == RowsFor(p, "published", job[p].pubs[s])
       IN /\ log' = [log EXCEPT !.pending[s].published = @ \o rows]
          /\ job' = [job EXCEPT ![p].written = @ \o rows, ![p].pubs[s] = <<>>]
    /\ litter' = litter \ Writing(p)
    /\ UNCHANGED <<lgr, head, states, git, at, push, fold, last, built, faults>>

RowsWritten(p) ==
    /\ at[p] = "publications"
    /\ Due(p) = {}
    /\ Go(p, "read_folded")
    /\ UNCHANGED <<disk, git, push, job, fold, last, built, faults>>

\* Mutant of ReadFolded: the chain starts again after a fold.
ReadNothingFolded(p) ==
    /\ at[p] = "read_folded"
    /\ last' = [last EXCEPT ![p] = NoEntry]
    /\ Go(p, "read_pending")
    /\ UNCHANGED <<disk, git, push, job, fold, built, faults>>

\* _append_ledger_entry reads the folded half, then the pending one.
ReadFolded(p) ==
    /\ at[p] = "read_folded"
    /\ last' = [last EXCEPT ![p] =
          IF lgr.folded = {} THEN NoEntry
          ELSE [seq |-> Newest(lgr.folded).seq, id |-> Newest(lgr.folded).id]]
    /\ Go(p, "read_pending")
    /\ UNCHANGED <<disk, git, push, job, fold, built, faults>>

ReadPending(p) ==
    /\ at[p] = "read_pending"
    /\ last' = [last EXCEPT ![p] =
          IF lgr.pending = {} \/ Newest(lgr.pending).seq < @.seq THEN @
          ELSE [seq |-> Newest(lgr.pending).seq, id |-> Newest(lgr.pending).id]]
    /\ Go(p, "link")
    /\ UNCHANGED <<disk, git, push, job, fold, built, faults>>

\* Mutant of Collides: the entry is created without O_EXCL or link.
NeverCollides(p) == FALSE

\* build_next, then os.link into the pending half.
Collides(p) == \E f \in lgr.pending : f.seq = last[p].seq + 1

Link(p) ==
    /\ at[p] = "link"
    /\ ~Collides(p)
    /\ LET e == [seq |-> last[p].seq + 1, id |-> built + 1, prev |-> last[p].id,
                 state |-> job[p].state, vouches |-> job[p].written]
       IN /\ lgr' = [lgr EXCEPT !.pending = @ \cup {e}]
          /\ last' = [last EXCEPT ![p] = [seq |-> e.seq, id |-> e.id]]
    /\ built' = built + 1
    /\ Go(p, "head")
    /\ UNCHANGED <<head, states, log, litter, git, push, job, fold, faults>>

\* LedgerSeqCollisionError, which is only a warning.
LinkCollides(p) ==
    /\ at[p] = "link"
    /\ Collides(p)
    /\ End(p)
    /\ UNCHANGED <<disk, git, built, faults>>

\* The append fails in some other way (a full disk): also only a warning.
AppendFails(p) ==
    /\ Fault("append")
    /\ at[p] \in {"read_folded", "link"}
    /\ End(p)
    /\ UNCHANGED <<disk, git, built>>

WriteHead(p) ==
    /\ at[p] = "head"
    /\ head' = [head EXCEPT !.pending = last[p].id]
    /\ End(p)
    /\ UNCHANGED <<lgr, states, log, litter, git, built, faults>>

-----------------------------------------------------------------------------
\* The process is killed, or a file operation raises.  Only a kill leaves the
\* temporary file of the commit log it was writing.
Stop(p) ==
    /\ Fault("stop")
    /\ at[p] # "idle"
    /\ End(p)
    /\ litter' \in {litter, litter \cup Writing(p)}
    /\ UNCHANGED <<lgr, head, states, log, git, built>>

Fold(p) ==
    \/ MoveEntry(p) \/ MoveHead(p) \/ RemoveLgr(p) \/ MoveState(p) \/ RemoveStates(p)
    \/ FoldCommits(p) \/ FoldPublished(p) \/ UnlinkLog(p) \/ EndFold(p)
    \/ FoldRaises(p)

Record(p) ==
    \/ WriteState(p) \/ AskSeq(p) \/ WriteCommits(p) \/ WritePublications(p) \/ RowsWritten(p)
    \/ ReadFolded(p) \/ ReadPending(p) \/ Link(p) \/ LinkCollides(p) \/ WriteHead(p)

Start(p) == Commit(p) \/ Snapshot(p) \/ StartFold(p) \/ RefuseFold(p) \/ Repair(p)

Next ==
    \E p \in Procs :
        \/ Start(p)
        \/ Fold(p)
        \/ Publish(p) \/ PublishFails(p)
        \/ Record(p) \/ AppendFails(p)
        \/ Stop(p)

Spec == Init /\ [][Next]_vars

-----------------------------------------------------------------------------
(* ChainVerifier.verify and the store checks behind `cgitsync verify` *)

\* No SEQ_DUPLICATE; no SEQ_GAP; no BROKEN_LINK.
SeqsUnique == \A e, f \in Entries : e.seq = f.seq => e = f
Linked ==
    \A e \in Entries :
        IF e.seq = 1 THEN e.prev = NoEntry.id
        ELSE \E f \in Entries : f.seq = e.seq - 1 /\ e.prev = f.id

\* No HEAD_STALE, in the half that holds the newest entry.
HeadFresh == Entries # {} => head[Active] = Newest(lgr[Active]).id

\* No MISSING_STATE.
StatesOnDisk == \A e \in Entries : e.state \in states.folded \cup states.pending

\* rows_by_entry of each half, merged: the rows that name entry n.
Naming(rows, n) ==
    FlattenSeq([i \in DOMAIN rows |-> IF rows[i].entry = n THEN << rows[i] >> ELSE <<>>])

RowsNaming(n) ==
    LET named(h, table) == FlattenSeq([s \in States |-> Naming(log[h][s][table], n)])
    IN named("folded", "commit") \o named("pending", "commit")
       \o named("folded", "published") \o named("pending", "published")

\* No COMMIT_LOG_MISMATCH of an entry: it signed exactly the rows that name it.
RowsAreSigned == \A e \in Entries : RowsNaming(e.seq) = e.vouches

\* ... and none of a row: it names an entry the chain has.  Without a chain to read the
\* rows are not looked at (NO_HISTORY).
RowsHaveEntries ==
    Entries # {} =>
        \A h \in Halves, s \in States, table \in {"commit", "published"} :
            \A row \in ToSet(log[h][s][table]) : \E e \in Entries : e.seq = row.entry

CommitLogsHold == RowsAreSigned /\ RowsHaveEntries

AtRest == \A p \in Procs : at[p] = "idle"

-----------------------------------------------------------------------------
(* Properties *)

TypeOK ==
    /\ lgr \in [Halves -> SUBSET Entry]
    /\ head \in [Halves -> Nat]
    /\ states \in [Halves -> SUBSET States]
    /\ log \in [Halves -> [States -> [commit : Seq(Row), published : Seq(Row)]]]
    /\ litter \subseteq States
    /\ made \in [Repos -> 0..MaxCommits]
    /\ pushed \in [Repos -> 0..MaxCommits]
    /\ at \in [Procs -> {"idle", "entries", "states", "log_commits", "log_published",
                         "unlink_log", "publish", "state", "seq", "commits",
                         "publications", "read_folded", "read_pending", "link", "head"}]
    /\ push \in [Procs -> BOOLEAN]
    /\ job \in [Procs -> [state : Nat, commits : Seq(Sha), pubs : [States -> Seq(Sha)],
                          seq : Nat, written : Seq(Row)]]
    /\ fold \in [Procs -> [entries : SUBSET Nat, head : BOOLEAN, states : SUBSET States]]
    /\ last \in [Procs -> [seq : Nat, id : Nat]]
    /\ built \in Nat
    /\ faults \in Nat

\* The chain of entries holds at every moment, between the two halves of a fold
\* and after a kill at any step of it (ChainVerifier.verify finds nothing).
ChainHolds == SeqsUnique /\ Linked

\* "A folded entry's seq is always lower than any pending one"
\* (pending.py:62), which is why one sort of both halves is the history.
FoldedBeforePending ==
    \A e \in lgr.folded, f \in lgr.pending : e.seq < f.seq

\* No recorded entry disappears, whatever moves or fails: "two processes racing to
\* write the same seq must not silently clobber one another" (ledger_store.py:77-80).
EntriesKept == [][Entries \subseteq Entries']_vars

\* No commit or publication row is ever lost, whatever is killed: "folded rows
\* are never lost" (client.py:1181).
RowsKept ==
    [][\A h \in Halves, s \in States, table \in {"commit", "published"} :
          ToSet(log[h][s][table])
              \subseteq ToSet(log'["folded"][s][table]) \cup ToSet(log'["pending"][s][table])]_vars

\* The memory never claims a commit is public when its remote does not have it
\* (_collect_publication_records, after the push).
NeverOverclaims ==
    \A h \in Halves, s \in States :
        \A row \in ToSet(log[h][s].published) : row.sha.nr <= pushed[row.sha.repo]

\* At rest, and with nothing having failed, the history verifies.
VerifiedAtRest ==
    AtRest /\ faults = 0 => ChainHolds /\ HeadFresh /\ StatesOnDisk /\ CommitLogsHold

\* An entry that was recorded is never reported for rows another command wrote: a
\* command whose recording failed leaves a gap, "the next `verify` reports the gap"
\* (memory_commands.py:1879-1881), and the history goes on beside it.
\* COMMIT_LOG_MISMATCH says of rows that they were edited; nobody edits here.
EntriesOwnTheirRows == AtRest => RowsAreSigned

\* HEAD lies in the half of the entry it names: "a fold moves both together, so
\* this is never split across the two halves" (memory_commands.py:1834-1836).
HeadInItsHalf ==
    AtRest => \A h \in Halves : head[h] # 0 => \E e \in lgr[h] : e.id = head[h]

\* Where the rows of one sha are in one table.
Copies(table, sha) ==
    UNION {{<<h, s, i>> : i \in {j \in DOMAIN log[h][s][table] : log[h][s][table][j].sha = sha}} :
               h \in Halves, s \in States}

\* Once the whole tree is pushed, every remembered commit says so: "A commit with
\* no publication row was never pushed" (commit_log.py:79).
PublishedIsRecorded ==
    AtRest /\ pushed = made =>
        \A sha \in Sha : Copies("commit", sha) # {} => Copies("published", sha) # {}

\* ... and only once: a push records "every remembered commit ... that carries
\* no publication row yet" (memory_commands.py:152-153).
PublishedOnce ==
    AtRest => \A sha \in Sha : \A a, b \in Copies("published", sha) : a = b

\* A commit is in the logs once.  A fold that is killed between the rows it appended
\* and the log it unlinks leaves both, and the next one appends the rows again.
CommittedOnce ==
    AtRest => \A sha \in Sha : Cardinality(Copies("commit", sha)) <= 1

\* Both at once, as long as nothing failed: neither a fold between the commit and
\* its push, nor the split of a State's log over two halves, hides a row or shows it
\* to two pushes (_collect_publication_records).
PublishedExactlyOnce == faults = 0 => PublishedIsRecorded /\ PublishedOnce

\* The memory never stops a push from publishing: an "otherwise successful push
\* ... must never be blocked by the memory's own trouble"
\* (memory_commands.py:1027-1029).  Only a kill or a failing disk ends it early.
NeverBlocksPush ==
    [][\A p \in Procs :
          push[p] /\ at[p] \in {"entries", "states", "log_commits"} /\ at'[p] = "idle"
          => faults' # faults]_vars

\* At rest the commit logs say of each commit that it was made, once, and that it is
\* public, once, exactly when its remote has it: also beside a State-writing command that
\* takes no lock, which may break a push's fold off before it publishes
\* (_fold_memory_pending's rmdir) so that the push is run again.
LogsMatchGit ==
    AtRest /\ faults = 0 =>
        \A sha \in Sha :
            /\ Cardinality(Copies("commit", sha)) = IF sha.nr <= made[sha.repo] THEN 1 ELSE 0
            /\ Cardinality(Copies("published", sha)) = IF sha.nr <= pushed[sha.repo] THEN 1 ELSE 0

\* Within one half, one number is one entry, whoever races for it: "two processes
\* racing to write the same seq must not silently clobber one another"
\* (ledger_store.py:77-80).
PendingSeqsUnique ==
    \A e, f \in lgr.pending : e.seq = f.seq => e = f

\* The ledger on disk, in both halves, is the history Chronicle promises.
History == [n \in {e.seq : e \in Entries} |-> CHOOSE e \in Entries : e.seq = n]

Promised == INSTANCE Chronicle WITH Genesis <- NoEntry.id, history <- History

ImplementsChronicle == Promised!Spec
=============================================================================
