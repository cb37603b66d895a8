-------------------------------- MODULE Machines -------------------------------
(****************************************************************************)
(* One project's memory on several machines: made by default, adopted,      *)
(* cloned, pushed, pulled, branched, merged, rebooted and repaired          *)
(* (orchestre/memory_commands.py, default_memory.py, memory_branch_guard.py,*)
(* tree/operations/memory_merge.py, tree/autofix/repair_divergent_user.py). *)
(*                                                                          *)
(* A ledger entry is the sequence of records up to its own: its length is   *)
(* the number in its file name, and its chain holds when its front is an    *)
(* entry too.  A ledger is the set of its files.                            *)
(****************************************************************************)
EXTENDS Naturals, Sequences, FiniteSets, SequencesExt, FiniteSetsExt

CONSTANTS
    Machines,
    Keepers,      \* those whose user also declares, branches, merges and reboots the memory
    MaxRecords,   \* how many times a command records, on all machines
    MaxCommits,   \* and how many commits the memory repository gets, less the faults
    MaxFaults,    \* refusals of the network, and kills
    Habits,       \* what people take care of: "fold first", "reboot apart"
    None

VARIABLES
    commits,      \* every commit, by number: its history and its ledger
    origin,       \* the branches of the shared repository
    mach,         \* each machine: its mount, its refs and the pending half
    records, faults

vars == <<commits, origin, mach, records, faults>>

Base     == "main"
Projects == {"main", "dev"}
Live     == {"P", "P_dev"}
Archive(b) == CASE b = "P" -> "P.archived" [] b = "P_dev" -> "P_dev.archived"
Names    == {Base, "P", "P_dev", "P.archived", "P_dev.archived"}

\* MemoryRepository.branch: the memory branch a project branch records to.
Derived(b) == IF b = "main" THEN "P" ELSE "P_dev"

NoRef  == [b \in Names |-> 0]
NoUp   == [b \in Names |-> None]
Idle   == [op |-> "idle"]
History(c) == IF c = 0 THEN {} ELSE commits[c].past
Ledger(c)  == IF c = 0 THEN {} ELSE commits[c].lgr
Next1      == Len(commits) + 1
Made(parents, lgr) ==
    Append(commits, [past |-> {Next1} \cup UNION {History(c) : c \in parents}, lgr |-> lgr])
Room       == Len(commits) + faults < MaxCommits
HeadOf(m)    == mach[m].local[mach[m].on]
Clean(m)   == mach[m].wt = Ledger(HeadOf(m))
\* What people do: nothing is pending when another ledger comes under it.
FoldedFirst(m) == "fold first" \in Habits => mach[m].pend = {}
Known(m)   == [b \in Names |-> IF origin[b] # 0 THEN origin[b] ELSE mach[m].track[b]]

-----------------------------------------------------------------------------
(* Recording and folding *)

\* PendingMemory.read_ledger_entries: of two with one number, the pending one is last.
LastEntry(folded, pend) ==
    LET top == Max({Len(e) : e \in folded \cup pend} \cup {0})
    IN  IF top = 0 THEN << >>
        ELSE CHOOSE e \in (IF \E p \in pend : Len(p) = top THEN pend ELSE folded) : Len(e) = top

\* _fold_memory_pending: every pending file replaces one of its name.
Folded(folded, pend) == {e \in folded : \A p \in pend : Len(p) # Len(e)} \cup pend

\* A clone that found no derived branch stands on the base.
Machine(git, tree, on, c) ==
    [git |-> git, tree |-> tree, declared |-> git = "published", on |-> on,
     local |-> [NoRef EXCEPT ![on] = c], track |-> [NoRef EXCEPT ![on] = c],
     up |-> [NoUp EXCEPT ![on] = on], remote |-> IF git = "none" THEN None ELSE "origin",
     wt |-> IF c = 2 THEN {<<0>>} ELSE {}, pend |-> {}, at |-> Idle]
Bare == [Machine("none", "main", "P", 0) EXCEPT !.up = NoUp]

Init ==
    /\ commits = <<[past |-> {1}, lgr |-> {}], [past |-> {1, 2}, lgr |-> {<<0>>}]>>
    /\ \/ /\ origin = [NoRef EXCEPT ![Base] = 1]
          /\ mach = [m \in Machines |-> Bare]
       \/ /\ origin = [NoRef EXCEPT ![Base] = 1, !["P"] = 2]
          /\ mach \in [Machines -> {Machine("published", "main", "P", 2), Machine("published", "dev", Base, 1), Bare}]
          /\ \A m \in Machines \ Keepers : mach[m] # Machine("published", "dev", Base, 1)
    /\ records = 0 /\ faults = 0

\* The State every command of the tree ends with: an entry chained from the last one
\* of both halves.
Noted(mine) == [mine EXCEPT !.pend = @ \cup {Append(LastEntry(mine.wt, mine.pend), records + 1)}]
Notes == records < MaxRecords /\ records' = records + 1

Mounted(m) == mach[m].git = "published" /\ mach[m].declared

\* A command that leaves the memory's branch alone, its project on branch b after it: a
\* memory that is not in the tree does not follow.  DefaultMemory.ensure runs before the
\* State is written: where nothing is declared it makes a memory, or fails and is ignored.
Record(m, b) ==
    LET mine == [mach[m] EXCEPT !.tree = b]
        to   == Derived(b)
        made == mine.git = "none" /\ ~mine.declared
    IN  /\ mine.at = Idle /\ Notes
        /\ b = mach[m].tree \/ ~Mounted(m)
        /\ \/ /\ made /\ Room
              /\ commits' = Made({}, {})
              /\ mach' = [mach EXCEPT ![m] = [Noted(mine) EXCEPT !.git = "defaulted", !.on = to, !.local[to] = Next1]]
              /\ UNCHANGED faults
           \/ /\ made /\ faults < MaxFaults /\ faults' = faults + 1
              /\ mach' = [mach EXCEPT ![m] = Noted(mine)]
              /\ UNCHANGED commits
           \/ /\ ~made
              /\ mach' = [mach EXCEPT ![m] = Noted(mine)]
              /\ UNCHANGED <<commits, faults>>
        /\ UNCHANGED origin

\* add_memory_repo_cgs, and the first two steps of `memory setup`.
Declare(m) ==
    /\ mach[m].at = Idle /\ ~mach[m].declared
    /\ mach' = [mach EXCEPT ![m].declared = TRUE]
    /\ UNCHANGED <<commits, origin, records, faults>>

\* Somebody adds a remote to the local memory by hand: reported, never obeyed.
AddRemote(m) ==
    /\ mach[m].at = Idle /\ mach[m].git = "defaulted" /\ mach[m].remote = None
    /\ mach' = [mach EXCEPT ![m].remote = "hand"]
    /\ UNCHANGED <<commits, origin, records, faults>>

-----------------------------------------------------------------------------
(* memory push *)

\* Mutant: the mount's own branch, whatever it is.
MayWriteAnywhere(m) == TRUE

\* MemoryBranchGuard.require: only the base is refused.
MayWrite(m) == mach[m].on # Base
\* Mutant: the remote is asked, not the marker.
SendsToAnyRemote(m) == mach[m].remote # None

\* A defaulted memory is folded and committed, never sent.
Sends(m) == mach[m].git = "published"
\* The guard, the fold and the commit; what comes after the push is `then`.
PushFold(m, then) ==
    LET all == Folded(mach[m].wt, mach[m].pend)
        new == all # Ledger(HeadOf(m))
    IN  /\ mach[m].git # "none"
        /\ Sends(m) => MayWrite(m)
        /\ new => Room
        /\ commits' = IF new THEN Made({HeadOf(m)}, all) ELSE commits
        /\ mach' = [mach EXCEPT ![m] = [mach[m] EXCEPT !.wt = all, !.pend = {},
                        !.local[mach[m].on] = IF new THEN Next1 ELSE HeadOf(m),
                        !.at = IF Sends(m) THEN [op |-> "send", branch |-> mach[m].on, track |-> TRUE, then |-> then]
                               ELSE then]]
        /\ UNCHANGED <<origin, records, faults>>

MemoryPush(m) == mach[m].at = Idle /\ PushFold(m, Idle)

\* git push, never forced: origin takes what contains its own.
Takes(b, c) == c # 0 /\ (origin[b] = 0 \/ origin[b] \in History(c))
Send(m) ==
    LET job == mach[m].at
        c   == mach[m].local[job.branch]
        rebooting(o) == o # m /\ mach[o].at.op \in {"archive", "delete"} /\ mach[o].at.branch = job.branch
    IN  /\ job.op = "send" /\ Takes(job.branch, c)
        /\ "reboot apart" \in Habits => \A o \in Machines : ~rebooting(o)
        /\ origin' = [origin EXCEPT ![job.branch] = c]
        /\ mach' = [mach EXCEPT ![m] = [mach[m] EXCEPT !.track[job.branch] = c, !.at = job.then,
                        !.up[job.branch] = IF job.track THEN job.branch ELSE mach[m].up[job.branch]]]
        /\ UNCHANGED <<commits, records, faults>>

\* Refused: what is committed stays here.
SendRefused(m) ==
    LET job == mach[m].at
    IN  /\ job.op = "send" /\ ~Takes(job.branch, mach[m].local[job.branch])
        /\ mach' = [mach EXCEPT ![m].at = Idle]
        /\ UNCHANGED <<commits, origin, records, faults>>

-----------------------------------------------------------------------------
(* adopt and clone *)

\* A defaulted memory keeps its commits, its marker gone; otherwise a new repository.
\* The name it takes must be free.
Adopt(m, reboot) ==
    LET mine == mach[m]
        to   == Derived(mine.tree)
        kept == mine.git = "defaulted"
    IN  /\ mine.at = Idle
        /\ kept \/ (mine.git = "none" /\ mine.pend # {})
        /\ kept /\ mine.on # to => mine.local[to] = 0
        /\ mach' = [mach EXCEPT ![m] = [mach[m] EXCEPT !.git = "published", !.on = to, !.remote = "origin",
                        !.local = IF kept THEN [mine.local EXCEPT ![mine.on] = 0, ![to] = HeadOf(m)] ELSE NoRef,
                        !.at = [op |-> "join", kept |-> kept, reboot |-> reboot, was |-> mine]]]
        /\ UNCHANGED <<commits, origin, records, faults>>

\* Mutant: the branch keeps its new name.
UndoneButTheName(m) ==
    [mach[m] EXCEPT !.git = "defaulted", !.at = Idle, !.remote = mach[m].at.was.remote]

\* _undo_adopt: the remote it had, the branch it had, the marker.
Undone(m) ==
    LET mine == mach[m]
        was  == mine.at.was
    IN  [mine EXCEPT !.git = "defaulted", !.at = Idle, !.on = was.on,
                     !.local = [mine.local EXCEPT ![mine.on] = 0, ![was.on] = HeadOf(m)],
                     !.remote = was.remote, !.track = IF was.remote = None THEN NoRef ELSE mine.track]
\* The fetch, and the base of the remote joined or started from; two ledgers conflict.
Clash(m) == Ledger(origin[Base]) # {} /\ mach[m].wt # {}
Join(m) ==
    LET mine == mach[m]
        job  == mine.at
        join == origin[Base] # 0 /\ ~job.reboot
        all  == Ledger(origin[Base]) \cup mine.wt
        done == [mine EXCEPT !.at = Idle, !.track = Known(m)]
    IN  /\ job.op = "join"
        /\ \/ /\ ~join
              /\ mach' = [mach EXCEPT ![m] = done] /\ UNCHANGED commits
           \/ /\ join /\ ~job.kept
              /\ mach' = [mach EXCEPT ![m] = [done EXCEPT !.local[mine.on] = origin[Base], !.up[mine.on] = Base,
                                                          !.wt = Ledger(origin[Base])]]
              /\ UNCHANGED commits
           \/ /\ join /\ job.kept /\ ~Clash(m) /\ Room
              /\ commits' = Made({HeadOf(m), origin[Base]}, all)
              /\ mach' = [mach EXCEPT ![m] = [done EXCEPT !.local[mine.on] = Next1, !.wt = all]]
        /\ UNCHANGED <<origin, records, faults>>

\* The fetch fails, or the two do not merge: a kept memory goes back.
JoinFails(m) ==
    /\ mach[m].at.op = "join"
    /\ IF mach[m].at.kept /\ ~mach[m].at.reboot /\ Clash(m) THEN UNCHANGED faults
       ELSE faults < MaxFaults /\ faults' = faults + 1
    /\ mach' = [mach EXCEPT ![m] = IF mach[m].at.kept THEN Undone(m) ELSE [mach[m] EXCEPT !.at = Idle]]
    /\ UNCHANGED <<commits, origin, records>>

Clone(m) ==
    LET b == Derived(mach[m].tree)
    IN  /\ mach[m].at = Idle /\ mach[m].git = "none" /\ origin[b] # 0
        /\ FoldedFirst(m)
        /\ mach' = [mach EXCEPT ![m] = [mach[m] EXCEPT !.git = "published", !.on = b, !.remote = "origin",
                        !.local = [NoRef EXCEPT ![b] = origin[b]], !.track = [NoRef EXCEPT ![b] = origin[b]],
                        !.up = [NoUp EXCEPT ![b] = b], !.wt = Ledger(origin[b])]]
        /\ UNCHANGED <<commits, origin, records, faults>>

-----------------------------------------------------------------------------
(* What the whole tree's commands do to a mounted memory *)

\* checkout: its own branch, origin's, or a new one from HEAD.
Checkout(m, b) ==
    LET to    == Derived(b)
        seen  == IF mach[m].track[to] # 0 THEN mach[m].track[to] ELSE origin[to]
        start == IF mach[m].local[to] # 0 THEN mach[m].local[to] ELSE IF seen # 0 THEN seen ELSE HeadOf(m)
        moved == [mach[m] EXCEPT !.tree = b, !.on = to, !.local[to] = start, !.wt = Ledger(start),
                      !.track[to] = seen, !.up[to] = IF mach[m].up[to] = None /\ seen # 0 THEN to ELSE mach[m].up[to]]
    IN  /\ mach[m].at = Idle /\ Mounted(m) /\ Clean(m) /\ b # mach[m].tree /\ start # 0 /\ Notes
        /\ FoldedFirst(m)
        /\ mach' = [mach EXCEPT ![m] = Noted(moved)]
        /\ UNCHANGED <<commits, origin, faults>>

\* pull --ff-only of the branch the tree derives, into whatever is checked out; what
\* diverged is fetched and stays.
Pull(m) ==
    LET on   == mach[m].on
        from == Known(m)[Derived(mach[m].tree)]
        head == IF HeadOf(m) \in History(from) \cup {0} THEN from ELSE HeadOf(m)
        done == head = from \/ from \in History(head)
        here == [mach[m] EXCEPT !.track = Known(m), !.local[on] = head, !.wt = Ledger(head),
                     !.up[on] = IF done /\ mach[m].up[on] = None /\ Known(m)[on] # 0 THEN on ELSE mach[m].up[on]]
    IN  /\ mach[m].at = Idle /\ Mounted(m) /\ Clean(m) /\ from # 0 /\ Notes
        /\ FoldedFirst(m)
        /\ mach' = [mach EXCEPT ![m] = Noted(here)]
        /\ UNCHANGED <<commits, origin, faults>>

-----------------------------------------------------------------------------
(* memory branch and memory merge *)

\* Created once, at the head; checked out when it is the tree's own and the mount is on the base.
MemoryBranch(m, b) ==
    LET new == Derived(b)
    IN  /\ mach[m].at = Idle /\ mach[m].git = "published" /\ HeadOf(m) # 0
        /\ origin[new] = 0 /\ mach[m].local[new] = 0
        /\ mach' = [mach EXCEPT ![m] = [mach[m] EXCEPT !.local[new] = HeadOf(m),
                        !.on = IF mach[m].on = Base /\ mach[m].tree = b THEN new ELSE mach[m].on,
                        !.at = [op |-> "send", branch |-> new, track |-> FALSE, then |-> Idle]]]
        /\ UNCHANGED <<commits, origin, records, faults>>

\* memory merge folds and pushes first.
MemoryMerge(m, source, target, keep) ==
    /\ mach[m].at = Idle /\ source # target
    /\ PushFold(m, [op |-> "merge", source |-> Derived(source), target |-> Derived(target), keep |-> keep])

\* MemoryMergeOperation.tip: the newest of the two copies, None when they diverged.
Tip(m, b) ==
    LET here == mach[m].local[b]
        seen == mach[m].track[b]
    IN  IF here = 0 \/ here \in History(seen) THEN seen
        ELSE IF seen = 0 \/ seen \in History(here) THEN here
        ELSE None
\* Both branches are somewhere, neither diverged, and there is something to merge.
Mergeable(m) ==
    LET from == Tip(m, mach[m].at.source)
        into == Tip(m, mach[m].at.target)
    IN  from \notin {0, None} /\ into \notin {0, None} /\ from \notin History(into)
Merge(m) ==
    LET mine == mach[m]
        job  == mine.at
        from == Tip(m, job.source)
        into == Tip(m, job.target)
        keep == IF job.keep = "ours" THEN Ledger(into) ELSE Ledger(from)
        ff   == job.keep = "theirs" /\ into \in History(from)
        new  == IF ff THEN from ELSE Next1
    IN  /\ job.op = "merge" /\ Mergeable(m)
        /\ ~ff => Room
        /\ commits' = IF ff THEN commits ELSE Made({into, from}, keep)
        /\ mach' = [mach EXCEPT ![m] = [mach[m] EXCEPT !.local[job.target] = new,
                        !.wt = IF mine.on = job.target THEN keep ELSE mine.wt,
                        !.at = IF Sends(m) THEN [op |-> "send", branch |-> job.target, track |-> TRUE, then |-> Idle]
                               ELSE Idle]]
        /\ UNCHANGED <<origin, records, faults>>
MergeStops(m) ==
    /\ mach[m].at.op = "merge" /\ ~Mergeable(m)
    /\ mach' = [mach EXCEPT ![m].at = Idle]
    /\ UNCHANGED <<commits, origin, records, faults>>

-----------------------------------------------------------------------------
(* memory reboot *)

\* The fold comes before the guard, and the export is always something to commit.
Reboot(m) ==
    LET all == Folded(mach[m].wt, mach[m].pend)
    IN  /\ mach[m].at = Idle /\ mach[m].git = "published" /\ HeadOf(m) # 0
        /\ IF MayWrite(m)
           THEN /\ Room
                /\ commits' = Made({HeadOf(m)}, all)
                /\ mach' = [mach EXCEPT ![m] = [mach[m] EXCEPT !.wt = all, !.pend = {}, !.local[mach[m].on] = Next1,
                                !.at = [op |-> "send", branch |-> mach[m].on, track |-> TRUE,
                                        then |-> [op |-> "archive", branch |-> mach[m].on]]]]
           ELSE /\ mach[m].pend # {} /\ mach' = [mach EXCEPT ![m] = [mach[m] EXCEPT !.wt = all, !.pend = {}]]
                /\ UNCHANGED commits
        /\ UNCHANGED <<origin, records, faults>>

\* Mutant: the old name is removed first.
ArchivedLast(m) ==
    /\ mach[m].at.op = "archive"
    /\ origin' = [origin EXCEPT ![mach[m].at.branch] = 0]
    /\ mach' = [mach EXCEPT ![m].at.op = "delete"]
    /\ UNCHANGED <<commits, records, faults>>

\* Pushed under the archived name first; a name taken today refuses.
ArchivedFirst(m) ==
    LET b == mach[m].at.branch
    IN  /\ mach[m].at.op = "archive"
        /\ IF origin[Archive(b)] = 0 /\ mach[m].local[Archive(b)] = 0
           THEN /\ origin' = [origin EXCEPT ![Archive(b)] = mach[m].local[b]]
                /\ mach' = [mach EXCEPT ![m].at.op = "delete", ![m].track[Archive(b)] = mach[m].local[b]]
           ELSE mach' = [mach EXCEPT ![m].at = Idle] /\ UNCHANGED origin
        /\ UNCHANGED <<commits, records, faults>>
PushArchived(m) == ArchivedFirst(m)

\* git push --delete, without a lease.
DeleteRemote(m) ==
    LET b == mach[m].at.branch
    IN  /\ mach[m].at.op = "delete"
        /\ origin' = [origin EXCEPT ![b] = 0]
        /\ mach' = [mach EXCEPT ![m].at.op = "orphan", ![m].track[b] = 0]
        /\ UNCHANGED <<commits, records, faults>>

\* Renamed here, an orphan under the old name, one State, committed and sent.
Orphan(m) ==
    LET b   == mach[m].at.branch
        lgr == {<<records + 1>>}
    IN  /\ mach[m].at.op = "orphan" /\ Room
        /\ records' = records + 1
        /\ commits' = Made({}, lgr)
        /\ mach' = [mach EXCEPT ![m] = [mach[m] EXCEPT !.wt = lgr,
                        !.local = [mach[m].local EXCEPT ![Archive(b)] = mach[m].local[b], ![b] = Next1],
                        !.up = [mach[m].up EXCEPT ![Archive(b)] = mach[m].up[b], ![b] = None],
                        !.at = [op |-> "send", branch |-> b, track |-> TRUE, then |-> Idle]]]
        /\ UNCHANGED <<origin, faults>>

\* The command is killed, or the network fails it, between two of its steps.
Kill(m) ==
    /\ mach[m].at.op \in {"join", "archive", "delete", "orphan"} /\ faults < MaxFaults
    /\ faults' = faults + 1
    /\ mach' = [mach EXCEPT ![m].at = Idle]
    /\ UNCHANGED <<commits, origin, records>>

-----------------------------------------------------------------------------
(* autofix: the ledgers of two machines spliced by the time of their entries *)

OwnRecord(e) == e[Len(e)]
At(lgr, n) == {e \in lgr : Len(e) = n}

\* The prefix-closed ledgers: ChainVerifier.verify finds nothing.
Whole(lgr) == \A e \in lgr : Len(e) = 1 \/ Front(e) \in lgr

\* Git's three-way merge of the files of one number; they clash when all differ.
Differ(base, here, there) == here # base /\ there # base /\ here # there
Merged(base, here, there) == IF here = base THEN there ELSE here
Numbers == 1..(MaxRecords + MaxCommits)
Clashing(base, here, there) == {n \in Numbers : Differ(At(base, n), At(here, n), At(there, n))}
MergedAll(base, here, there) == UNION {Merged(At(base, n), At(here, n), At(there, n)) : n \in Numbers}

\* read_new_entries: what each side added since the merge base, oldest first.
NewOn(base, lgr, side) == {<<OwnRecord(e), side>> : e \in {x \in lgr : At(base, Len(x)) = {}}}
Originals(base, here, there) ==
    LET new == NewOn(base, here, 1) \cup NewOn(base, there, 2)
        Before(x) == {y \in new : y[1] < x[1] \/ (y[1] = x[1] /\ y[2] < x[2])}
    IN  [i \in 1..Cardinality(new) |-> CHOOSE x \in new : Cardinality(Before(x)) = i - 1]
Colliding(base, here, there) == {n \in Numbers : At(base, n) = {} /\ At(here, n) # {} /\ At(there, n) # {}}

\* Mutant: of two entries of one number, this machine's.
SplicedKeepingOurs(base, here, there) == here \cup {e \in there : At(here, Len(e)) = {}}

\* write_spliced_chain: numbered and chained again from the base's last entry.
Spliced(base, here, there) ==
    LET last == LastEntry(base, {})
        recs == [i \in DOMAIN Originals(base, here, there) |-> Originals(base, here, there)[i][1]]
        own  == {last \o SubSeq(recs, 1, k) : k \in DOMAIN recs}
    IN  own \cup {e \in MergedAll(base, here, there) : \A o \in own : Len(o) # Len(e)}
MergeBase(x, y) ==
    LET common == History(x) \cap History(y)
    IN  IF common = {} THEN 0 ELSE CHOOSE c \in common : \A d \in common : c \in History(d) => d = c

\* Refused without an upstream, without a common history, when Git's conflict is about
\* something else, and when the result does not verify.  A merge that is clean stays.
Repairable(m) == mach[m].up[mach[m].on] # None /\ MergeBase(HeadOf(m), Known(m)[mach[m].up[mach[m].on]]) # 0
Autofix(m) ==
    LET mine  == mach[m]
        there == Known(m)[mine.up[mine.on]]
        base  == Ledger(MergeBase(HeadOf(m), there))
        here  == Ledger(HeadOf(m))
        clash == Clashing(base, here, Ledger(there)) # {}
                 \/ Differ(LastEntry(base, {}), LastEntry(here, {}), LastEntry(Ledger(there), {}))
        lgr   == IF clash THEN Spliced(base, here, Ledger(there)) ELSE MergedAll(base, here, Ledger(there))
    IN  /\ mach[m].at = Idle /\ Mounted(m) /\ Clean(m) /\ Repairable(m)
        /\ FoldedFirst(m)
        /\ there \notin History(HeadOf(m)) /\ HeadOf(m) \notin History(there)
        /\ clash => Colliding(base, here, Ledger(there)) # {} /\ Whole(lgr)
        /\ Room
        /\ commits' = Made({HeadOf(m), there}, lgr)
        /\ mach' = [mach EXCEPT ![m] = [mach[m] EXCEPT !.local[mine.on] = Next1, !.wt = lgr, !.track = Known(m)]]
        /\ UNCHANGED <<origin, records, faults>>

\* What everybody does, and what only who keeps the memory in order does.
Everyday(m) ==
    \/ Record(m, mach[m].tree) \/ MemoryPush(m) \/ Send(m) \/ SendRefused(m)
    \/ \E reboot \in BOOLEAN : Adopt(m, reboot)
    \/ Join(m) \/ JoinFails(m) \/ Clone(m) \/ Pull(m) \/ Autofix(m) \/ Kill(m)
Keeping(m) ==
    \/ Declare(m) \/ AddRemote(m) \/ Merge(m) \/ MergeStops(m)
    \/ \E b \in Projects : Record(m, b) \/ Checkout(m, b) \/ MemoryBranch(m, b)
    \/ \E s, t \in Projects, k \in {"ours", "theirs"} : MemoryMerge(m, s, t, k)
    \/ Reboot(m) \/ PushArchived(m) \/ DeleteRemote(m) \/ Orphan(m)

Next == \E m \in Machines : Everyday(m) \/ (m \in Keepers /\ Keeping(m))

Spec == Init /\ [][Next]_vars

-----------------------------------------------------------------------------
(* What a memory promises *)

Reaches(refs)  == UNION {History(refs[b]) : b \in Names}
Recorded(cs)   == {OwnRecord(e) : e \in UNION {Ledger(c) : c \in cs}}

\* Whatever was recorded is pending somewhere, or in the history some branch still reaches.
NothingForgotten ==
    1..records \subseteq
        Recorded(Reaches(origin) \cup UNION {Reaches(mach[m].local) : m \in Machines})
        \cup {OwnRecord(e) : e \in UNION {mach[m].pend \cup mach[m].wt : m \in Machines}}

\* A memory the tool made by itself is published only by an adopt.
DefaultedStaysHome ==
    \A m \in Machines : mach[m].git = "defaulted" => Reaches(mach[m].local) \cap Reaches(origin) = {}

\* The base every memory starts from holds nobody's memory.
BaseIsNobodys == Ledger(origin[Base]) = {}

\* Every published ledger verifies.
PublishedVerifies == \A b \in Names : Whole(Ledger(origin[b]))

\* A folded entry's number is always lower than any pending one's.
NumberedAcrossTheFold == \A m \in Machines : \A e \in mach[m].wt, p \in mach[m].pend : Len(e) < Len(p)

MemoryIsKept == NothingForgotten /\ DefaultedStaysHome /\ BaseIsNobodys

\* What origin's branches hold stays there under some name, and an adoption that
\* is undone leaves the mount as it was.
OriginOnlyGains == Reaches(origin) \subseteq UNION {commits'[origin'[b]].past : b \in {n \in Names : origin'[n] # 0}}
UndoIsExact ==
    \A m \in Machines :
        mach[m].git = "published" /\ mach'[m].git = "defaulted" =>
            \A f \in {"on", "local", "remote", "wt", "pend"} : mach'[m][f] = mach[m].at.was[f]

\* What autofix makes holds the records of both machines, chained.
RepairKeepsBoth ==
    \A m \in Machines :
        mach[m].at = Idle /\ Mounted(m) /\ mach'[m].at = Idle /\ commits' # commits /\ mach'[m] # mach[m] =>
            /\ {OwnRecord(e) : e \in Ledger(HeadOf(m)) \cup Ledger(Known(m)[mach[m].up[mach[m].on]])}
                   \subseteq {OwnRecord(e) : e \in mach'[m].wt}
            /\ Whole(mach'[m].wt)
NothingGivenUp == OriginOnlyGains /\ UndoIsExact /\ RepairKeepsBoth /\ PublishedVerifies'

\* A published memory whose push is refused can be repaired by a command.
RefusedIsRepairable ==
    \A m \in Machines :
        LET b == mach[m].on
        IN  mach[m].at = Idle /\ Mounted(m) /\ HeadOf(m) # 0 /\ origin[b] # 0 =>
                \/ origin[b] \in History(HeadOf(m)) \/ HeadOf(m) \in History(origin[b])
                \/ Repairable(m)

===============================================================================
