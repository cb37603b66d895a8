---------------------------- MODULE WorkspaceLock ----------------------------
(****************************************************************************)
(* The advisory lock of one workspace: the file .cgitsync/.lock, taken by   *)
(* every writing command (tree/workspace_lock.py, installed around the      *)
(* client's methods by orchestre/workspace_locking.py) and cleared by       *)
(* `cgitsync unlock` when a killed command left it behind.                  *)
(*                                                                          *)
(* A process takes the lock in two steps, because the file is created       *)
(* empty and its body (process id, moment, command) is written afterwards;  *)
(* it may be killed in between, and the write may fail.  `unlock` takes     *)
(* four: it looks, reads, judges and unlinks, and anything may happen       *)
(* between two of them.  A refused command (WorkspaceBusyError) changes     *)
(* nothing, so it is a stuttering step and has no action of its own.        *)
(****************************************************************************)
EXTENDS Naturals

CONSTANTS
    Procs,      \* processes that run writing commands
    Unlockers,  \* processes that run `cgitsync unlock`
    MaxDepth,   \* bound: writing calls nested in one process
    Fresh,      \* TRUE: the workspace has no .cgitsync directory at first
    NoLock,     \* the lock file is not there
    Nobody      \* holder() answered None

ASSUME LockAssumption ==
    /\ MaxDepth \in Nat \ {0}
    /\ Fresh \in BOOLEAN
    /\ NoLock \notin [by : Procs, body : {"empty", "written"}]
    /\ Nobody \notin Procs

VARIABLES
    lockFile,   \* the file: who created it, and whether its body is written
    dir,        \* whether .cgitsync exists
    proc,       \* each process: "idle", "creating" (file made, body not), "in", "dead"
    held,       \* WorkspaceLock._held: writing calls inside the lock, per process
    bare,       \* processes inside a writing method that started with no .cgitsync
    unlock      \* each `unlock`: where it is, what it read, whether --force

vars == <<lockFile, dir, proc, held, bare, unlock>>

LockFile == [by : Procs, body : {"empty", "written"}]

Alive(p) == proc[p] # "dead"

\* The process may be writing to the workspace.
Writing(p) == Alive(p) /\ (held[p] > 0 \/ p \in bare)

TypeOK ==
    /\ lockFile \in LockFile \cup {NoLock}
    /\ dir \in BOOLEAN
    /\ proc \in [Procs -> {"idle", "creating", "in", "dead"}]
    /\ held \in [Procs -> 0..MaxDepth]
    /\ bare \subseteq Procs
    /\ unlock \in [Unlockers -> [at : {"idle", "read", "judge", "unlink"},
                                 saw : Procs \cup {Nobody},
                                 force : BOOLEAN]]

Init ==
    /\ lockFile = NoLock
    /\ dir = ~Fresh
    /\ proc = [p \in Procs |-> "idle"]
    /\ held = [p \in Procs |-> 0]
    /\ bare = {}
    /\ unlock = [u \in Unlockers |-> [at |-> "idle", saw |-> Nobody, force |-> FALSE]]

-----------------------------------------------------------------------------
(* A writing command *)

\* The wrapped method finds no .cgitsync: it runs with no lock at all.
RunBare(p) ==
    /\ proc[p] = "idle"
    /\ ~dir
    /\ p \notin bare
    /\ bare' = bare \cup {p}
    /\ UNCHANGED <<lockFile, dir, proc, held, unlock>>

\* It writes its first State, which makes the directory.
MakeStateDir(p) ==
    /\ p \in bare
    /\ ~dir
    /\ dir' = TRUE
    /\ UNCHANGED <<lockFile, proc, held, bare, unlock>>

EndBare(p) ==
    /\ p \in bare
    /\ proc[p] = "idle"
    /\ bare' = bare \ {p}
    /\ UNCHANGED <<lockFile, dir, proc, held, unlock>>

\* Mutant of Create: opened without O_EXCL.
CreateNotExclusive(p) ==
    /\ dir
    /\ proc[p] = "idle"
    /\ lockFile' = [by |-> p, body |-> "empty"]
    /\ proc' = [proc EXCEPT ![p] = "creating"]
    /\ UNCHANGED <<dir, held, bare, unlock>>

\* Mutant of Create: a stale lock is taken over instead of refused.
CreateStealsStale(p) ==
    /\ dir
    /\ proc[p] = "idle"
    /\ lockFile # NoLock => ~Alive(lockFile.by)
    /\ lockFile' = [by |-> p, body |-> "empty"]
    /\ proc' = [proc EXCEPT ![p] = "creating"]
    /\ UNCHANGED <<dir, held, bare, unlock>>

\* hold, outermost: open(O_CREAT | O_EXCL) succeeds; the file is still empty.
Create(p) ==
    /\ dir
    /\ proc[p] = "idle"
    /\ lockFile = NoLock
    /\ lockFile' = [by |-> p, body |-> "empty"]
    /\ proc' = [proc EXCEPT ![p] = "creating"]
    /\ UNCHANGED <<dir, held, bare, unlock>>

\* The body reaches the file p created, which `unlock` may have unlinked since.
WriteBody(p) ==
    /\ proc[p] = "creating"
    /\ lockFile' = IF lockFile # NoLock /\ lockFile.by = p
                   THEN [by |-> p, body |-> "written"]
                   ELSE lockFile
    /\ proc' = [proc EXCEPT ![p] = "in"]
    /\ held' = [held EXCEPT ![p] = 1]
    /\ UNCHANGED <<dir, bare, unlock>>

\* Writing the body raises (a full disk): hold raises, and the file stays.
WriteBodyFails(p) ==
    /\ proc[p] = "creating"
    /\ proc' = [proc EXCEPT ![p] = "idle"]
    /\ UNCHANGED <<lockFile, dir, held, bare, unlock>>

\* hold, nested: the same process already holds the lock.
Nest(p) ==
    /\ proc[p] = "in"
    /\ held[p] < MaxDepth
    /\ held' = [held EXCEPT ![p] = @ + 1]
    /\ UNCHANGED <<lockFile, dir, proc, bare, unlock>>

\* Mutant of Unnest: every hold unlinks the file on its way out.
UnnestUnlinks(p) ==
    /\ held[p] > 1
    /\ held' = [held EXCEPT ![p] = @ - 1]
    /\ lockFile' = NoLock
    /\ UNCHANGED <<dir, proc, bare, unlock>>

\* The end of a nested hold leaves the file alone ...
Unnest(p) ==
    /\ held[p] > 1
    /\ held' = [held EXCEPT ![p] = @ - 1]
    /\ UNCHANGED <<lockFile, dir, proc, bare, unlock>>

\* ... and the end of the outermost one unlinks it, whoever's file it is by now.
Release(p) ==
    /\ held[p] = 1
    /\ held' = [held EXCEPT ![p] = 0]
    /\ proc' = [proc EXCEPT ![p] = "idle"]
    /\ lockFile' = NoLock
    /\ UNCHANGED <<dir, bare, unlock>>

\* The process is killed, or ends: its memory goes, the file stays.
Die(p) ==
    /\ Alive(p)
    /\ proc' = [proc EXCEPT ![p] = "dead"]
    /\ held' = [held EXCEPT ![p] = 0]
    /\ bare' = bare \ {p}
    /\ UNCHANGED <<lockFile, dir, unlock>>

-----------------------------------------------------------------------------
(* clear, behind `cgitsync unlock [--force]` *)

Look(u) ==
    /\ unlock[u].at = "idle"
    /\ lockFile # NoLock
    /\ \E force \in BOOLEAN :
          unlock' = [unlock EXCEPT ![u] = [at |-> "read", saw |-> Nobody, force |-> force]]
    /\ UNCHANGED <<lockFile, dir, proc, held, bare>>

\* holder: None when the file is gone or its body cannot be read.
ReadHolder(u) ==
    /\ unlock[u].at = "read"
    /\ LET saw == IF lockFile # NoLock /\ lockFile.body = "written"
                  THEN lockFile.by ELSE Nobody
       IN unlock' = [unlock EXCEPT
                        ![u] = [at |-> "judge", saw |-> saw, force |-> @.force]]
    /\ UNCHANGED <<lockFile, dir, proc, held, bare>>

\* Mutant of Judge: any readable lock is refused unless --force.
JudgeAnyHolder(u) ==
    /\ unlock[u].at = "judge"
    /\ LET refused == unlock[u].saw # Nobody /\ ~unlock[u].force
       IN unlock' = [unlock EXCEPT ![u].at = IF refused THEN "idle" ELSE "unlink"]
    /\ UNCHANGED <<lockFile, dir, proc, held, bare>>

\* A holder that still runs is refused, unless --force; anything else goes on.
Judge(u) ==
    /\ unlock[u].at = "judge"
    /\ LET saw == unlock[u].saw
           refused == saw # Nobody /\ Alive(saw) /\ ~unlock[u].force
       IN unlock' = [unlock EXCEPT ![u].at = IF refused THEN "idle" ELSE "unlink"]
    /\ UNCHANGED <<lockFile, dir, proc, held, bare>>

Unlink(u) ==
    /\ unlock[u].at = "unlink"
    /\ lockFile' = NoLock
    /\ unlock' = [unlock EXCEPT ![u].at = "idle"]
    /\ UNCHANGED <<dir, proc, held, bare>>

-----------------------------------------------------------------------------
Command(p) ==
    \/ RunBare(p) \/ MakeStateDir(p) \/ EndBare(p)
    \/ Create(p) \/ WriteBody(p) \/ WriteBodyFails(p)
    \/ Nest(p) \/ Unnest(p) \/ Release(p)

Clear(u) == Look(u) \/ ReadHolder(u) \/ Judge(u) \/ Unlink(u)

Next ==
    \/ \E p \in Procs : Command(p) \/ Die(p)
    \/ \E u \in Unlockers : Clear(u)

Spec == Init /\ [][Next]_vars

(* A running process goes on with the call it is in; the operating system   *)
(* schedules it.  Nobody promises that a command is started, that it dies,  *)
(* or that anybody ever types `unlock`.                                     *)
FairSpec ==
    /\ Spec
    /\ \A p \in Procs :
          /\ WF_vars(WriteBody(p) \/ WriteBodyFails(p))
          /\ WF_vars(Unnest(p) \/ Release(p))
    /\ \A u \in Unlockers : WF_vars(ReadHolder(u) \/ Judge(u) \/ Unlink(u))

-----------------------------------------------------------------------------
(* Properties *)

\* Two processes are never writing to the workspace at once: "so two cgitsync
\* runs never write at once" (workspace_lock.py:1).
MutualExclusion ==
    \A p, q \in Procs : Writing(p) /\ Writing(q) => p = q

\* A process inside the lock owns the file on disk, so no other run can be
\* told the workspace is free while it works (hold, _create).
HolderOwnsFile ==
    \A p \in Procs : proc[p] \in {"creating", "in"} =>
        /\ lockFile # NoLock
        /\ lockFile.by = p
        /\ proc[p] = "in" => lockFile.body = "written"

\* The lock a dead process left keeps every other command out: as long as
\* nobody types `unlock`, no command steals it, overwrites it or unlinks it on
\* its way out ("clear is the one way to remove it", workspace_lock.py:8).
StaleLockStays ==
    [][\A p \in Procs :
          lockFile # NoLock /\ lockFile.by = p /\ ~Alive(p) => lockFile' = lockFile]_vars

\* `unlock` clears the lock of a process that is gone, whatever the others do
\* meanwhile: it never stops at "still running" and never leaves the file.
UnlockClears ==
    \A u \in Unlockers, p \in Procs :
        unlock[u].at = "read" /\ lockFile # NoLock /\ lockFile.by = p /\ ~Alive(p)
            ~> lockFile = NoLock \/ lockFile.by # p

\* `unlock` without --force never removes the lock of a process that runs:
\* "A lock whose process still runs is refused unless *force*"
\* (workspace_lock.py, clear).
UnlockSparesTheLiving ==
    [][\A u \in Unlockers :
          /\ unlock[u].at = "unlink" /\ unlock'[u].at = "idle"
          /\ ~unlock[u].force /\ lockFile # NoLock
          => ~Alive(lockFile.by)]_vars

\* A lock file whose body cannot be read belongs to a process that is about to
\* write it: the refusal says "Another cgitsync is taking the lock of ...
\* right now ... try again" (workspace_lock.py, _refusal).
TakingEnds ==
    lockFile # NoLock /\ lockFile.body = "empty"
        ~> lockFile = NoLock \/ lockFile.body = "written"
=============================================================================
