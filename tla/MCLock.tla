--------------------------------- MODULE MCLock --------------------------------
(****************************************************************************)
(* The lock twice: the commands of a workspace that has its .cgitsync, as   *)
(* the configuration says, and two commands of a new one beside `unlock`.   *)
(* A behaviour is one of the two; the variables of the other do not move.   *)
(****************************************************************************)
EXTENDS WorkspaceLock

CONSTANT Which

VARIABLES which, lockFileU, dirU, procU, heldU, bareU, unlockU

Cleared == INSTANCE WorkspaceLock WITH
    Procs <- {"p1", "p2"}, Unlockers <- {"u1"}, MaxDepth <- 2, Fresh <- TRUE,
    lockFile <- lockFileU, dir <- dirU, proc <- procU, held <- heldU, bare <- bareU, unlock <- unlockU

varsU == <<lockFileU, dirU, procU, heldU, bareU, unlockU>>

Clearing == which = "unlock" /\ Cleared!Clear("u1") /\ unlockU["u1"].at # "idle" /\ UNCHANGED <<which, vars>>
InitBoth == which \in Which /\ Init /\ Cleared!Init
Locking  == which = "commands" /\ Next /\ UNCHANGED <<which, varsU>>
Unlocking == which = "unlock" /\ Cleared!Next /\ UNCHANGED <<which, vars>>
Both == InitBoth /\ [][Locking \/ Unlocking]_<<which, vars, varsU>> /\ WF_<<which, vars, varsU>>(Clearing)

\* An `unlock` that is running, and reads the lock a dead process left, clears it:
\* nobody promises that it is typed.
LeftBehind(p) == lockFileU # NoLock /\ lockFileU.by = p /\ ~Cleared!Alive(p)
StaleIsCleared == \A p \in {"p1", "p2"} : LeftBehind(p) /\ unlockU["u1"].at = "read" ~> ~LeftBehind(p)
================================================================================
