------------------------- MODULE WorkspaceLockProofs -------------------------
(****************************************************************************)
(* What WorkspaceLock promises, for any number of processes and any depth   *)
(* of nesting.  Type correctness needs nothing but LockAssumption; mutual   *)
(* exclusion needs a workspace that already has its .cgitsync directory and *)
(* nobody running `unlock`; LockLimits.cfg shows that neither condition     *)
(* can be dropped.                                                          *)
(****************************************************************************)
EXTENDS WorkspaceLock, TLAPS

LEMMA LockTypeCorrectInit == Init => TypeOK
BY LockAssumption DEF LockAssumption, Init, TypeOK

\* Every step keeps every variable in its type.
THEOREM LockTypeCorrect == Spec => []TypeOK
<1>1. Init => TypeOK
  BY LockTypeCorrectInit
<1>2. TypeOK /\ [Next]_vars => TypeOK'
  <2> SUFFICES ASSUME TypeOK, [Next]_vars PROVE TypeOK'
    OBVIOUS
  <2> USE LockAssumption DEF LockAssumption, TypeOK, LockFile
  <2>1. CASE UNCHANGED vars
    BY <2>1 DEF vars
  <2>2. ASSUME NEW p \in Procs, Command(p) \/ Die(p) PROVE TypeOK'
    <3>1. CASE RunBare(p) \/ MakeStateDir(p) \/ EndBare(p)
      BY <3>1 DEF RunBare, MakeStateDir, EndBare
    <3>2. CASE Create(p)
      BY <3>2 DEF Create
    <3>3. CASE WriteBody(p)
      BY <3>3 DEF WriteBody
    <3>4. CASE WriteBodyFails(p)
      BY <3>4 DEF WriteBodyFails
    <3>5. CASE Nest(p)
      BY <3>5 DEF Nest
    <3>6. CASE Unnest(p)
      BY <3>6 DEF Unnest
    <3>7. CASE Release(p)
      BY <3>7 DEF Release
    <3>8. CASE Die(p)
      BY <3>8 DEF Die
    <3> QED
      BY <2>2, <3>1, <3>2, <3>3, <3>4, <3>5, <3>6, <3>7, <3>8 DEF Command
  <2>3. ASSUME NEW u \in Unlockers, Clear(u) PROVE TypeOK'
    <3>1. CASE Look(u)
      BY <3>1 DEF Look
    <3>2. CASE ReadHolder(u)
      <4> DEFINE read == IF lockFile # NoLock /\ lockFile.body = "written"
                         THEN lockFile.by ELSE Nobody
      <4>1. read \in Procs \cup {Nobody}
        OBVIOUS
      <4> QED
        BY <3>2, <4>1 DEF ReadHolder
    <3>3. CASE Judge(u)
      BY <3>3 DEF Judge
    <3>4. CASE Unlink(u)
      BY <3>4 DEF Unlink
    <3> QED
      BY <2>3, <3>1, <3>2, <3>3, <3>4 DEF Clear
  <2> QED
    BY <2>1, <2>2, <2>3 DEF Next
<1> QED
  BY <1>1, <1>2, PTL DEF Spec

-----------------------------------------------------------------------------
(* Mutual exclusion.  MutualExclusion alone is not inductive: it says       *)
(* nothing of a process between creating the file and writing its body,     *)
(* nor of whose file is on disk.  HolderOwnsFile says both, and             *)
(* HeldOnlyInside ties the count in memory to the process's position.       *)

HeldOnlyInside == \A p \in Procs : held[p] > 0 <=> proc[p] = "in"

LockInv ==
    /\ TypeOK
    /\ dir
    /\ bare = {}
    /\ HeldOnlyInside
    /\ HolderOwnsFile

LEMMA LockInvInit ==
    ASSUME ~Fresh PROVE Init => LockInv
<1> SUFFICES ASSUME Init PROVE LockInv
  OBVIOUS
<1>1. TypeOK
  BY LockTypeCorrectInit
<1>2. dir
  BY Zenon DEF Init
<1>3. bare = {} /\ HeldOnlyInside /\ HolderOwnsFile
  BY DEF Init, HeldOnlyInside, HolderOwnsFile
<1> QED
  BY <1>1, <1>2, <1>3 DEF LockInv

\* Only the process that made the lock file writes its body or unlinks it.
LEMMA LockInvStep ==
    ASSUME Unlockers = {}, LockInv, TypeOK', [Next]_vars PROVE LockInv'
<1> USE LockAssumption DEF LockAssumption, LockInv, TypeOK, LockFile, HeldOnlyInside, HolderOwnsFile
<1>1. CASE UNCHANGED vars
  BY <1>1 DEF vars
<1>2. ASSUME NEW p \in Procs, Command(p) \/ Die(p) PROVE LockInv'
  <2>1. CASE RunBare(p) \/ MakeStateDir(p) \/ EndBare(p)
    BY <2>1 DEF RunBare, MakeStateDir, EndBare
  <2>2. CASE Create(p)
    BY <2>2 DEF Create
  <2>3. CASE WriteBody(p)
    BY <2>3 DEF WriteBody
  <2>4. CASE WriteBodyFails(p)
    BY <2>4 DEF WriteBodyFails
  <2>5. CASE Nest(p)
    BY <2>5 DEF Nest
  <2>6. CASE Unnest(p)
    BY <2>6 DEF Unnest
  <2>7. CASE Release(p)
    BY <2>7 DEF Release
  <2>8. CASE Die(p)
    BY <2>8 DEF Die
  <2> QED
    BY <1>2, <2>1, <2>2, <2>3, <2>4, <2>5, <2>6, <2>7, <2>8 DEF Command
<1> QED
  BY <1>1, <1>2 DEF Next

LEMMA LockInvAlways ==
    ASSUME Unlockers = {}, ~Fresh PROVE Spec => []LockInv
<1>1. Init => LockInv
  BY LockInvInit
<1>2. LockInv /\ TypeOK' /\ [Next]_vars => LockInv'
  BY LockInvStep
<1> QED
  BY <1>1, <1>2, LockTypeCorrect, PTL DEF Spec

\* Two cgitsync runs never write to one workspace at once (workspace_lock.py:1).
THEOREM LockMutualExclusion ==
    ASSUME Unlockers = {}, ~Fresh PROVE Spec => []MutualExclusion
<1>1. LockInv => MutualExclusion
  BY LockAssumption DEF LockAssumption, LockInv, TypeOK, HeldOnlyInside, HolderOwnsFile, MutualExclusion, Writing
<1> QED
  BY <1>1, LockInvAlways, PTL

\* The file on disk is always the one the process inside the lock created.
THEOREM LockHolderOwnsFile ==
    ASSUME Unlockers = {}, ~Fresh PROVE Spec => []HolderOwnsFile
BY LockInvAlways, PTL DEF LockInv

\* No command touches the lock a dead process left (workspace_lock.py:7-8).
THEOREM LockStaleStays ==
    ASSUME Unlockers = {}, ~Fresh PROVE Spec => StaleLockStays
<1> DEFINE Stale(p) == lockFile # NoLock /\ lockFile.by = p /\ ~Alive(p)
<1>1. ASSUME LockInv, [Next]_vars, NEW p \in Procs, Stale(p)
      PROVE lockFile' = lockFile
  <2> USE LockAssumption, <1>1 DEF LockAssumption, LockInv, TypeOK, HeldOnlyInside, HolderOwnsFile, Alive
  <2>1. CASE UNCHANGED vars
    BY <2>1 DEF vars
  <2>2. ASSUME NEW q \in Procs, Command(q) \/ Die(q) PROVE lockFile' = lockFile
    <3>1. ~Create(q) /\ ~Release(q) /\ ~WriteBody(q)
      <4>1. ~Create(q)
        BY DEF Create
      <4>2. ~Release(q)
        <5> SUFFICES ASSUME held[q] = 1 PROVE FALSE
          BY DEF Release
        <5>1. proc[q] = "in"
          OBVIOUS
        <5>2. lockFile.by = q
          BY <5>1
        <5> QED
          BY <5>1, <5>2
      <4>3. ~WriteBody(q)
        BY DEF WriteBody
      <4> QED
        BY <4>1, <4>2, <4>3
    <3>2. CASE ~(Create(q) \/ Release(q) \/ WriteBody(q))
      BY <2>2, <3>2 DEF Command, RunBare, MakeStateDir, EndBare,
                        WriteBodyFails, Nest, Unnest, Die
    <3> QED
      BY <3>1, <3>2
  <2> QED
    BY <2>1, <2>2 DEF Next
<1>2. LockInv /\ [Next]_vars =>
          [\A p \in Procs : Stale(p) => lockFile' = lockFile]_vars
  BY <1>1
<1> QED
  BY <1>2, LockInvAlways, PTL DEF Spec, StaleLockStays
=============================================================================
