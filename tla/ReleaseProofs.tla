----------------------------- MODULE ReleaseProofs -----------------------------
(****************************************************************************)
(* What `release freeze` keeps, for any number of machines, repositories,   *)
(* edits and failures.                                                      *)
(*                                                                          *)
(* Typed is the type invariant, with what the sweep's guards need.  Sole    *)
(* gives OneReleaser.  Sound gives MarkMeansReleased: along a run, m's      *)
(* course says that nothing is left to commit in a project repository       *)
(* (Clean), that a tag already held is at HEAD (Kept), and that the leaves  *)
(* already visited are released (Sent); what a root tag says is then        *)
(* complete from the moment it is made.  Public adds that what the sweep    *)
(* tags was pushed.  A step of one machine changes nothing of another's     *)
(* (OthersStay), and what the remote holds is kept (RemoteKeeps).           *)
(****************************************************************************)
EXTENDS Release, FiniteSetTheorems, TLAPS

USE ReleaseAssumption, NoneAssumption

\* A leaf-first sweep goes through the repositories and ends at the root.
LEMMA ReposInOrder ==
    /\ Repos \subseteq Nat /\ 1 \in Repos /\ Root \in Repos
    /\ \A r \in Repos : r # Root => r \in Leaves /\ r + 1 \in Repos
    /\ \A r \in Repos : r # 1 => r - 1 \in Repos
    /\ Leaves \subseteq Repos /\ Project \subseteq Repos
  BY DEF Repos, Root, Leaves, Project

\* The names of the steps.
LEMMA StepNames ==
    {"add", "commit", "pull", "check push", "push", "check tag", "freeze", "tag",
     "branch", "send tag", "annotate", "send root tag", "record"} \subseteq Steps
  BY DEF Steps

-----------------------------------------------------------------------------
(* Types *)

ReposOK ==
    /\ head \in [Machines -> [Repos -> Commit]]
    /\ seen \in [Machines -> [Repos -> Commit]]
    /\ branch \in [Repos -> Commit]
    /\ work \in [Machines -> [Repos -> SUBSET {"edited", "staged"}]]
    /\ built \in Nat

TagsOK ==
    /\ tag \in [Machines -> [Leaves -> Commit]]
    /\ rtag \in [Leaves -> Commit]
    /\ mark \in [Machines -> Mark \cup {None}]
    /\ rmark \in Mark \cup {None}
    /\ row \subseteq Machines

\* A sweep tags, and sends the tag of, a leaf only.
RunOK ==
    /\ at \in [Machines -> Steps \cup {"idle"}]
    /\ turn \in [Machines -> Repos]
    /\ \A m \in Machines : at[m] \in {"tag", "send tag"} => turn[m] # Root
    /\ committed \subseteq Machines
    /\ edits \in 0..MaxEdits
    /\ faults \in 0..MaxFaults

\* A commit on top of two others is one.
LEMMA CommitOf ==
    /\ {} \in Commit
    /\ \A c \in Commit, d \in Commit, n \in Nat : c \cup d \cup {n + 1} \in Commit
  <1>1. ASSUME NEW c \in Commit, NEW d \in Commit, NEW n \in Nat
        PROVE  c \cup d \cup {n + 1} \in Commit
    <2>1. {n + 1} \subseteq Nat /\ c \subseteq Nat /\ d \subseteq Nat
      BY DEF Commit
    <2> QED
      BY <2>1 DEF Commit
  <1> QED
    BY <1>1 DEF Commit

\* Writing one repository's commit on one machine.
LEMMA SetTyped ==
    ASSUME NEW f \in [Machines -> [Repos -> Commit]],
           NEW m \in Machines, NEW r \in Repos, NEW c \in Commit
    PROVE  [f EXCEPT ![m][r] = c] \in [Machines -> [Repos -> Commit]]
  OBVIOUS

\* git commit keeps the branches typed.
LEMMA NewCommitTyped ==
    ASSUME ReposOK, NEW m \in Machines, NEW r \in Repos, NEW with \in Commit,
           NewCommit(m, r, with)
    PROVE  head' \in [Machines -> [Repos -> Commit]] /\ built' \in Nat
  <1> DEFINE new == head[m][r] \cup with \cup {built + 1}
  <1>1. new \in Commit
    <2>1. head[m][r] \in Commit /\ built \in Nat
      BY DEF ReposOK
    <2> QED
      BY <2>1, CommitOf
  <1>2. head' = [head EXCEPT ![m][r] = new] /\ built' = built + 1
    BY DEF NewCommit
  <1> HIDE DEF new
  <1> QED
    BY <1>1, <1>2 DEF ReposOK

\* git push keeps the remote and its tracking branch typed.
LEMMA PushTyped ==
    ASSUME ReposOK, NEW m \in Machines, NEW r \in Repos, PushBranch(m, r)
    PROVE  /\ branch' \in [Repos -> Commit]
           /\ seen' \in [Machines -> [Repos -> Commit]]
  <1>1. head[m][r] \in Commit
    BY DEF ReposOK
  <1> QED
    BY <1>1 DEF ReposOK, PushBranch

\* Every step keeps the repositories typed.
LEMMA ReposTyped == ReposOK /\ RunOK /\ [Next]_vars => ReposOK'
<1> SUFFICES ASSUME ReposOK, RunOK, [Next]_vars PROVE ReposOK'
  OBVIOUS
<1> USE DEF ReposOK, repos
<1>t. \A m \in Machines : turn[m] \in Repos
  BY DEF RunOK
<1>1. CASE UNCHANGED repos /\ UNCHANGED built
  BY <1>1
<1>2. ASSUME NEW m \in Machines, NEW r \in Repos, Edit(m, r)
      PROVE  ReposOK'
  BY <1>2 DEF Edit
<1>3. ASSUME NEW m \in Machines, NEW r \in Repos, Reconcile(m, r)
      PROVE  ReposOK'
  <2>1. seen[m][r] \in Commit
    OBVIOUS
  <2>2. CASE head' = [head EXCEPT ![m][r] = seen[m][r]] /\ UNCHANGED built
    BY <1>3, <2>1, <2>2 DEF Reconcile
  <2>3. CASE NewCommit(m, r, seen[m][r])
    <3>1. head' \in [Machines -> [Repos -> Commit]] /\ built' \in Nat
      BY <2>1, <2>3, NewCommitTyped
    <3> QED
      BY <1>3, <3>1 DEF Reconcile
  <2> QED
    BY <1>3, <2>2, <2>3 DEF Reconcile
<1>4. ASSUME NEW m \in Machines, Add(m)
      PROVE  ReposOK'
  BY <1>4 DEF Add
<1>5. ASSUME NEW m \in Machines, CommitRepo(m)
      PROVE  ReposOK'
  <2>1. CASE UNCHANGED <<head, built, work>>
    BY <1>5, <2>1 DEF CommitRepo
  <2>2. CASE /\ NewCommit(m, turn[m], {})
             /\ work' = [work EXCEPT ![m][turn[m]] = @ \ {"staged"}]
    <3>1. head' \in [Machines -> [Repos -> Commit]] /\ built' \in Nat
      BY <1>t, <2>2, NewCommitTyped, CommitOf
    <3>2. work' \in [Machines -> [Repos -> SUBSET {"edited", "staged"}]]
      BY <1>t, <2>2
    <3> QED
      BY <1>5, <3>1, <3>2 DEF CommitRepo
  <2> QED
    BY <1>5, <2>1, <2>2 DEF CommitRepo
<1>6. ASSUME NEW m \in Machines, Pull(m)
      PROVE  ReposOK'
  <2>1. seen' = [seen EXCEPT ![m][turn[m]] = branch[turn[m]]] /\ UNCHANGED <<branch, work, built>>
    BY <1>6 DEF Pull
  <2>2. seen' \in [Machines -> [Repos -> Commit]]
    BY <1>t, <2>1
  <2>3. \/ head' = head
        \/ head' = [head EXCEPT ![m][turn[m]] = head[m][turn[m]] \cup branch[turn[m]]]
    BY <1>6 DEF Pull
  <2>4. head[m][turn[m]] \cup branch[turn[m]] \in Commit
    <3>1. head[m][turn[m]] \in Commit /\ branch[turn[m]] \in Commit
      BY <1>t
    <3> QED
      BY <3>1 DEF Commit
  <2>5. [head EXCEPT ![m][turn[m]] = head[m][turn[m]] \cup branch[turn[m]]]
           \in [Machines -> [Repos -> Commit]]
    BY <1>t, <2>4, SetTyped
  <2>6. head' \in [Machines -> [Repos -> Commit]]
    BY <2>3, <2>5
  <2> QED
    BY <2>1, <2>2, <2>6
<1>7. ASSUME NEW m \in Machines, PushBranch(m, turn[m]), UNCHANGED <<head, work, built>>
      PROVE  ReposOK'
  BY <1>t, <1>7, PushTyped
<1>8. ASSUME NEW m \in Machines, Freeze(m)
      PROVE  ReposOK'
  <2>1. CASE UNCHANGED <<head, built, work>>
    BY <1>8, <2>1 DEF Freeze
  <2>2. CASE NewCommit(m, turn[m], {}) /\ work' = [work EXCEPT ![m][turn[m]] = {}]
    <3>1. head' \in [Machines -> [Repos -> Commit]] /\ built' \in Nat
      BY <1>t, <2>2, NewCommitTyped, CommitOf
    <3>2. work' \in [Machines -> [Repos -> SUBSET {"edited", "staged"}]]
      BY <1>t, <2>2
    <3> QED
      BY <1>8, <3>1, <3>2 DEF Freeze
  <2> QED
    BY <1>8, <2>1, <2>2 DEF Freeze
<1>9. ASSUME NEW m \in Machines, Stop(m)
      PROVE  ReposOK'
  <2>1. seen' = seen \/ seen' = [seen EXCEPT ![m][turn[m]] = branch[turn[m]]]
    BY <1>9 DEF Stop
  <2>2. branch[turn[m]] \in Commit
    BY <1>t
  <2>3. [seen EXCEPT ![m][turn[m]] = branch[turn[m]]] \in [Machines -> [Repos -> Commit]]
    BY <1>t, <2>2, SetTyped
  <2>4. seen' \in [Machines -> [Repos -> Commit]]
    BY <2>1, <2>3
  <2> QED
    BY <1>9, <2>4 DEF Stop
<1>10. ASSUME NEW m \in Machines, Push(m) \/ FreezeBranch(m)
       PROVE  ReposOK'
  <2>1. \/ UNCHANGED <<branch, seen>>
        \/ PushBranch(m, turn[m])
    BY <1>10 DEF Push, FreezeBranch
  <2>2. UNCHANGED <<head, work, built>>
    BY <1>10 DEF Push, FreezeBranch
  <2> QED
    BY <1>1, <1>7, <2>1, <2>2
<1>11. ASSUME NEW m \in Machines,
              \/ Start(m) \/ CheckPush(m) \/ CheckTag(m) \/ TagRepo(m) \/ SendTag(m)
              \/ Annotate(m) \/ SendRootTag(m) \/ Record(m)
       PROVE  ReposOK'
  <2>1. UNCHANGED repos /\ UNCHANGED built
    BY <1>11 DEF Start, CheckPush, CheckTag, TagRepo, SendTag, Annotate, SendRootTag, Record
  <2> QED
    BY <1>1, <2>1
<1> QED
  BY <1>1, <1>2, <1>3, <1>4, <1>5, <1>6, <1>8, <1>9, <1>10, <1>11 DEF Next, Step, vars

\* Every step keeps the tags and the ledgers' rows typed.
LEMMA TagsTyped == ReposOK /\ TagsOK /\ RunOK /\ [Next]_vars => TagsOK'
<1> SUFFICES ASSUME ReposOK, TagsOK, RunOK, [Next]_vars PROVE TagsOK'
  OBVIOUS
<1> USE DEF TagsOK, tags
<1>t. \A m \in Machines : turn[m] \in Repos
  BY DEF RunOK
<1>h. \A m \in Machines, r \in Repos : head[m][r] \in Commit
  BY DEF ReposOK
<1>1. CASE UNCHANGED tags /\ UNCHANGED row
  BY <1>1
<1>2. ASSUME NEW m \in Machines, Start(m)
      PROVE  TagsOK'
  <2>1. mark' = [mark EXCEPT ![m] = IF @ = None THEN rmark ELSE @] \/ mark' = mark
    BY <1>2 DEF Start
  <2> QED
    BY <1>2, <2>1 DEF Start
<1>3. ASSUME NEW m \in Machines, Pull(m)
      PROVE  TagsOK'
  <2>1. \/ tag' = tag
        \/ turn[m] \in Leaves /\ tag' = [tag EXCEPT ![m][turn[m]] = rtag[turn[m]]]
    BY <1>3, <1>t, ReposInOrder DEF Pull
  <2>2. mark' = [mark EXCEPT ![m] = rmark] \/ mark' = mark
    BY <1>3 DEF Pull
  <2>3. tag' \in [Machines -> [Leaves -> Commit]]
    BY <2>1
  <2>4. mark' \in [Machines -> Mark \cup {None}]
    BY <2>2
  <2> QED
    BY <1>3, <2>3, <2>4 DEF Pull
<1>4. ASSUME NEW m \in Machines, TagRepo(m)
      PROVE  TagsOK'
  <2>1. head[m][turn[m]] \in Commit /\ turn[m] \in Leaves
    BY <1>4, <1>t, <1>h, ReposInOrder DEF TagRepo, RunOK
  <2>2. tag' = tag \/ tag' = [tag EXCEPT ![m][turn[m]] = head[m][turn[m]]]
    <3>1. CASE tag[m][turn[m]] = {}
      BY <1>4, <3>1 DEF TagRepo
    <3>2. CASE tag[m][turn[m]] # {}
      <4>1. tag' = [tag EXCEPT ![m][turn[m]] = tag[m][turn[m]]]
        BY <1>4, <3>2 DEF TagRepo
      <4> QED
        BY <2>1, <4>1
    <3> QED
      BY <3>1, <3>2
  <2>3. tag' \in [Machines -> [Leaves -> Commit]]
    BY <2>1, <2>2
  <2> QED
    BY <1>4, <2>3 DEF TagRepo
<1>5. ASSUME NEW m \in Machines, SendTag(m)
      PROVE  TagsOK'
  <2>1. turn[m] \in Leaves
    BY <1>5, <1>t, ReposInOrder DEF SendTag, RunOK
  <2>2. rtag' = rtag \/ rtag' = [rtag EXCEPT ![turn[m]] = tag[m][turn[m]]]
    BY <1>5 DEF SendTag
  <2>3. rtag' \in [Leaves -> Commit]
    BY <2>1, <2>2
  <2> QED
    BY <1>5, <2>3 DEF SendTag
<1>6. ASSUME NEW m \in Machines, Annotate(m)
      PROVE  TagsOK'
  <2> DEFINE k == [by |-> m, at |-> head[m][Root], notes |-> [r \in Project |-> head[m][r]]]
  <2>1. k \in Mark
    <3>1. [r \in Project |-> head[m][r]] \in [Project -> Commit]
      BY <1>h, ReposInOrder
    <3>2. head[m][Root] \in Commit
      BY <1>h, ReposInOrder
    <3> QED
      BY <3>1, <3>2 DEF Mark
  <2>2. mark' = mark \/ mark' = [mark EXCEPT ![m] = k]
    BY <1>6 DEF Annotate
  <2> HIDE DEF k
  <2>3. mark' \in [Machines -> Mark \cup {None}]
    BY <2>1, <2>2
  <2> QED
    BY <1>6, <2>3 DEF Annotate
<1>7. ASSUME NEW m \in Machines, SendRootTag(m)
      PROVE  TagsOK'
  <2>1. rmark' = rmark \/ rmark' = mark[m]
    BY <1>7 DEF SendRootTag
  <2> QED
    BY <1>7, <2>1 DEF SendRootTag
<1>8. ASSUME NEW m \in Machines, Record(m)
      PROVE  TagsOK'
  BY <1>8 DEF Record
<1>9. ASSUME NEW m \in Machines,
             \/ Add(m) \/ CommitRepo(m) \/ CheckPush(m) \/ Push(m) \/ CheckTag(m)
             \/ Freeze(m) \/ FreezeBranch(m) \/ Stop(m)
      PROVE  TagsOK'
  <2>1. UNCHANGED tags /\ UNCHANGED row
    BY <1>9 DEF Add, CommitRepo, CheckPush, Push, CheckTag, Freeze, FreezeBranch, Stop
  <2> QED
    BY <1>1, <2>1
<1>10. ASSUME NEW m \in Machines, NEW r \in Repos, Edit(m, r) \/ Reconcile(m, r)
       PROVE  TagsOK'
  <2>1. UNCHANGED tags /\ UNCHANGED row
    BY <1>10 DEF Edit, Reconcile
  <2> QED
    BY <1>1, <2>1
<1> QED
  BY <1>1, <1>2, <1>3, <1>4, <1>5, <1>6, <1>7, <1>8, <1>9, <1>10 DEF Next, Step, vars

\* Going on to another step keeps the run typed.
LEMMA GoTyped ==
    ASSUME RunOK, NEW m \in Machines, NEW s \in Steps \cup {"idle"}, NEW r \in Repos,
           s \in {"tag", "send tag"} => r # Root, Go(m, s, r),
           committed' \subseteq Machines, UNCHANGED edits, faults' \in 0..MaxFaults
    PROVE  RunOK'
  BY DEF RunOK, Go

\* A run that ends keeps it typed.
LEMMA FailTyped ==
    ASSUME RunOK, NEW m \in Machines, Fail(m), UNCHANGED edits, faults' \in 0..MaxFaults
    PROVE  RunOK'
  <1>1. Go(m, "idle", Root) /\ committed' \subseteq Machines
    BY DEF Fail, RunOK
  <1> QED
    BY <1>1, GoTyped, ReposInOrder

\* A bounded counter below its bound may count one more.
LEMMA NextCount ==
    ASSUME NEW max \in Nat, NEW n \in 0..max, n < max
    PROVE  n + 1 \in 0..max
  OBVIOUS

\* Every step keeps the runs typed, and tags leaves only in "tag" and "send tag".
LEMMA RunTyped == RunOK /\ [Next]_vars => RunOK'
<1> SUFFICES ASSUME RunOK, [Next]_vars PROVE RunOK'
  OBVIOUS
<1> USE ReposInOrder, StepNames DEF run
<1>t. /\ committed \subseteq Machines /\ edits \in 0..MaxEdits /\ faults \in 0..MaxFaults
      /\ \A m \in Machines : turn[m] \in Repos
  BY DEF RunOK
<1>1. CASE UNCHANGED run /\ edits' \in 0..MaxEdits /\ UNCHANGED faults
  BY <1>1 DEF RunOK
<1>2. ASSUME NEW m \in Machines, NEW r \in Repos, Edit(m, r)
      PROVE  RunOK'
  <2>1. edits < MaxEdits /\ edits' = edits + 1
    BY <1>2 DEF Edit
  <2>2. edits' \in 0..MaxEdits
    BY <1>t, <2>1, NextCount
  <2> QED
    BY <1>1, <1>2, <2>2 DEF Edit
<1>3. ASSUME NEW m \in Machines, NEW r \in Repos, Reconcile(m, r)
      PROVE  RunOK'
  BY <1>1, <1>3, <1>t DEF Reconcile
<1>4. ASSUME NEW m \in Machines, Fail(m), UNCHANGED <<edits, faults>>
      PROVE  RunOK'
  BY <1>4, <1>t, FailTyped
<1>5. ASSUME NEW m \in Machines, NEW s \in Steps, NEW r \in Repos, s \notin {"tag", "send tag"},
             Go(m, s, r), committed' \subseteq Machines, UNCHANGED <<edits, faults>>
      PROVE  RunOK'
  BY <1>5, <1>t, GoTyped
<1>6. ASSUME NEW m \in Machines, Start(m)
      PROVE  RunOK'
  <2>1. UNCHANGED <<committed, edits, faults>>
    BY <1>6 DEF Start
  <2>2. CASE UNCHANGED <<at, turn>>
    BY <1>1, <1>t, <2>1, <2>2
  <2>3. CASE Go(m, "add", Root)
    BY <1>5, <1>t, <2>1, <2>3
  <2> QED
    BY <1>6, <2>2, <2>3 DEF Start
<1>7. ASSUME NEW m \in Machines, Add(m)
      PROVE  RunOK'
  BY <1>4, <1>5, <1>7, <1>t DEF Add
<1>8. ASSUME NEW m \in Machines, CommitRepo(m)
      PROVE  RunOK'
  BY <1>5, <1>8, <1>t DEF CommitRepo
<1>9. ASSUME NEW m \in Machines, Pull(m)
      PROVE  RunOK'
  BY <1>4, <1>5, <1>9, <1>t DEF Pull
<1>10. ASSUME NEW m \in Machines, CheckPush(m) \/ CheckTag(m)
       PROVE  RunOK'
  BY <1>4, <1>5, <1>10, <1>t DEF CheckPush, CheckTag
<1>11. ASSUME NEW m \in Machines, Push(m)
       PROVE  RunOK'
  BY <1>4, <1>5, <1>11, <1>t DEF Push, Visited
<1>12. ASSUME NEW m \in Machines, Freeze(m)
       PROVE  RunOK'
  <2>1. committed' \subseteq Machines /\ UNCHANGED <<edits, faults>>
    BY <1>12, <1>t DEF Freeze
  <2>2. CASE turn[m] = Root
    BY <1>5, <1>12, <2>1, <2>2 DEF Freeze
  <2>3. CASE turn[m] # Root
    BY GoTyped, <1>12, <1>t, <2>1, <2>3 DEF Freeze
  <2> QED
    BY <2>2, <2>3
<1>13. ASSUME NEW m \in Machines, TagRepo(m)
       PROVE  RunOK'
  BY <1>5, <1>13, <1>t DEF TagRepo
<1>14. ASSUME NEW m \in Machines, FreezeBranch(m)
       PROVE  RunOK'
  <2>1. UNCHANGED <<edits, faults>>
    BY <1>14 DEF FreezeBranch
  <2>2. CASE Fail(m)
    BY <1>4, <2>1, <2>2
  <2>3. CASE Go(m, IF turn[m] = Root THEN "annotate" ELSE "send tag", turn[m]) /\ UNCHANGED committed
    <3>1. CASE turn[m] = Root
      BY <1>5, <1>t, <2>1, <2>3, <3>1
    <3>2. CASE turn[m] # Root
      BY GoTyped, <1>t, <2>1, <2>3, <3>2
    <3> QED
      BY <3>1, <3>2
  <2> QED
    BY <1>14, <2>2, <2>3 DEF FreezeBranch
<1>15. ASSUME NEW m \in Machines, SendTag(m)
       PROVE  RunOK'
  <2>1. turn[m] # Root
    BY <1>15 DEF SendTag, RunOK
  <2> QED
    BY <1>4, <1>5, <1>15, <1>t, <2>1 DEF SendTag
<1>16. ASSUME NEW m \in Machines, Annotate(m) \/ SendRootTag(m)
       PROVE  RunOK'
  BY <1>4, <1>5, <1>16, <1>t DEF Annotate, SendRootTag
<1>17. ASSUME NEW m \in Machines, Record(m)
       PROVE  RunOK'
  BY <1>4, <1>17 DEF Record
<1>18. ASSUME NEW m \in Machines, Stop(m)
       PROVE  RunOK'
  <2>1. faults < MaxFaults /\ faults' = faults + 1 /\ UNCHANGED edits /\ Fail(m)
    BY <1>18 DEF Stop
  <2>2. faults' \in 0..MaxFaults
    BY <1>t, <2>1, NextCount
  <2> QED
    BY <2>1, <2>2, FailTyped
<1>19. CASE UNCHANGED vars
  BY <1>1, <1>19, <1>t DEF vars
<1> QED
  BY <1>2, <1>3, <1>6, <1>7, <1>8, <1>9, <1>10, <1>11, <1>12, <1>13, <1>14, <1>15, <1>16,
     <1>17, <1>18, <1>19 DEF Next, Step

Typed == ReposOK /\ TagsOK /\ RunOK

\* The initial state is typed.
LEMMA TypedInit == Init => Typed
<1> SUFFICES ASSUME Init PROVE Typed
  OBVIOUS
<1>1. {0} \in Commit /\ {} \in Commit
  BY DEF Commit
<1>2. ReposOK
  BY <1>1 DEF Init, ReposOK
<1>3. TagsOK
  BY <1>1 DEF Init, TagsOK
<1>4. RunOK
  BY ReposInOrder DEF Init, RunOK
<1> QED
  BY <1>2, <1>3, <1>4 DEF Typed

\* Every step keeps the state typed.
LEMMA TypedNext == Typed /\ [Next]_vars => Typed'
  BY ReposTyped, TagsTyped, RunTyped DEF Typed

\* Every variable keeps its type through release freeze, the edits and merges
\* around it, and the steps that fail.
THEOREM ReleaseTypeCorrect == Spec => []TypeOK
<1>1. Typed => TypeOK
  BY DEF Typed, ReposOK, TagsOK, RunOK, TypeOK
<1> QED
  BY <1>1, TypedInit, TypedNext, PTL DEF Spec

-----------------------------------------------------------------------------
(* One releaser *)

Acts(m) ==
    \/ \E r \in Repos : Edit(m, r) \/ Reconcile(m, r)
    \/ Start(m) \/ Step(m) \/ Stop(m)

\* A step of one machine leaves what another one holds alone.
LEMMA OthersStay ==
    ASSUME Typed, NEW p \in Machines, NEW q \in Machines, p # q, Acts(p)
    PROVE  /\ head[q]' = head[q] /\ work[q]' = work[q]
           /\ tag[q]' = tag[q] /\ mark[q]' = mark[q]
           /\ at[q]' = at[q] /\ turn[q]' = turn[q]
<1> USE DEF Typed, ReposOK, TagsOK, RunOK, repos, tags, run, Go, Fail, Visited, NewCommit, PushBranch
<1>1. ASSUME NEW r \in Repos, Edit(p, r) \/ Reconcile(p, r)
      PROVE  /\ head[q]' = head[q] /\ work[q]' = work[q]
             /\ tag[q]' = tag[q] /\ mark[q]' = mark[q]
             /\ at[q]' = at[q] /\ turn[q]' = turn[q]
  BY <1>1 DEF Edit, Reconcile
<1>2. CASE Start(p)
  BY <1>2 DEF Start
<1>3. CASE Add(p)
  BY <1>3 DEF Add
<1>4. CASE CommitRepo(p)
  BY <1>4 DEF CommitRepo
<1>5. CASE Pull(p)
  BY <1>5 DEF Pull
<1>6. CASE CheckPush(p) \/ Push(p) \/ CheckTag(p)
  BY <1>6 DEF CheckPush, Push, CheckTag
<1>7. CASE Freeze(p)
  BY <1>7 DEF Freeze
<1>8. CASE TagRepo(p)
  BY <1>8 DEF TagRepo
<1>9. CASE FreezeBranch(p) \/ SendTag(p)
  BY <1>9 DEF FreezeBranch, SendTag
<1>10. CASE Annotate(p) \/ SendRootTag(p) \/ Record(p)
  BY <1>10 DEF Annotate, SendRootTag, Record
<1>11. CASE Stop(p)
  BY <1>11 DEF Stop
<1> QED
  BY <1>1, <1>2, <1>3, <1>4, <1>5, <1>6, <1>7, <1>8, <1>9, <1>10, <1>11 DEF Acts, Step

\* The remote's root tag, once there, stays, and so do the leaves' tags; a
\* remote branch only grows.
LEMMA RemoteKeeps ==
    ASSUME Typed, NEW m \in Machines, Acts(m)
    PROVE  /\ rmark # None => rmark' = rmark
           /\ \A r \in Leaves : rtag[r] # {} => rtag'[r] = rtag[r]
           /\ \A r \in Repos : branch[r] \subseteq branch'[r]
<1> USE DEF repos, tags
<1>1. rmark # None => rmark' = rmark
  <2>1. rmark' = rmark \/ (rmark \in {None, mark[m]} /\ rmark' = mark[m])
    BY DEF Acts, Step, Edit, Reconcile, Start, Add, CommitRepo, Pull, CheckPush, Push, CheckTag,
           Freeze, TagRepo, FreezeBranch, SendTag, Annotate, SendRootTag, Record, Stop
  <2> QED
    BY <2>1
<1>2. \A r \in Leaves : rtag[r] # {} => rtag'[r] = rtag[r]
  <2>1. \/ rtag' = rtag
        \/ /\ rtag[turn[m]] \in {{}, tag[m][turn[m]]}
           /\ rtag' = [rtag EXCEPT ![turn[m]] = tag[m][turn[m]]]
    BY DEF Acts, Step, Edit, Reconcile, Start, Add, CommitRepo, Pull, CheckPush, Push, CheckTag,
           Freeze, TagRepo, FreezeBranch, SendTag, Annotate, SendRootTag, Record, Stop
  <2> QED
    BY <2>1 DEF Typed, TagsOK
<1>3. \A r \in Repos : branch[r] \subseteq branch'[r]
  <2>1. branch' = branch \/ PushBranch(m, turn[m])
    BY DEF Acts, Step, Edit, Reconcile, Start, Add, CommitRepo, Pull, CheckPush, Push, CheckTag,
           Freeze, TagRepo, FreezeBranch, SendTag, Annotate, SendRootTag, Record, Stop
  <2> QED
    BY <2>1 DEF PushBranch, Typed, ReposOK
<1> QED
  BY <1>1, <1>2, <1>3

\* A machine about to send the root's tag made that tag; one about to record the
\* release, or that has, made the tag the remote holds.
Sole ==
    \A m \in Machines :
        /\ at[m] = "send root tag" => mark[m] # None /\ mark[m].by = m
        /\ at[m] = "record" \/ m \in row => rmark # None /\ rmark.by = m

\* Every step keeps Sole.
LEMMA SoleNext == Typed /\ Sole /\ [Next]_vars => Sole'
<1> SUFFICES ASSUME Typed, Sole, [Next]_vars PROVE Sole'
  OBVIOUS
<1>1. CASE UNCHANGED vars
  BY <1>1 DEF vars, tags, run, Sole
<1>2. ASSUME NEW p \in Machines, Acts(p), NEW q \in Machines
      PROVE  /\ (at[q] = "send root tag" => mark[q] # None /\ mark[q].by = q)'
             /\ (at[q] = "record" \/ q \in row => rmark # None /\ rmark.by = q)'
  <2>1. row' = row \/ (at[p] = "record" /\ row' = row \cup {p})
    BY <1>2 DEF Acts, Step, Edit, Reconcile, Start, Add, CommitRepo, Pull, CheckPush, Push, CheckTag,
           Freeze, TagRepo, FreezeBranch, SendTag, Annotate, SendRootTag, Record, Stop
  <2>2. rmark # None => rmark' = rmark
    BY <1>2, RemoteKeeps
  <2>3. q \in row' => rmark' # None /\ rmark'.by = q
    BY <2>1, <2>2 DEF Sole
  <2>4. CASE p # q
    <3>1. at'[q] = at[q] /\ mark'[q] = mark[q]
      BY <1>2, <2>4, OthersStay
    <3> QED
      BY <2>2, <2>3, <3>1 DEF Sole
  <2>5. CASE p = q
    <3>1. \/ at'[q] \notin {"send root tag", "record"}
          \/ at'[q] = at[q] /\ mark'[q] = mark[q]
          \/ Annotate(q) /\ at'[q] = "send root tag"
          \/ SendRootTag(q) /\ at'[q] = "record"
      <4> USE DEF Typed, RunOK, Go, Fail, Visited, run, tags
      <4>1. CASE Annotate(q) \/ SendRootTag(q)
        BY <4>1 DEF Annotate, SendRootTag
      <4>2. CASE \E r \in Repos : Edit(q, r) \/ Reconcile(q, r)
        BY <4>2 DEF Edit, Reconcile
      <4>3. CASE Start(q) \/ Add(q) \/ CommitRepo(q) \/ Pull(q) \/ CheckPush(q) \/ Push(q)
        BY <4>3 DEF Start, Add, CommitRepo, Pull, CheckPush, Push
      <4>4. CASE CheckTag(q) \/ Freeze(q) \/ TagRepo(q) \/ FreezeBranch(q) \/ SendTag(q)
                 \/ Record(q) \/ Stop(q)
        BY <4>4 DEF CheckTag, Freeze, TagRepo, FreezeBranch, SendTag, Record, Stop
      <4> QED
        BY <1>2, <2>5, <4>1, <4>2, <4>3, <4>4 DEF Acts, Step
    <3>2. CASE at'[q] \notin {"send root tag", "record"}
      BY <2>3, <3>2
    <3>3. CASE at'[q] = at[q] /\ mark'[q] = mark[q]
      BY <2>2, <2>3, <3>3 DEF Sole
    <3>4. CASE Annotate(q) /\ at'[q] = "send root tag"
      <4> DEFINE k == [by |-> q, at |-> head[q][Root], notes |-> [r \in Project |-> head[q][r]]]
      <4>1. mark' = [mark EXCEPT ![q] = k]
        BY <3>4 DEF Annotate, Fail, Go, Typed, RunOK
      <4>2. mark'[q] = k /\ k.by = q
        BY <4>1 DEF Typed, TagsOK
      <4>3. k \in Mark
        <5>1. [r \in Project |-> head[q][r]] \in [Project -> Commit]
          BY ReposInOrder DEF Typed, ReposOK
        <5>2. head[q][Root] \in Commit
          BY ReposInOrder DEF Typed, ReposOK
        <5> QED
          BY <5>1, <5>2 DEF Mark
      <4> QED
        BY <2>3, <3>4, <4>2, <4>3
    <3>5. CASE SendRootTag(q) /\ at'[q] = "record"
      <4>1. rmark' = mark[q] /\ at[q] = "send root tag"
        BY <3>5 DEF SendRootTag, Fail, Go, Typed, RunOK
      <4> QED
        BY <2>3, <3>5, <4>1 DEF Sole
    <3> QED
      BY <3>1, <3>2, <3>3, <3>4, <3>5
  <2> QED
    BY <2>4, <2>5
<1> QED
  BY <1>1, <1>2 DEF Sole, Next, Acts

\* Two machines never both record the release as theirs: freeze_release sends
\* the root's tag, which it alone annotates, before it writes the row.
THEOREM OneReleaserAlways == Spec => []OneReleaser
<1>1. Init => Sole
  BY DEF Init, Sole
<1>2. Typed /\ Sole => OneReleaser
  <2> SUFFICES ASSUME Typed, Sole PROVE Cardinality(row) <= 1
    BY DEF OneReleaser
  <2>1. row \subseteq {rmark.by}
    BY DEF Typed, TagsOK, Sole
  <2>2. IsFiniteSet({rmark.by}) /\ Cardinality({rmark.by}) = 1
    BY FS_Singleton
  <2>3. Cardinality(row) <= Cardinality({rmark.by})
    BY <2>1, <2>2, FS_Subset
  <2> QED
    BY <2>2, <2>3
<1> QED
  BY <1>1, <1>2, TypedInit, TypedNext, SoleNext, PTL DEF Spec

-----------------------------------------------------------------------------
(* What the root's tag says, when no file is edited during a run *)

Sweep == {"freeze", "tag", "branch", "send tag", "annotate"}
Tail  == {"pull", "check push", "push", "check tag"} \cup Sweep

HeadsFull == \A m \in Machines, r \in Repos : head[m][r] # {}

\* From the commits on, nothing is left to commit in a project repository.
Clean(m) ==
    /\ at[m] = "commit" => \A r \in Project :
          work[m][r] \subseteq {"staged"} /\ (r < turn[m] => work[m][r] = {})
    /\ at[m] \in Tail => \A r \in Project : work[m][r] = {}

\* In the sweep, a project leaf's tag is at the commit the run releases.
Kept(m) ==
    at[m] \in Sweep => \A r \in Project \ {Root} : tag[m][r] \in {{}, head[m][r]}

Turn(m) ==
    /\ at[m] = "send tag" \/ (at[m] = "branch" /\ turn[m] # Root) => tag[m][turn[m]] # {}
    /\ at[m] = "annotate" => turn[m] = Root

\* The leaves the sweep has visited are released.
Sent(m) ==
    at[m] \in Sweep => \A r \in Leaves : r < turn[m] =>
        rtag[r] # {} /\ (r \in Project => rtag[r] = head[m][r])

Course(m) == Clean(m) /\ Kept(m) /\ Turn(m) /\ Sent(m)

Complete(k) ==
    k # None => \A r \in Leaves : rtag[r] # {} /\ (r \in Project => rtag[r] = k.notes[r])

Sound ==
    /\ HeadsFull
    /\ \A m \in Machines : Course(m) /\ Complete(mark[m])
    /\ Complete(rmark)

\* No step empties a branch.
LEMMA HeadsNext == Typed /\ HeadsFull /\ [Next]_vars => HeadsFull'
<1> SUFFICES ASSUME Typed, HeadsFull, [Next]_vars,
                    NEW q \in Machines, NEW s \in Repos
             PROVE  head'[q][s] # {}
  BY DEF HeadsFull
<1>1. CASE UNCHANGED head
  BY <1>1 DEF HeadsFull
<1>2. ASSUME NEW m \in Machines, NEW r \in Repos, NEW with, NewCommit(m, r, with)
      PROVE  head'[q][s] # {}
  BY <1>2 DEF NewCommit, HeadsFull, Typed, ReposOK
<1>3. ASSUME NEW m \in Machines, NEW r \in Repos, NEW c,
             head' = [head EXCEPT ![m][r] = c], head[m][r] \subseteq c
      PROVE  head'[q][s] # {}
  BY <1>3 DEF HeadsFull, Typed, ReposOK
<1>4. ASSUME NEW m \in Machines, Acts(m)
      PROVE  head'[q][s] # {}
  <2>1. \A r \in {turn[m]} : r \in Repos
    BY DEF Typed, RunOK
  <2>2. CASE Pull(m)
    <3>1. UNCHANGED head \/ head' = [head EXCEPT ![m][turn[m]] = head[m][turn[m]] \cup branch[turn[m]]]
      BY <2>2 DEF Pull
    <3> QED
      BY SMTT(30), <1>1, <1>3, <2>1, <3>1
  <2>3. ASSUME NEW r \in Repos, Reconcile(m, r)
        PROVE  head'[q][s] # {}
    BY <1>2, <1>3, <2>3 DEF Reconcile
  <2>4. CASE CommitRepo(m) \/ Freeze(m)
    BY <1>1, <1>2, <2>1, <2>4 DEF CommitRepo, Freeze
  <2>5. CASE \E r \in Repos : Edit(m, r)
    BY <1>1, <2>5 DEF Edit
  <2>6. CASE Start(m) \/ Add(m) \/ CheckPush(m) \/ Push(m) \/ CheckTag(m) \/ TagRepo(m)
             \/ FreezeBranch(m) \/ SendTag(m) \/ Annotate(m) \/ SendRootTag(m) \/ Record(m) \/ Stop(m)
    BY <1>1, <2>6 DEF repos, Start, Add, CheckPush, Push, CheckTag, TagRepo, FreezeBranch, SendTag,
                      Annotate, SendRootTag, Record, Stop
  <2> QED
    BY <1>4, <2>2, <2>3, <2>4, <2>5, <2>6 DEF Acts, Step
<1> QED
  BY <1>1, <1>4 DEF Next, Acts, vars, repos

\* A step of m keeps the course of m.
LEMMA OwnCourse ==
    ASSUME "during" \notin Edits, Typed, HeadsFull, NEW m \in Machines, Course(m), Acts(m)
    PROVE  Course(m)'
<1> USE DEF repos, tags, run
<1>t. turn[m] \in Repos
  BY DEF Typed, RunOK
<1>1. CASE at'[m] \in {"idle", "add", "send root tag", "record"}
  BY <1>1 DEF Course, Clean, Kept, Turn, Sent, Sweep, Tail
<1>f. ASSUME Fail(m)
      PROVE  Course(m)'
  <2>1. at'[m] = "idle"
    BY <1>f DEF Fail, Go, Typed, RunOK
  <2> QED
    BY <1>1, <2>1
<1>2. ASSUME NEW r \in Repos, Edit(m, r) \/ Reconcile(m, r)
      PROVE  Course(m)'
  <2>1. at'[m] = "idle"
    BY <1>2 DEF Edit, Reconcile
  <2> QED
    BY <1>1, <2>1
<1>3. CASE Start(m)
  <2>1. at'[m] \in {"idle", "add"}
    BY <1>3 DEF Start, Go, Typed, RunOK
  <2> QED
    BY <1>1, <2>1
<1>4. CASE Add(m)
  <2>1. CASE Go(m, "commit", 1)
    <3>1. at'[m] = "commit" /\ turn'[m] = 1
      BY <2>1 DEF Go, Typed, RunOK
    <3>2. \A r \in Project : work'[m][r] \subseteq {"staged"} /\ ~(r < 1)
      BY <1>4, ReposInOrder DEF Add, Repos, Project, Typed, ReposOK
    <3> QED
      BY <3>1, <3>2 DEF Course, Clean, Kept, Turn, Sent, Sweep, Tail
  <2> QED
    BY <1>4, <1>f, <2>1 DEF Add
<1>5. CASE CommitRepo(m)
  <2>1. at[m] = "commit"
    BY <1>5 DEF CommitRepo
  <2>2. \A r \in Project : work[m][r] \subseteq {"staged"} /\ (r < turn[m] => work[m][r] = {})
    BY <2>1 DEF Course, Clean
  <2>3. \A r \in Project : work'[m][r] = IF r = turn[m] THEN {} ELSE work[m][r]
    <3>1. CASE turn[m] \in Project /\ "staged" \in work[m][turn[m]]
      <4>1. work' = [work EXCEPT ![m][turn[m]] = @ \ {"staged"}]
        BY <1>5, <3>1 DEF CommitRepo
      <4>2. work'[m][turn[m]] = work[m][turn[m]] \ {"staged"}
        BY <1>t, <4>1 DEF Typed, ReposOK
      <4>3. \A r \in Repos : r # turn[m] => work'[m][r] = work[m][r]
        BY <1>t, <4>1 DEF Typed, ReposOK
      <4> QED
        BY <2>2, <3>1, <4>2, <4>3, ReposInOrder
    <3>2. CASE ~(turn[m] \in Project /\ "staged" \in work[m][turn[m]])
      <4>1. work' = work
        BY <1>5, <3>2 DEF CommitRepo
      <4> QED
        BY <2>2, <3>2, <4>1
    <3> QED
      BY <3>1, <3>2
  <2>4. \A r \in Project :
           /\ work'[m][r] \subseteq {"staged"}
           /\ r < turn[m] \/ r = turn[m] => work'[m][r] = {}
    BY <2>2, <2>3
  <2>5. \A r \in Project : r \in Repos /\ (r < turn[m] + 1 => r < turn[m] \/ r = turn[m])
                           /\ (turn[m] = Root => r < turn[m] \/ r = turn[m])
    BY <1>t, ReposInOrder DEF Repos, Root
  <2>6. CASE turn[m] = Root /\ Go(m, "pull", Root)
    <3>1. at'[m] = "pull"
      BY <2>6 DEF Go, Typed, RunOK
    <3> QED
      BY <2>4, <2>5, <2>6, <3>1 DEF Course, Clean, Kept, Turn, Sent, Sweep, Tail
  <2>7. CASE Go(m, "commit", turn[m] + 1)
    <3>1. at'[m] = "commit" /\ turn'[m] = turn[m] + 1
      BY <2>7 DEF Go, Typed, RunOK
    <3>2. \A r \in Project : r < turn[m] + 1 => work'[m][r] = {}
      BY <2>4, <2>5
    <3>3. Clean(m)'
      BY <2>4, <3>1, <3>2 DEF Clean, Sweep, Tail
    <3>4. (Kept(m) /\ Turn(m) /\ Sent(m))'
      BY <3>1 DEF Kept, Turn, Sent, Sweep
    <3> QED
      BY <3>3, <3>4 DEF Course
  <2> QED
    BY <1>5, <2>6, <2>7 DEF CommitRepo
<1>6. CASE Pull(m) \/ CheckPush(m) \/ Push(m)
  <2>1. work' = work /\ at[m] \in Tail
    BY <1>6 DEF Pull, CheckPush, Push, Tail
  <2>2. Fail(m) \/ at'[m] \in {"pull", "check push", "push", "check tag"}
    BY <1>6 DEF Pull, CheckPush, Push, Visited, Go, Typed, RunOK
  <2>3. CASE at'[m] \in {"pull", "check push", "push", "check tag"}
    BY <2>1, <2>3 DEF Course, Clean, Kept, Turn, Sent, Sweep, Tail
  <2> QED
    BY <1>f, <2>2, <2>3
<1>7. CASE CheckTag(m)
  <2>1. CASE TagsAtHead(m) /\ Go(m, "freeze", 1)
    <3>1. at'[m] = "freeze" /\ turn'[m] = 1
      BY <2>1 DEF Go, Typed, RunOK
    <3>2. \A r \in Project \ {Root} : tag[m][r] \in {{}, head[m][r]}
      BY <2>1, ReposInOrder DEF TagsAtHead, Tagged
    <3>3. \A r \in Leaves : ~(r < 1)
      BY ReposInOrder DEF Repos
    <3>4. UNCHANGED <<head, work, tag>> /\ at[m] = "check tag"
      BY <1>7 DEF CheckTag
    <3> QED
      BY <3>1, <3>2, <3>3, <3>4 DEF Course, Clean, Kept, Turn, Sent, Sweep, Tail
  <2> QED
    BY <1>7, <1>f, <2>1 DEF CheckTag
<1>8. CASE Freeze(m)
  <2>1. at[m] = "freeze" /\ UNCHANGED <<tag, rtag>>
    BY <1>8 DEF Freeze
  <2>2. at'[m] = (IF turn[m] = Root THEN "branch" ELSE "tag") /\ turn'[m] = turn[m]
    BY <1>8 DEF Freeze, Go, Typed, RunOK
  <2>3. \A r \in Project : work[m][r] = {}
    BY <2>1 DEF Course, Clean, Tail, Sweep
  <2>4. \A r \in Project : head'[m][r] = head[m][r] /\ work'[m][r] = {}
    <3>1. CASE work[m][turn[m]] = {}
      <4>1. UNCHANGED <<head, work>>
        BY <1>8, <3>1 DEF Freeze
      <4> QED
        BY <2>3, <4>1
    <3>2. CASE work[m][turn[m]] # {}
      <4>1. /\ work' = [work EXCEPT ![m][turn[m]] = {}]
            /\ head' = [head EXCEPT ![m][turn[m]] = @ \cup {} \cup {built + 1}]
        BY <1>8, <3>2 DEF Freeze, NewCommit
      <4>2. \A r \in Repos : r # turn[m] => head'[m][r] = head[m][r] /\ work'[m][r] = work[m][r]
        BY <4>1 DEF Typed, ReposOK
      <4> QED
        BY <2>3, <3>2, <4>2, ReposInOrder
    <3> QED
      BY <3>1, <3>2
  <2> QED
    BY <2>1, <2>2, <2>4 DEF Course, Clean, Kept, Turn, Sent, Sweep, Tail
<1>9. CASE TagRepo(m)
  <2>1. at[m] = "tag" /\ UNCHANGED <<head, work, rtag>>
    BY <1>9 DEF TagRepo
  <2>2. at'[m] = "branch" /\ turn'[m] = turn[m]
    BY <1>9 DEF TagRepo, Go, Typed, RunOK
  <2>3. turn[m] \in Leaves
    BY <1>t, <2>1, ReposInOrder DEF Typed, RunOK
  <2>4. tag'[m] = [tag[m] EXCEPT ![turn[m]] = IF @ = {} THEN head[m][turn[m]] ELSE @]
    BY <1>9, <2>3 DEF TagRepo, Typed, TagsOK
  <2>5. tag'[m][turn[m]] # {} /\ \A r \in Leaves : tag'[m][r] \in {tag[m][r], head[m][r]}
    BY <1>t, <2>3, <2>4 DEF HeadsFull, Typed, TagsOK
  <2> QED
    BY <2>1, <2>2, <2>5 DEF Course, Clean, Kept, Turn, Sent, Sweep, Tail, Leaves, Project
<1>10. CASE FreezeBranch(m)
  <2>1. at[m] = "branch" /\ UNCHANGED <<head, work, tag, rtag>>
    BY <1>10 DEF FreezeBranch
  <2>2. CASE Go(m, IF turn[m] = Root THEN "annotate" ELSE "send tag", turn[m])
    <3>1. at'[m] = (IF turn[m] = Root THEN "annotate" ELSE "send tag") /\ turn'[m] = turn[m]
      BY <2>2 DEF Go, Typed, RunOK
    <3> QED
      BY <2>1, <3>1 DEF Course, Clean, Kept, Turn, Sent, Sweep, Tail
  <2> QED
    BY <1>10, <1>f, <2>2 DEF FreezeBranch
<1>11. CASE SendTag(m)
  <2>1. at[m] = "send tag" /\ UNCHANGED <<head, work, tag>>
    BY <1>11 DEF SendTag
  <2>2. CASE rtag' = [rtag EXCEPT ![turn[m]] = tag[m][turn[m]]] /\ Go(m, "freeze", turn[m] + 1)
    <3>1. at'[m] = "freeze" /\ turn'[m] = turn[m] + 1
      BY <2>2 DEF Go, Typed, RunOK
    <3>2. turn[m] \in Leaves /\ tag[m][turn[m]] # {}
      BY <1>t, <2>1, ReposInOrder DEF Typed, RunOK, Course, Turn
    <3>3. rtag'[turn[m]] = tag[m][turn[m]]
      BY <2>2, <3>2 DEF Typed, TagsOK
    <3>4. turn[m] \in Project => tag[m][turn[m]] = head[m][turn[m]]
      BY <2>1, <3>2 DEF Course, Kept, Sweep, Leaves
    <3>5. \A r \in Leaves : r < turn[m] =>
              rtag'[r] # {} /\ (r \in Project => rtag'[r] = head[m][r])
      BY <2>1, RemoteKeeps DEF Course, Sent, Sweep
    <3>6. \A r \in Leaves : r < turn[m] + 1 => r < turn[m] \/ r = turn[m]
      BY <1>t, ReposInOrder DEF Repos
    <3>7. \A r \in Leaves : r < turn[m] + 1 =>
              rtag'[r] # {} /\ (r \in Project => rtag'[r] = head[m][r])
      BY <3>2, <3>3, <3>4, <3>5, <3>6
    <3>8. Clean(m)'
      BY <2>1, <3>1 DEF Course, Clean, Sweep, Tail
    <3>9. Kept(m)'
      BY <2>1, <3>1 DEF Course, Kept, Sweep
    <3>10. Turn(m)' /\ Sent(m)'
      BY <2>1, <3>1, <3>7 DEF Turn, Sent, Sweep
    <3> QED
      BY <3>8, <3>9, <3>10 DEF Course
  <2> QED
    BY <1>11, <1>f, <2>2 DEF SendTag
<1>12. CASE Annotate(m) \/ SendRootTag(m) \/ Record(m) \/ Stop(m)
  <2>1. at'[m] \in {"idle", "send root tag", "record"}
    BY <1>12 DEF Annotate, SendRootTag, Record, Stop, Fail, Go, Typed, RunOK
  <2> QED
    BY <1>1, <2>1
<1> QED
  BY <1>2, <1>3, <1>4, <1>5, <1>6, <1>7, <1>8, <1>9, <1>10, <1>11, <1>12 DEF Acts, Step

\* A root tag is taken from the remote, or made here.
LEMMA MarkSteps ==
    ASSUME Typed, NEW p \in Machines, NEW q \in Machines, Acts(p)
    PROVE  mark'[q] \in {mark[q], rmark} \/ (Annotate(p) /\ p = q /\ mark[p] = None)
<1>1. CASE p # q
  BY <1>1, OthersStay
<1>2. CASE p = q
  <2>1. CASE Start(p)
    BY <1>2, <2>1 DEF Start, Typed, TagsOK
  <2>2. CASE Pull(p)
    BY <1>2, <2>2 DEF Pull, Typed, TagsOK
  <2>3. CASE Annotate(p)
    BY <1>2, <2>3 DEF Annotate, Typed, TagsOK
  <2>4. CASE mark' = mark
    BY <2>4
  <2> QED
    BY <2>1, <2>2, <2>3, <2>4
       DEF tags, Acts, Step, Edit, Reconcile, Add, CommitRepo, CheckPush, Push, CheckTag,
           Freeze, TagRepo, FreezeBranch, SendTag, SendRootTag, Record, Stop
<1> QED
  BY <1>1, <1>2

\* Every step keeps Sound: m's own by OwnCourse, another machine's by OthersStay.
LEMMA SoundNext ==
    ASSUME "during" \notin Edits
    PROVE  Typed /\ Sound /\ [Next]_vars => Sound'
<1> SUFFICES ASSUME Typed, Sound, [Next]_vars PROVE Sound'
  OBVIOUS
<1>1. CASE UNCHANGED vars
  <2>1. UNCHANGED <<head, work, tag, rtag, mark, rmark, at, turn>>
    BY <1>1 DEF vars, repos, tags, run
  <2>2. HeadsFull'
    BY <2>1 DEF Sound, HeadsFull
  <2>3. ASSUME NEW m \in Machines
        PROVE  Course(m)' /\ Complete(mark[m])'
    <3>1. Course(m) /\ Complete(mark[m])
      BY DEF Sound
    <3>2. Clean(m)' /\ Kept(m)' /\ Turn(m)' /\ Sent(m)'
      BY <2>1, <3>1 DEF Course, Clean, Kept, Turn, Sent
    <3> QED
      BY <2>1, <3>1, <3>2 DEF Course, Complete
  <2>4. Complete(rmark)'
    BY <2>1 DEF Sound, Complete
  <2> QED
    BY <2>2, <2>3, <2>4 DEF Sound
<1>2. ASSUME NEW p \in Machines, Acts(p)
      PROVE  Sound'
  <2>1. HeadsFull'
    BY <1>2, HeadsNext DEF Sound
  <2>2. ASSUME NEW q \in Machines
        PROVE  Course(q)'
    <3>1. Course(q) /\ HeadsFull
      BY DEF Sound
    <3>2. CASE p = q
      BY <1>2, <3>1, <3>2, OwnCourse
    <3>3. CASE p # q
      <4>1. /\ head'[q] = head[q] /\ work'[q] = work[q] /\ tag'[q] = tag[q]
            /\ at'[q] = at[q] /\ turn'[q] = turn[q]
        BY <1>2, <3>3, OthersStay
      <4>2. \A r \in Leaves : rtag[r] # {} => rtag'[r] = rtag[r]
        BY <1>2, RemoteKeeps
      <4> QED
        BY <3>1, <4>1, <4>2 DEF Course, Clean, Kept, Turn, Sent
    <3> QED
      BY <3>2, <3>3
  <2>3. ASSUME NEW k, Complete(k)
        PROVE  Complete(k)'
    <3>1. \A r \in Leaves : rtag[r] # {} => rtag'[r] = rtag[r]
      BY <1>2, RemoteKeeps
    <3> QED
      BY <2>3, <3>1 DEF Complete
  <2>4. Complete(rmark)'
    <3>1. rmark' = rmark \/ rmark' = mark[p]
      BY <1>2 DEF tags, Acts, Step, Edit, Reconcile, Start, Add, CommitRepo, Pull, CheckPush, Push,
                  CheckTag, Freeze, TagRepo, FreezeBranch, SendTag, Annotate, SendRootTag, Record, Stop
    <3>2. \A k : Complete(k) /\ rmark' = k => Complete(rmark)'
      BY <2>3 DEF Complete
    <3> QED
      BY <3>1, <3>2 DEF Sound
  <2>5. ASSUME NEW q \in Machines
        PROVE  Complete(mark[q])'
    <3>1. \A k : Complete(k) /\ mark'[q] = k => Complete(mark[q])'
      BY <2>3 DEF Complete
    <3>2. CASE mark'[q] \in {mark[q], rmark}
      BY <3>1, <3>2 DEF Sound
    <3>3. CASE Annotate(p) /\ p = q /\ mark[p] = None
      <4> DEFINE k == [by |-> p, at |-> head[p][Root], notes |-> [r \in Project |-> head[p][r]]]
      <4>1. mark' = [mark EXCEPT ![p] = k] /\ at[p] = "annotate" /\ rtag' = rtag
        BY <3>3 DEF Annotate
      <4>2. mark'[q] = k /\ \A r \in Project : k.notes[r] = head[p][r]
        BY <3>3, <4>1 DEF Typed, TagsOK
      <4>3. turn[p] = Root /\ Sent(p)
        BY <4>1 DEF Sound, Course, Turn
      <4>4. \A r \in Leaves : r < Root
        BY ReposInOrder DEF Leaves, Repos, Root
      <4>5. \A r \in Leaves : rtag[r] # {} /\ (r \in Project => rtag[r] = head[p][r])
        BY <4>1, <4>3, <4>4 DEF Sent, Sweep
      <4> HIDE DEF k
      <4> QED
        BY <4>1, <4>2, <4>5 DEF Complete
    <3>4. mark'[q] \in {mark[q], rmark} \/ (Annotate(p) /\ p = q /\ mark[p] = None)
      BY <1>2, MarkSteps
    <3> QED
      BY <3>2, <3>3, <3>4
  <2> QED
    BY <2>1, <2>2, <2>4, <2>5 DEF Sound
<1> QED
  BY <1>1, <1>2 DEF Next, Acts

\* The initial state is sound: no run has begun and no root tag exists.
LEMMA SoundInit == Init => Sound
<1> SUFFICES ASSUME Init PROVE Sound
  OBVIOUS
<1>1. HeadsFull
  BY DEF Init, HeadsFull
<1>2. \A m \in Machines : Course(m)
  BY DEF Init, Course, Clean, Kept, Turn, Sent, Sweep, Tail
<1>3. Complete(rmark) /\ \A m \in Machines : Complete(mark[m])
  BY DEF Init, Complete
<1> QED
  BY <1>1, <1>2, <1>3 DEF Sound

\* The root's tag on the remote says a release is complete: freeze_release_tree
\* annotates it after every other repository's tag is on the remote.
THEOREM MarkMeansReleasedAlways ==
    ASSUME "during" \notin Edits
    PROVE  Spec => []MarkMeansReleased
<1>1. Sound => MarkMeansReleased
  BY DEF Sound, Complete, MarkMeansReleased
<1>2. Typed /\ Sound /\ [Next]_vars => Sound'
  BY SoundNext
<1> QED
  BY <1>1, <1>2, TypedInit, TypedNext, SoundInit, PTL DEF Spec

-----------------------------------------------------------------------------
(* What is public, when every writable repository is a project one *)

\* A leaf's kept tag is at the commit the run releases: the preflight refused
\* any other, and the sweep commits nothing more in a project repository.
THEOREM KeptTagIsAtHeadAlways ==
    ASSUME "during" \notin Edits, Private = {}
    PROVE  Spec => []KeptTagIsAtHead
<1>1. Typed /\ Sound => KeptTagIsAtHead
  <2> SUFFICES ASSUME Typed, Sound, NEW m \in Machines, at[m] = "send tag"
               PROVE  tag[m][turn[m]] = head[m][turn[m]]
    BY DEF KeptTagIsAtHead
  <2>1. turn[m] \in Repos /\ turn[m] # Root
    BY DEF Typed, RunOK
  <2>2. Kept(m) /\ Turn(m)
    BY DEF Sound, Course
  <2> QED
    BY <2>1, <2>2 DEF Kept, Turn, Sweep, Project
<1>2. Typed /\ Sound /\ [Next]_vars => Sound'
  BY SoundNext
<1> QED
  BY <1>1, <1>2, TypedInit, TypedNext, SoundInit, PTL DEF Spec

\* From the tag check on, the run's commits are public: what the sweep tags has
\* been pushed.
Pushed(m) ==
    /\ at[m] = "push" => \A r \in Repos : r < turn[m] => head[m][r] \subseteq branch[r]
    /\ at[m] \in {"check tag"} \cup Sweep => \A r \in Repos : head[m][r] \subseteq branch[r]
    /\ mark[m] # None => mark[m].at \subseteq branch[Root]

Public == ReleasedIsPublic /\ \A m \in Machines : Pushed(m)

\* Which steps lead to the push, and to the sweep.
LEMMA AtSteps ==
    ASSUME "during" \notin Edits, Typed, NEW p \in Machines, Acts(p)
    PROVE  /\ Push(p) \/ CheckPush(p) \/ at'[p] # "push"
           /\ \/ Push(p) \/ CheckTag(p) \/ Freeze(p) \/ TagRepo(p) \/ FreezeBranch(p)
              \/ SendTag(p) \/ Annotate(p)
              \/ at'[p] \notin {"check tag"} \cup Sweep
<1> USE DEF Typed, RunOK, run, Go, Fail
<1>1. CASE \E r \in Repos : Edit(p, r) \/ Reconcile(p, r)
  <2>1. at'[p] = "idle"
    BY <1>1 DEF Edit, Reconcile
  <2> QED
    BY <2>1 DEF Sweep
<1>2. CASE Start(p) \/ Add(p) \/ CommitRepo(p) \/ Pull(p)
  <2>1. at'[p] \in {"idle", "add", "commit", "pull", "check push"}
    BY <1>2 DEF Start, Add, CommitRepo, Pull
  <2> QED
    BY <2>1 DEF Sweep
<1>3. CASE CheckPush(p)
  <2>1. at'[p] \in {"idle", "push"}
    BY <1>3 DEF CheckPush
  <2> QED
    BY <1>3, <2>1 DEF Sweep
<1>4. CASE CheckTag(p) \/ Freeze(p) \/ TagRepo(p) \/ FreezeBranch(p) \/ SendTag(p) \/ Annotate(p)
  <2>1. at'[p] # "push"
    BY <1>4 DEF CheckTag, Freeze, TagRepo, FreezeBranch, SendTag, Annotate
  <2> QED
    BY <1>4, <2>1
<1>5. CASE SendRootTag(p) \/ Record(p) \/ Stop(p)
  <2>1. at'[p] \in {"idle", "record"}
    BY <1>5 DEF SendRootTag, Record, Stop
  <2> QED
    BY <2>1 DEF Sweep
<1>6. CASE Push(p)
  BY <1>6
<1> QED
  BY <1>1, <1>2, <1>3, <1>4, <1>5, <1>6 DEF Acts, Step

\* Every step keeps Public.
LEMMA PublicNext ==
    ASSUME "during" \notin Edits, Private = {}
    PROVE  Typed /\ Sound /\ Public /\ [Next]_vars => Public'
<1> SUFFICES ASSUME Typed, Sound, Public, [Next]_vars PROVE Public'
  OBVIOUS
<1> USE DEF repos, tags, run
<1>1. CASE UNCHANGED vars
  <2>1. UNCHANGED <<head, branch, rtag, mark, rmark, at, turn>>
    BY <1>1 DEF vars
  <2> QED
    BY <2>1 DEF Public, ReleasedIsPublic, Pushed
<1>2. ASSUME NEW p \in Machines, Acts(p)
      PROVE  Public'
  <2>b. \A r \in Repos : branch[r] \subseteq branch'[r]
    BY <1>2, RemoteKeeps
  <2>t. turn[p] \in Repos
    BY DEF Typed, RunOK
  <2>p. Project = Repos
    BY DEF Project
  <2>1. ASSUME NEW r \in Leaves
        PROVE  rtag'[r] \subseteq branch'[r]
    <3>1. CASE rtag' = rtag
      BY <2>b, <3>1, ReposInOrder DEF Public, ReleasedIsPublic
    <3>2. CASE SendTag(p) /\ r = turn[p] /\ rtag' = [rtag EXCEPT ![turn[p]] = tag[p][turn[p]]]
      <4>1. at[p] = "send tag" /\ turn[p] # Root
        BY <3>2 DEF SendTag, Leaves
      <4>2. tag[p][r] = head[p][r]
        BY <2>t, <2>p, <3>2, <4>1 DEF Sound, Course, Kept, Turn, Sweep
      <4>3. head[p][r] \subseteq branch[r]
        BY <2>t, <3>2, <4>1 DEF Public, Pushed, Sweep
      <4>4. rtag'[r] = tag[p][r]
        BY <3>2 DEF Typed, TagsOK
      <4> QED
        BY <2>b, <2>t, <3>2, <4>2, <4>3, <4>4
    <3>3. CASE SendTag(p) /\ r # turn[p] /\ rtag' = [rtag EXCEPT ![turn[p]] = tag[p][turn[p]]]
      BY <2>b, <3>3, ReposInOrder DEF Public, ReleasedIsPublic, Typed, TagsOK
    <3>4. rtag' = rtag \/ (SendTag(p) /\ rtag' = [rtag EXCEPT ![turn[p]] = tag[p][turn[p]]])
      <4>1. CASE SendTag(p)
        BY <4>1 DEF SendTag
      <4>2. CASE ~SendTag(p)
        BY <1>2, <4>2 DEF Acts, Step, Edit, Reconcile, Start, Add, CommitRepo, Pull, CheckPush, Push,
                  CheckTag, Freeze, TagRepo, FreezeBranch, Annotate, SendRootTag, Record, Stop
      <4> QED
        BY <4>1, <4>2
    <3> QED
      BY <3>1, <3>2, <3>3, <3>4
  <2>2. rmark' # None => rmark'.at \subseteq branch'[Root]
    <3>1. rmark' = rmark \/ rmark' = mark[p]
      BY <1>2 DEF Acts, Step, Edit, Reconcile, Start, Add, CommitRepo, Pull, CheckPush, Push,
                  CheckTag, Freeze, TagRepo, FreezeBranch, SendTag, Annotate, SendRootTag, Record, Stop
    <3> QED
      BY <2>b, <3>1, ReposInOrder DEF Public, ReleasedIsPublic, Pushed
  <2>3. ASSUME NEW q \in Machines, q # p
        PROVE  Pushed(q)'
    <3>1. /\ head'[q] = head[q] /\ mark'[q] = mark[q]
          /\ at'[q] = at[q] /\ turn'[q] = turn[q]
      BY <1>2, <2>3, OthersStay
    <3> QED
      BY <2>b, <3>1, ReposInOrder DEF Public, Pushed
  <2>4. at'[p] = "push" => \A r \in Repos : r < turn'[p] => head'[p][r] \subseteq branch'[r]
    <3>1. CASE Push(p)
      <4>1. CASE Visited(p, "check tag") /\ PushBranch(p, turn[p]) /\ UNCHANGED head
        <5>1. branch'[turn[p]] = head[p][turn[p]]
          BY <2>t, <4>1 DEF PushBranch, Typed, ReposOK
        <5>2. at[p] = "push" /\ \A r \in Repos : r < turn[p] => head[p][r] \subseteq branch'[r]
          BY <2>b, <3>1 DEF Push, Public, Pushed
        <5>3. at'[p] = "push" => turn'[p] = turn[p] + 1
          BY <4>1 DEF Visited, Go, Typed, RunOK
        <5>4. \A r \in Repos : r < turn[p] + 1 => r < turn[p] \/ r = turn[p]
          BY <2>t DEF Repos
        <5> QED
          BY <4>1, <5>1, <5>2, <5>3, <5>4
      <4>2. CASE Fail(p)
        BY <4>2 DEF Fail, Go, Typed, RunOK
      <4> QED
        BY <2>p, <2>t, <3>1, <4>1, <4>2 DEF Push
    <3>2. CASE CheckPush(p)
      <4>1. at'[p] = "push" => turn'[p] = 1
        BY <3>2 DEF CheckPush, Go, Fail, Typed, RunOK
      <4> QED
        BY <4>1 DEF Repos
    <3>3. CASE at'[p] # "push"
      BY <3>3
    <3>4. Push(p) \/ CheckPush(p) \/ at'[p] # "push"
      BY <1>2, AtSteps
    <3> QED
      BY <3>1, <3>2, <3>3, <3>4
  <2>5. at'[p] \in {"check tag"} \cup Sweep => \A r \in Repos : head'[p][r] \subseteq branch'[r]
    <3>1. CASE Push(p)
      <4>1. CASE Visited(p, "check tag") /\ PushBranch(p, turn[p]) /\ UNCHANGED head
        <5>1. branch'[turn[p]] = head[p][turn[p]]
          BY <2>t, <4>1 DEF PushBranch, Typed, ReposOK
        <5>2. at[p] = "push" /\ \A r \in Repos : r < turn[p] => head[p][r] \subseteq branch'[r]
          BY <2>b, <3>1 DEF Push, Public, Pushed
        <5>3. (at'[p] = "check tag" /\ turn[p] = Root) \/ at'[p] = "push"
          BY <4>1, <5>2 DEF Visited, Go, Typed, RunOK
        <5>4. \A r \in Repos : r < Root \/ r = Root
          BY ReposInOrder DEF Repos, Root
        <5> QED
          BY <4>1, <5>1, <5>2, <5>3, <5>4 DEF Sweep
      <4>2. CASE Fail(p)
        <5>1. at'[p] = "idle"
          BY <4>2 DEF Fail, Go, Typed, RunOK
        <5> QED
          BY <5>1 DEF Sweep
      <4> QED
        BY <2>p, <2>t, <3>1, <4>1, <4>2 DEF Push
    <3>2. CASE Freeze(p)
      <4>1. work[p][turn[p]] = {} /\ at[p] = "freeze"
        BY <2>p, <2>t, <3>2 DEF Freeze, Sound, Course, Clean, Tail, Sweep
      <4>2. UNCHANGED head
        BY <3>2, <4>1 DEF Freeze
      <4> QED
        BY <2>b, <4>1, <4>2 DEF Public, Pushed, Sweep
    <3>3. CASE at[p] \in {"check tag"} \cup Sweep /\ UNCHANGED head
      BY <2>b, <3>3 DEF Public, Pushed
    <3>4. CASE at'[p] \notin {"check tag"} \cup Sweep
      BY <3>4
    <3>5. CASE CheckTag(p) \/ TagRepo(p) \/ FreezeBranch(p) \/ SendTag(p) \/ Annotate(p)
      <4>1. at[p] \in {"check tag"} \cup Sweep /\ UNCHANGED head
        BY <3>5 DEF CheckTag, TagRepo, FreezeBranch, SendTag, Annotate, Sweep
      <4> QED
        BY <3>3, <4>1
    <3> QED
      BY <1>2, <3>1, <3>2, <3>4, <3>5, AtSteps
  <2>6. mark'[p] # None => mark'[p].at \subseteq branch'[Root]
    <3>1. CASE mark'[p] \in {mark[p], rmark}
      BY <2>b, <3>1, ReposInOrder DEF Public, Pushed, ReleasedIsPublic
    <3>2. CASE Annotate(p) /\ mark[p] = None
      <4> DEFINE k == [by |-> p, at |-> head[p][Root], notes |-> [r \in Project |-> head[p][r]]]
      <4>1. mark' = [mark EXCEPT ![p] = k] /\ at[p] = "annotate"
        BY <3>2 DEF Annotate
      <4>2. mark'[p] = k /\ k.at = head[p][Root]
        BY <4>1 DEF Typed, TagsOK
      <4>3. head[p][Root] \subseteq branch[Root]
        BY <4>1, ReposInOrder DEF Public, Pushed, Sweep
      <4> HIDE DEF k
      <4> QED
        BY <2>b, <4>2, <4>3, ReposInOrder
    <3> QED
      BY <1>2, <3>1, <3>2, MarkSteps
  <2>7. Pushed(p)'
    BY <2>4, <2>5, <2>6 DEF Pushed, Sweep
  <2> QED
    BY <2>1, <2>2, <2>3, <2>7 DEF Public, ReleasedIsPublic
<1> QED
  BY <1>1, <1>2 DEF Next, Acts

\* What a release tag names on the remote, the branch there has too: the push
\* before the sweep sent every commit the sweep tags.
THEOREM ReleasedIsPublicAlways ==
    ASSUME "during" \notin Edits, Private = {}
    PROVE  Spec => []ReleasedIsPublic
<1>1. Init => Public
  BY ReposInOrder DEF Init, Public, ReleasedIsPublic, Pushed, Sweep
<1>2. Public => ReleasedIsPublic
  BY DEF Public
<1>3. Typed /\ Sound /\ [Next]_vars => Sound'
  BY SoundNext
<1>4. Typed /\ Sound /\ Public /\ [Next]_vars => Public'
  BY PublicNext
<1> QED
  BY <1>1, <1>2, <1>3, <1>4, TypedInit, TypedNext, SoundInit, PTL DEF Spec
=============================================================================
