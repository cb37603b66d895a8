--------------------------- MODULE BranchesProofs ---------------------------
(****************************************************************************)
(* What the tree-wide branch commands keep, for any number of repositories  *)
(* and branches, any colleagues, and commands cut short at any step.        *)
(*                                                                          *)
(* TypeInv is the type invariant with the command each step belongs to.     *)
(* IInv adds how far a keep has come (KeptSoFar), from what it found        *)
(* (KeptIsHere) and what was fetched (SeenIsThere): it gives                *)
(* RecordedIsPublic with no assumption on who pushes what.  QInv adds what  *)
(* holds once the others keep off the branch a command is about             *)
(* (OthersKeepOff): a close drops no name before the new one has its        *)
(* commits (ClosingFits), and a delete has found everything held elsewhere  *)
(* before it drops (DeletingFits).  With them, each step is shown to take   *)
(* no commit off every branch of a repository (HeldStays).                  *)
(****************************************************************************)
EXTENDS Branches, TLAPS

-----------------------------------------------------------------------------
(* The names, and one cell of what a repository holds. *)

LEMMA NamesDiffer ==
    /\ Main \in Names /\ Ancestors \in Names /\ Main # Ancestors
    /\ \A b \in Branches :
          /\ Live(b) \in Names /\ Closed(b) \in Names /\ Branch(Live(b)) = b /\ Branch(Closed(b)) = b
          /\ Live(b) # Ancestors /\ Closed(b) # Ancestors
          /\ Kind(Live(b)) = "live" /\ Kind(Closed(b)) = "closed"
          /\ \A c \in Branches : Live(b) # Closed(c)
BY BranchesAssumption DEF Names, Main, Ancestors, Live, Closed, Kind, Branch

LEMMA Numbered == Root \in Repos /\ 1 \in Repos /\ \A r \in Repos : r # Root => r + 1 \in Repos
BY BranchesAssumption DEF Repos, Root

\* What a step writes into one branch of one repository.
LEMMA Cell ==
    ASSUME NEW f \in [Repos -> [Names -> Commit]], NEW r \in Repos, NEW n \in Names, NEW v \in Commit
    PROVE  /\ [f EXCEPT ![r][n] = v] \in [Repos -> [Names -> Commit]]
           /\ \A q \in Repos, m \in Names :
                 [f EXCEPT ![r][n] = v][q][m] = IF q = r /\ m = n THEN v ELSE f[q][m]
OBVIOUS

LEMMA Commits == /\ \A c, d \in Commit : c \cup d \in Commit
                 /\ {} \in Commit /\ \A n \in Nat : {n} \in Commit
BY DEF Commit

\* A branch is a commit here, there and as it was fetched.
LEMMA Held3 ==
    ASSUME TypeOK, NEW r \in Repos, NEW n \in Names
    PROVE  local[r][n] \in Commit /\ seen[r][n] \in Commit /\ remote[r][n] \in Commit
BY DEF TypeOK

LEMMA TypeInit == Init => TypeOK
<1> SUFFICES ASSUME Init PROVE TypeOK
  OBVIOUS
<1>1. local \in [Repos -> [Names -> Commit]]
  BY DEF Init, Commit
<1>2. job \in Job /\ NoAnswer \in Answer
  BY NamesDiffer DEF Init, NoJob, Job, NoAnswer, Answer, Verdict, Commit
<1>3. sealed \in [Repos -> [Branches -> Commit]]
  BY DEF Init, Commit
<1> QED
  BY <1>1, <1>2, <1>3, Numbered, NamesDiffer, BranchesAssumption DEF Init, TypeOK, Steps

LEMMA OverType ==
    ASSUME TypeOK, Over PROVE job' \in Job /\ at' \in Steps /\ turn' \in Repos /\ answer' \in [Repos -> Answer]
<1>1. NoJob \in Job /\ NoAnswer \in Answer
  BY NamesDiffer DEF NoJob, Job, NoAnswer, Answer, Verdict, Commit
<1> QED
  BY <1>1, Numbered DEF Over, Go, Steps

LEMMA UpType ==
    ASSUME TypeOK, NEW step \in Steps, NEW next \in Steps, Up(step, next)
    PROVE  at' \in Steps /\ turn' \in Repos
BY Numbered DEF Up, Go, TypeOK

LEMMA DownType ==
    ASSUME TypeOK, NEW step \in Steps, NEW next \in Steps, Down(step, next)
    PROVE  at' \in Steps /\ turn' \in Repos
BY BranchesAssumption, Numbered DEF Down, Go, TypeOK, Repos

LEMMA BesideType == ASSUME TypeOK, Beside PROVE TypeOK'
<1>1. ASSUME NEW r \in Repos, Work(r) PROVE TypeOK'
  <2>0. on[r] \in Names /\ built \in Nat
    BY DEF TypeOK
  <2>1. built + 1 \in Nat /\ local[r][on[r]] \cup {built + 1} \in Commit
    <3>1. built + 1 \in Nat /\ local[r][on[r]] \in Commit
      BY <2>0, Held3
    <3> QED
      BY <3>1, Commits
  <2>2. local' \in [Repos -> [Names -> Commit]]
    <3>1. local' = [local EXCEPT ![r][on[r]] = local[r][on[r]] \cup {built + 1}]
      BY <1>1 DEF Work
    <3>2. local \in [Repos -> [Names -> Commit]]
      BY DEF TypeOK
    <3> QED
      BY <2>0, <2>1, <3>1, <3>2, Cell
  <2> QED
    BY <1>1, <2>1, <2>2 DEF Work, TypeOK, run
<1>2. ASSUME NEW r \in Repos, Publish(r) PROVE TypeOK'
  <2>1. /\ remote' \in [Repos -> [Names -> Commit]] /\ seen' \in [Repos -> [Names -> Commit]]
    BY <1>2, Cell, Held3 DEF Publish, TypeOK
  <2> QED
    BY <1>2, <2>1 DEF Publish, TypeOK, run
<1>3. ASSUME NEW r \in Repos, NEW n \in Names, Colleague(r, n) PROVE TypeOK'
  <2>1. built \in Nat /\ built + 1 \in Nat
    <3>1. built \in Nat
      BY DEF TypeOK
    <3> QED
      BY <3>1
  <2>2. (IF remote[r][n] = {} /\ n # Ancestors THEN remote[r][Main] ELSE remote[r][n]) \cup {built + 1} \in Commit
    BY <2>1, Commits, Held3, NamesDiffer
  <2>3. remote' \in [Repos -> [Names -> Commit]]
    <3>1. remote' = [remote EXCEPT ![r][n] = (IF remote[r][n] = {} /\ n # Ancestors THEN remote[r][Main]
                                               ELSE remote[r][n]) \cup {built + 1}]
      BY <1>3 DEF Colleague
    <3>2. remote \in [Repos -> [Names -> Commit]]
      BY DEF TypeOK
    <3> QED
      BY <2>2, <3>1, <3>2, Cell
  <2> QED
    BY <1>3, <2>1, <2>3 DEF Colleague, TypeOK, run
<1>4. ASSUME NEW r \in Repos, NEW b \in Branches, PlainDelete(r, b) PROVE TypeOK'
  <2>1. /\ local' \in [Repos -> [Names -> Commit]] /\ remote' \in [Repos -> [Names -> Commit]]
        /\ seen' \in [Repos -> [Names -> Commit]]
    BY <1>4, Cell, Commits, NamesDiffer DEF PlainDelete, TypeOK
  <2> QED
    BY <1>4, <2>1 DEF PlainDelete, TypeOK, run
<1> QED
  BY <1>1, <1>2, <1>3, <1>4 DEF Beside

LEMMA StartType == ASSUME TypeOK, Start PROVE TypeOK'
<1> USE NamesDiffer, Numbered DEF Job, Steps, TypeOK, refs
<1>1. ASSUME NEW n \in Names, NEW cmd \in {"create", "checkout"}, StartCreate(cmd, n) PROVE TypeOK'
  BY <1>1 DEF StartCreate, Begin, Go
<1>2. ASSUME NEW b \in Branches, NEW explicit \in BOOLEAN, StartClose(b, explicit) PROVE TypeOK'
  <2>1. PICK j \in Job : /\ job' = j /\ wanted' = j /\ Go("inspect", 1)
                        /\ UNCHANGED <<refs, on, ledger, answer, sealed, built, stops>>
    <3>1. /\ [cmd |-> "keep", name |-> Closed(b)] \in Job /\ [cmd |-> "close", name |-> Live(b)] \in Job
      BY NamesDiffer DEF Job
    <3>2. CASE MeansClosed(b, explicit)
      BY <1>2, <3>1, <3>2 DEF StartClose, Begin
    <3>3. CASE ~MeansClosed(b, explicit)
      BY <1>2, <3>1, <3>3 DEF StartClose, Begin
    <3> QED
      BY <3>2, <3>3
  <2> QED
    BY <2>1 DEF Go
<1>3. ASSUME NEW b \in Branches, NEW explicit \in BOOLEAN, StartDelete(b, explicit) PROVE TypeOK'
  BY <1>3 DEF StartDelete, Begin, Go
<1> QED
  BY <1>1, <1>2, <1>3 DEF Start

\* Which command a step belongs to, and which branch that command is about.
JobFits ==
    /\ at = "idle" => job = NoJob
    /\ at \in {"create", "checkout"} => job.cmd \in {"create", "checkout"} /\ job.name # Ancestors
    /\ at \in {"inspect", "keep", "send", "record", "snapshot"} => job.cmd \in {"close", "keep", "delete"}
    /\ at \in {"look", "push_closed", "drop_old", "rename"} => job.cmd = "close"
    /\ at \in {"verify", "check", "held", "drop", "drop_local"} => job.cmd = "delete"
    /\ job.cmd = "close" => \E b \in Branches : job.name = Live(b)
    /\ job.cmd \in {"keep", "delete"} => \E b \in Branches : job.name = Closed(b)

LEMMA InspectedType ==
    ASSUME TypeOK, NEW r \in Repos, NEW n \in Names PROVE Inspected(r, n) \in Answer
<1>1. local[r][n] \cup remote[r][n] \in Commit
  BY Held3, Commits
<1>2. NoAnswer \in Answer
  BY DEF NoAnswer, Answer, Verdict, Commit
<1> QED
  BY <1>1, <1>2 DEF Inspected, Answer, Verdict

\* What follows the record, in each of the commands that get there.
LEMMA AfterIs == /\ job.cmd = "close" => After = "look"
                 /\ job.cmd = "keep" => After = "snapshot"
                 /\ job.cmd = "delete" => After = "verify"
<1>1. ASSUME job.cmd = "close" PROVE After = "look"
  BY <1>1 DEF After
<1>2. ASSUME job.cmd = "keep" PROVE After = "snapshot"
  BY <1>2 DEF After
<1>3. ASSUME job.cmd = "delete" PROVE After = "verify"
  BY <1>3 DEF After
<1> QED
  BY <1>1, <1>2, <1>3

LEMMA StepType == ASSUME TypeOK, JobFits, Step PROVE TypeOK'
<1> USE DEF refs
<1>0. turn \in Repos /\ job.name \in Names /\ job.name \in Names
  BY DEF TypeOK, Job
<1>1. CASE Create
  <2>1. StartPoint(turn, job.name) \in Commit
    <3>1. on[turn] \in Names
      BY <1>0 DEF TypeOK
    <3> QED
      BY <1>0, <3>1, Held3 DEF StartPoint
  <2>2. /\ local' \in [Repos -> [Names -> Commit]] /\ seen' \in [Repos -> [Names -> Commit]]
        /\ remote' = remote
    <3>1. CASE local[turn][job.name] # {}
      BY <1>1, <3>1 DEF Create, TypeOK
    <3>2. CASE local[turn][job.name] = {}
      <4>1. local' = [local EXCEPT ![turn][job.name] = StartPoint(turn, job.name)] /\ remote' = remote
        BY <1>1, <3>2 DEF Create
      <4>2. PICK v \in Commit : seen' = [seen EXCEPT ![turn][job.name] = v]
        BY <1>0, <1>1, <3>2, Held3 DEF Create
      <4>3. local \in [Repos -> [Names -> Commit]] /\ seen \in [Repos -> [Names -> Commit]]
        BY DEF TypeOK
      <4>4. local' \in [Repos -> [Names -> Commit]]
        BY <1>0, <2>1, <4>1, <4>3, Cell
      <4>5. seen' \in [Repos -> [Names -> Commit]]
        BY <1>0, <4>2, <4>3, Cell
      <4> QED
        BY <4>1, <4>4, <4>5
    <3> QED
      BY <3>1, <3>2
  <2>4. job' \in Job /\ at' \in Steps /\ turn' \in Repos /\ answer' \in [Repos -> Answer]
    BY <1>1, OverType, DownType DEF Create, TypeOK, Steps
  <2> QED
    BY <1>1, <2>2, <2>4 DEF Create, TypeOK
<1>2. CASE Checkout
  <2>1. job' \in Job /\ at' \in Steps /\ turn' \in Repos /\ answer' \in [Repos -> Answer]
    BY <1>2, OverType, DownType DEF Checkout, TypeOK, Steps
  <2> QED
    BY <1>0, <1>2, <2>1 DEF Checkout, TypeOK
<1>3. CASE Inspect
  <2>1. job' \in Job /\ at' \in Steps /\ turn' \in Repos /\ answer' \in [Repos -> Answer]
    <3>1. CASE Over
      BY <3>1, OverType
    <3>2. CASE ~Over
      <4>1. /\ answer' = [answer EXCEPT ![turn] = Inspected(turn, job.name)] /\ job' = job
            /\ (at = "check" /\ Up("check", "held")) \/ (at = "inspect" /\ Up("inspect", "keep"))
        BY <1>3, <3>2 DEF Inspect
      <4>2. Inspected(turn, job.name) \in Answer
        BY <1>0, InspectedType DEF TypeOK
      <4>3. at' \in Steps /\ turn' \in Repos
        BY <4>1, UpType DEF Steps
      <4> QED
        BY <4>1, <4>2, <4>3 DEF TypeOK
    <3> QED
      BY <3>1, <3>2
  <2> QED
    BY <1>0, <1>3, <2>1 DEF Inspect, TypeOK
<1>4. CASE Keep
  <2>1. job' \in Job /\ at' \in Steps /\ turn' \in Repos /\ answer' \in [Repos -> Answer]
    BY <1>0, <1>4, OverType, UpType DEF Keep, Go, TypeOK, Steps
  <2>2. built \in Nat /\ built + 1 \in Nat /\ built + 2 \in Nat /\ answer[turn].tip \in Commit
    BY <1>0 DEF TypeOK, Answer
  <2>3. local' \in [Repos -> [Names -> Commit]] /\ built' \in Nat
    <3>1. CASE local' = local /\ built' = built
      BY <2>2, <3>1 DEF TypeOK
    <3>2. CASE ~(local' = local /\ built' = built)
      <4> DEFINE made == (IF Base(turn) = {} THEN {built + 1} ELSE {})
                           \cup (IF answer[turn].kept THEN {} ELSE answer[turn].tip \cup {built + 2})
      <4>1. /\ local' = [local EXCEPT ![turn][Ancestors] = Base(turn) \cup made]
            /\ built' = IF answer[turn].kept THEN built ELSE built + 2
        BY <1>4, <3>2 DEF Keep
      <4>2. Base(turn) \in Commit
        BY <1>0, Held3, Commits, NamesDiffer DEF Base
      <4>3. made \in Commit
        BY <2>2 DEF Commit
      <4>4. Base(turn) \cup made \in Commit
        BY <4>2, <4>3, Commits
      <4> QED
        BY <1>0, <2>2, <4>1, <4>4, Cell, NamesDiffer DEF TypeOK
    <3> QED
      BY <3>1, <3>2
  <2> QED
    BY <1>4, <2>1, <2>3 DEF Keep, TypeOK
<1>5. CASE Send
  <2>1. job' \in Job /\ at' \in Steps /\ turn' \in Repos /\ answer' \in [Repos -> Answer]
    BY <1>0, <1>5, OverType, UpType DEF Send, TypeOK, Steps
  <2>2. /\ remote' \in [Repos -> [Names -> Commit]] /\ seen' \in [Repos -> [Names -> Commit]]
    <3>1. \/ UNCHANGED <<seen, remote>>
          \/ /\ remote' = [remote EXCEPT ![turn][Ancestors] = local[turn][Ancestors]]
             /\ seen' = [seen EXCEPT ![turn][Ancestors] = local[turn][Ancestors]]
      BY <1>5 DEF Send
    <3> QED
      <4>1. local[turn][Ancestors] \in Commit /\ Ancestors \in Names
        BY <1>0, Held3, NamesDiffer
      <4>2. seen \in [Repos -> [Names -> Commit]] /\ remote \in [Repos -> [Names -> Commit]]
        BY DEF TypeOK
      <4>3. /\ [remote EXCEPT ![turn][Ancestors] = local[turn][Ancestors]] \in [Repos -> [Names -> Commit]]
            /\ [seen EXCEPT ![turn][Ancestors] = local[turn][Ancestors]] \in [Repos -> [Names -> Commit]]
        BY <1>0, <4>1, <4>2, Cell
      <4> QED
        BY <3>1, <4>2, <4>3
  <2> QED
    BY <1>5, <2>1, <2>2 DEF Send, TypeOK
<1>6. CASE Record
  <2>1. job' \in Job /\ at' \in Steps /\ turn' \in Repos /\ answer' \in [Repos -> Answer]
    <3>1. After \in Steps
      <4>1. job.cmd \in {"close", "keep", "delete"}
        BY <1>6 DEF JobFits, Record
      <4> QED
        BY <4>1, AfterIs DEF Steps
    <3> QED
      BY <1>6, <3>1, OverType, Numbered DEF Record, Go, TypeOK
  <2>2. ledger' \subseteq [repo : Repos, tip : Commit]
    <3>1. \A r \in Repos : Relocation(r) \in [repo : Repos, tip : Commit]
      BY DEF Relocation, TypeOK, Answer
    <3> QED
      BY <1>6, <3>1 DEF Record, Needing, TypeOK
  <2> QED
    BY <1>6, <2>1, <2>2 DEF Record, TypeOK
<1>7. CASE Look
  <2>1. job' \in Job /\ at' \in Steps /\ turn' \in Repos /\ answer' \in [Repos -> Answer]
    BY <1>7, OverType, UpType DEF Look, Renamed, Go, TypeOK, Steps
  <2>2. seen' = [seen EXCEPT ![turn][job.name] = IF remote[turn][job.name] # {} THEN remote[turn][job.name]
                                                  ELSE seen[turn][job.name]]
    BY <1>7 DEF Look
  <2>3. seen' \in [Repos -> [Names -> Commit]]
    BY <1>0, <2>2, Cell, Held3 DEF TypeOK
  <2> QED
    BY <1>7, <2>1, <2>3 DEF Look, TypeOK
<1>8. CASE PushClosed
  <2>1. job' \in Job /\ at' \in Steps /\ turn' \in Repos /\ answer' \in [Repos -> Answer]
    BY <1>8, OverType DEF PushClosed, Go, TypeOK, Steps
  <2>2. Closed(Branch(job.name)) \in Names
    BY <1>8, NamesDiffer DEF PushClosed, JobFits
  <2>3. \/ UNCHANGED <<seen, remote>>
        \/ \E v \in Commit : /\ remote' = [remote EXCEPT ![turn][Closed(Branch(job.name))] = v]
                             /\ seen' = [seen EXCEPT ![turn][Closed(Branch(job.name))] = v]
    BY <1>0, <1>8, Held3 DEF PushClosed
  <2>4. /\ remote' \in [Repos -> [Names -> Commit]] /\ seen' \in [Repos -> [Names -> Commit]]
    <3>1. seen \in [Repos -> [Names -> Commit]] /\ remote \in [Repos -> [Names -> Commit]]
      BY DEF TypeOK
    <3> QED
      <4>1. CASE UNCHANGED <<seen, remote>>
        BY <3>1, <4>1
      <4>2. ASSUME NEW v \in Commit, remote' = [remote EXCEPT ![turn][Closed(Branch(job.name))] = v],
                   seen' = [seen EXCEPT ![turn][Closed(Branch(job.name))] = v]
            PROVE  /\ remote' \in [Repos -> [Names -> Commit]] /\ seen' \in [Repos -> [Names -> Commit]]
        BY <1>0, <2>2, <3>1, <4>2, Cell
      <4> QED
        BY <2>3, <4>1, <4>2
  <2> QED
    BY <1>8, <2>1, <2>4 DEF PushClosed, TypeOK
<1>9. CASE DropOld
  <2>1. job' \in Job /\ at' \in Steps /\ turn' \in Repos /\ answer' \in [Repos -> Answer]
    BY <1>9, UpType DEF DropOld, Renamed, Go, TypeOK, Steps
  <2>2. /\ remote' \in [Repos -> [Names -> Commit]] /\ seen' \in [Repos -> [Names -> Commit]]
    BY <1>0, <1>9, Cell, Commits DEF DropOld, TypeOK
  <2> QED
    BY <1>9, <2>1, <2>2 DEF DropOld, TypeOK
<1>10. CASE Rename
  <2>1. job' \in Job /\ at' \in Steps /\ turn' \in Repos /\ answer' \in [Repos -> Answer]
    BY <1>10, OverType, UpType DEF Rename, Renamed, Go, TypeOK, Steps
  <2>2. Closed(Branch(job.name)) \in Names
    BY <1>10, NamesDiffer DEF Rename, JobFits
  <2>3. local' \in [Repos -> [Names -> Commit]]
    <3>1. \/ local' = local
          \/ local' = [[local EXCEPT ![turn][Closed(Branch(job.name))] = local[turn][job.name]]
                         EXCEPT ![turn][job.name] = {}]
      BY <1>0, <1>10, <2>2 DEF Rename
    <3> QED
      <4>1. local[turn][job.name] \in Commit /\ {} \in Commit
        BY <1>0, Held3, Commits
      <4>2. local \in [Repos -> [Names -> Commit]]
        BY DEF TypeOK
      <4>3. [local EXCEPT ![turn][Closed(Branch(job.name))] = local[turn][job.name]]
              \in [Repos -> [Names -> Commit]]
        BY <1>0, <2>2, <4>1, <4>2, Cell
      <4>4. [[local EXCEPT ![turn][Closed(Branch(job.name))] = local[turn][job.name]]
               EXCEPT ![turn][job.name] = {}] \in [Repos -> [Names -> Commit]]
        BY <1>0, <4>1, <4>3, Cell
      <4> QED
        BY <3>1, <4>2, <4>4
  <2> QED
    BY <1>10, <2>1, <2>3 DEF Rename, TypeOK
<1>11. CASE Verify
  <2>1. job' \in Job /\ at' \in Steps /\ turn' \in Repos /\ answer' \in [Repos -> Answer]
    BY <1>11, OverType, Numbered DEF Verify, Go, TypeOK, Steps
  <2> QED
    BY <1>11, <2>1 DEF Verify, TypeOK
<1>12. CASE CheckHeld
  <2>1. job' \in Job /\ at' \in Steps /\ turn' \in Repos /\ answer' \in [Repos -> Answer]
    BY <1>12, OverType, UpType DEF CheckHeld, Go, TypeOK, Steps
  <2> QED
    BY <1>12, <2>1 DEF CheckHeld, TypeOK
<1>13. CASE Drop
  <2>1. job' \in Job /\ at' \in Steps /\ turn' \in Repos /\ answer' \in [Repos -> Answer]
    BY <1>0, <1>13, UpType DEF Drop, Go, TypeOK, Steps
  <2>2. /\ remote' \in [Repos -> [Names -> Commit]] /\ seen' \in [Repos -> [Names -> Commit]]
    <3>1. \/ UNCHANGED <<seen, remote>>
          \/ \E v \in Commit : /\ remote' = [remote EXCEPT ![turn][job.name] = {}]
                               /\ seen' = [seen EXCEPT ![turn][job.name] = v]
      BY <1>0, <1>13, Held3, Commits DEF Drop
    <3> QED
      <4>1. seen \in [Repos -> [Names -> Commit]] /\ remote \in [Repos -> [Names -> Commit]]
        BY DEF TypeOK
      <4> QED
        <5>1. CASE UNCHANGED <<seen, remote>>
          BY <4>1, <5>1
        <5>2. ASSUME NEW v \in Commit, remote' = [remote EXCEPT ![turn][job.name] = {}],
                     seen' = [seen EXCEPT ![turn][job.name] = v]
              PROVE  /\ remote' \in [Repos -> [Names -> Commit]] /\ seen' \in [Repos -> [Names -> Commit]]
          BY <1>0, <4>1, <5>2, Cell, Commits
        <5> QED
          BY <3>1, <5>1, <5>2
  <2> QED
    BY <1>13, <2>1, <2>2 DEF Drop, TypeOK
<1>14. CASE DropLocal
  <2>1. job' \in Job /\ at' \in Steps /\ turn' \in Repos /\ answer' \in [Repos -> Answer]
    BY <1>14, UpType DEF DropLocal, TypeOK, Steps
  <2>2. local' \in [Repos -> [Names -> Commit]]
    BY <1>0, <1>14, Cell, Commits DEF DropLocal, TypeOK
  <2> QED
    BY <1>14, <2>1, <2>2 DEF DropLocal, TypeOK
<1>15. CASE Snapshot
  <2>1. job' \in Job /\ at' \in Steps /\ turn' \in Repos /\ answer' \in [Repos -> Answer]
    BY <1>15, OverType DEF Snapshot
  <2>2. NoJob \in Job
    BY NamesDiffer DEF NoJob, Job
  <2>3. sealed' \in [Repos -> [Branches -> Commit]]
    BY <1>15 DEF Snapshot, TypeOK, Answer
  <2> QED
    BY <1>15, <2>1, <2>2, <2>3 DEF Snapshot, TypeOK
<1> QED
  BY <1>1, <1>2, <1>3, <1>4, <1>5, <1>6, <1>7, <1>8, <1>9, <1>10, <1>11, <1>12, <1>13, <1>14, <1>15 DEF Step

LEMMA TypeStep == ASSUME TypeOK, JobFits, [Next]_vars PROVE TypeOK'
<1>1. CASE Stop
  <2>1. job' \in Job /\ at' \in Steps /\ turn' \in Repos /\ answer' \in [Repos -> Answer]
    BY <1>1, OverType DEF Stop
  <2>2. stops' \in 0..MaxStops
    BY <1>1, BranchesAssumption DEF Stop, TypeOK
  <2> QED
    BY <1>1, <2>1, <2>2 DEF Stop, TypeOK, refs
<1>2. CASE UNCHANGED vars
  BY <1>2 DEF vars, refs, run, TypeOK
<1> QED
  BY <1>1, <1>2, BesideType, StartType, StepType DEF Next

-----------------------------------------------------------------------------
(* Which step belongs to which command *)

LEMMA FitsStart == ASSUME TypeOK, Start PROVE JobFits'
<1> USE NamesDiffer DEF JobFits, Begin, Go
<1>1. ASSUME NEW b \in Branches, StartCreate("create", Live(b)) PROVE JobFits'
  BY <1>1 DEF StartCreate
<1>2. ASSUME NEW n \in Names \ {Ancestors}, StartCreate("checkout", n) PROVE JobFits'
  BY <1>2 DEF StartCreate
<1>3. ASSUME NEW b \in Branches, NEW explicit \in BOOLEAN, StartClose(b, explicit) PROVE JobFits'
  <2>1. CASE MeansClosed(b, explicit)
    BY <1>3, <2>1 DEF StartClose
  <2>2. CASE ~MeansClosed(b, explicit)
    BY <1>3, <2>2 DEF StartClose
  <2> QED
    BY <2>1, <2>2
<1>4. ASSUME NEW b \in Branches, NEW explicit \in BOOLEAN, StartDelete(b, explicit) PROVE JobFits'
  BY <1>4 DEF StartDelete
<1> QED
  BY <1>1, <1>2, <1>3, <1>4 DEF Start

LEMMA FitsOver == ASSUME Over PROVE JobFits'
BY NamesDiffer DEF JobFits, Over, Go, NoJob

LEMMA FitsStep == ASSUME TypeOK, JobFits, Step PROVE JobFits'
<1> USE DEF JobFits, Up, Down, Go
<1>1. CASE Over
  BY <1>1, FitsOver
<1>2. ASSUME Create \/ Checkout, ~Over PROVE JobFits'
  BY <1>2 DEF Create, Checkout
<1>3. ASSUME Inspect \/ Keep \/ Send, ~Over PROVE JobFits'
  BY <1>3 DEF Inspect, Keep, Send
<1>4. ASSUME Record, ~Over PROVE JobFits'
  <2>1. at' = After /\ job' = job /\ job.cmd \in {"close", "keep", "delete"}
    BY <1>4 DEF Record
  <2>2. CASE job.cmd = "close"
    BY <2>1, <2>2, AfterIs
  <2>3. CASE job.cmd = "keep"
    BY <2>1, <2>3, AfterIs
  <2>4. CASE job.cmd = "delete"
    BY <2>1, <2>4, AfterIs
  <2> QED
    BY <2>1, <2>2, <2>3, <2>4
<1>5. ASSUME Look \/ PushClosed, ~Over PROVE JobFits'
  BY <1>5 DEF Look, Renamed, PushClosed
<1>6. ASSUME DropOld \/ Rename, ~Over PROVE JobFits'
  BY <1>6 DEF DropOld, Renamed, Rename
<1>7. ASSUME Verify \/ CheckHeld, ~Over PROVE JobFits'
  BY <1>7 DEF Verify, CheckHeld
<1>8. ASSUME Drop \/ DropLocal, ~Over PROVE JobFits'
  BY <1>8 DEF Drop, DropLocal
<1>9. ASSUME Snapshot, ~Over PROVE JobFits'
  BY <1>9 DEF Snapshot
<1> QED
  BY <1>1, <1>2, <1>3, <1>4, <1>5, <1>6, <1>7, <1>8, <1>9 DEF Step

LEMMA FitsNext == ASSUME TypeOK, JobFits, [Next]_vars PROVE JobFits'
<1>1. CASE Beside
  BY <1>1 DEF Beside, Work, Publish, Colleague, PlainDelete, run, JobFits
<1>2. CASE Stop
  BY <1>2, FitsOver DEF Stop
<1>3. CASE UNCHANGED vars
  BY <1>3 DEF vars, run, JobFits
<1> QED
  BY <1>1, <1>2, <1>3, FitsStart, FitsStep DEF Next

TypeInv == TypeOK /\ JobFits

\* In every reachable state the variables are well-typed: whatever the commands do, a branch
\* is a set of commits or not there, and a command stands at one of its own steps.
THEOREM BranchesTypeCorrect == Spec => []TypeOK
<1>1. Init => TypeInv
  BY TypeInit, NamesDiffer DEF TypeInv, Init, JobFits, NoJob
<1>2. TypeInv /\ [Next]_vars => TypeInv'
  BY TypeStep, FitsNext DEF TypeInv
<1>3. TypeInv => TypeOK
  BY DEF TypeInv
<1> QED
  BY <1>1, <1>2, <1>3, PTL DEF Spec

-----------------------------------------------------------------------------
(* What each step writes, branch by branch *)

\* One branch of one repository is rewritten.
Writes(new, old, r, n, v) ==
    \A q \in Repos, m \in Names : new[q][m] = IF q = r /\ m = n THEN v ELSE old[q][m]

LEMMA Written ==
    ASSUME NEW f \in [Repos -> [Names -> Commit]], NEW g, NEW r \in Repos, NEW n \in Names, NEW v,
           g = [f EXCEPT ![r][n] = v]
    PROVE  Writes(g, f, r, n, v)
BY DEF Writes

LEMMA Cells3 ==
    ASSUME TypeOK
    PROVE  /\ local \in [Repos -> [Names -> Commit]] /\ seen \in [Repos -> [Names -> Commit]]
           /\ remote \in [Repos -> [Names -> Commit]] /\ turn \in Repos /\ job.name \in Names
           /\ Ancestors \in Names /\ built \in Nat /\ on \in [Repos -> Names]
BY NamesDiffer DEF TypeOK, Job

LEMMA WorkWrites ==
    ASSUME TypeOK, NEW r \in Repos, Work(r)
    PROVE  /\ Writes(local', local, r, on[r], local[r][on[r]] \cup {built + 1})
           /\ UNCHANGED <<seen, remote>>
BY Cells3, Written DEF Work

LEMMA PublishWrites ==
    ASSUME TypeOK, NEW r \in Repos, Publish(r)
    PROVE  /\ Writes(remote', remote, r, on[r], local[r][on[r]])
           /\ Writes(seen', seen, r, on[r], local[r][on[r]])
           /\ UNCHANGED local
BY Cells3, Written DEF Publish

LEMMA ColleagueWrites ==
    ASSUME TypeOK, NEW r \in Repos, NEW n \in Names, Colleague(r, n)
    PROVE  /\ \E v \in Commit : remote[r][n] \subseteq v /\ Writes(remote', remote, r, n, v)
           /\ UNCHANGED <<local, seen>>
<1> DEFINE v == (IF remote[r][n] = {} /\ n # Ancestors THEN remote[r][Main] ELSE remote[r][n]) \cup {built + 1}
<1>1. remote' = [remote EXCEPT ![r][n] = v] /\ UNCHANGED <<local, seen>>
  BY Cells3 DEF Colleague
<1>2. built + 1 \in Nat /\ remote[r][n] \in Commit /\ remote[r][Main] \in Commit
  BY Cells3, NamesDiffer
<1>3. v \in Commit /\ remote[r][n] \subseteq v
  BY <1>2, Commits
<1>4. Writes(remote', remote, r, n, v)
  BY Cells3, <1>1, Written
<1> QED
  BY <1>1, <1>3, <1>4

LEMMA PlainDeleteWrites ==
    ASSUME TypeOK, NEW r \in Repos, NEW b \in Branches, PlainDelete(r, b)
    PROVE  /\ Writes(local', local, r, Closed(b), {}) /\ Writes(remote', remote, r, Closed(b), {})
           /\ Writes(seen', seen, r, Closed(b), {})
BY Cells3, Written, NamesDiffer DEF PlainDelete

LEMMA CreateWrites ==
    ASSUME TypeOK, Create
    PROVE  /\ \/ UNCHANGED local
              \/ /\ local[turn][job.name] = {}
                 /\ Writes(local', local, turn, job.name, StartPoint(turn, job.name))
           /\ \/ UNCHANGED seen
              \/ Writes(seen', seen, turn, job.name, remote[turn][job.name])
           /\ UNCHANGED remote
<1>1. CASE local[turn][job.name] # {}
  BY <1>1 DEF Create, refs
<1>2. CASE local[turn][job.name] = {}
  <2>1. local' = [local EXCEPT ![turn][job.name] = StartPoint(turn, job.name)] /\ UNCHANGED remote
    BY <1>2 DEF Create
  <2>2. seen' = [seen EXCEPT ![turn][job.name] = IF seen[turn][job.name] = {} THEN remote[turn][job.name]
                                                  ELSE seen[turn][job.name]]
    BY <1>2 DEF Create
  <2>3. Writes(local', local, turn, job.name, StartPoint(turn, job.name))
    BY Cells3, <2>1, Written
  <2>4. CASE seen[turn][job.name] = {}
    BY Cells3, <1>2, <2>1, <2>2, <2>3, <2>4, Written
  <2>5. CASE seen[turn][job.name] # {}
    BY Cells3, <1>2, <2>1, <2>2, <2>3, <2>5
  <2> QED
    BY <2>4, <2>5
<1> QED
  BY <1>1, <1>2

LEMMA InspectWrites ==
    ASSUME TypeOK, Inspect
    PROVE  /\ UNCHANGED <<local, remote>>
           /\ \A q \in Repos, m \in Names : seen'[q][m] = IF q = turn THEN remote[q][m] ELSE seen[q][m]
BY Cells3 DEF Inspect

LEMMA KeepWrites ==
    ASSUME TypeOK, Keep
    PROVE  /\ \/ UNCHANGED local
              \/ \E v \in Commit : Base(turn) \subseteq v /\ Writes(local', local, turn, Ancestors, v)
           /\ UNCHANGED <<seen, remote>>
<1>1. CASE UNCHANGED local
  BY <1>1 DEF Keep
<1>2. CASE local' # local
  <2> DEFINE made == (IF Base(turn) = {} THEN {built + 1} ELSE {})
                       \cup (IF answer[turn].kept THEN {} ELSE answer[turn].tip \cup {built + 2})
  <2>1. local' = [local EXCEPT ![turn][Ancestors] = Base(turn) \cup made]
    BY <1>2 DEF Keep
  <2>2. Base(turn) \in Commit
    BY Cells3, Held3, Commits DEF Base
  <2>3. made \in Commit
    <3>1. built \in Nat /\ built + 1 \in Nat /\ built + 2 \in Nat /\ answer[turn].tip \in Commit
      BY Cells3 DEF TypeOK, Answer
    <3> QED
      BY <3>1 DEF Commit
  <2>4. Base(turn) \cup made \in Commit
    BY <2>2, <2>3, Commits
  <2>5. Writes(local', local, turn, Ancestors, Base(turn) \cup made)
    BY Cells3, <2>1, <2>4, Written
  <2> HIDE DEF made
  <2> QED
    BY <2>4, <2>5 DEF Keep
<1> QED
  BY <1>1, <1>2

LEMMA SendWrites ==
    ASSUME TypeOK, Send
    PROVE  /\ UNCHANGED local
           /\ \/ UNCHANGED <<seen, remote>>
              \/ /\ remote[turn][Ancestors] \subseteq local[turn][Ancestors]
                 /\ Writes(remote', remote, turn, Ancestors, local[turn][Ancestors])
                 /\ Writes(seen', seen, turn, Ancestors, local[turn][Ancestors])
BY Cells3, Written DEF Send

LEMMA LookWrites ==
    ASSUME TypeOK, Look
    PROVE  /\ UNCHANGED <<local, remote>>
           /\ UNCHANGED seen \/ Writes(seen', seen, turn, job.name, remote[turn][job.name])
<1>1. /\ UNCHANGED <<local, remote>>
      /\ seen' = [seen EXCEPT ![turn][job.name] = IF remote[turn][job.name] # {} THEN remote[turn][job.name]
                                                   ELSE seen[turn][job.name]]
  BY DEF Look
<1>2. CASE remote[turn][job.name] # {}
  BY Cells3, <1>1, <1>2, Written
<1>3. CASE remote[turn][job.name] = {}
  BY Cells3, <1>1, <1>3
<1> QED
  BY <1>2, <1>3

LEMMA PushClosedWrites ==
    ASSUME TypeOK, JobFits, PushClosed
    PROVE  /\ UNCHANGED local
           /\ LET c      == Closed(Branch(job.name))
                  pushed == IF local[turn][job.name] # {} THEN local[turn][job.name] ELSE seen[turn][job.name]
              IN  \/ Over /\ UNCHANGED <<seen, remote>>
                  \/ /\ remote[turn][c] \subseteq pushed /\ at' = "drop_old" /\ turn' = turn
                     /\ Writes(remote', remote, turn, c, pushed) /\ Writes(seen', seen, turn, c, pushed)
<1>1. Closed(Branch(job.name)) \in Names
  BY NamesDiffer DEF PushClosed, JobFits
<1> QED
  BY Cells3, <1>1, Written DEF PushClosed, Go

LEMMA DropOldWrites ==
    ASSUME TypeOK, DropOld
    PROVE  /\ UNCHANGED local
           /\ Writes(remote', remote, turn, job.name, {}) /\ Writes(seen', seen, turn, job.name, {})
BY Cells3, Written DEF DropOld

LEMMA RenameWrites ==
    ASSUME TypeOK, JobFits, Rename
    PROVE  /\ UNCHANGED <<seen, remote>>
           /\ LET c == Closed(Branch(job.name)) IN
              \/ UNCHANGED local
              \/ /\ local[turn][c] = {}
                 /\ \A q \in Repos, m \in Names :
                       local'[q][m] = IF q = turn /\ m = job.name THEN {}
                                      ELSE IF q = turn /\ m = c THEN local[turn][job.name]
                                      ELSE local[q][m]
<1>1. Closed(Branch(job.name)) \in Names
  BY NamesDiffer DEF Rename, JobFits
<1> QED
  <2> DEFINE c == Closed(Branch(job.name))
  <2>1. CASE local[turn][c] # {}
    BY <2>1 DEF Rename
  <2>2. CASE local[turn][c] = {}
    <3>1. /\ local' = [local EXCEPT ![turn][c] = local[turn][job.name], ![turn][job.name] = {}]
          /\ UNCHANGED <<seen, remote>>
      BY <2>2 DEF Rename
    <3>2. c \in Names
      BY <1>1
    <3> HIDE DEF c
    <3>3. \A q \in Repos, m \in Names :
             local'[q][m] = IF q = turn /\ m = job.name THEN {}
                            ELSE IF q = turn /\ m = c THEN local[turn][job.name] ELSE local[q][m]
      BY Cells3, <3>1, <3>2
    <3> QED
      BY <2>2, <3>1, <3>3 DEF c
  <2> QED
    BY <2>1, <2>2

LEMMA DropWrites ==
    ASSUME TypeOK, Drop
    PROVE  /\ UNCHANGED local
           /\ \/ UNCHANGED <<seen, remote>>
              \/ /\ Writes(remote', remote, turn, job.name, {})
                 /\ remote[turn][job.name] # {} => Writes(seen', seen, turn, job.name, {})
                 /\ remote[turn][job.name] = {} => UNCHANGED seen
<1>1. CASE answer[turn].verdict = "absent"
  BY <1>1 DEF Drop, refs
<1>2. CASE answer[turn].verdict # "absent"
  <2>1. /\ remote' = [remote EXCEPT ![turn][job.name] = {}] /\ UNCHANGED local
        /\ seen' = [seen EXCEPT ![turn][job.name] = IF remote[turn][job.name] = {} THEN seen[turn][job.name] ELSE {}]
    BY <1>2 DEF Drop
  <2>2. CASE remote[turn][job.name] = {}
    BY Cells3, <2>1, <2>2, Written
  <2>3. CASE remote[turn][job.name] # {}
    BY Cells3, <2>1, <2>3, Written
  <2> QED
    BY <2>2, <2>3
<1> QED
  BY <1>1, <1>2

LEMMA DropLocalWrites ==
    ASSUME TypeOK, DropLocal
    PROVE  UNCHANGED <<seen, remote>> /\ Writes(local', local, turn, job.name, {})
BY Cells3, Written DEF DropLocal

Quiet == Checkout \/ Record \/ Verify \/ CheckHeld \/ Snapshot \/ Start \/ Stop \/ UNCHANGED vars
Loud  == Create \/ Inspect \/ Keep \/ Send \/ Look \/ PushClosed \/ DropOld \/ Rename \/ Drop \/ DropLocal

LEMMA QuietKeeps == ASSUME Quiet PROVE UNCHANGED <<local, seen, remote>>
<1>1. ASSUME Start PROVE UNCHANGED refs
  BY <1>1 DEF Start, StartCreate, StartClose, StartDelete
<1>2. ASSUME Checkout \/ Record \/ Verify \/ CheckHeld \/ Snapshot \/ Stop PROVE UNCHANGED refs
  BY <1>2 DEF Checkout, Record, Verify, CheckHeld, Snapshot, Stop
<1> QED
  BY <1>1, <1>2 DEF Quiet, vars, refs

LEMMA NextSplits == [Next]_vars = (Loud \/ Beside \/ Quiet)
BY DEF Next, Step, Loud, Quiet

-----------------------------------------------------------------------------
(* What was fetched is what origin holds, and `ancestors` only grows *)

\* Nothing is believed of origin that is not there: only this workspace takes a branch away
\* from origin, and it forgets it with the same command.
SeenIsThere == \A r \in Repos, n \in Names : seen[r][n] \subseteq remote[r][n]

LEMMA SeenStep == ASSUME TypeInv, SeenIsThere, [Next]_vars PROVE SeenIsThere'
<1> USE DEF SeenIsThere, Writes
<1>0. turn \in Repos /\ job.name \in Names /\ TypeOK /\ JobFits /\ Ancestors \in Names
  BY NamesDiffer DEF TypeInv, TypeOK, Job
<1>1. CASE Quiet
  BY <1>1, QuietKeeps
<1>2. CASE Beside
  <2>1. ASSUME NEW r \in Repos, Work(r) PROVE SeenIsThere'
    BY <1>0, <2>1, WorkWrites
  <2>4. ASSUME NEW r \in Repos, Publish(r) PROVE SeenIsThere'
    BY <1>0, <2>4, PublishWrites
  <2>2. ASSUME NEW r \in Repos, NEW n \in Names, Colleague(r, n) PROVE SeenIsThere'
    <3>1. PICK v \in Commit : remote[r][n] \subseteq v /\ Writes(remote', remote, r, n, v)
      BY <1>0, <2>2, ColleagueWrites
    <3>2. UNCHANGED seen
      BY <1>0, <2>2, ColleagueWrites
    <3> QED
      BY <3>1, <3>2
  <2>3. ASSUME NEW r \in Repos, NEW b \in Branches, PlainDelete(r, b) PROVE SeenIsThere'
    BY <1>0, <2>3, PlainDeleteWrites
  <2> QED
    BY <1>2, <2>1, <2>2, <2>3, <2>4 DEF Beside
<1>3. CASE Create
  BY <1>0, <1>3, CreateWrites
<1>4. CASE Inspect
  BY <1>0, <1>4, InspectWrites
<1>5. CASE Keep \/ DropLocal \/ Rename
  BY <1>0, <1>5, KeepWrites, DropLocalWrites, RenameWrites
<1>6. CASE Send
  BY <1>0, <1>6, SendWrites
<1>7. CASE Look
  BY <1>0, <1>7, LookWrites
<1>8. CASE PushClosed
  BY <1>0, <1>8, PushClosedWrites
<1>9. CASE DropOld
  BY <1>0, <1>9, DropOldWrites
<1>10. CASE Drop
  BY <1>0, <1>10, DropWrites
<1> QED
  BY <1>1, <1>2, <1>3, <1>4, <1>5, <1>6, <1>7, <1>8, <1>9, <1>10, NextSplits DEF Loud

\* What a repository keeps on `ancestors`, here and on origin.
KeptGrows ==
    \A r \in Repos : /\ local[r][Ancestors] \subseteq local'[r][Ancestors]
                     /\ remote[r][Ancestors] \subseteq remote'[r][Ancestors]
                     /\ Base(r) \subseteq Base(r)'

LEMMA AncestorsGrow == ASSUME TypeInv, SeenIsThere, [Next]_vars PROVE KeptGrows
<1> USE DEF KeptGrows, Base, SeenIsThere, Writes
<1>0. turn \in Repos /\ job.name \in Names /\ TypeOK /\ JobFits /\ Ancestors \in Names
  BY NamesDiffer DEF TypeInv, TypeOK, Job
<1>1. CASE Quiet
  BY <1>1, QuietKeeps
<1>2. CASE Beside
  <2>1. ASSUME NEW r \in Repos, Work(r) PROVE KeptGrows
    <3>1. UNCHANGED <<seen, remote>>
      BY <1>0, <2>1, WorkWrites
    <3>2. \A q \in Repos : local[q][Ancestors] \subseteq local'[q][Ancestors]
      <4>1. Writes(local', local, r, on[r], local[r][on[r]] \cup {built + 1})
        BY <1>0, <2>1, WorkWrites
      <4> QED
        BY <1>0, <4>1
    <3> QED
      BY <3>1, <3>2
  <2>2. ASSUME NEW r \in Repos, Publish(r) PROVE KeptGrows
    <3>1. remote[r][on[r]] \subseteq local[r][on[r]]
      BY <2>2 DEF Publish
    <3>2. on[r] \in Names
      BY <1>0 DEF TypeOK
    <3> QED
      BY <1>0, <2>2, <3>1, <3>2, PublishWrites
  <2>3. ASSUME NEW r \in Repos, NEW n \in Names, Colleague(r, n) PROVE KeptGrows
    <3>1. PICK v \in Commit : remote[r][n] \subseteq v /\ Writes(remote', remote, r, n, v)
      BY <1>0, <2>3, ColleagueWrites
    <3>2. UNCHANGED <<local, seen>>
      BY <1>0, <2>3, ColleagueWrites
    <3> QED
      BY <1>0, <3>1, <3>2
  <2>4. ASSUME NEW r \in Repos, NEW b \in Branches, PlainDelete(r, b) PROVE KeptGrows
    BY <1>0, <2>4, PlainDeleteWrites, NamesDiffer
  <2> QED
    BY <1>2, <2>1, <2>2, <2>3, <2>4 DEF Beside
<1>a. Create \/ Look \/ PushClosed \/ DropOld \/ Rename \/ Drop \/ DropLocal => job.name # Ancestors
  BY NamesDiffer, <1>0 DEF JobFits, Create, Look, PushClosed, DropOld, Rename, Drop, DropLocal
<1>b. PushClosed \/ Rename => Closed(Branch(job.name)) # Ancestors
  BY NamesDiffer, <1>0 DEF JobFits, PushClosed, Rename
<1>3. CASE Create
  BY <1>0, <1>3, <1>a, CreateWrites
<1>4. CASE Inspect
  BY <1>0, <1>4, InspectWrites
<1>5. CASE Keep
  <2>1. CASE UNCHANGED local
    BY <1>0, <1>5, <2>1, KeepWrites
  <2>2. CASE local' # local
    <3>1. PICK v \in Commit : Base(turn) \subseteq v /\ Writes(local', local, turn, Ancestors, v)
      BY <1>0, <1>5, <2>2, KeepWrites
    <3>2. UNCHANGED <<seen, remote>>
      BY <1>0, <1>5, KeepWrites
    <3> QED
      BY <1>0, <3>1, <3>2
  <2> QED
    BY <2>1, <2>2
<1>6. CASE Send
  BY <1>0, <1>6, SendWrites
<1>7. CASE Look
  BY <1>0, <1>7, <1>a, LookWrites
<1>8. CASE PushClosed
  BY <1>0, <1>8, <1>b, PushClosedWrites
<1>9. CASE DropOld
  BY <1>0, <1>9, <1>a, DropOldWrites
<1>10. CASE Rename
  BY <1>0, <1>10, <1>a, <1>b, RenameWrites
<1>11. CASE Drop
  BY <1>0, <1>11, <1>a, DropWrites
<1>12. CASE DropLocal
  BY <1>0, <1>12, <1>a, DropLocalWrites
<1> QED
  BY <1>1, <1>2, <1>3, <1>4, <1>5, <1>6, <1>7, <1>8, <1>9, <1>10, <1>11, <1>12, NextSplits DEF Loud

-----------------------------------------------------------------------------
(* A recorded move is on origin *)

\* A tip said to be kept is on the copy of `ancestors` a keep starts from.
KeptIsHere == \A r \in Repos : answer[r].kept => answer[r].tip \subseteq Base(r)

\* How far the keeping has come: the repositories already visited hold their tips on
\* origin's `ancestors`, and the one about to be sent holds its own here.
KeptSoFar ==
    /\ at = "send" => turn \in Needing /\ answer[turn].tip \subseteq local[turn][Ancestors]
    /\ at \in {"keep", "send"} => \A r \in Needing : r < turn => answer[r].tip \subseteq remote[r][Ancestors]
    /\ at = "record" => \A r \in Needing : answer[r].tip \subseteq remote[r][Ancestors]

IInv == TypeInv /\ SeenIsThere /\ KeptIsHere /\ KeptSoFar /\ RecordedIsPublic

LEMMA OverAnswers == ASSUME Over PROVE at' = "idle" /\ \A r \in Repos : ~answer'[r].kept /\ answer'[r].verdict = "absent"
BY DEF Over, Go, NoAnswer

LEMMA InspectedKept ==
    ASSUME NEW r \in Repos, NEW n \in Names, Inspected(r, n).kept
    PROVE  Inspected(r, n).tip \subseteq local[r][Ancestors] \cup remote[r][Ancestors]
<1> DEFINE tip  == local[r][n] \cup remote[r][n]
<1> DEFINE kept == tip \subseteq local[r][Ancestors] \/ tip \subseteq remote[r][Ancestors]
<1>1. CASE tip = {}
  BY <1>1 DEF Inspected, NoAnswer
<1>2. CASE tip # {}
  <2>1. Inspected(r, n).kept = kept /\ Inspected(r, n).tip = tip
    BY <1>2 DEF Inspected
  <2> QED
    BY <2>1
<1> QED
  BY <1>1, <1>2

LEMMA KeptIsHereStep == ASSUME IInv, [Next]_vars PROVE KeptIsHere'
<1>0. TypeInv /\ TypeOK /\ JobFits /\ SeenIsThere /\ turn \in Repos /\ job.name \in Names
  BY DEF IInv, TypeInv, TypeOK, Job
<1>1. CASE UNCHANGED answer
  BY <1>0, <1>1, AncestorsGrow DEF IInv, KeptIsHere, KeptGrows
<1>2. CASE Over
  BY <1>2, OverAnswers DEF KeptIsHere
<1>3. ASSUME Inspect, ~Over PROVE KeptIsHere'
  <2>1. answer' = [answer EXCEPT ![turn] = Inspected(turn, job.name)]
    BY <1>3 DEF Inspect
  <2>2. ASSUME NEW r \in Repos, r = turn, answer'[r].kept PROVE answer'[r].tip \subseteq Base(r)'
    <3>1. answer'[r] = Inspected(r, job.name)
      BY <1>0, <2>1, <2>2 DEF TypeOK
    <3>2. answer'[r].tip \subseteq local[r][Ancestors] \cup remote[r][Ancestors]
      BY <1>0, <2>2, <3>1, InspectedKept
    <3>3. Base(r)' = local[r][Ancestors] \cup remote[r][Ancestors]
      BY <1>0, <1>3, <2>2, InspectWrites, NamesDiffer DEF Base
    <3> QED
      BY <3>2, <3>3
  <2>3. ASSUME NEW r \in Repos, r # turn, answer'[r].kept PROVE answer'[r].tip \subseteq Base(r)'
    <3>1. answer'[r] = answer[r]
      BY <1>0, <2>1, <2>3 DEF TypeOK
    <3> QED
      BY <1>0, <2>3, <3>1, AncestorsGrow DEF IInv, KeptIsHere, KeptGrows
  <2> QED
    BY <2>2, <2>3 DEF KeptIsHere
<1> QED
  BY <1>1, <1>2, <1>3 DEF Next, Step, Start, Beside, vars, run,
     Create, Checkout, Keep, Send, Record, Look, PushClosed, DropOld, Rename, Verify, CheckHeld, Drop,
     DropLocal, Snapshot, StartCreate, StartClose, StartDelete, Work, Publish, Colleague, PlainDelete, Stop

LEMMA KeptSoFarStep == ASSUME IInv, [Next]_vars PROVE KeptSoFar'
<1> USE DEF Needing
<1>0. /\ TypeInv /\ TypeOK /\ JobFits /\ SeenIsThere /\ turn \in Repos /\ job.name \in Names
      /\ answer \in [Repos -> Answer] /\ Repos = 1..NRepos /\ Root = NRepos /\ NRepos \in Nat /\ KeptGrows
  BY AncestorsGrow, BranchesAssumption DEF IInv, TypeInv, TypeOK, Job, Repos, Root
<1>1. CASE UNCHANGED <<at, turn, answer>>
  <2>1. /\ at = "send" => turn \in Needing /\ answer[turn].tip \subseteq local'[turn][Ancestors]
        /\ \A r \in Repos : answer[r].tip \subseteq remote[r][Ancestors] => answer[r].tip \subseteq remote'[r][Ancestors]
    BY <1>0 DEF IInv, KeptSoFar, KeptGrows
  <2> QED
    BY <1>1, <2>1 DEF IInv, KeptSoFar
<1>2. CASE at' \notin {"keep", "send", "record"}
  BY <1>2 DEF KeptSoFar
<1>3. ASSUME Inspect, ~Over PROVE KeptSoFar'
  <2>1. at' # "send" /\ at' # "record" /\ (at' = "keep" => turn' = 1)
    BY <1>0, <1>3 DEF Inspect, Up, Go
  <2> QED
    BY <1>0, <2>1 DEF KeptSoFar
<1>4. ASSUME Keep, ~Over PROVE KeptSoFar'
  <2>1. UNCHANGED answer /\ remote' = remote /\ at = "keep"
    BY <1>4 DEF Keep
  <2>2. CASE turn \notin Needing
    <3>1. IF turn = Root THEN at' = "record" ELSE at' = "keep" /\ turn' = turn + 1
      BY <1>4, <2>2 DEF Keep, Up, Go
    <3>2. \A r \in Needing : r < turn => answer[r].tip \subseteq remote[r][Ancestors]
      BY <2>1 DEF IInv, KeptSoFar
    <3>3. CASE turn = Root
      BY <1>0, <2>1, <2>2, <3>1, <3>2, <3>3 DEF KeptSoFar
    <3>4. CASE turn # Root
      BY <1>0, <2>1, <2>2, <3>1, <3>2, <3>4 DEF KeptSoFar
    <3> QED
      BY <3>3, <3>4
  <2>3. CASE turn \in Needing
    <3> DEFINE made == (IF Base(turn) = {} THEN {built + 1} ELSE {})
                         \cup (IF answer[turn].kept THEN {} ELSE answer[turn].tip \cup {built + 2})
    <3>1. /\ local' = [local EXCEPT ![turn][Ancestors] = Base(turn) \cup made]
          /\ at' = "send" /\ turn' = turn
      BY <1>4, <2>3 DEF Keep, Go
    <3>2. answer[turn].tip \subseteq Base(turn) \cup made
      BY <1>0 DEF IInv, KeptIsHere
    <3> HIDE DEF made
    <3>3. answer[turn].tip \subseteq local'[turn][Ancestors]
      BY <1>0, <3>1, <3>2, Cells3
    <3> QED
      BY <2>1, <2>3, <3>1, <3>3 DEF IInv, KeptSoFar
  <2> QED
    BY <2>2, <2>3
<1>5. ASSUME Send, ~Over PROVE KeptSoFar'
  <2>1. /\ UNCHANGED answer /\ at = "send"
        /\ IF turn = Root THEN at' = "record" ELSE at' = "keep" /\ turn' = turn + 1
    BY <1>5 DEF Send, Up, Go
  <2>2. remote' = [remote EXCEPT ![turn][Ancestors] = local[turn][Ancestors]]
    BY <1>5 DEF Send
  <2>3. answer[turn].tip \subseteq remote'[turn][Ancestors]
    BY <1>0, <2>1, <2>2, Cells3 DEF IInv, KeptSoFar
  <2>4. \A r \in Needing : r < turn => answer[r].tip \subseteq remote'[r][Ancestors]
    BY <1>0, <2>1 DEF IInv, KeptSoFar, KeptGrows
  <2>5. CASE turn = Root
    BY <1>0, <2>1, <2>3, <2>4, <2>5 DEF KeptSoFar
  <2>6. CASE turn # Root
    BY <1>0, <2>1, <2>3, <2>4, <2>6 DEF KeptSoFar
  <2> QED
    BY <2>5, <2>6
<1>6. Over => at' = "idle"
  BY OverAnswers
<1>7. CASE Record
  <2>1. ASSUME at' = After PROVE at' \notin {"keep", "send", "record"}
    <3>1. job.cmd \in {"close", "keep", "delete"}
      BY <1>0, <1>7 DEF Record, JobFits
    <3> QED
      BY <2>1, <3>1, AfterIs
  <2> QED
    BY <1>2, <1>6, <1>7, <2>1 DEF Record, Go
<1>8. CASE Over
  BY <1>2, <1>6, <1>8
<1>9. ASSUME Create \/ Checkout \/ Look \/ PushClosed \/ DropOld \/ Rename \/ Verify \/ CheckHeld \/ Drop \/ DropLocal \/ Snapshot,
             ~Over
      PROVE  at' \notin {"keep", "send", "record"}
  BY <1>9 DEF Create, Checkout, Look, PushClosed, DropOld, Rename, Renamed, Verify, CheckHeld, Drop, DropLocal,
     Snapshot, Up, Down, Go
<1>10. CASE Start
  BY <1>2, <1>10 DEF Start, StartCreate, StartClose, StartDelete, Begin, Go
<1>11. CASE Beside \/ UNCHANGED vars
  BY <1>1, <1>11 DEF Beside, Work, Publish, Colleague, PlainDelete, vars, run
<1>12. CASE Stop
  BY <1>8, <1>12 DEF Stop
<1> QED
  BY <1>2, <1>3, <1>4, <1>5, <1>7, <1>8, <1>9, <1>10, <1>11, <1>12 DEF Next, Step

LEMMA RecordedStep == ASSUME IInv, [Next]_vars PROVE RecordedIsPublic'
<1>0. /\ KeptGrows /\ RecordedIsPublic /\ \A m \in ledger : m.repo \in Repos
  BY AncestorsGrow DEF IInv, TypeInv, TypeOK
<1>1. CASE UNCHANGED ledger
  BY <1>0, <1>1 DEF RecordedIsPublic, KeptGrows
<1>2. CASE Record
  <2>1. \A r \in Needing : r \in Repos /\ answer[r].tip \subseteq remote[r][Ancestors]
    BY <1>2 DEF Record, IInv, KeptSoFar, Needing
  <2>2. ledger' = ledger \cup {Relocation(r) : r \in Needing} /\ remote' = remote
    BY <1>2 DEF Record, refs
  <2>3. \A r \in Needing : Relocation(r).repo = r /\ Relocation(r).tip = answer[r].tip
    BY DEF Relocation
  <2> QED
    BY <1>0, <2>1, <2>2, <2>3 DEF RecordedIsPublic
<1> QED
  BY <1>1, <1>2 DEF Next, Step, Start, Beside, vars,
     Create, Checkout, Inspect, Keep, Send, Look, PushClosed, DropOld, Rename, Verify, CheckHeld, Drop,
     DropLocal, Snapshot, StartCreate, StartClose, StartDelete, Work, Publish, Colleague, PlainDelete, Stop

\* The typing, what was fetched, and how far a keep has come, together.
LEMMA Inductive == (Init => IInv) /\ (IInv /\ [Next]_vars => IInv')
<1>1. ASSUME Init PROVE IInv
  <2>1. TypeInv
    BY <1>1, TypeInit, NamesDiffer DEF TypeInv, Init, JobFits, NoJob
  <2> QED
    BY <1>1, <2>1 DEF IInv, Init, SeenIsThere, KeptIsHere, KeptSoFar, RecordedIsPublic, NoAnswer
<1>2. ASSUME IInv, [Next]_vars PROVE IInv'
  <2>1. TypeInv'
    BY <1>2, TypeStep, FitsNext DEF IInv, TypeInv
  <2>2. SeenIsThere'
    BY <1>2, SeenStep DEF IInv
  <2> QED
    BY <1>2, <2>1, <2>2, KeptIsHereStep, KeptSoFarStep, RecordedStep DEF IInv
<1> QED
  BY <1>1, <1>2

\* A move that the ledger records is kept on origin's `ancestors`, whoever pushes what
\* meanwhile and wherever a command stops: `close` and `delete` record it only once the
\* push of `ancestors` was accepted in every repository that needed it, and nobody takes
\* anything off `ancestors` after.
THEOREM RecordedMovesArePublic == Spec => []RecordedIsPublic
<1>1. IInv => RecordedIsPublic
  BY DEF IInv
<1> QED
  BY <1>1, Inductive, PTL DEF Spec

\* Nobody commits in this workspace while one of its commands runs, which the lock that every
\* command takes does not prevent.
NotDuringIts == "own" \notin During

LEMMA JoinsStep == ASSUME NotDuringIts, IInv, [Next]_vars PROVE JoinsThere
<1> SUFFICES ASSUME NEW r \in Repos, NEW n \in Names,
                    local[r][n] = {}, local'[r][n] # {}, remote[r][n] # {}, at = "create"
             PROVE  local'[r][n] \subseteq remote[r][n]
  BY DEF JoinsThere
<1>0. TypeOK /\ JobFits /\ job # NoJob
  BY DEF IInv, TypeInv, JobFits, NoJob
<1>1. CASE Create
  <2>1. /\ r = turn /\ n = job.name /\ local'[r][n] = StartPoint(turn, job.name)
    BY <1>0, <1>1, CreateWrites DEF Writes
  <2>2. seen[turn][job.name] \subseteq remote[turn][job.name]
    BY <2>1 DEF IInv, SeenIsThere
  <2> QED
    BY <2>1, <2>2 DEF StartPoint
<1>2. CASE Beside
  <2>1. \A q \in Repos : ~Work(q)
    BY <1>0 DEF Work, NotDuringIts
  <2>2. \A q \in Repos, b \in Branches : ~PlainDelete(q, b)
    BY <1>0 DEF PlainDelete
  <2> QED
    BY <1>2, <2>1, <2>2 DEF Beside, Publish, Colleague
<1>3. CASE Quiet
  BY <1>3, QuietKeeps
<1>4. CASE Inspect \/ Keep \/ Send \/ Look \/ PushClosed \/ DropOld \/ Rename \/ Drop \/ DropLocal
  BY <1>4 DEF Inspect, Keep, Send, Look, PushClosed, DropOld, Rename, Drop, DropLocal
<1> QED
  BY <1>1, <1>2, <1>3, <1>4, NextSplits DEF Loud

\* `branch create` and `checkout` never start a branch afresh where origin has one of that
\* name: the new local branch holds nothing that origin's does not.
THEOREM NewBranchesJoin ==
    ASSUME NotDuringIts
    PROVE  Spec => JoinsRemote
<1>1. IInv /\ [Next]_vars => [JoinsThere]_vars
  BY JoinsStep
<1> QED
  BY <1>1, Inductive, PTL DEF Spec, JoinsRemote

-----------------------------------------------------------------------------
(* Nothing is lost *)

\* While a command runs, nobody pushes to the branch it closes or deletes, nor commits here:
\* colleagues still push to the default branch and to `ancestors`, and to every branch between
\* two commands.  The sweeps re-read nothing they have checked, so without this a commit pushed
\* after the last look is deleted with the branch.
OthersKeepOff == During \subseteq {"main", "ancestors"}

\* What a repository holds under every other name.
OtherHeld(r, n) == UNION {local[r][m] \cup remote[r][m] : m \in Names \ {n}}

\* The renaming of a repository has not dropped the old name before the new one has it.
ClosingFits ==
    /\ at = "push_closed" => remote[turn][job.name] \subseteq
                                (IF local[turn][job.name] # {} THEN local[turn][job.name] ELSE seen[turn][job.name])
    /\ at = "drop_old" => remote[turn][job.name] \subseteq remote[turn][Closed(Branch(job.name))]

\* The repositories a delete has inspected a second time.
Checked == IF at = "check" THEN {r \in Repos : r < turn}
           ELSE IF at \in {"held", "drop", "drop_local"} THEN Repos ELSE {}

\* What they hold of the branch is still what was inspected, and is under another name
\* unless the delete will stop for it.
HeldElsewhere(r) ==
    /\ local[r][job.name] \cup remote[r][job.name] \subseteq answer[r].tip
    /\ r \notin Needing => answer[r].tip \subseteq OtherHeld(r, job.name)

DeletingFits ==
    /\ \A r \in Checked : HeldElsewhere(r)
    /\ at \in {"drop", "drop_local"} => Needing = {}

\* What a step beside a running command does when the others keep off.
LEMMA BesideRunning ==
    ASSUME OthersKeepOff, TypeOK, job # NoJob, Beside
    PROVE  \E r \in Repos, n \in {Main, Ancestors}, v \in Commit :
              /\ remote[r][n] \subseteq v /\ Writes(remote', remote, r, n, v) /\ UNCHANGED <<local, seen, run>>
<1>1. \A r \in Repos : ~Work(r) /\ ~Publish(r)
  BY DEF OthersKeepOff, Work, Publish
<1>2. \A r \in Repos, b \in Branches : ~PlainDelete(r, b)
  BY DEF PlainDelete
<1>3. PICK r \in Repos, n \in Names : Colleague(r, n)
  BY <1>1, <1>2 DEF Beside
<1>4. Kind(n) \in {"main", "ancestors"}
  BY <1>3 DEF Colleague, OthersKeepOff
<1>5. n \in {Main, Ancestors}
  BY <1>4, NamesDiffer DEF Names
<1>6. UNCHANGED run
  BY <1>3 DEF Colleague
<1> QED
  BY <1>3, <1>5, <1>6, ColleagueWrites

LEMMA InspectedSafe ==
    ASSUME NEW r \in Repos, NEW n \in Names, n # Ancestors
    PROVE  /\ local[r][n] \cup remote[r][n] = Inspected(r, n).tip
           /\ Inspected(r, n).verdict # "needs_ancestor" => Inspected(r, n).tip \subseteq OtherHeld(r, n)
<1> DEFINE tip  == local[r][n] \cup remote[r][n]
<1> DEFINE kept == tip \subseteq local[r][Ancestors] \/ tip \subseteq remote[r][Ancestors]
<1>1. CASE tip = {}
  BY <1>1 DEF Inspected, NoAnswer
<1>2. CASE tip # {}
  <2>1. /\ Inspected(r, n).tip = tip
        /\ Inspected(r, n).verdict = IF tip \subseteq Elsewhere(r, n) THEN "safe"
                                     ELSE IF kept /\ [repo |-> r, tip |-> tip] \in ledger THEN "recorded"
                                     ELSE "needs_ancestor"
    BY <1>2 DEF Inspected
  <2>2. Elsewhere(r, n) \subseteq OtherHeld(r, n)
    BY DEF Elsewhere, OtherHeld
  <2>3. kept => tip \subseteq OtherHeld(r, n)
    BY NamesDiffer DEF OtherHeld
  <2> QED
    BY <2>1, <2>2, <2>3
<1> QED
  BY <1>1, <1>2

LEMMA HeldOn ==
    ASSUME NEW r \in Repos, HeldElsewhere(r), job' = job, answer'[r] = answer[r], job.name \in Names,
           local'[r][job.name] \subseteq local[r][job.name], remote'[r][job.name] \subseteq remote[r][job.name],
           \A m \in Names \ {job.name} : local[r][m] \subseteq local'[r][m] /\ remote[r][m] \subseteq remote'[r][m]
    PROVE  HeldElsewhere(r)'
<1>1. local'[r][job'.name] \cup remote'[r][job'.name] \subseteq answer'[r].tip
  BY DEF HeldElsewhere
<1>2. OtherHeld(r, job.name) \subseteq OtherHeld(r, job.name)'
  BY DEF OtherHeld
<1>3. (r \notin Needing)' => r \notin Needing
  BY DEF Needing
<1> QED
  BY <1>1, <1>2, <1>3 DEF HeldElsewhere

LEMMA ClosingStep == ASSUME OthersKeepOff, IInv, ClosingFits, [Next]_vars PROVE ClosingFits'
<1>0. /\ TypeOK /\ JobFits /\ turn \in Repos /\ job.name \in Names /\ Main \in Names /\ Ancestors \in Names
  BY NamesDiffer DEF IInv, TypeInv, TypeOK, Job
<1>a. ASSUME job.cmd = "close" PROVE /\ job # NoJob /\ Closed(Branch(job.name)) \in Names \ {Main, Ancestors, job.name}
                                     /\ job.name \notin {Main, Ancestors}
  <2>1. PICK b \in Branches : job.name = Live(b)
    BY <1>0, <1>a DEF JobFits
  <2>2. Live(b) # Main /\ Closed(b) # Main /\ Closed(b) # Live(b)
    BY BranchesAssumption DEF Live, Closed, Main
  <2> QED
    BY <1>a, <2>1, <2>2, NamesDiffer DEF NoJob
<1>1. CASE at' \notin {"push_closed", "drop_old"}
  BY <1>1 DEF ClosingFits
<1>2. CASE Look
  <2>1. CASE at' = "push_closed"
    <3>1. /\ turn' = turn /\ job' = job /\ UNCHANGED <<local, remote>> /\ remote[turn][job.name] # {}
          /\ local[turn][job.name] # {} => remote[turn][job.name] \subseteq local[turn][job.name]
          /\ seen' = [seen EXCEPT ![turn][job.name] = remote[turn][job.name]]
      BY <1>2, <2>1 DEF Look, Renamed, Up, Go, Over
    <3>2. seen'[turn][job.name] = remote[turn][job.name]
      BY <1>0, <3>1, Cells3
    <3> QED
      BY <2>1, <3>1, <3>2 DEF ClosingFits
  <2>2. CASE at' # "push_closed"
    <3>1. at' # "drop_old"
      BY <1>2 DEF Look, Renamed, Up, Go, Over
    <3> QED
      BY <2>2, <3>1 DEF ClosingFits
  <2> QED
    BY <2>1, <2>2
<1>3. CASE PushClosed
  <2>1. at = "push_closed" /\ job.cmd = "close"
    BY <1>0, <1>3 DEF PushClosed, JobFits
  <2>2. CASE Over
    BY <1>1, <2>2, OverAnswers
  <2>3. CASE ~Over
    <3> DEFINE c      == Closed(Branch(job.name))
    <3> DEFINE pushed == IF local[turn][job.name] # {} THEN local[turn][job.name] ELSE seen[turn][job.name]
    <3>1. /\ at' = "drop_old" /\ turn' = turn /\ Writes(remote', remote, turn, c, pushed)
      BY <1>0, <1>3, <2>3, PushClosedWrites
    <3>2. job' = job
      BY <1>3, <2>3 DEF PushClosed
    <3>3. remote[turn][job.name] \subseteq pushed
      BY <2>1 DEF ClosingFits
    <3>4. c \in Names /\ c # job.name
      BY <1>a, <2>1
    <3> HIDE DEF pushed, c
    <3>5. remote'[turn][job.name] = remote[turn][job.name] /\ remote'[turn][c] = pushed
      BY <1>0, <3>1, <3>4 DEF Writes
    <3> QED
      BY <3>1, <3>2, <3>3, <3>5 DEF ClosingFits, c
  <2> QED
    BY <2>2, <2>3
<1>4. CASE Beside
  <2>1. CASE at \in {"push_closed", "drop_old"}
    <3>1. job.cmd = "close"
      BY <1>0, <2>1 DEF JobFits
    <3>2. PICK r \in Repos, n \in {Main, Ancestors}, v \in Commit :
             Writes(remote', remote, r, n, v) /\ UNCHANGED <<local, seen, run>>
      BY <1>0, <1>4, <1>a, <3>1, BesideRunning
    <3>3. /\ remote'[turn][job.name] = remote[turn][job.name]
          /\ remote'[turn][Closed(Branch(job.name))] = remote[turn][Closed(Branch(job.name))]
      BY <1>0, <1>a, <3>1, <3>2 DEF Writes
    <3> QED
      BY <3>2, <3>3 DEF ClosingFits, run
  <2>2. CASE at \notin {"push_closed", "drop_old"}
    BY <1>1, <1>4, <2>2 DEF Beside, Work, Publish, Colleague, PlainDelete, run
  <2> QED
    BY <2>1, <2>2
<1>5. CASE UNCHANGED vars
  BY <1>5 DEF ClosingFits, vars, refs, run
<1>6. CASE Start
  BY <1>1, <1>6 DEF Start, StartCreate, StartClose, StartDelete, Begin, Go
<1>7. CASE Record
  <2>1. ASSUME at' = After PROVE at' \notin {"push_closed", "drop_old"}
    <3>1. job.cmd \in {"close", "keep", "delete"}
      BY <1>0, <1>7 DEF Record, JobFits
    <3> QED
      BY <2>1, <3>1, AfterIs
  <2> QED
    BY <1>1, <1>7, <2>1, OverAnswers DEF Record, Go
<1>8. CASE Over
  BY <1>1, <1>8, OverAnswers
<1>9. ASSUME Create \/ Checkout \/ Inspect \/ Keep \/ Send \/ DropOld \/ Rename \/ Verify \/ CheckHeld \/ Drop \/ DropLocal \/ Snapshot,
             ~Over
      PROVE  at' \notin {"push_closed", "drop_old"}
  BY <1>9 DEF Create, Checkout, Inspect, Keep, Send, DropOld, Rename, Renamed, Verify, CheckHeld, Drop, DropLocal,
     Snapshot, Up, Down, Go
<1> QED
  BY <1>1, <1>2, <1>3, <1>4, <1>5, <1>6, <1>7, <1>8, <1>9 DEF Next, Step, Stop

LEMMA DeletingStep == ASSUME OthersKeepOff, IInv, DeletingFits, [Next]_vars PROVE DeletingFits'
<1>0. /\ TypeOK /\ JobFits /\ turn \in Repos /\ job.name \in Names /\ Main \in Names /\ Ancestors \in Names
      /\ answer \in [Repos -> Answer] /\ Repos = 1..NRepos /\ Root = NRepos /\ NRepos \in Nat
  BY NamesDiffer, BranchesAssumption DEF IInv, TypeInv, TypeOK, Job, Repos, Root
<1>a. ASSUME job.cmd = "delete" PROVE job # NoJob /\ job.name \notin {Main, Ancestors}
  <2>1. PICK b \in Branches : job.name = Closed(b)
    BY <1>0, <1>a DEF JobFits
  <2>2. Closed(b) # Main
    BY DEF Closed, Main, Live
  <2> QED
    BY <1>a, <2>1, <2>2, NamesDiffer DEF NoJob
<1>b. at \in {"check", "held", "drop", "drop_local"} => job.cmd = "delete"
  BY <1>0 DEF JobFits
<1>1. CASE at' \notin {"check", "held", "drop", "drop_local"}
  BY <1>1 DEF DeletingFits, Checked
<1>2. CASE Verify
  <2>1. (at' = "check" /\ turn' = 1) \/ at' = "idle"
    BY <1>2 DEF Verify, Go, Over
  <2>2. Checked' = {}
    BY <1>0, <2>1 DEF Checked
  <2> QED
    BY <2>1, <2>2 DEF DeletingFits
<1>3. ASSUME Inspect, ~Over PROVE DeletingFits'
  <2>1. /\ answer' = [answer EXCEPT ![turn] = Inspected(turn, job.name)] /\ job' = job
        /\ UNCHANGED <<local, remote>>
        /\ IF at = "check" THEN Up(at, "held") ELSE Up(at, "keep")
    BY <1>3 DEF Inspect
  <2>2. CASE at # "check"
    BY <1>1, <1>3, <2>1, <2>2 DEF Inspect, Up, Go
  <2>3. CASE at = "check"
    <3>1. IF turn = Root THEN at' = "held" ELSE at' = "check" /\ turn' = turn + 1
      BY <2>1, <2>3 DEF Up, Go
    <3>2. Checked' \subseteq {r \in Repos : r < turn} \cup {turn}
      BY <1>0, <3>1 DEF Checked
    <3>3. \A r \in Repos : r < turn => HeldElsewhere(r)
      BY <2>3 DEF DeletingFits, Checked
    <3>4. ASSUME NEW r \in Repos, r < turn PROVE HeldElsewhere(r)'
      <4>1. answer'[r] = answer[r]
        BY <1>0, <2>1, <3>4
      <4> QED
        BY <1>0, <2>1, <3>3, <3>4, <4>1, HeldOn
    <3>5. ASSUME NEW r \in Repos, r = turn PROVE HeldElsewhere(r)'
      <4>1. answer'[r] = Inspected(r, job.name)
        BY <1>0, <2>1, <3>5
      <4>2. /\ local[r][job.name] \cup remote[r][job.name] = answer'[r].tip
            /\ answer'[r].verdict # "needs_ancestor" => answer'[r].tip \subseteq OtherHeld(r, job.name)
        BY <1>0, <1>a, <1>b, <2>3, <4>1, InspectedSafe
      <4>3. OtherHeld(r, job.name)' = OtherHeld(r, job.name)
        BY <2>1 DEF OtherHeld
      <4>4. (r \notin Needing)' => answer'[r].verdict # "needs_ancestor"
        BY DEF Needing
      <4> QED
        BY <2>1, <4>2, <4>3, <4>4 DEF HeldElsewhere
    <3>6. \A r \in Checked' : HeldElsewhere(r)'
      BY <1>0, <3>2, <3>4, <3>5
    <3> QED
      BY <3>1, <3>6 DEF DeletingFits
  <2> QED
    BY <2>2, <2>3
<1>4. ASSUME CheckHeld, ~Over PROVE DeletingFits'
  <2>1. /\ UNCHANGED <<local, seen, remote, job, answer>> /\ at = "held" /\ at' \in {"held", "drop"} /\ Needing = {}
    BY <1>4 DEF CheckHeld, Up, Go, refs
  <2>2. \A r \in Repos : HeldElsewhere(r)
    BY <2>1 DEF DeletingFits, Checked
  <2>3. \A r \in Repos : HeldElsewhere(r)'
    BY <1>0, <2>1, <2>2, HeldOn
  <2>4. Checked' = Repos /\ Needing' = Needing
    BY <2>1 DEF Checked, Needing
  <2> QED
    BY <2>1, <2>3, <2>4 DEF DeletingFits
<1>5. CASE Drop \/ DropLocal
  <2>1. /\ at \in {"drop", "drop_local"} /\ job' = job /\ answer' = answer /\ at' \in {"drop", "drop_local", "snapshot"}
    BY <1>5 DEF Drop, DropLocal, Up, Go
  <2>2. (\A r \in Repos : HeldElsewhere(r)) /\ Needing = {}
    BY <2>1 DEF DeletingFits, Checked
  <2>3. \A r \in Repos : /\ local'[r][job.name] \subseteq local[r][job.name]
                         /\ remote'[r][job.name] \subseteq remote[r][job.name]
                         /\ \A m \in Names \ {job.name} : local'[r][m] = local[r][m] /\ remote'[r][m] = remote[r][m]
    <3>1. CASE Drop
      BY <1>0, <3>1, DropWrites DEF Writes
    <3>2. CASE DropLocal
      BY <1>0, <3>2, DropLocalWrites DEF Writes
    <3> QED
      BY <1>5, <3>1, <3>2
  <2>4. \A r \in Repos : HeldElsewhere(r)'
    BY <1>0, <2>1, <2>2, <2>3, HeldOn
  <2>5. Checked' \subseteq Repos /\ Needing' = Needing
    BY <2>1 DEF Checked, Needing
  <2> QED
    BY <2>2, <2>4, <2>5 DEF DeletingFits
<1>6. CASE Beside
  <2>1. CASE at \in {"check", "held", "drop", "drop_local"}
    <3>1. PICK r \in Repos, n \in {Main, Ancestors}, v \in Commit :
             remote[r][n] \subseteq v /\ Writes(remote', remote, r, n, v) /\ UNCHANGED <<local, seen, run>>
      BY <1>0, <1>6, <1>a, <1>b, <2>1, BesideRunning
    <3>2. UNCHANGED <<at, turn, job, answer>>
      BY <3>1 DEF run
    <3>3. \A q \in Repos : /\ remote'[q][job.name] = remote[q][job.name]
                           /\ \A m \in Names : remote[q][m] \subseteq remote'[q][m]
      BY <1>0, <1>a, <1>b, <2>1, <3>1 DEF Writes
    <3>4. \A q \in Repos : HeldElsewhere(q) => HeldElsewhere(q)'
      BY <1>0, <3>1, <3>2, <3>3, HeldOn
    <3>5. Checked' = Checked /\ Needing' = Needing /\ Checked \subseteq Repos
      BY <3>2 DEF Checked, Needing
    <3> QED
      <4>1. \A q \in Checked' : HeldElsewhere(q)'
        BY <3>4, <3>5 DEF DeletingFits
      <4>2. at' \in {"drop", "drop_local"} => Needing' = {}
        BY <3>2, <3>5 DEF DeletingFits
      <4> QED
        BY <4>1, <4>2 DEF DeletingFits
  <2>2. CASE at \notin {"check", "held", "drop", "drop_local"}
    BY <1>1, <1>6, <2>2 DEF Beside, Work, Publish, Colleague, PlainDelete, run
  <2> QED
    BY <2>1, <2>2
<1>7. CASE UNCHANGED vars
  BY <1>7 DEF DeletingFits, Checked, Needing, HeldElsewhere, OtherHeld, vars, refs, run
<1>8. CASE Start
  BY <1>1, <1>8 DEF Start, StartCreate, StartClose, StartDelete, Begin, Go
<1>9. CASE Record
  <2>1. ASSUME at' = After PROVE at' \notin {"check", "held", "drop", "drop_local"}
    <3>1. job.cmd \in {"close", "keep", "delete"}
      BY <1>0, <1>9 DEF Record, JobFits
    <3> QED
      BY <2>1, <3>1, AfterIs
  <2> QED
    BY <1>1, <1>9, <2>1, OverAnswers DEF Record, Go
<1>10. CASE Over
  BY <1>1, <1>10, OverAnswers
<1>11. ASSUME Create \/ Checkout \/ Keep \/ Send \/ Look \/ PushClosed \/ DropOld \/ Rename \/ Snapshot, ~Over
       PROVE  at' \notin {"check", "held", "drop", "drop_local"}
  BY <1>11 DEF Create, Checkout, Keep, Send, Look, PushClosed, DropOld, Rename, Renamed, Snapshot, Up, Down, Go
<1> QED
  BY <1>1, <1>2, <1>3, <1>4, <1>5, <1>6, <1>7, <1>8, <1>9, <1>10, <1>11 DEF Next, Step, Stop

\* What the invariant says once the others keep off the branch that a command is about.
QInv == IInv /\ ClosingFits /\ DeletingFits

LEMMA InductiveAlone == ASSUME OthersKeepOff PROVE (Init => QInv) /\ (QInv /\ [Next]_vars => QInv')
<1>1. ASSUME Init PROVE QInv
  BY <1>1, Inductive DEF QInv, Init, ClosingFits, DeletingFits, Checked
<1>2. ASSUME QInv, [Next]_vars PROVE QInv'
  BY <1>2, Inductive, ClosingStep, DeletingStep DEF QInv
<1> QED
  BY <1>1, <1>2

LEMMA DeletesKept == ASSUME QInv PROVE DeletesOnlyWhenAllKept
<1> SUFFICES ASSUME at \in {"drop", "drop_local"}, NEW r \in Repos
             PROVE  local[r][job.name] \cup remote[r][job.name] \subseteq OtherHeld(r, job.name)
  BY DEF DeletesOnlyWhenAllKept, OtherHeld
<1>1. HeldElsewhere(r) /\ r \notin Needing
  BY DEF QInv, DeletingFits, Checked
<1> QED
  BY <1>1 DEF HeldElsewhere

\* `branch delete` deletes in no repository before what the branch holds in every one of them
\* is held there under another name, here or on origin: the sweep of deletions starts only
\* when a second inspection of all of them found nothing left to keep.
THEOREM DeletesComeLast ==
    ASSUME OthersKeepOff
    PROVE  Spec => []DeletesOnlyWhenAllKept
BY DeletesKept, InductiveAlone, PTL DEF Spec

\* A step that leaves every branch with what it held, or with more, loses nothing.
Grows == \A r \in Repos, n \in Names : local[r][n] \subseteq local'[r][n] /\ remote[r][n] \subseteq remote'[r][n]

LEMMA GrowsHolds == ASSUME Grows PROVE HeldStays /\ \A r \in Repos : Published(r) \subseteq Published(r)'
BY DEF Grows, HeldStays, Held, Published

\* A commit that one branch gives up is on another one after the step.
LEMMA MovesHold ==
    ASSUME \A r \in Repos, n \in Names :
              local[r][n] \cup remote[r][n] \subseteq UNION {local'[r][m] \cup remote'[r][m] : m \in Names}
    PROVE  HeldStays
BY DEF HeldStays, Held

LEMMA LoudHolds == ASSUME OthersKeepOff, QInv, Loud PROVE HeldStays
<1>0. /\ TypeOK /\ JobFits /\ turn \in Repos /\ job.name \in Names /\ SeenIsThere
  BY DEF QInv, IInv, TypeInv, TypeOK, Job
<1>1. CASE Create
  <2>1. Grows
    BY <1>0, <1>1, CreateWrites DEF Grows, Writes
  <2> QED
    BY <2>1, GrowsHolds
<1>2. CASE Inspect
  <2>1. Grows
    BY <1>2, <1>0, InspectWrites DEF Grows
  <2> QED
    BY <2>1, GrowsHolds
<1>3. CASE Look
  <2>1. Grows
    BY <1>3, <1>0, LookWrites DEF Grows
  <2> QED
    BY <2>1, GrowsHolds
<1>4. CASE Keep
  <2>1. local[turn][Ancestors] \subseteq Base(turn)
    BY DEF Base
  <2>2. Grows
    BY <1>4, <1>0, <2>1, KeepWrites DEF Grows, Writes
  <2> QED
    BY <2>2, GrowsHolds
<1>5. CASE Send
  <2>1. Grows
    BY <1>5, <1>0, SendWrites DEF Grows, Writes
  <2> QED
    BY <2>1, GrowsHolds
<1>6. CASE PushClosed
  <2>1. Grows
    BY <1>6, <1>0, PushClosedWrites DEF Grows, Writes
  <2> QED
    BY <2>1, GrowsHolds
<1>7. CASE DropOld
  <2> DEFINE c == Closed(Branch(job.name))
  <2>1. c \in Names /\ c # job.name
    BY <1>0, <1>7, NamesDiffer DEF JobFits, DropOld
  <2>2. remote[turn][job.name] \subseteq remote[turn][c]
    BY <1>7 DEF DropOld, QInv, ClosingFits
  <2> HIDE DEF c
  <2>3. UNCHANGED local /\ Writes(remote', remote, turn, job.name, {})
    BY <1>0, <1>7, DropOldWrites
  <2>4. \A r \in Repos, n \in Names : \E m \in Names : remote[r][n] \subseteq remote'[r][m]
    <3> SUFFICES ASSUME NEW r \in Repos, NEW n \in Names PROVE \E m \in Names : remote[r][n] \subseteq remote'[r][m]
      OBVIOUS
    <3>1. CASE r = turn /\ n = job.name
      BY <1>0, <2>1, <2>2, <2>3, <3>1 DEF Writes
    <3>2. CASE ~(r = turn /\ n = job.name)
      BY <2>3, <3>2 DEF Writes
    <3> QED
      BY <3>1, <3>2
  <2> QED
    BY <2>3, <2>4, MovesHold
<1>8. CASE Rename
  <2> DEFINE c == Closed(Branch(job.name))
  <2>1. c \in Names /\ c # job.name
    BY <1>0, <1>8, NamesDiffer DEF JobFits, Rename
  <2>2. /\ UNCHANGED remote
        /\ \/ UNCHANGED local
           \/ /\ local[turn][c] = {}
              /\ \A q \in Repos, m \in Names :
                    local'[q][m] = IF q = turn /\ m = job.name THEN {}
                                   ELSE IF q = turn /\ m = c THEN local[turn][job.name] ELSE local[q][m]
    BY <1>0, <1>8, RenameWrites
  <2> HIDE DEF c
  <2>3. \A r \in Repos, n \in Names : \E m \in Names : local[r][n] \subseteq local'[r][m]
    <3> SUFFICES ASSUME NEW r \in Repos, NEW n \in Names PROVE \E m \in Names : local[r][n] \subseteq local'[r][m]
      OBVIOUS
    <3>1. CASE UNCHANGED local
      BY <3>1
    <3>2. CASE local' # local /\ r = turn /\ n = job.name
      BY <2>1, <2>2, <3>2
    <3>3. CASE local' # local /\ r = turn /\ n = c
      BY <2>1, <2>2, <3>3
    <3>4. CASE local' # local /\ ~(r = turn /\ n \in {job.name, c})
      BY <2>1, <2>2, <3>4
    <3> QED
      BY <3>1, <3>2, <3>3, <3>4
  <2> QED
    BY <2>2, <2>3, MovesHold
<1>9. CASE Drop \/ DropLocal
  <2>1. at \in {"drop", "drop_local"}
    BY <1>9 DEF Drop, DropLocal
  <2>2. \A r \in Repos : local[r][job.name] \cup remote[r][job.name] \subseteq OtherHeld(r, job.name)
    BY <2>1 DEF QInv, DeletingFits, Checked, HeldElsewhere
  <2>3. \A r \in Repos, m \in Names \ {job.name} : local'[r][m] = local[r][m] /\ remote'[r][m] = remote[r][m]
    <3>1. CASE Drop
      BY <1>0, <3>1, DropWrites DEF Writes
    <3>2. CASE DropLocal
      BY <1>0, <3>2, DropLocalWrites DEF Writes
    <3> QED
      BY <1>9, <3>1, <3>2
  <2>4. \A r \in Repos : OtherHeld(r, job.name) \subseteq UNION {local'[r][m] \cup remote'[r][m] : m \in Names}
    BY <2>3 DEF OtherHeld
  <2>5. \A r \in Repos, n \in Names :
           local[r][n] \cup remote[r][n] \subseteq UNION {local'[r][m] \cup remote'[r][m] : m \in Names}
    <3> SUFFICES ASSUME NEW r \in Repos, NEW n \in Names
                 PROVE  local[r][n] \cup remote[r][n] \subseteq UNION {local'[r][m] \cup remote'[r][m] : m \in Names}
      OBVIOUS
    <3>1. CASE n = job.name
      BY <2>2, <2>4, <3>1
    <3>2. CASE n # job.name
      BY <2>3, <3>2
    <3> QED
      BY <3>1, <3>2
  <2> QED
    BY <2>5, MovesHold
<1> QED
  BY <1>1, <1>2, <1>3, <1>4, <1>5, <1>6, <1>7, <1>8, <1>9 DEF Loud

\* A step that takes a commit off every branch is a deletion by plain Git.
LosesOnlyByHand == [][(\E r \in Repos, b \in Branches : PlainDelete(r, b)) \/ HeldStays]_vars

LEMMA HoldsStep ==
    ASSUME OthersKeepOff, QInv, [Next]_vars
    PROVE  (\E r \in Repos, b \in Branches : PlainDelete(r, b)) \/ HeldStays
<1>0. TypeOK
  BY DEF QInv, IInv, TypeInv
<1>1. CASE Quiet
  BY <1>1, QuietKeeps, GrowsHolds DEF Grows
<1>2. CASE Beside
  <2>1. ASSUME NEW r \in Repos, Work(r) PROVE HeldStays
    BY <1>0, <2>1, WorkWrites, GrowsHolds DEF Grows, Writes
  <2>2. ASSUME NEW r \in Repos, Publish(r) PROVE HeldStays
    <3>1. remote[r][on[r]] \subseteq local[r][on[r]]
      BY <2>2 DEF Publish
    <3> QED
      BY <1>0, <2>2, <3>1, PublishWrites, GrowsHolds DEF Grows, Writes
  <2>3. ASSUME NEW r \in Repos, NEW n \in Names, Colleague(r, n) PROVE HeldStays
    <3>1. PICK v \in Commit : remote[r][n] \subseteq v /\ Writes(remote', remote, r, n, v)
      BY <1>0, <2>3, ColleagueWrites
    <3>2. UNCHANGED local
      BY <1>0, <2>3, ColleagueWrites
    <3> QED
      BY <3>1, <3>2, GrowsHolds DEF Grows, Writes
  <2> QED
    BY <1>2, <2>1, <2>2, <2>3 DEF Beside
<1> QED
  BY <1>1, <1>2, LoudHolds, NextSplits

\* No command, no push and no commit loses work: a commit that is on a branch of a repository,
\* here or on origin, is still on one after every step but a deletion by plain Git, at whatever
\* point commands stop, are killed and run again.
THEOREM CommandsLoseNothing ==
    ASSUME OthersKeepOff
    PROVE  Spec => LosesOnlyByHand
<1>1. QInv /\ [Next]_vars => [(\E r \in Repos, b \in Branches : PlainDelete(r, b)) \/ HeldStays]_vars
  BY HoldsStep
<1> QED
  BY <1>1, InductiveAlone, PTL DEF Spec, LosesOnlyByHand

LEMMA AllStays == ASSUME OthersKeepOff, Plain = FALSE, QInv, [Next]_vars PROVE HeldStays
<1>1. \A r \in Repos, b \in Branches : ~PlainDelete(r, b)
  BY DEF PlainDelete
<1> QED
  BY <1>1, HoldsStep

\* The same where nobody deletes a closed branch by plain Git: no commit that is on a branch,
\* here or on origin, ever leaves them all.
THEOREM NothingIsEverLost ==
    ASSUME OthersKeepOff, Plain = FALSE
    PROVE  Spec => NothingLost
<1>1. QInv /\ [Next]_vars => [HeldStays]_vars
  BY AllStays
<1> QED
  BY <1>1, InductiveAlone, PTL DEF Spec, NothingLost

\* Closing a branch never takes a commit off origin, even between its push under the new name
\* and the removal of the old one.
THEOREM ClosingKeepsPublished ==
    ASSUME OthersKeepOff
    PROVE  Spec => CloseKeepsPublished
<1>1. ASSUME QInv, [Next]_vars, job.cmd = "close" PROVE \A r \in Repos : Published(r) \subseteq Published(r)'
  <2>0. TypeOK /\ JobFits /\ turn \in Repos /\ job.name \in Names /\ job # NoJob
    BY <1>1 DEF QInv, IInv, TypeInv, TypeOK, Job, NoJob
  <2>1. CASE Quiet
    BY <2>1, QuietKeeps, GrowsHolds DEF Grows
  <2>2. CASE Beside
    <3>1. PICK r \in Repos, n \in {Main, Ancestors}, v \in Commit :
             remote[r][n] \subseteq v /\ Writes(remote', remote, r, n, v) /\ UNCHANGED local
      BY <2>0, <2>2, BesideRunning
    <3> QED
      BY <3>1, GrowsHolds DEF Grows, Writes
  <2>3. CASE Create \/ Drop \/ DropLocal
    BY <1>1, <2>0, <2>3 DEF JobFits, Create, Drop, DropLocal
  <2>4. CASE Inspect \/ Keep \/ Look \/ Rename
    BY <2>0, <2>4, InspectWrites, KeepWrites, LookWrites, RenameWrites DEF Published
  <2>5. CASE Send
    BY <2>5, <2>0, SendWrites, GrowsHolds DEF Grows, Writes
  <2>6. CASE PushClosed
    BY <2>6, <2>0, PushClosedWrites, GrowsHolds DEF Grows, Writes
  <2>7. CASE DropOld
    <3> DEFINE c == Closed(Branch(job.name))
    <3>1. c \in Names /\ c # job.name
      BY <2>0, <2>7, NamesDiffer DEF JobFits, DropOld
    <3>2. remote[turn][job.name] \subseteq remote[turn][c]
      BY <1>1, <2>7 DEF DropOld, QInv, ClosingFits
    <3> HIDE DEF c
    <3>3. Writes(remote', remote, turn, job.name, {})
      BY <2>0, <2>7, DropOldWrites
    <3>4. ASSUME NEW r \in Repos, NEW n \in Names PROVE \E m \in Names : remote[r][n] \subseteq remote'[r][m]
      <4>1. CASE r = turn /\ n = job.name
        BY <2>0, <3>1, <3>2, <3>3, <4>1 DEF Writes
      <4>2. CASE ~(r = turn /\ n = job.name)
        BY <3>3, <4>2 DEF Writes
      <4> QED
        BY <4>1, <4>2
    <3> QED
      BY <3>4 DEF Published
  <2> QED
    BY <1>1, <2>1, <2>2, <2>3, <2>4, <2>5, <2>6, <2>7, NextSplits DEF Loud
<1>2. QInv /\ [Next]_vars => [job.cmd = "close" => \A r \in Repos : Published(r) \subseteq Published(r)']_vars
  BY <1>1
<1> QED
  BY <1>2, InductiveAlone, PTL DEF Spec, CloseKeepsPublished
=============================================================================
