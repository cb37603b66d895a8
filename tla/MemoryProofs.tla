---------------------------- MODULE MemoryProofs ----------------------------
(****************************************************************************)
(* What the memory of a workspace keeps, for any number of processes,       *)
(* commands, commits and faults.                                            *)
(*                                                                          *)
(* The ledger: as long as every State-writing command takes the workspace   *)
(* lock (Free = {}), the chain of entries holds at every moment, whatever   *)
(* is killed or fails.  MemoryLimits.cfg shows that the condition cannot be *)
(* dropped.  ChainHolds is not inductive: it says nothing of where the      *)
(* entries are, nor of what a running command has read.  LedgerInv says     *)
(* that the folded half holds the numbers 1..k and the pending half k+1..n, *)
(* that a fold still has to move exactly what pending holds, and that what  *)
(* a command read as the last entry still is the last one.                  *)
(*                                                                          *)
(* The commit logs: whoever runs without the lock, no row is lost and none  *)
(* claims a push that did not happen.  Typed says which commits a row and a *)
(* command may name; RowsInv says that a fold has copied what it unlinks.   *)
(*                                                                          *)
(* At rest: what a reader finds between two commands, as long as Free = {}  *)
(* and nothing has failed.  Its history verifies and every commit is        *)
(* published exactly once.  Neither is inductive, since both speak only of  *)
(* the moments when all is at rest.  RestInv says what a running command    *)
(* has done of its work and what is still to come: where the cached head is *)
(* during a fold, that a row is in the half of the entry it names, that the *)
(* rows which name the next entry are those the command will sign, in the   *)
(* order in which rows_by_entry will read them, and that each commit is at  *)
(* one place of one State's log.  The two halves of a log are read as one   *)
(* (Whole), which only the two steps that write rows change.                *)
(****************************************************************************)
EXTENDS Memory, SequenceTheorems, FiniteSetTheorems, TLAPS

Steps == {"idle", "entries", "states", "log_commits", "log_published",
          "unlink_log", "publish", "state", "seq", "commits",
          "publications", "read_folded", "read_pending", "link", "head"}

\* Every variable below is a function of the processes or of the halves.
Shape ==
    /\ lgr = [h \in Halves |-> lgr[h]]
    /\ at \in [Procs -> Steps]
    /\ fold = [p \in Procs |-> fold[p]]
    /\ \A p \in Procs : fold[p] = [entries |-> fold[p].entries, head |-> fold[p].head,
                                   states |-> fold[p].states]
    /\ last = [p \in Procs |-> last[p]]

OneCommand == \A p, q \in Procs : at[p] # "idle" /\ at[q] # "idle" => p = q

Numbers(S, i, j) ==
    /\ \A e \in S : e.seq \in i..j
    /\ \A n \in i..j : \E e \in S : e.seq = n

Halved(k, n) ==
    /\ k <= n
    /\ Numbers(lgr.folded, 1, k)
    /\ Numbers(lgr.pending, k + 1, n)

\* l says what the newest entry of S is.
Knows(l, S) ==
    \/ S = {} /\ l = NoEntry
    \/ \E e \in S : l = [seq |-> e.seq, id |-> e.id] /\ \A f \in S : f.seq <= e.seq

Informed(p) ==
    /\ at[p] = "entries" => fold[p].entries = {e.seq : e \in lgr.pending}
    /\ at[p] = "read_pending" => Knows(last[p], lgr.folded)
    /\ at[p] = "link" => Knows(last[p], Entries)

LedgerInv ==
    /\ Shape
    /\ OneCommand
    /\ \E k, n \in Nat : Halved(k, n)
    /\ SeqsUnique
    /\ Linked
    /\ \A p \in Procs : Informed(p)

\* At most one entry is new, and none is gone.
Grows == Entries' = Entries \/ \E e : Entries' = Entries \cup {e}

OthersIdle(p) == \A q \in Procs : q # p => at[q] = "idle"

-----------------------------------------------------------------------------
LEMMA MayStartAlone ==
    ASSUME Free = {}, NEW p \in Procs, MayStart(p) PROVE at[p] = "idle" /\ OthersIdle(p)
BY DEF MayStart, Locked, OthersIdle

LEMMA StartAlone ==
    ASSUME Free = {}, NEW p \in Procs, Start(p) PROVE OthersIdle(p)
BY MayStartAlone DEF Start, Commit, Snapshot, StartFold, RefuseFold, Repair

LEMMA RunningAlone ==
    ASSUME LedgerInv, NEW p \in Procs, at[p] # "idle" PROVE OthersIdle(p)
BY DEF LedgerInv, OneCommand, OthersIdle

LEMMA SameEntries ==
    ASSUME LedgerInv, lgr' = lgr
    PROVE  (\E k, n \in Nat : Halved(k, n))' /\ SeqsUnique' /\ Linked' /\ Entries' = Entries
BY DEF LedgerInv, Halved, Numbers, SeqsUnique, Linked, Entries

\* A step that leaves the entries alone and goes to a step with nothing to know.
LEMMA QuietStep ==
    ASSUME LedgerInv, Shape', NEW p \in Procs, OthersIdle(p), lgr' = lgr,
           NEW step \in Steps \ {"entries", "read_pending", "link"},
           at' = [at EXCEPT ![p] = step]
    PROVE  LedgerInv'
<1>1. OneCommand'
  BY DEF LedgerInv, Shape, OthersIdle, OneCommand
<1>2. \A q \in Procs : Informed(q)'
  BY DEF LedgerInv, Shape, OthersIdle, Informed
<1> QED
  BY <1>1, <1>2, SameEntries DEF LedgerInv

\* A step that leaves the entries alone and stays where it is.
LEMMA SameStep ==
    ASSUME LedgerInv, Shape', lgr' = lgr, at' = at, last' = last,
           \A p \in Procs : fold'[p].entries = fold[p].entries
    PROVE  LedgerInv'
<1>1. \A q \in Procs : Informed(q)'
  BY DEF LedgerInv, Informed, Knows, Entries
<1>2. OneCommand'
  BY DEF LedgerInv, OneCommand
<1> QED
  BY <1>1, <1>2, SameEntries DEF LedgerInv

LEMMA LedgerInvInit == Init => LedgerInv
<1> SUFFICES ASSUME Init PROVE LedgerInv
  OBVIOUS
<1>1. Shape
  BY DEF Init, Shape, Steps, Halves, NoFold
<1>2. Halved(0, 0)
  BY DEF Init, Halved, Numbers, Halves
<1>3. OneCommand /\ SeqsUnique /\ Linked /\ \A p \in Procs : Informed(p)
  BY DEF Init, OneCommand, SeqsUnique, Linked, Informed, Entries, Halves
<1> QED
  BY <1>1, <1>2, <1>3 DEF LedgerInv

-----------------------------------------------------------------------------
(* Every action keeps the shape. *)

LEMMA EndShape ==
    ASSUME Shape, NEW p \in Procs, End(p), lgr' = lgr PROVE Shape'
BY DEF Shape, End, Go, Steps, NoFold

LEMMA GoShape ==
    ASSUME Shape, NEW p \in Procs, NEW step \in Steps, Go(p, step),
           lgr' = lgr, fold' = fold, last' = last
    PROVE  Shape'
BY DEF Shape, Go

LEMMA StartShape ==
    ASSUME Shape, NEW p \in Procs, Start(p) PROVE Shape'
<1>1. CASE Commit(p)
  BY <1>1, GoShape DEF Commit, disk, Steps
<1>2. CASE Snapshot(p)
  BY <1>2, GoShape DEF Snapshot, disk, Steps
<1>3. CASE StartFold(p)
  BY <1>3 DEF StartFold, Shape, Go, Steps, disk, NoFold
<1>4. CASE RefuseFold(p)
  BY <1>4, GoShape DEF RefuseFold, disk, Steps
<1>5. CASE Repair(p)
  BY <1>5 DEF Repair, Shape
<1> QED
  BY <1>1, <1>2, <1>3, <1>4, <1>5 DEF Start

LEMMA FoldShape ==
    ASSUME Shape, NEW p \in Procs, Fold(p) PROVE Shape'
<1>1. CASE MoveEntry(p)
  BY <1>1 DEF MoveEntry, Shape, Halves
<1>2. CASE MoveHead(p)
  BY <1>2 DEF MoveHead, Shape
<1>3. CASE RemoveLgr(p)
  BY <1>3 DEF RemoveLgr, Shape, Go, Steps, disk
<1>4. CASE MoveState(p)
  BY <1>4 DEF MoveState, Shape
<1>5. CASE RemoveStates(p)
  BY <1>5, GoShape DEF RemoveStates, disk, Steps
<1>6. CASE FoldCommits(p)
  BY <1>6, GoShape DEF FoldCommits, Steps
<1>7. CASE FoldPublished(p)
  BY <1>7, GoShape DEF FoldPublished, Steps
<1>8. CASE UnlinkLog(p)
  BY <1>8, GoShape DEF UnlinkLog, Steps
<1>9. CASE EndFold(p)
  BY <1>9, GoShape, EndShape DEF EndFold, disk, Steps
<1>10. CASE FoldRaises(p)
  BY <1>10, EndShape DEF FoldRaises, disk
<1> QED
  BY <1>1, <1>2, <1>3, <1>4, <1>5, <1>6, <1>7, <1>8, <1>9, <1>10 DEF Fold

LEMMA RecordShape ==
    ASSUME Shape, NEW p \in Procs, Record(p) PROVE Shape'
<1>1. CASE WriteState(p)
  BY <1>1, GoShape DEF WriteState, Steps
<1>2. CASE AskSeq(p)
  BY <1>2, GoShape DEF AskSeq, disk, Steps
<1>3. CASE WriteCommits(p)
  BY <1>3, GoShape DEF WriteCommits, Steps
<1>4. CASE WritePublications(p)
  BY <1>4 DEF WritePublications, Shape
<1>5. CASE RowsWritten(p)
  BY <1>5, GoShape DEF RowsWritten, disk, Steps
<1>6. CASE ReadFolded(p)
  BY <1>6 DEF ReadFolded, Shape, Go, Steps, disk
<1>7. CASE ReadPending(p)
  BY <1>7 DEF ReadPending, Shape, Go, Steps, disk
<1>8. CASE Link(p)
  BY <1>8 DEF Link, Shape, Go, Steps, Halves
<1>9. CASE LinkCollides(p)
  BY <1>9, EndShape DEF LinkCollides, disk
<1>10. CASE WriteHead(p)
  BY <1>10, EndShape DEF WriteHead
<1> QED
  BY <1>1, <1>2, <1>3, <1>4, <1>5, <1>6, <1>7, <1>8, <1>9, <1>10 DEF Record

LEMMA OtherShape ==
    ASSUME Shape, NEW p \in Procs,
           Publish(p) \/ PublishFails(p) \/ AppendFails(p) \/ Stop(p)
    PROVE  Shape'
<1>1. CASE Publish(p)
  BY <1>1, GoShape DEF Publish, disk, Steps
<1>2. CASE PublishFails(p)
  BY <1>2, EndShape DEF PublishFails, disk
<1>3. CASE AppendFails(p)
  BY <1>3, EndShape DEF AppendFails, disk
<1>4. CASE Stop(p)
  BY <1>4, EndShape DEF Stop
<1> QED
  BY <1>1, <1>2, <1>3, <1>4

LEMMA ShapeStep ==
    ASSUME Shape, NEW p \in Procs,
           \/ Start(p) \/ Fold(p) \/ Publish(p) \/ PublishFails(p)
           \/ Record(p) \/ AppendFails(p) \/ Stop(p)
    PROVE  Shape'
BY StartShape, FoldShape, RecordShape, OtherShape

-----------------------------------------------------------------------------
(* The steps that move, read or add entries. *)

LEMMA EndQuiet ==
    ASSUME LedgerInv, Shape', NEW p \in Procs, OthersIdle(p), End(p), lgr' = lgr
    PROVE  LedgerInv'
BY QuietStep DEF End, Go, Steps

LEMMA StartFoldStep ==
    ASSUME LedgerInv, Shape', NEW p \in Procs, OthersIdle(p), StartFold(p)
    PROVE  LedgerInv'
<1> USE DEF StartFold, Go, disk
<1>1. OneCommand'
  BY DEF LedgerInv, Shape, OthersIdle, OneCommand
<1>2. fold'[p].entries = {e.seq : e \in lgr.pending}
  BY DEF LedgerInv, Shape, NoFold
<1>3. \A q \in Procs : Informed(q)'
  BY <1>2 DEF LedgerInv, Shape, OthersIdle, Informed
<1> QED
  BY <1>1, <1>3, SameEntries DEF LedgerInv

\* The lowest pending number is k + 1, so the fold extends the folded half.
LEMMA MoveEntryStep ==
    ASSUME LedgerInv, Shape', NEW p \in Procs, OthersIdle(p), MoveEntry(p)
    PROVE  LedgerInv' /\ Entries' = Entries
<1> PICK k \in Nat, n \in Nat : Halved(k, n)
  BY DEF LedgerInv
<1> DEFINE m == Min(fold[p].entries)
           moved == {e \in lgr.pending : e.seq = m}
<1>1. /\ at[p] = "entries" /\ at' = at /\ last' = last
      /\ fold[p].entries # {}
      /\ lgr' = [folded |-> {e \in lgr.folded : e.seq # m} \cup moved,
                 pending |-> lgr.pending \ moved]
      /\ fold' = [fold EXCEPT ![p].entries = @ \ {m}]
  BY DEF MoveEntry
<1>2. fold[p].entries = {e.seq : e \in lgr.pending}
  BY <1>1 DEF LedgerInv, Informed
<1>3. fold[p].entries = k + 1 .. n
  BY <1>2 DEF Halved, Numbers
<1>4. m = k + 1 /\ k + 1 <= n
  BY <1>1, <1>3 DEF Min
<1> HIDE DEF m
<1>5. lgr'.folded = lgr.folded \cup moved /\ lgr'.pending = lgr.pending \ moved
  BY <1>1, <1>4 DEF Halved, Numbers
<1>6. Entries' = Entries
  BY <1>5 DEF Entries
<1>7. Halved(k + 1, n)'
  BY <1>4, <1>5 DEF Halved, Numbers
<1>8. SeqsUnique' /\ Linked'
  BY <1>6 DEF LedgerInv, SeqsUnique, Linked
<1>9. fold'[p].entries = {e.seq : e \in lgr'.pending}
  <2>1. fold'[p].entries = fold[p].entries \ {m}
    BY <1>1 DEF LedgerInv, Shape
  <2> QED
    BY <2>1, <1>2, <1>5
<1>10. \A q \in Procs : Informed(q)'
  BY <1>1, <1>9 DEF OthersIdle, Informed
<1>11. OneCommand'
  BY <1>1 DEF LedgerInv, OneCommand
<1> QED
  BY <1>6, <1>7, <1>8, <1>10, <1>11 DEF LedgerInv

LEMMA NewestIs ==
    ASSUME NEW S, NEW i \in Nat, NEW j \in Nat, Numbers(S, i, j), S # {}
    PROVE  Newest(S) \in S /\ \A f \in S : f.seq <= Newest(S).seq
<1>1. i <= j
  BY DEF Numbers
<1>2. PICK e \in S : e.seq = j
  BY <1>1 DEF Numbers
<1>3. \A f \in S : f.seq <= e.seq
  BY <1>2 DEF Numbers
<1> QED
  BY <1>3 DEF Newest

LEMMA ReadFoldedStep ==
    ASSUME LedgerInv, Shape', NEW p \in Procs, OthersIdle(p), ReadFolded(p)
    PROVE  LedgerInv'
<1> DEFINE top == Newest(lgr.folded)
<1>1. /\ lgr' = lgr /\ at' = [at EXCEPT ![p] = "read_pending"] /\ fold' = fold
      /\ last' = [last EXCEPT ![p] = IF lgr.folded = {} THEN NoEntry
                                     ELSE [seq |-> top.seq, id |-> top.id]]
  BY DEF ReadFolded, Go, disk
<1>2. lgr.folded # {} => top \in lgr.folded /\ \A f \in lgr.folded : f.seq <= top.seq
  <2>1. PICK k \in Nat : Numbers(lgr.folded, 1, k)
    BY DEF LedgerInv, Halved
  <2> QED
    BY <2>1, NewestIs
<1> HIDE DEF top
<1>3. last'[p] = IF lgr.folded = {} THEN NoEntry ELSE [seq |-> top.seq, id |-> top.id]
  BY <1>1 DEF LedgerInv, Shape
<1>4. Knows(last'[p], lgr.folded)
  BY <1>2, <1>3 DEF Knows
<1>5. \A q \in Procs : Informed(q)'
  BY <1>1, <1>4 DEF LedgerInv, Shape, OthersIdle, Informed
<1>6. OneCommand'
  BY <1>1 DEF LedgerInv, Shape, OthersIdle, OneCommand
<1> QED
  BY <1>1, <1>5, <1>6, SameEntries DEF LedgerInv

LEMMA ReadPendingStep ==
    ASSUME LedgerInv, Shape', NEW p \in Procs, OthersIdle(p), ReadPending(p)
    PROVE  LedgerInv'
<1> PICK k \in Nat, n \in Nat : Halved(k, n)
  BY DEF LedgerInv
<1> DEFINE top == Newest(lgr.pending)
<1>1. /\ lgr' = lgr /\ at' = [at EXCEPT ![p] = "link"] /\ fold' = fold
      /\ last' = [last EXCEPT ![p] = IF lgr.pending = {} \/ top.seq < @.seq THEN @
                                     ELSE [seq |-> top.seq, id |-> top.id]]
  BY DEF ReadPending, Go, disk
<1>2. Knows(last[p], lgr.folded)
  BY DEF LedgerInv, Informed, ReadPending
<1>3. lgr.pending # {} => top \in lgr.pending /\ \A f \in lgr.pending : f.seq <= top.seq
  <2>1. k + 1 \in Nat /\ Numbers(lgr.pending, k + 1, n)
    BY DEF Halved
  <2> QED
    BY <2>1, NewestIs
<1> HIDE DEF top
<1>4. last'[p] = IF lgr.pending = {} \/ top.seq < last[p].seq THEN last[p]
                 ELSE [seq |-> top.seq, id |-> top.id]
  BY <1>1 DEF LedgerInv, Shape
<1>5. Knows(last'[p], Entries)
  <2>1. CASE lgr.pending = {}
    <3>1. Entries = lgr.folded
      BY <2>1 DEF Entries
    <3> QED
      BY <2>1, <3>1, <1>2, <1>4
  <2>2. CASE lgr.pending # {}
    <3>1. top.seq \in k + 1 .. n
      BY <2>2, <1>3 DEF Halved, Numbers
    <3>2. \A f \in lgr.folded : f.seq \in 1..k
      BY DEF Halved, Numbers
    <3>3. last[p].seq \in 0..k
      <4>1. CASE last[p] = NoEntry
        BY <4>1 DEF NoEntry
      <4>2. CASE \E e \in lgr.folded : last[p] = [seq |-> e.seq, id |-> e.id]
        BY <4>2, <3>2
      <4> QED
        BY <4>1, <4>2, <1>2 DEF Knows
    <3>4. last'[p] = [seq |-> top.seq, id |-> top.id]
      BY <1>4, <2>2, <3>1, <3>3
    <3>5. \A f \in Entries : f.seq <= top.seq
      BY <2>2, <1>3, <3>1, <3>2 DEF Entries
    <3> QED
      BY <2>2, <1>3, <3>4, <3>5 DEF Knows, Entries
  <2> QED
    BY <2>1, <2>2
<1>6. Entries' = Entries
  BY <1>1, SameEntries
<1>7. \A q \in Procs : Informed(q)'
  BY <1>1, <1>5, <1>6 DEF LedgerInv, Shape, OthersIdle, Informed
<1>8. OneCommand'
  BY <1>1 DEF LedgerInv, Shape, OthersIdle, OneCommand
<1> QED
  BY <1>1, <1>7, <1>8, SameEntries DEF LedgerInv

\* What was read as the last entry still is, so the new one follows it.
LEMMA LinkStep ==
    ASSUME LedgerInv, Shape', NEW p \in Procs, OthersIdle(p), Link(p)
    PROVE  LedgerInv' /\ Grows
<1> PICK k \in Nat, n \in Nat : Halved(k, n)
  BY DEF LedgerInv
<1> DEFINE e == [seq |-> last[p].seq + 1, id |-> built + 1, prev |-> last[p].id,
                 state |-> job[p].state, vouches |-> job[p].written]
<1>1. at[p] = "link" /\ at' = [at EXCEPT ![p] = "head"]
      /\ lgr' = [lgr EXCEPT !.pending = @ \cup {e}]
  BY DEF Link, Go
<1>2. Knows(last[p], Entries)
  BY <1>1 DEF LedgerInv, Informed
<1>3. last[p].seq = n
  <2>1. CASE Entries = {}
    <3>1. n = 0
      BY <2>1 DEF Entries, Halved, Numbers
    <3> QED
      BY <2>1, <3>1, <1>2 DEF Knows, NoEntry
  <2>2. CASE Entries # {}
    <3>1. PICK l \in Entries : /\ last[p] = [seq |-> l.seq, id |-> l.id]
                               /\ \A f \in Entries : f.seq <= l.seq
      BY <2>2, <1>2 DEF Knows
    <3>2. l.seq \in 1..n
      BY DEF Entries, Halved, Numbers
    <3>3. \E f \in Entries : f.seq = n
      BY <3>2 DEF Entries, Halved, Numbers
    <3> QED
      BY <3>1, <3>2, <3>3
  <2> QED
    BY <2>1, <2>2
<1>4. lgr'.folded = lgr.folded /\ lgr'.pending = lgr.pending \cup {e}
  BY <1>1 DEF LedgerInv, Shape, Halves
<1>5. e.seq = n + 1 /\ e.prev = last[p].id
  BY <1>3
<1> HIDE DEF e
<1>6. Entries' = Entries \cup {e}
  BY <1>4 DEF Entries
<1>7. Halved(k, n + 1)'
  BY <1>4, <1>5 DEF Halved, Numbers
<1>8. \A f \in Entries : f.seq \in 1..n
  BY DEF Entries, Halved, Numbers
<1>9. SeqsUnique'
  BY <1>5, <1>6, <1>8 DEF LedgerInv, SeqsUnique
<1>10. Linked'
  <2>1. \A f \in Entries : IF f.seq = 1 THEN f.prev = NoEntry.id
                            ELSE \E g \in Entries' : g.seq = f.seq - 1 /\ f.prev = g.id
    BY <1>6 DEF LedgerInv, Linked
  <2>2. CASE Entries = {}
    BY <2>2, <1>2, <1>3, <1>5, <1>6 DEF Knows, Linked, NoEntry
  <2>3. CASE Entries # {}
    <3>1. PICK l \in Entries : last[p] = [seq |-> l.seq, id |-> l.id]
      BY <2>3, <1>2 DEF Knows
    <3>2. l \in Entries' /\ l.seq = e.seq - 1 /\ e.prev = l.id /\ e.seq # 1
      BY <3>1, <1>3, <1>5, <1>6, <1>8
    <3> QED
      BY <3>2, <2>1, <1>6 DEF Linked
  <2> QED
    BY <2>2, <2>3
<1>11. OneCommand'
  BY <1>1 DEF LedgerInv, Shape, OthersIdle, OneCommand
<1>12. \A q \in Procs : Informed(q)'
  BY <1>1 DEF LedgerInv, Shape, OthersIdle, Informed
<1>13. Grows
  BY <1>6 DEF Grows
<1> QED
  BY <1>7, <1>9, <1>10, <1>11, <1>12, <1>13 DEF LedgerInv

-----------------------------------------------------------------------------
(* Every step keeps the invariant. *)

LEMMA EntriesField ==
    ASSUME NEW r, NEW a, NEW b, NEW c, r = [entries |-> a, head |-> b, states |-> c]
    PROVE  "entries" \in DOMAIN r
OBVIOUS

\* A fold that goes on with another field still has the same entries to move.
LEMMA OtherField ==
    ASSUME Shape, NEW p \in Procs, NEW x,
           \/ fold' = [fold EXCEPT ![p].head = x]
           \/ fold' = [fold EXCEPT ![p].states = x]
    PROVE  \A q \in Procs : fold'[q].entries = fold[q].entries
<1>1. fold = [q \in Procs |-> fold[q]]
  BY DEF Shape
<1>2. DOMAIN fold = Procs
  BY Zenon, <1>1
<1>3. fold[p] = [entries |-> fold[p].entries, head |-> fold[p].head, states |-> fold[p].states]
  BY DEF Shape
<1>4. "entries" \in DOMAIN fold[p]
  BY Zenon, <1>3, EntriesField
<1>5. fold'[p] = [fold[p] EXCEPT !.head = x] \/ fold'[p] = [fold[p] EXCEPT !.states = x]
  BY <1>2
<1>6. fold'[p].entries = fold[p].entries
  BY <1>4, <1>5
<1> QED
  BY <1>2, <1>6

LEMMA StartStep ==
    ASSUME LedgerInv, Free = {}, NEW p \in Procs, Start(p)
    PROVE  LedgerInv' /\ Grows
<1> USE DEF Steps, Go, disk, Grows
<1>1. Shape'
  BY StartShape DEF LedgerInv
<1>2. OthersIdle(p) /\ lgr' = lgr
  BY StartAlone DEF Start, Commit, Snapshot, StartFold, RefuseFold, Repair
<1>3. CASE Commit(p)
  BY <1>1, <1>2, <1>3, QuietStep, SameEntries DEF Commit
<1>4. CASE Snapshot(p)
  BY <1>1, <1>2, <1>4, QuietStep, SameEntries DEF Snapshot
<1>5. CASE StartFold(p)
  BY <1>1, <1>2, <1>5, StartFoldStep, SameEntries
<1>6. CASE RefuseFold(p)
  BY <1>1, <1>2, <1>6, QuietStep, SameEntries DEF RefuseFold
<1>7. CASE Repair(p)
  BY <1>1, <1>7, SameStep, SameEntries DEF Repair
<1> QED
  BY <1>2, <1>3, <1>4, <1>5, <1>6, <1>7 DEF Start

LEMMA FoldStep ==
    ASSUME LedgerInv, NEW p \in Procs, Fold(p)
    PROVE  LedgerInv' /\ Entries' = Entries
<1> USE DEF Steps, Go, disk, Grows
<1>1. Shape'
  BY FoldShape DEF LedgerInv
<1>2. OthersIdle(p)
  BY RunningAlone DEF Fold, MoveEntry, MoveHead, RemoveLgr, MoveState, RemoveStates, FoldCommits,
                      FoldPublished, UnlinkLog, EndFold, FoldRaises, LgrMoved, StatesMoved, LogsMerged
<1>3. CASE MoveEntry(p)
  BY <1>1, <1>2, <1>3, MoveEntryStep
<1>4. CASE MoveHead(p)
  <2>1. \A q \in Procs : fold'[q].entries = fold[q].entries
    BY <1>4, OtherField DEF MoveHead, LedgerInv
  <2> QED
    BY <1>1, <1>4, <2>1, SameStep, SameEntries DEF MoveHead
<1>5. CASE RemoveLgr(p)
  BY <1>1, <1>2, <1>5, QuietStep, SameEntries DEF RemoveLgr
<1>6. CASE MoveState(p)
  <2>1. \A q \in Procs : fold'[q].entries = fold[q].entries
    BY <1>6, OtherField DEF MoveState, LedgerInv
  <2> QED
    BY <1>1, <1>6, <2>1, SameStep, SameEntries DEF MoveState
<1>7. CASE RemoveStates(p)
  BY <1>1, <1>2, <1>7, QuietStep, SameEntries DEF RemoveStates
<1>8. CASE FoldCommits(p)
  BY <1>1, <1>2, <1>8, QuietStep, SameEntries DEF FoldCommits
<1>9. CASE FoldPublished(p)
  BY <1>1, <1>2, <1>9, QuietStep, SameEntries DEF FoldPublished
<1>10. CASE UnlinkLog(p)
  BY <1>1, <1>2, <1>10, QuietStep, SameEntries DEF UnlinkLog
<1>11. CASE EndFold(p)
  BY <1>1, <1>2, <1>11, QuietStep, EndQuiet, SameEntries DEF EndFold
<1>12. CASE FoldRaises(p)
  BY <1>1, <1>2, <1>12, EndQuiet, SameEntries DEF FoldRaises
<1> QED
  BY <1>3, <1>4, <1>5, <1>6, <1>7, <1>8, <1>9, <1>10, <1>11, <1>12 DEF Fold

LEMMA RecordStep ==
    ASSUME LedgerInv, NEW p \in Procs, Record(p)
    PROVE  LedgerInv' /\ Grows
<1> USE DEF Steps, Go, disk, Grows
<1>1. Shape'
  BY RecordShape DEF LedgerInv
<1>2. OthersIdle(p)
  BY RunningAlone DEF Record, WriteState, AskSeq, WriteCommits, WritePublications, RowsWritten,
                      ReadFolded, ReadPending, Link, LinkCollides, WriteHead
<1>3. CASE WriteState(p)
  BY <1>1, <1>2, <1>3, QuietStep, SameEntries DEF WriteState
<1>4. CASE AskSeq(p)
  BY <1>1, <1>2, <1>4, QuietStep, SameEntries DEF AskSeq
<1>5. CASE WriteCommits(p)
  BY <1>1, <1>2, <1>5, QuietStep, SameEntries DEF WriteCommits
<1>6. CASE WritePublications(p)
  BY <1>1, <1>6, SameStep, SameEntries DEF WritePublications
<1>7. CASE RowsWritten(p)
  BY <1>1, <1>2, <1>7, QuietStep, SameEntries DEF RowsWritten
<1>8. CASE ReadFolded(p)
  BY <1>1, <1>2, <1>8, ReadFoldedStep, SameEntries DEF ReadFolded
<1>9. CASE ReadPending(p)
  BY <1>1, <1>2, <1>9, ReadPendingStep, SameEntries DEF ReadPending
<1>10. CASE Link(p)
  BY <1>1, <1>2, <1>10, LinkStep
<1>11. CASE LinkCollides(p)
  BY <1>1, <1>2, <1>11, EndQuiet, SameEntries DEF LinkCollides
<1>12. CASE WriteHead(p)
  BY <1>1, <1>2, <1>12, EndQuiet, SameEntries DEF WriteHead
<1> QED
  BY <1>3, <1>4, <1>5, <1>6, <1>7, <1>8, <1>9, <1>10, <1>11, <1>12 DEF Record

LEMMA OtherStep ==
    ASSUME LedgerInv, NEW p \in Procs,
           Publish(p) \/ PublishFails(p) \/ AppendFails(p) \/ Stop(p)
    PROVE  LedgerInv' /\ Entries' = Entries
<1> USE DEF Steps, Go, disk, Grows
<1>1. Shape'
  BY OtherShape DEF LedgerInv
<1>2. OthersIdle(p) /\ lgr' = lgr
  BY RunningAlone DEF Publish, PublishFails, AppendFails, Stop
<1>3. CASE Publish(p)
  BY <1>1, <1>2, <1>3, QuietStep, SameEntries DEF Publish
<1>4. CASE End(p)
  BY <1>1, <1>2, <1>4, EndQuiet, SameEntries
<1> QED
  BY <1>3, <1>4 DEF PublishFails, AppendFails, Stop

LEMMA LedgerInvStep ==
    ASSUME LedgerInv, Free = {}, [Next]_vars PROVE LedgerInv' /\ Grows
<1>1. CASE Next
  BY <1>1, StartStep, FoldStep, RecordStep, OtherStep DEF Next, Grows
<1>2. CASE UNCHANGED vars
  <2>1. Shape' /\ lgr' = lgr /\ at' = at /\ last' = last /\ fold' = fold
    BY <1>2 DEF vars, disk, LedgerInv, Shape
  <2> QED
    BY <2>1, SameStep, SameEntries DEF Grows
<1> QED
  BY <1>1, <1>2

LEMMA LedgerInvHolds ==
    ASSUME LedgerInv PROVE ChainHolds /\ FoldedBeforePending
<1>1. PICK k \in Nat, n \in Nat : Halved(k, n)
  BY DEF LedgerInv
<1>2. FoldedBeforePending
  BY <1>1 DEF FoldedBeforePending, Halved, Numbers
<1> QED
  BY <1>2 DEF ChainHolds, LedgerInv

-----------------------------------------------------------------------------
\* Under the workspace lock, the ledger invariant holds at every moment of every
\* run (read_ledger_entries, _fold_memory_pending, _append_ledger_entry).
THEOREM LedgerInvAlways ==
    ASSUME Free = {} PROVE Spec => []LedgerInv
<1>1. LedgerInv /\ [Next]_vars => LedgerInv'
  BY LedgerInvStep
<1> QED
  BY <1>1, LedgerInvInit, PTL DEF Spec

\* The chain of entries verifies at every moment: numbers without gap or double,
\* each entry naming the one before it, through folds, kills and failed appends.
THEOREM LedgerChainHolds ==
    ASSUME Free = {} PROVE Spec => []ChainHolds
<1>1. LedgerInv => ChainHolds
  BY LedgerInvHolds
<1> QED
  BY <1>1, LedgerInvAlways, PTL

\* Every folded entry is older than every pending one (pending.py:62).
THEOREM LedgerFoldedBeforePending ==
    ASSUME Free = {} PROVE Spec => []FoldedBeforePending
<1>1. LedgerInv => FoldedBeforePending
  BY LedgerInvHolds
<1> QED
  BY <1>1, LedgerInvAlways, PTL

\* No recorded entry is ever lost or replaced (write_entry, _fold_memory_pending).
THEOREM LedgerEntriesKept ==
    ASSUME Free = {} PROVE Spec => EntriesKept
<1>1. LedgerInv /\ [Next]_vars => [Entries \subseteq Entries']_vars
  BY LedgerInvStep DEF Grows
<1> QED
  BY <1>1, LedgerInvAlways, PTL DEF Spec, EntriesKept

-----------------------------------------------------------------------------
(* The two halves together are one append-only chronicle.                   *)

\* A set of entries numbered 1..n, without doubles, read as a sequence.
LEMMA Listed ==
    ASSUME NEW S, NEW n \in Nat, Numbers(S, 1, n),
           \A e, f \in S : e.seq = f.seq => e = f,
           NEW H, H = [m \in {e.seq : e \in S} |-> CHOOSE e \in S : e.seq = m]
    PROVE  /\ H \in Seq(S) /\ Len(H) = n
           /\ \A e \in S : H[e.seq] = e
           /\ \A i \in 1..n : H[i] \in S /\ H[i].seq = i
<1>1. {e.seq : e \in S} = 1..n
  BY DEF Numbers
<1>2. \A m \in 1..n : H[m] \in S /\ H[m].seq = m
  <2> TAKE m \in 1..n
  <2>1. \E e \in S : e.seq = m
    BY DEF Numbers
  <2>2. H[m] = CHOOSE e \in S : e.seq = m
    BY <1>1
  <2> QED
    BY <2>1, <2>2
<1>3. H \in [1..n -> S]
  BY <1>1, <1>2
<1>4. H \in Seq(S) /\ Len(H) = n
  <2>1. H \in Seq(S)
    <3>1. H \in UNION {[1..i -> S] : i \in Nat}
      BY Zenon, <1>3
    <3> QED
      BY Zenon, <3>1, SeqDef
  <2>2. Len(H) \in Nat /\ DOMAIN H = 1..Len(H)
    BY Zenon, <2>1, LenProperties
  <2>3. DOMAIN H = 1..n
    BY Zenon, <1>3
  <2> QED
    BY <2>1, <2>2, <2>3
<1>5. \A e \in S : H[e.seq] = e
  BY <1>2 DEF Numbers
<1> QED
  BY <1>2, <1>4, <1>5

LEMMA EntriesNumbered ==
    ASSUME LedgerInv PROVE \E n \in Nat : Numbers(Entries, 1, n)
<1> PICK k \in Nat, n \in Nat : Halved(k, n)
  BY DEF LedgerInv
<1>1. Numbers(Entries, 1, n)
  BY DEF Halved, Numbers, Entries
<1> QED
  BY <1>1

LEMMA GrowsAtTheEnd ==
    ASSUME LedgerInv, LedgerInv', Grows PROVE History' = History \/ Promised!Add
<1>1. CASE Entries' = Entries
  BY <1>1 DEF History
<1>2. ASSUME NEW e, Entries' = Entries \cup {e}, e \notin Entries PROVE Promised!Add
  <2>1. PICK n \in Nat : Numbers(Entries, 1, n)
    BY EntriesNumbered
  <2>2. PICK m \in Nat : Numbers(Entries', 1, m)
    <3>1. PICK k \in Nat, j \in Nat : Halved(k, j)'
      BY DEF LedgerInv
    <3>2. Numbers(Entries', 1, j)
      BY <3>1 DEF Halved, Numbers, Entries
    <3> QED
      BY <3>2
  <2>3. \A f, g \in Entries' : f.seq = g.seq => f = g
    BY DEF LedgerInv, SeqsUnique
  <2>4. \A f, g \in Entries : f.seq = g.seq => f = g
    BY DEF LedgerInv, SeqsUnique
  <2>5. e.seq = n + 1 /\ m = n + 1
    <3>1. e.seq \in 1..m /\ e.seq \notin 1..n
      BY <1>2, <2>1, <2>2, <2>3 DEF Numbers
    <3>2. \A i \in 1..m : i \in 1..n \/ i = e.seq
      BY <1>2, <2>1, <2>2 DEF Numbers
    <3> QED
      BY <3>1, <3>2
  <2>6. /\ Len(History) = n
        /\ \A f \in Entries : History[f.seq] = f
        /\ \A i \in 1..n : History[i] \in Entries /\ History[i].seq = i
    <3>1. History = [i \in {f.seq : f \in Entries} |-> CHOOSE f \in Entries : f.seq = i]
      BY DEF History
    <3> QED
      BY <2>1, <2>4, <3>1, Listed, SMTT(30)
  <2>7. Len(History') = n + 1 /\ \A f \in Entries' : History'[f.seq] = f
    <3>1. History' = [i \in {f.seq : f \in Entries'} |-> CHOOSE f \in Entries' : f.seq = i]
      BY DEF History
    <3>2. Numbers(Entries', 1, n + 1)
      BY <2>2, <2>5
    <3>3. n + 1 \in Nat
      OBVIOUS
    <3> QED
      BY <2>3, <3>1, <3>2, <3>3, Listed, SMTT(30)
  <2>8. \A i \in 1..n : History'[i] = History[i]
    BY <1>2, <2>6, <2>7
  <2>9. History'[n + 1] = e
    BY <1>2, <2>5, <2>7
  <2>10. e.prev = Promised!Tip(History)
    <3>1. IF e.seq = 1 THEN e.prev = NoEntry.id
          ELSE \E f \in Entries' : f.seq = e.seq - 1 /\ e.prev = f.id
      BY <1>2 DEF LedgerInv, Linked
    <3>2. CASE n = 0
      BY <2>5, <2>6, <3>1, <3>2 DEF Promised!Tip
    <3>3. CASE n # 0
      <4>1. PICK f \in Entries' : f.seq = n /\ e.prev = f.id
        BY <2>5, <3>1, <3>3
      <4>2. f \in Entries
        BY <1>2, <2>5, <4>1
      <4>3. History[n] = f /\ History # <<>>
        BY <2>6, <3>3, <4>1, <4>2
      <4> QED
        BY <2>6, <4>1, <4>3 DEF Promised!Tip
    <3> QED
      BY <3>2, <3>3
  <2> QED
    BY <2>5, <2>6, <2>7, <2>8, <2>9, <2>10 DEF Promised!Add
<1> QED
  BY <1>1, <1>2 DEF Grows

\* The ledger on disk is the chronicle the memory promises: every step of every
\* command, fold, kill or failure leaves it alone or adds one linked entry at its
\* end (write_gts_snapshot, _fold_memory_pending, _append_ledger_entry).
THEOREM LedgerIsChronicle ==
    ASSUME Free = {} PROVE Spec => ImplementsChronicle
<1>1. Init => Promised!Init
  BY DEF Init, Promised!Init, History, Entries, Halves
<1>2. LedgerInv /\ LedgerInv' /\ [Next]_vars => [Promised!Add]_History
  BY LedgerInvStep, GrowsAtTheEnd
<1> QED
  BY <1>1, <1>2, LedgerInvAlways, PTL DEF Spec, ImplementsChronicle, Promised!Spec

-----------------------------------------------------------------------------
(* Sequences, flattened lists and least elements                            *)

\* What holds at 1 and climbs holds at n.
LEMMA Climb ==
    ASSUME NEW n \in Nat, NEW S \in SUBSET (1..n), 1 \in S, \A m \in S : m < n => m + 1 \in S
    PROVE  n \in S
<1> SUFFICES ASSUME n \notin S PROVE FALSE
  OBVIOUS
<1> DEFINE up == [m \in S |-> m + 1]
<1>1. IsFiniteSet(S)
  <2>1. IsFiniteSet(1..n)
    BY FS_Interval
  <2> QED
    BY <2>1, FS_Subset
<1>2. \A m \in S : m \in Nat /\ m < n /\ m >= 1
  OBVIOUS
<1>3. up \in Injection(S, S)
  BY <1>2 DEF Injection, IsInjective
<1>4. up \in Surjection(S, S)
  BY <1>1, <1>3, FS_Injection
<1>5. \E m \in S : up[m] = 1
  BY <1>4 DEF Surjection
<1> QED
  BY <1>2, <1>5

\* A function on 1..n is a sequence of length n.
LEMMA Functional ==
    ASSUME NEW T, NEW n \in Nat, NEW f \in [1..n -> T]
    PROVE  f \in Seq(T) /\ Len(f) = n
<1>1. f \in Seq(T)
  <2>1. f \in UNION {[1..i -> T] : i \in Nat}
    BY Zenon
  <2> QED
    BY Zenon, <2>1, SeqDef
<1>2. Len(f) \in Nat /\ DOMAIN f = 1..Len(f)
  BY Zenon, <1>1, LenProperties
<1>3. DOMAIN f = 1..n
  BY Zenon
<1> QED
  BY <1>1, <1>2, <1>3

\* g[i] is f[1] \o ... \o f[i].
Sums(g, f, n, T) ==
    /\ g \in [1..n -> Seq(T)]
    /\ g[1] = f[1]
    /\ \A i \in 2..n : g[i] = g[i - 1] \o f[i]

\* FlattenSeq is the last of its partial concatenations.
LEMMA Flattened ==
    ASSUME NEW T, NEW n \in Nat \ {0}, NEW f \in [1..n -> Seq(T)]
    PROVE  \E g : Sums(g, f, n, T) /\ FlattenSeq(f) = g[n]
<1> DEFINE Part(g, m) == g[1] = f[1] /\ \A i \in 2..m : g[i] = g[i - 1] \o f[i]
           S == {m \in 1..n : \E g \in [1..m -> Seq(T)] : Part(g, m)}
<1>1. 1 \in S
  <2>1. [i \in 1..1 |-> f[1]] \in [1..1 -> Seq(T)]
    OBVIOUS
  <2>2. Part([i \in 1..1 |-> f[1]], 1)
    OBVIOUS
  <2>3. 1 \in 1..n
    OBVIOUS
  <2> HIDE DEF Part
  <2> QED
    BY Zenon, <2>1, <2>2, <2>3
<1>2. \A m \in S : m < n => m + 1 \in S
  <2> SUFFICES ASSUME NEW m \in S, m < n PROVE m + 1 \in S
    OBVIOUS
  <2>1. PICK g \in [1..m -> Seq(T)] : Part(g, m)
    OBVIOUS
  <2> DEFINE h == [i \in 1..m + 1 |-> IF i = m + 1 THEN g[m] \o f[m + 1] ELSE g[i]]
  <2>2. g[m] \o f[m + 1] \in Seq(T)
    <3>1. g[m] \in Seq(T) /\ f[m + 1] \in Seq(T)
      OBVIOUS
    <3> HIDE DEF S
    <3> QED
      BY <3>1, ConcatProperties
  <2>3. h \in [1..m + 1 -> Seq(T)]
    BY <2>2
  <2>4. Part(h, m + 1)
    <3>1. h[1] = f[1]
      BY <2>1
    <3>2. ASSUME NEW i \in 2..m + 1 PROVE h[i] = h[i - 1] \o f[i]
      <4>1. CASE i = m + 1
        <5>1. h[m + 1] = g[m] \o f[m + 1]
          OBVIOUS
        <5>2. h[m] = g[m]
          OBVIOUS
        <5>3. i - 1 = m
          BY <4>1
        <5> HIDE DEF h
        <5> QED
          BY <4>1, <5>1, <5>2, <5>3
      <4>2. CASE i \in 2..m
        <5>1. h[i] = g[i] /\ h[i - 1] = g[i - 1]
          BY <4>2
        <5>2. g[i] = g[i - 1] \o f[i]
          BY <4>2, <2>1
        <5> QED
          BY <5>1, <5>2
      <4>3. i = m + 1 \/ i \in 2..m
        OBVIOUS
      <4> QED
        BY <4>1, <4>2, <4>3
    <3> QED
      BY <3>1, <3>2
  <2>5. m + 1 \in 1..n
    OBVIOUS
  <2> HIDE DEF Part, h
  <2> QED
    BY Zenon, <2>3, <2>4, <2>5
<1>3. n \in S
  <2>1. S \in SUBSET (1..n)
    OBVIOUS
  <2> HIDE DEF S
  <2> QED
    BY <1>1, <1>2, <2>1, Climb
<1>4. PICK g \in [1..n -> Seq(T)] : Part(g, n)
  BY <1>3
<1> DEFINE Def(h) == [i \in 1..n |-> IF i = 1 THEN f[i] ELSE h[i - 1] \o f[i]]
           flatten == CHOOSE h : h = Def(h)
<1>5. g = Def(g)
  <2>1. \A i \in 1..n : g[i] = IF i = 1 THEN f[i] ELSE g[i - 1] \o f[i]
    <3> SUFFICES ASSUME NEW i \in 1..n PROVE g[i] = IF i = 1 THEN f[i] ELSE g[i - 1] \o f[i]
      OBVIOUS
    <3>1. i = 1 \/ i \in 2..n
      OBVIOUS
    <3> QED
      BY <1>4, <3>1
  <2>2. g = [i \in 1..n |-> g[i]]
    OBVIOUS
  <2> QED
    BY <2>1, <2>2
<1>6. flatten = Def(flatten)
  <2> HIDE DEF Def
  <2> QED
    BY Zenon, <1>5
<1>7. Len(f) = n
  BY Functional
<1>8. FlattenSeq(f) = flatten[n]
  BY <1>7, Zenon DEF FlattenSeq
<1>9. flatten[n] = g[n]
  <2> DEFINE Q == {m \in 1..n : flatten[m] = g[m]}
  <2> HIDE DEF flatten
  <2>1. \A i \in 1..n : flatten[i] = IF i = 1 THEN f[i] ELSE flatten[i - 1] \o f[i]
    BY <1>6, Zenon
  <2>2. 1 \in Q
    BY <1>4, <2>1
  <2>3. ASSUME NEW m \in Q, m < n PROVE m + 1 \in Q
    <3>1. m + 1 \in 2..n /\ m + 1 \in 1..n /\ m + 1 # 1 /\ (m + 1) - 1 = m
      BY <2>3
    <3>2. g[m + 1] = g[m] \o f[m + 1]
      BY <1>4, <3>1
    <3>3. flatten[m + 1] = flatten[m] \o f[m + 1]
      BY <2>1, <3>1
    <3> QED
      BY <3>1, <3>2, <3>3
  <2>4. Q \in SUBSET (1..n)
    OBVIOUS
  <2>5. n \in Q
    <3> HIDE DEF Q
    <3> QED
      BY <2>2, <2>3, <2>4, Climb
  <2> QED
    BY <2>5
<1> HIDE DEF flatten
<1>10. Sums(g, f, n, T)
  BY <1>4 DEF Sums
<1> QED
  BY <1>8, <1>9, <1>10

\* What is flattened is a sequence of the same elements.
LEMMA FlatSeq ==
    ASSUME NEW T, NEW n \in Nat, NEW f \in [1..n -> Seq(T)]
    PROVE  FlattenSeq(f) \in Seq(T)
<1>1. CASE n = 0
  <2>1. f \in [1..n -> T]
    BY <1>1
  <2>2. f \in Seq(T) /\ Len(f) = 0
    BY <1>1, <2>1, Functional
  <2> QED
    BY <2>2, Zenon DEF FlattenSeq
<1>2. CASE n # 0
  <2>1. PICK g : Sums(g, f, n, T) /\ FlattenSeq(f) = g[n]
    BY <1>2, Flattened
  <2> QED
    BY <1>2, <2>1 DEF Sums
<1> QED
  BY <1>1, <1>2

\* The elements of a concatenation.
LEMMA ToSetConcat ==
    ASSUME NEW T, NEW a \in Seq(T), NEW b \in Seq(T)
    PROVE  ToSet(a \o b) = ToSet(a) \cup ToSet(b)
<1> DEFINE c == a \o b
<1>1. /\ c \in Seq(T) /\ Len(c) = Len(a) + Len(b)
      /\ \A i \in 1..Len(a) + Len(b) : c[i] = IF i <= Len(a) THEN a[i] ELSE b[i - Len(a)]
  BY ConcatProperties
<1>2. /\ Len(a) \in Nat /\ DOMAIN a = 1..Len(a)
      /\ Len(b) \in Nat /\ DOMAIN b = 1..Len(b)
      /\ DOMAIN c = 1..Len(c)
  BY <1>1, LenProperties
<1> HIDE DEF c
<1>3. ASSUME NEW i \in DOMAIN c PROVE c[i] \in ToSet(a) \cup ToSet(b)
  <2>1. CASE i <= Len(a)
    <3>1. c[i] = a[i] /\ i \in DOMAIN a
      BY <1>1, <1>2, <2>1
    <3> QED
      BY <3>1 DEF ToSet
  <2>2. CASE ~(i <= Len(a))
    <3>1. c[i] = b[i - Len(a)] /\ i - Len(a) \in DOMAIN b
      BY <1>1, <1>2, <2>2
    <3> QED
      BY <3>1 DEF ToSet
  <2> QED
    BY <2>1, <2>2
<1>4. ASSUME NEW i \in DOMAIN a PROVE a[i] \in ToSet(c)
  <2>1. i \in DOMAIN c /\ c[i] = a[i]
    BY <1>1, <1>2
  <2> QED
    BY <2>1 DEF ToSet
<1>5. ASSUME NEW i \in DOMAIN b PROVE b[i] \in ToSet(c)
  <2>1. Len(a) + i \in DOMAIN c /\ c[Len(a) + i] = b[i]
    BY <1>1, <1>2
  <2> QED
    BY <2>1 DEF ToSet
<1>6. ToSet(c) = ToSet(a) \cup ToSet(b)
  BY <1>3, <1>4, <1>5 DEF ToSet
<1> QED
  BY <1>6 DEF c

\* The elements of a flattened sequence are those of its parts.
LEMMA FlatIn ==
    ASSUME NEW T, NEW n \in Nat, NEW f \in [1..n -> Seq(T)], NEW x
    PROVE  x \in ToSet(FlattenSeq(f)) <=> \E i \in 1..n : x \in ToSet(f[i])
<1>1. CASE n = 0
  <2>1. f \in [1..n -> T]
    BY <1>1
  <2>2. f \in Seq(T) /\ Len(f) = 0
    BY <1>1, <2>1, Functional
  <2>3. FlattenSeq(f) = f
    BY <2>2, Zenon DEF FlattenSeq
  <2> QED
    BY <1>1, <2>3 DEF ToSet
<1>2. CASE n # 0
  <2>0. PICK g : Sums(g, f, n, T) /\ FlattenSeq(f) = g[n]
    BY <1>2, Flattened
  <2>1. /\ g \in [1..n -> Seq(T)] /\ g[1] = f[1] /\ FlattenSeq(f) = g[n]
        /\ \A i \in 2..n : g[i] = g[i - 1] \o f[i]
    BY <2>0 DEF Sums
  <2> DEFINE S == {m \in 1..n : x \in ToSet(g[m]) <=> \E i \in 1..m : x \in ToSet(f[i])}
  <2>2. 1 \in S
    BY <1>2, <2>1
  <2>3. ASSUME NEW m \in S, m < n PROVE m + 1 \in S
    <3>1. m \in 1..n /\ m + 1 \in 2..n /\ (m + 1) - 1 = m
      BY <2>3
    <3>2. g[m + 1] = g[m] \o f[m + 1]
      BY <2>1, <3>1
    <3>3. g[m] \in Seq(T) /\ f[m + 1] \in Seq(T)
      BY <2>1, <3>1
    <3>4. ToSet(g[m + 1]) = ToSet(g[m]) \cup ToSet(f[m + 1])
      BY <3>2, <3>3, ToSetConcat
    <3>5. x \in ToSet(g[m]) <=> \E i \in 1..m : x \in ToSet(f[i])
      OBVIOUS
    <3>6. 1..(m + 1) = (1..m) \cup {m + 1}
      BY <3>1
    <3>7. x \in ToSet(g[m + 1]) <=> \E i \in 1..(m + 1) : x \in ToSet(f[i])
      BY <3>4, <3>5, <3>6
    <3> QED
      BY <3>1, <3>7
  <2>4. S \in SUBSET (1..n)
    OBVIOUS
  <2>5. n \in S
    <3> HIDE DEF S
    <3> QED
      BY <2>2, <2>3, <2>4, Climb
  <2>6. x \in ToSet(g[n]) <=> \E i \in 1..n : x \in ToSet(f[i])
    BY Zenon, <2>5
  <2> HIDE DEF S
  <2> QED
    BY Zenon, <2>1, <2>6
<1> QED
  BY <1>1, <1>2

\* A set of numbers has a least one, which Min finds.
LEMMA Least ==
    ASSUME NEW n \in Nat, NEW S \in SUBSET (1..n), S # {}
    PROVE  Min(S) \in S /\ \A x \in S : Min(S) <= x
<1> SUFFICES ASSUME \A y \in S : \E x \in S : ~(y <= x) PROVE FALSE
  BY DEF Min
<1> DEFINE Q == {m \in 1..n : \A x \in S : m <= x}
<1>1. 1 \in Q
  <2>1. PICK y \in S : TRUE
    OBVIOUS
  <2> QED
    BY <2>1
<1>2. ASSUME NEW m \in Q, m < n PROVE m + 1 \in Q
  <2>1. \A x \in S : m <= x
    OBVIOUS
  <2>2. m \notin S
    BY <2>1
  <2>3. \A x \in S : m + 1 <= x
    BY <2>1, <2>2
  <2> QED
    BY <1>2, <2>3
<1>3. n \in Q
  <2>1. Q \in SUBSET (1..n)
    OBVIOUS
  <2>2. n \in Nat
    OBVIOUS
  <2> HIDE DEF Q
  <2> QED
    BY <1>1, <1>2, <2>1, <2>2, Climb
<1>4. PICK y \in S : TRUE
  OBVIOUS
<1>5. y = n
  BY <1>3
<1> QED
  BY <1>3, <1>5

\* A bounded set of entries has a newest one, which Newest finds.
LEMMA Greatest ==
    ASSUME NEW b \in Nat, NEW S, S # {}, \A e \in S : e.seq \in 0..b
    PROVE  Newest(S) \in S /\ \A f \in S : f.seq <= Newest(S).seq
<1> SUFFICES ASSUME \A e \in S : \E f \in S : ~(f.seq <= e.seq) PROVE FALSE
  BY DEF Newest
<1> DEFINE Q == {m \in 1..b + 1 : \E e \in S : e.seq >= m - 1}
<1>1. 1 \in Q
  OBVIOUS
<1>2. ASSUME NEW m \in Q, m < b + 1 PROVE m + 1 \in Q
  <2>1. PICK e \in S : e.seq >= m - 1
    OBVIOUS
  <2>2. PICK f \in S : ~(f.seq <= e.seq)
    OBVIOUS
  <2>3. f.seq >= (m + 1) - 1
    BY <2>1, <2>2
  <2> QED
    BY <1>2, <2>3
<1>3. b + 1 \in Q
  <2>1. Q \in SUBSET (1..b + 1)
    OBVIOUS
  <2>2. b + 1 \in Nat
    OBVIOUS
  <2> HIDE DEF Q
  <2> QED
    BY <1>1, <1>2, <2>1, <2>2, Climb
<1>4. PICK e \in S : e.seq >= b
  BY <1>3
<1>5. PICK f \in S : ~(f.seq <= e.seq)
  OBVIOUS
<1> QED
  BY <1>4, <1>5

-----------------------------------------------------------------------------
(* Types, for any number of processes with or without the lock              *)

Step(p) ==
    \/ Start(p) \/ Fold(p) \/ Publish(p) \/ PublishFails(p)
    \/ Record(p) \/ AppendFails(p) \/ Stop(p)

\* The commits there are, and those their remote has.
Done   == {sha \in Sha : sha.nr <= made[sha.repo]}
Public == {sha \in Sha : sha.nr <= pushed[sha.repo]}

RowsOf(shas) == [table : {"commit", "published"}, sha : shas, entry : Nat]

\* The steps at which a command has a State to write or to record.
Recording == {"state", "seq", "commits", "publications", "read_folded", "read_pending", "link"}

\* Where each command is, and what its fold knows.
ControlTyped ==
    /\ states \in [Halves -> SUBSET States]
    /\ litter \subseteq States
    /\ at \in [Procs -> Steps]
    /\ push \in [Procs -> BOOLEAN]
    /\ fold \in [Procs -> [entries : SUBSET Nat, head : BOOLEAN, states : SUBSET States]]
    /\ faults \in Nat

\* No number above the count of entries built, on disk or in a command's hands.
LedgerTyped ==
    /\ lgr \in [Halves -> SUBSET Entry]
    /\ head \in [Halves -> Nat]
    /\ last \in [Procs -> [seq : Nat, id : Nat]]
    /\ built \in Nat
    /\ \A h \in Halves : \A e \in lgr[h] : e.seq <= built
    /\ \A p \in Procs : last[p].seq <= built

\* A remote has no commit that was not made.
GitTyped ==
    /\ made \in [Repos -> 0..MaxCommits]
    /\ pushed \in [Repos -> 0..MaxCommits]
    /\ \A r \in Repos : pushed[r] <= made[r]

\* Commit rows name commits that were made, publication rows commits that were pushed.
LogTyped ==
    log \in [Halves -> [States -> [commit : Seq(RowsOf(Done)), published : Seq(RowsOf(Public))]]]

\* So do the rows a command is about to write, and what it records is a State.
JobTyped ==
    /\ job \in [Procs -> [state : Nat, commits : Seq(Done), pubs : [States -> Seq(Public)],
                          seq : Nat, written : Seq(Row)]]
    /\ \A p \in Procs : at[p] \in Recording => job[p].state \in States

Typed == ControlTyped /\ LedgerTyped /\ GitTyped /\ LogTyped /\ JobTyped

LEMMA TypedTypeOK == Typed => TypeOK
<1> SUFFICES ASSUME Typed PROVE TypeOK
  OBVIOUS
<1>1. Done \subseteq Sha /\ Public \subseteq Sha
  BY DEF Done, Public
<1>2. Seq(Done) \subseteq Seq(Sha) /\ Seq(Public) \subseteq Seq(Sha)
  BY <1>1, SeqMonotonic
<1>3. RowsOf(Done) \subseteq Row /\ RowsOf(Public) \subseteq Row
  BY <1>1 DEF RowsOf, Row
<1>4. Seq(RowsOf(Done)) \subseteq Seq(Row) /\ Seq(RowsOf(Public)) \subseteq Seq(Row)
  BY <1>3, SeqMonotonic
<1>5. log \in [Halves -> [States -> [commit : Seq(Row), published : Seq(Row)]]]
  <2>1. [commit : Seq(RowsOf(Done)), published : Seq(RowsOf(Public))]
            \subseteq [commit : Seq(Row), published : Seq(Row)]
    BY <1>4
  <2> DEFINE A == [commit : Seq(RowsOf(Done)), published : Seq(RowsOf(Public))]
             B == [commit : Seq(Row), published : Seq(Row)]
  <2>2. log \in [Halves -> [States -> A]]
    BY DEF Typed, LogTyped
  <2> HIDE DEF A, B
  <2>3. A \subseteq B
    BY <2>1 DEF A, B
  <2>4. log \in [Halves -> [States -> B]]
    BY <2>2, <2>3
  <2> QED
    BY <2>4 DEF B
<1>6. job \in [Procs -> [state : Nat, commits : Seq(Sha), pubs : [States -> Seq(Sha)],
                         seq : Nat, written : Seq(Row)]]
  <2> DEFINE A == [state : Nat, commits : Seq(Done), pubs : [States -> Seq(Public)],
                   seq : Nat, written : Seq(Row)]
             B == [state : Nat, commits : Seq(Sha), pubs : [States -> Seq(Sha)],
                   seq : Nat, written : Seq(Row)]
  <2>1. [States -> Seq(Public)] \subseteq [States -> Seq(Sha)]
    BY <1>2
  <2>2. A \subseteq B
    BY <1>2, <2>1
  <2>3. job \in [Procs -> A]
    BY DEF Typed, JobTyped
  <2> HIDE DEF A, B
  <2>4. job \in [Procs -> B]
    BY <2>2, <2>3
  <2> QED
    BY <2>4 DEF B
<1> QED
  BY <1>5, <1>6 DEF Typed, ControlTyped, LedgerTyped, GitTyped, TypeOK, Steps

LEMMA TypedInit == Init => Typed
<1> SUFFICES ASSUME Init PROVE Typed
  OBVIOUS
<1> USE MemoryAssumption DEF Init
<1>1. ControlTyped
  BY DEF ControlTyped, NoFold, Steps
<1>2. LedgerTyped
  BY DEF LedgerTyped, NoEntry
<1>3. GitTyped
  BY DEF GitTyped
<1>4. NoLog \in [commit : Seq(RowsOf(Done)), published : Seq(RowsOf(Public))]
  <2>1. \A S : <<>> \in Seq(S)
    BY EmptySeq
  <2> QED
    BY <2>1 DEF NoLog
<1>5. LogTyped
  <2> HIDE DEF Init
  <2>1. log = [h \in Halves |-> [s \in States |-> NoLog]]
    BY DEF Init
  <2> QED
    BY <1>4, <2>1 DEF LogTyped
<1>6. JobTyped
  <2>1. \A S : <<>> \in Seq(S)
    BY EmptySeq
  <2>2. NoJob \in [state : Nat, commits : Seq(Done), pubs : [States -> Seq(Public)],
                   seq : Nat, written : Seq(Row)]
    BY <2>1 DEF NoJob, Job, NoPubs
  <2> HIDE DEF Init
  <2>3. job = [p \in Procs |-> NoJob] /\ at = [p \in Procs |-> "idle"]
    BY DEF Init
  <2> QED
    BY <2>2, <2>3 DEF JobTyped, Recording
<1> QED
  BY <1>1, <1>2, <1>3, <1>5, <1>6 DEF Typed

-----------------------------------------------------------------------------
LEMMA GoTyped ==
    ASSUME ControlTyped, NEW p \in Procs, NEW step \in Steps, Go(p, step)
    PROVE  at' \in [Procs -> Steps]
BY DEF ControlTyped, Go

LEMMA EndTyped ==
    ASSUME ControlTyped, NEW p \in Procs, End(p)
    PROVE  /\ at' \in [Procs -> Steps] /\ push' \in [Procs -> BOOLEAN]
           /\ fold' \in [Procs -> [entries : SUBSET Nat, head : BOOLEAN, states : SUBSET States]]
BY DEF ControlTyped, End, Go, Steps, NoFold

LEMMA StartControl ==
    ASSUME Typed, NEW p \in Procs, Start(p) PROVE ControlTyped'
<1> USE DEF Typed, disk
<1>1. CASE Commit(p)
  <2>1. at' \in [Procs -> Steps]
    BY <1>1, GoTyped DEF Commit, Steps
  <2> QED
    BY <1>1, <2>1 DEF Commit, ControlTyped
<1>2. CASE Snapshot(p)
  <2>1. at' \in [Procs -> Steps]
    BY <1>2, GoTyped DEF Snapshot, Steps
  <2> QED
    BY <1>2, <2>1 DEF Snapshot, ControlTyped
<1>3. CASE StartFold(p)
  <2>1. at' \in [Procs -> Steps]
    BY <1>3, GoTyped DEF StartFold, Steps
  <2>2. {e.seq : e \in lgr.pending} \in SUBSET Nat
    BY DEF LedgerTyped, Entry, Halves
  <2>3. fold' \in [Procs -> [entries : SUBSET Nat, head : BOOLEAN, states : SUBSET States]]
    <3>1. [NoFold EXCEPT !.entries = {e.seq : e \in lgr.pending}, !.head = head.pending # 0]
             \in [entries : SUBSET Nat, head : BOOLEAN, states : SUBSET States]
      BY <2>2 DEF NoFold
    <3> QED
      BY <1>3, <3>1 DEF StartFold, ControlTyped
  <2>4. push' \in [Procs -> BOOLEAN]
    BY <1>3 DEF StartFold, ControlTyped
  <2> QED
    BY <1>3, <2>1, <2>3, <2>4 DEF StartFold, ControlTyped
<1>4. CASE RefuseFold(p)
  <2>1. at' \in [Procs -> Steps]
    BY <1>4, GoTyped DEF RefuseFold, Steps
  <2>2. push' \in [Procs -> BOOLEAN]
    BY <1>4 DEF RefuseFold, ControlTyped
  <2> QED
    BY <1>4, <2>1, <2>2 DEF RefuseFold, Fault, ControlTyped
<1>5. CASE Repair(p)
  BY <1>5 DEF Repair, ControlTyped
<1> QED
  BY <1>1, <1>2, <1>3, <1>4, <1>5 DEF Start

LEMMA FoldControl ==
    ASSUME Typed, NEW p \in Procs, Fold(p) PROVE ControlTyped'
<1> USE DEF Typed, disk
<1>1. CASE MoveEntry(p)
  BY <1>1 DEF MoveEntry, ControlTyped
<1>2. CASE MoveHead(p)
  BY <1>2 DEF MoveHead, ControlTyped
<1>3. CASE RemoveLgr(p)
  <2>1. at' \in [Procs -> Steps]
    BY <1>3, GoTyped DEF RemoveLgr, Steps
  <2>2. states.pending \in SUBSET States
    BY DEF ControlTyped, Halves
  <2> QED
    BY <1>3, <2>1, <2>2 DEF RemoveLgr, ControlTyped
<1>4. CASE MoveState(p)
  <2>1. Min(fold[p].states) \in States
    <3>1. fold[p].states \in SUBSET States /\ fold[p].states # {}
      BY <1>4 DEF MoveState, ControlTyped
    <3> QED
      BY <3>1, Least, MemoryAssumption DEF States
  <2>2. states' \in [Halves -> SUBSET States]
    BY <1>4, <2>1 DEF MoveState, ControlTyped, Halves
  <2>3. fold' \in [Procs -> [entries : SUBSET Nat, head : BOOLEAN, states : SUBSET States]]
    BY <1>4 DEF MoveState, ControlTyped
  <2> QED
    BY <1>4, <2>2, <2>3 DEF MoveState, ControlTyped
<1>5. CASE RemoveStates(p)
  <2>1. at' \in [Procs -> Steps]
    BY <1>5, GoTyped DEF RemoveStates, Steps
  <2> QED
    BY <1>5, <2>1 DEF RemoveStates, ControlTyped
<1>6. CASE FoldCommits(p)
  <2>1. at' \in [Procs -> Steps]
    BY <1>6, GoTyped DEF FoldCommits, Steps
  <2> QED
    BY <1>6, <2>1 DEF FoldCommits, ControlTyped
<1>7. CASE FoldPublished(p)
  <2>1. at' \in [Procs -> Steps]
    BY <1>7, GoTyped DEF FoldPublished, Steps
  <2> QED
    BY <1>7, <2>1 DEF FoldPublished, ControlTyped
<1>8. CASE UnlinkLog(p)
  <2>1. at' \in [Procs -> Steps]
    BY <1>8, GoTyped DEF UnlinkLog, Steps
  <2> QED
    BY <1>8, <2>1 DEF UnlinkLog, ControlTyped
<1>9. CASE EndFold(p)
  <2>1. CASE End(p)
    BY <1>9, <2>1, EndTyped DEF EndFold, ControlTyped
  <2>2. CASE Go(p, "publish") /\ UNCHANGED <<push, job, fold, last>>
    <3>1. at' \in [Procs -> Steps]
      BY <2>2, GoTyped DEF Steps
    <3> QED
      BY <1>9, <2>2, <3>1 DEF EndFold, ControlTyped
  <2> QED
    BY <1>9, <2>1, <2>2 DEF EndFold
<1>10. CASE FoldRaises(p)
  BY <1>10, EndTyped DEF FoldRaises, ControlTyped
<1> QED
  BY <1>1, <1>2, <1>3, <1>4, <1>5, <1>6, <1>7, <1>8, <1>9, <1>10 DEF Fold

LEMMA RecordControl ==
    ASSUME Typed, NEW p \in Procs, Record(p) PROVE ControlTyped'
<1> USE DEF Typed, disk
<1>1. CASE WriteState(p)
  <2>1. at' \in [Procs -> Steps]
    BY <1>1, GoTyped DEF WriteState, Steps
  <2>2. job[p].state \in States
    BY <1>1 DEF WriteState, JobTyped, Recording
  <2>3. states' \in [Halves -> SUBSET States]
    BY <1>1, <2>2 DEF WriteState, ControlTyped
  <2> QED
    BY <1>1, <2>1, <2>3 DEF WriteState, ControlTyped
<1>2. CASE AskSeq(p)
  <2>1. at' \in [Procs -> Steps]
    BY <1>2, GoTyped DEF AskSeq, Steps
  <2> QED
    BY <1>2, <2>1 DEF AskSeq, ControlTyped
<1>3. CASE WriteCommits(p)
  <2>1. at' \in [Procs -> Steps]
    BY <1>3, GoTyped DEF WriteCommits, Steps
  <2> QED
    BY <1>3, <2>1 DEF WriteCommits, ControlTyped
<1>4. CASE WritePublications(p)
  BY <1>4 DEF WritePublications, ControlTyped
<1>5. CASE RowsWritten(p)
  <2>1. at' \in [Procs -> Steps]
    BY <1>5, GoTyped DEF RowsWritten, Steps
  <2> QED
    BY <1>5, <2>1 DEF RowsWritten, ControlTyped
<1>6. CASE ReadFolded(p)
  <2>1. at' \in [Procs -> Steps]
    BY <1>6, GoTyped DEF ReadFolded, Steps
  <2> QED
    BY <1>6, <2>1 DEF ReadFolded, ControlTyped
<1>7. CASE ReadPending(p)
  <2>1. at' \in [Procs -> Steps]
    BY <1>7, GoTyped DEF ReadPending, Steps
  <2> QED
    BY <1>7, <2>1 DEF ReadPending, ControlTyped
<1>8. CASE Link(p)
  <2>1. at' \in [Procs -> Steps]
    BY <1>8, GoTyped DEF Link, Steps
  <2> QED
    BY <1>8, <2>1 DEF Link, ControlTyped
<1>9. CASE LinkCollides(p)
  BY <1>9, EndTyped DEF LinkCollides, ControlTyped
<1>10. CASE WriteHead(p)
  BY <1>10, EndTyped DEF WriteHead, ControlTyped
<1> QED
  BY <1>1, <1>2, <1>3, <1>4, <1>5, <1>6, <1>7, <1>8, <1>9, <1>10 DEF Record

LEMMA OtherControl ==
    ASSUME Typed, NEW p \in Procs,
           Publish(p) \/ PublishFails(p) \/ AppendFails(p) \/ Stop(p)
    PROVE  ControlTyped'
<1> USE DEF Typed, disk
<1>1. CASE Publish(p)
  <2>1. at' \in [Procs -> Steps]
    BY <1>1, GoTyped DEF Publish, Steps
  <2> QED
    BY <1>1, <2>1 DEF Publish, ControlTyped
<1>2. CASE PublishFails(p)
  BY <1>2, EndTyped DEF PublishFails, Fault, ControlTyped
<1>3. CASE AppendFails(p)
  BY <1>3, EndTyped DEF AppendFails, Fault, ControlTyped
<1>4. CASE Stop(p)
  <2>1. Writing(p) \subseteq States
    <3>1. CASE at[p] = "commits" /\ job[p].commits # <<>>
      BY <3>1 DEF Writing, JobTyped, Recording
    <3>2. CASE at[p] = "publications" /\ Due(p) # {}
      <4>1. Due(p) \in SUBSET States
        BY DEF Due
      <4>2. Min(Due(p)) \in States
        BY <3>2, <4>1, Least, MemoryAssumption DEF States
      <4> QED
        BY <3>2, <4>2 DEF Writing
    <3> QED
      BY <3>1, <3>2 DEF Writing
  <2> QED
    BY <1>4, <2>1, EndTyped DEF Stop, Fault, ControlTyped
<1> QED
  BY <1>1, <1>2, <1>3, <1>4

LEMMA ControlStep ==
    ASSUME Typed, NEW p \in Procs, Step(p) PROVE ControlTyped'
BY StartControl, FoldControl, RecordControl, OtherControl DEF Step

-----------------------------------------------------------------------------
LEMMA EndLedger ==
    ASSUME LedgerTyped, NEW p \in Procs, End(p), UNCHANGED <<lgr, head, built>>
    PROVE  LedgerTyped'
BY DEF LedgerTyped, End, NoEntry

LEMMA NewestTyped ==
    ASSUME LedgerTyped, NEW S, S = lgr.folded \/ S = lgr.pending \/ S = Entries, S # {}
    PROVE  Newest(S) \in Entry /\ Newest(S).seq <= built /\ Newest(S) \in S
<1>1. \A e \in S : e \in Entry /\ e.seq \in 0..built
  BY DEF LedgerTyped, Entries, Halves, Entry
<1>2. Newest(S) \in S
  BY <1>1, Greatest DEF LedgerTyped
<1> QED
  BY <1>1, <1>2

LEMMA SameLedger ==
    ASSUME LedgerTyped, UNCHANGED <<lgr, head, last, built>>
    PROVE  LedgerTyped'
BY DEF LedgerTyped

LEMMA StartLedger ==
    ASSUME Typed, NEW p \in Procs, Start(p) PROVE LedgerTyped'
<1> USE DEF Typed, disk
<1>1. CASE Commit(p) \/ Snapshot(p) \/ StartFold(p) \/ RefuseFold(p)
  BY <1>1, SameLedger DEF Commit, Snapshot, StartFold, RefuseFold
<1>2. CASE Repair(p)
  <2>1. Active \in Halves /\ lgr[Active] # {}
    BY <1>2 DEF Repair, Active, Entries, Halves
  <2>2. Newest(lgr[Active]) \in Entry
    BY <2>1, NewestTyped DEF Active
  <2>3. head' \in [Halves -> Nat]
    BY <1>2, <2>1, <2>2 DEF Repair, LedgerTyped, Entry
  <2> QED
    BY <1>2, <2>3 DEF Repair, LedgerTyped
<1> QED
  BY <1>1, <1>2 DEF Start

LEMMA FoldLedger ==
    ASSUME Typed, NEW p \in Procs, Fold(p) PROVE LedgerTyped'
<1> USE DEF Typed, disk
<1>1. CASE MoveEntry(p)
  <2>1. PICK n : LET moved == {e \in lgr.pending : e.seq = n}
                 IN lgr' = [folded  |-> {e \in lgr.folded : e.seq # n} \cup moved,
                            pending |-> lgr.pending \ moved]
    BY <1>1 DEF MoveEntry
  <2>2. lgr' \in [Halves -> SUBSET Entry]
    BY <2>1 DEF LedgerTyped, Halves
  <2>3. \A h \in Halves : \A e \in lgr'[h] : e.seq <= built
    BY <2>1 DEF LedgerTyped, Halves
  <2> QED
    BY <1>1, <2>2, <2>3 DEF MoveEntry, LedgerTyped
<1>2. CASE MoveHead(p)
  <2>1. head' \in [Halves -> Nat]
    BY <1>2 DEF MoveHead, LedgerTyped, Halves
  <2> QED
    BY <1>2, <2>1 DEF MoveHead, LedgerTyped
<1>3. CASE \/ RemoveLgr(p) \/ MoveState(p) \/ RemoveStates(p)
           \/ FoldCommits(p) \/ FoldPublished(p) \/ UnlinkLog(p)
  BY <1>3, SameLedger DEF RemoveLgr, MoveState, RemoveStates, FoldCommits, FoldPublished, UnlinkLog
<1>4. CASE EndFold(p) \/ FoldRaises(p)
  BY <1>4, SameLedger, EndLedger DEF EndFold, FoldRaises
<1> QED
  BY <1>1, <1>2, <1>3, <1>4 DEF Fold

LEMMA RecordLedger ==
    ASSUME Typed, NEW p \in Procs, Record(p) PROVE LedgerTyped'
<1> USE DEF Typed, disk
<1>1. CASE \/ WriteState(p) \/ AskSeq(p) \/ WriteCommits(p)
           \/ WritePublications(p) \/ RowsWritten(p)
  BY <1>1, SameLedger DEF WriteState, AskSeq, WriteCommits, WritePublications, RowsWritten
<1>2. CASE ReadFolded(p)
  <2> DEFINE read == IF lgr.folded = {} THEN NoEntry
                     ELSE [seq |-> Newest(lgr.folded).seq, id |-> Newest(lgr.folded).id]
  <2>1. read \in [seq : Nat, id : Nat] /\ read.seq <= built
    BY NewestTyped DEF Entry, NoEntry, LedgerTyped
  <2>2. last' = [last EXCEPT ![p] = read]
    BY <1>2 DEF ReadFolded
  <2> HIDE DEF read
  <2> QED
    BY <1>2, <2>1, <2>2 DEF ReadFolded, LedgerTyped
<1>3. CASE ReadPending(p)
  <2> DEFINE read == IF lgr.pending = {} \/ Newest(lgr.pending).seq < last[p].seq THEN last[p]
                     ELSE [seq |-> Newest(lgr.pending).seq, id |-> Newest(lgr.pending).id]
  <2>1. read \in [seq : Nat, id : Nat] /\ read.seq <= built
    BY NewestTyped DEF Entry, LedgerTyped
  <2>2. last' = [last EXCEPT ![p] = read]
    BY <1>3 DEF ReadPending, LedgerTyped
  <2> HIDE DEF read
  <2> QED
    BY <1>3, <2>1, <2>2 DEF ReadPending, LedgerTyped
<1>4. CASE Link(p)
  <2> DEFINE e == [seq |-> last[p].seq + 1, id |-> built + 1, prev |-> last[p].id,
                   state |-> job[p].state, vouches |-> job[p].written]
  <2>1. e \in Entry /\ e.seq <= built + 1
    <3>1. job[p].state \in States /\ job[p].written \in Seq(Row)
      BY <1>4 DEF Link, JobTyped, Recording
    <3> QED
      BY <3>1 DEF LedgerTyped, Entry
  <2>2. /\ lgr' = [lgr EXCEPT !.pending = @ \cup {e}] /\ built' = built + 1
        /\ last' = [last EXCEPT ![p] = [seq |-> e.seq, id |-> e.id]] /\ head' = head
    BY <1>4 DEF Link
  <2>3. [seq |-> e.seq, id |-> e.id] \in [seq : Nat, id : Nat]
    BY <2>1 DEF Entry
  <2> HIDE DEF e
  <2>4. lgr' \in [Halves -> SUBSET Entry]
    BY <2>1, <2>2 DEF LedgerTyped, Halves
  <2>5. \A h \in Halves : \A f \in lgr'[h] : f.seq <= built + 1
    <3> SUFFICES ASSUME NEW h \in Halves, NEW f \in lgr'[h] PROVE f.seq <= built + 1
      OBVIOUS
    <3>1. f = e \/ f \in lgr[h]
      BY <2>2 DEF LedgerTyped, Halves
    <3>2. f \in lgr[h] => f.seq \in Nat /\ f.seq <= built /\ built \in Nat
      BY DEF LedgerTyped, Entry
    <3> QED
      BY <2>1, <3>1, <3>2
  <2>6. last' \in [Procs -> [seq : Nat, id : Nat]]
    BY <2>2, <2>3 DEF LedgerTyped
  <2>7. \A q \in Procs : last'[q].seq <= built + 1
    <3> SUFFICES ASSUME NEW q \in Procs PROVE last'[q].seq <= built + 1
      OBVIOUS
    <3>1. last[q].seq \in Nat /\ last[q].seq <= built /\ built \in Nat
      BY DEF LedgerTyped
    <3>2. last'[q] = IF q = p THEN [seq |-> e.seq, id |-> e.id] ELSE last[q]
      BY <2>2 DEF LedgerTyped
    <3> QED
      BY <2>1, <3>1, <3>2
  <2> QED
    BY <2>2, <2>4, <2>5, <2>6, <2>7 DEF LedgerTyped
<1>5. CASE LinkCollides(p)
  BY <1>5, EndLedger DEF LinkCollides
<1>6. CASE WriteHead(p)
  <2>1. head' \in [Halves -> Nat]
    BY <1>6 DEF WriteHead, LedgerTyped
  <2> QED
    BY <1>6, <2>1 DEF WriteHead, End, LedgerTyped, NoEntry
<1> QED
  BY <1>1, <1>2, <1>3, <1>4, <1>5, <1>6 DEF Record

LEMMA LedgerStep ==
    ASSUME Typed, NEW p \in Procs, Step(p) PROVE LedgerTyped'
<1>1. CASE Publish(p)
  BY <1>1, SameLedger DEF Publish, disk, Typed
<1>2. CASE PublishFails(p) \/ AppendFails(p) \/ Stop(p)
  BY <1>2, EndLedger DEF PublishFails, AppendFails, Stop, disk, Typed
<1> QED
  BY <1>1, <1>2, StartLedger, FoldLedger, RecordLedger DEF Step

-----------------------------------------------------------------------------
LEMMA GitStep ==
    ASSUME Typed, NEW p \in Procs, Step(p)
    PROVE  /\ GitTyped'
           /\ \A r \in Repos : made[r] <= made'[r] /\ pushed[r] <= pushed'[r]
<1> USE DEF Typed, disk, git
<1>1. CASE Commit(p)
  <2>1. PICK repos \in SUBSET {r \in Repos : made[r] < MaxCommits} :
           made' = [r \in Repos |-> IF r \in repos THEN made[r] + 1 ELSE made[r]]
    BY <1>1 DEF Commit
  <2> QED
    BY <1>1, <2>1, MemoryAssumption DEF Commit, GitTyped
<1>2. CASE Publish(p)
  BY <1>2, MemoryAssumption DEF Publish, GitTyped
<1>3. CASE PublishFails(p)
  <2>1. PICK failed \in Repos :
           pushed' = [r \in Repos |-> IF r < failed THEN made[r] ELSE pushed[r]]
    BY <1>3 DEF PublishFails
  <2> QED
    BY <1>3, <2>1, MemoryAssumption DEF PublishFails, GitTyped
<1>4. CASE UNCHANGED git
  BY <1>4, MemoryAssumption DEF GitTyped
<1>5. CASE Snapshot(p) \/ StartFold(p) \/ RefuseFold(p) \/ Repair(p)
  BY <1>4, <1>5 DEF Snapshot, StartFold, RefuseFold, Repair
<1>6. CASE Fold(p)
  BY <1>4, <1>6 DEF Fold, MoveEntry, MoveHead, RemoveLgr, MoveState, RemoveStates, FoldCommits,
                    FoldPublished, UnlinkLog, EndFold, FoldRaises
<1>7. CASE Record(p) \/ AppendFails(p) \/ Stop(p)
  BY <1>4, <1>7 DEF Record, WriteState, AskSeq, WriteCommits, WritePublications, RowsWritten,
                    ReadFolded, ReadPending, Link, LinkCollides, WriteHead, AppendFails, Stop
<1> QED
  BY <1>1, <1>2, <1>3, <1>5, <1>6, <1>7 DEF Step, Start

\* Commits and pushes only add to what a row may name.
LEMMA Lifted ==
    ASSUME GitTyped, \A r \in Repos : made[r] <= made'[r] /\ pushed[r] <= pushed'[r], GitTyped'
    PROVE  /\ Done \subseteq Done' /\ Public \subseteq Public'
           /\ Seq(Done) \subseteq Seq(Done') /\ Seq(Public) \subseteq Seq(Public')
           /\ Seq(RowsOf(Done)) \subseteq Seq([table : {"commit", "published"}, sha : Done', entry : Nat])
           /\ Seq(RowsOf(Public)) \subseteq Seq([table : {"commit", "published"}, sha : Public', entry : Nat])
<1>1. Done \subseteq Done' /\ Public \subseteq Public'
  <2>1. ASSUME NEW sha \in Sha
        PROVE  /\ sha.nr <= made[sha.repo] => sha.nr <= made'[sha.repo]
               /\ sha.nr <= pushed[sha.repo] => sha.nr <= pushed'[sha.repo]
    <3>1. sha.nr \in Nat /\ sha.repo \in Repos
      BY MemoryAssumption DEF Sha
    <3>2. /\ made[sha.repo] \in Nat /\ pushed[sha.repo] \in Nat
          /\ made'[sha.repo] \in Nat /\ pushed'[sha.repo] \in Nat
      BY <3>1, MemoryAssumption DEF GitTyped
    <3>3. made[sha.repo] <= made'[sha.repo] /\ pushed[sha.repo] <= pushed'[sha.repo]
      BY <3>1
    <3> QED
      BY <3>1, <3>2, <3>3
  <2> QED
    BY <2>1 DEF Done, Public, Sha
<1>2. /\ RowsOf(Done) \subseteq [table : {"commit", "published"}, sha : Done', entry : Nat]
      /\ RowsOf(Public) \subseteq [table : {"commit", "published"}, sha : Public', entry : Nat]
  BY <1>1 DEF RowsOf
<1> QED
  BY <1>1, <1>2, SeqMonotonic

LEMMA SameLog ==
    ASSUME Typed, NEW p \in Procs, Step(p), log' = log
    PROVE  LogTyped'
<1>1. /\ Seq(RowsOf(Done)) \subseteq Seq([table : {"commit", "published"}, sha : Done', entry : Nat])
      /\ Seq(RowsOf(Public)) \subseteq Seq([table : {"commit", "published"}, sha : Public', entry : Nat])
  BY GitStep, Lifted DEF Typed
<1> DEFINE A == [commit : Seq(RowsOf(Done)), published : Seq(RowsOf(Public))]
           B == [commit : Seq([table : {"commit", "published"}, sha : Done', entry : Nat]),
                 published : Seq([table : {"commit", "published"}, sha : Public', entry : Nat])]
<1>2. A \subseteq B
  BY <1>1
<1>3. log \in [Halves -> [States -> A]]
  BY DEF Typed, LogTyped
<1> HIDE DEF A, B
<1>4. log \in [Halves -> [States -> B]]
  BY <1>2, <1>3
<1> QED
  BY <1>4 DEF B, LogTyped, RowsOf

LEMMA MinLogs ==
    ASSUME Logs # {} PROVE Min(Logs) \in Logs /\ Min(Logs) \in States
<1>1. Logs \in SUBSET States
  BY DEF Logs
<1> QED
  BY <1>1, Least, MemoryAssumption DEF States

\* The rows written for some commits name those commits.
LEMMA RowsForTyped ==
    ASSUME NEW p \in Procs, job[p].seq \in Nat, NEW D, NEW shas \in Seq(D),
           NEW table \in {"commit", "published"}
    PROVE  /\ RowsFor(p, table, shas) \in Seq(RowsOf(D))
           /\ Len(RowsFor(p, table, shas)) = Len(shas)
<1> DEFINE rows == RowsFor(p, table, shas)
<1>1. Len(shas) \in Nat /\ DOMAIN shas = 1..Len(shas) /\ \A i \in 1..Len(shas) : shas[i] \in D
  BY LenProperties, ElementOfSeq
<1>2. rows \in [1..Len(shas) -> RowsOf(D)]
  BY <1>1 DEF RowsFor, RowsOf
<1> HIDE DEF rows
<1>3. rows \in Seq(RowsOf(D)) /\ Len(rows) = Len(shas)
  BY <1>1, <1>2, Functional
<1> QED
  BY <1>3 DEF rows

LEMMA PutCommit ==
    ASSUME NEW C, NEW P, NEW f \in [Halves -> [States -> [commit : C, published : P]]],
           NEW h \in Halves, NEW s, NEW x, s \in States => x \in C
    PROVE  [f EXCEPT ![h][s].commit = x] \in [Halves -> [States -> [commit : C, published : P]]]
<1>1. f[h] \in [States -> [commit : C, published : P]]
  OBVIOUS
<1>2. [f[h] EXCEPT ![s].commit = x] \in [States -> [commit : C, published : P]]
  BY <1>1
<1> QED
  BY <1>2

LEMMA PutPublished ==
    ASSUME NEW C, NEW P, NEW f \in [Halves -> [States -> [commit : C, published : P]]],
           NEW h \in Halves, NEW s, NEW x, s \in States => x \in P
    PROVE  [f EXCEPT ![h][s].published = x] \in [Halves -> [States -> [commit : C, published : P]]]
<1>1. f[h] \in [States -> [commit : C, published : P]]
  OBVIOUS
<1>2. [f[h] EXCEPT ![s].published = x] \in [States -> [commit : C, published : P]]
  BY <1>1
<1> QED
  BY <1>2

LEMMA LogStep ==
    ASSUME Typed, NEW p \in Procs, Step(p) PROVE LogTyped'
<1> DEFINE C == Seq(RowsOf(Done))
           P == Seq(RowsOf(Public))
<1>1. log \in [Halves -> [States -> [commit : C, published : P]]]
  BY DEF Typed, LogTyped
<1>2. /\ \A a, b \in C : a \o b \in C
      /\ \A a, b \in P : a \o b \in P
  BY ConcatProperties
<1>3. ASSUME UNCHANGED git, log' \in [Halves -> [States -> [commit : C, published : P]]]
      PROVE  LogTyped'
  <2>1. Done' = Done /\ Public' = Public
    BY <1>3 DEF git, Done, Public
  <2> QED
    BY <1>3, <2>1 DEF LogTyped, RowsOf
<1>4. CASE FoldCommits(p)
  <2>1. log' = [log EXCEPT !.folded[Min(Logs)].commit = @ \o log.pending[Min(Logs)].commit]
    BY <1>4 DEF FoldCommits
  <2> DEFINE m == Min(Logs)
             x == log.folded[m].commit \o log.pending[m].commit
  <2> HIDE DEF C, P
  <2>2. log' \in [Halves -> [States -> [commit : C, published : P]]]
    <3>1. log' = [log EXCEPT !["folded"][m].commit = x]
      BY <2>1
    <3> HIDE DEF m
    <3>2. m \in States => x \in C
      BY <1>1, <1>2 DEF Halves
    <3> HIDE DEF x
    <3> QED
      BY <1>1, <3>1, <3>2, PutCommit DEF Halves
  <2> QED
    BY <1>3, <1>4, <2>2 DEF FoldCommits
<1>5. CASE FoldPublished(p)
  <2>1. log' = [log EXCEPT !.folded[Min(Logs)].published = @ \o log.pending[Min(Logs)].published]
    BY <1>5 DEF FoldPublished
  <2> DEFINE m == Min(Logs)
             x == log.folded[m].published \o log.pending[m].published
  <2> HIDE DEF C, P
  <2>2. log' \in [Halves -> [States -> [commit : C, published : P]]]
    <3>1. log' = [log EXCEPT !["folded"][m].published = x]
      BY <2>1
    <3> HIDE DEF m
    <3>2. m \in States => x \in P
      BY <1>1, <1>2 DEF Halves
    <3> HIDE DEF x
    <3> QED
      BY <1>1, <3>1, <3>2, PutPublished DEF Halves
  <2> QED
    BY <1>3, <1>5, <2>2 DEF FoldPublished
<1>6. CASE UnlinkLog(p)
  <2>1. log' = [log EXCEPT !.pending[Min(Logs)] = NoLog]
    BY <1>6 DEF UnlinkLog
  <2>2. NoLog \in [commit : C, published : P]
    BY EmptySeq DEF NoLog
  <2> HIDE DEF C, P
  <2>3. log' \in [Halves -> [States -> [commit : C, published : P]]]
    BY <1>1, <2>1, <2>2 DEF Halves
  <2> QED
    BY <1>3, <1>6, <2>3 DEF UnlinkLog
<1>7. CASE WriteCommits(p)
  <2> DEFINE rows == RowsFor(p, "commit", job[p].commits)
  <2>1. log' = [log EXCEPT !.pending[job[p].state].commit = @ \o rows]
    BY <1>7 DEF WriteCommits
  <2>2. rows \in C
    BY RowsForTyped DEF Typed, JobTyped
  <2> DEFINE m == job[p].state
             x == log.pending[m].commit \o rows
  <2> HIDE DEF C, P, rows
  <2>3. log' \in [Halves -> [States -> [commit : C, published : P]]]
    <3>1. log' = [log EXCEPT !["pending"][m].commit = x]
      BY <2>1
    <3> HIDE DEF m
    <3>2. m \in States => x \in C
      BY <1>1, <1>2, <2>2 DEF Halves
    <3> HIDE DEF x
    <3> QED
      BY <1>1, <3>1, <3>2, PutCommit DEF Halves
  <2> QED
    BY <1>3, <1>7, <2>3 DEF WriteCommits
<1>8. CASE WritePublications(p)
  <2> DEFINE s == Min(Due(p))
             rows == RowsFor(p, "published", job[p].pubs[s])
  <2>1. log' = [log EXCEPT !.pending[s].published = @ \o rows]
    BY <1>8 DEF WritePublications
  <2>2. s \in States => rows \in P
    BY RowsForTyped DEF Typed, JobTyped
  <2> DEFINE x == log.pending[s].published \o rows
  <2> HIDE DEF C, P, rows, s
  <2>3. log' \in [Halves -> [States -> [commit : C, published : P]]]
    <3>1. log' = [log EXCEPT !["pending"][s].published = x]
      BY <2>1
    <3>2. s \in States => x \in P
      BY <1>1, <1>2, <2>2 DEF Halves
    <3> HIDE DEF x
    <3> QED
      BY <1>1, <3>1, <3>2, PutPublished DEF Halves
  <2> QED
    BY <1>3, <1>8, <2>3 DEF WritePublications
<1>9. CASE log' = log
  BY <1>9, SameLog
<1>10. CASE Start(p) \/ Publish(p) \/ PublishFails(p) \/ AppendFails(p) \/ Stop(p)
  BY <1>9, <1>10 DEF Start, Commit, Snapshot, StartFold, RefuseFold, Repair, disk,
                     Publish, PublishFails, AppendFails, Stop
<1>11. CASE \/ MoveEntry(p) \/ MoveHead(p) \/ RemoveLgr(p) \/ MoveState(p) \/ RemoveStates(p)
            \/ EndFold(p) \/ FoldRaises(p)
  BY <1>9, <1>11 DEF MoveEntry, MoveHead, RemoveLgr, MoveState, RemoveStates, EndFold, FoldRaises, disk
<1>12. CASE \/ WriteState(p) \/ AskSeq(p) \/ RowsWritten(p) \/ ReadFolded(p) \/ ReadPending(p)
            \/ Link(p) \/ LinkCollides(p) \/ WriteHead(p)
  BY <1>9, <1>12 DEF WriteState, AskSeq, RowsWritten, ReadFolded, ReadPending, Link, LinkCollides,
                     WriteHead, disk
<1> QED
  BY <1>4, <1>5, <1>6, <1>7, <1>8, <1>10, <1>11, <1>12 DEF Step, Fold, Record

-----------------------------------------------------------------------------
\* What a log owes to the remote are commits that were made (unpublished_commits).
LEMMA UnpublishedTyped ==
    ASSUME LogTyped, NEW h \in Halves, NEW s \in States, NEW r
    PROVE  Unpublished(h, s, r) \in Seq(Done)
<1> DEFINE rows == log[h][s].commit
           Owed(sha) == /\ sha.repo = r
                        /\ \A q \in ToSet(log[h][s].published) : q.sha # sha
           each == [i \in DOMAIN rows |-> IF Owed(rows[i].sha) THEN << rows[i].sha >> ELSE <<>>]
<1>1. rows \in Seq(RowsOf(Done))
  BY DEF LogTyped
<1> HIDE DEF rows, Owed
<1>2. /\ Len(rows) \in Nat /\ DOMAIN rows = 1..Len(rows)
      /\ \A i \in 1..Len(rows) : rows[i].sha \in Done
  <2>1. /\ Len(rows) \in Nat /\ DOMAIN rows = 1..Len(rows)
        /\ rows \in [1..Len(rows) -> RowsOf(Done)]
    BY <1>1, LenProperties
  <2> QED
    BY <2>1 DEF RowsOf
<1>3. each \in [1..Len(rows) -> Seq(Done)]
  BY <1>2
<1> HIDE DEF each
<1>4. FlattenSeq(each) \in Seq(Done)
  BY <1>2, <1>3, FlatSeq
<1> QED
  BY <1>4 DEF Unpublished, each, rows, Owed

LEMMA PublicationsTyped ==
    ASSUME LogTyped, NEW s \in States
    PROVE  Publications(s) \in Seq(Done)
<1> DEFINE each == [r \in Repos |->
                      IF made[r] > pushed[r]
                      THEN Unpublished("folded", s, r) \o Unpublished("pending", s, r)
                      ELSE <<>>]
<1>1. \A r : Unpublished("folded", s, r) \in Seq(Done) /\ Unpublished("pending", s, r) \in Seq(Done)
  BY UnpublishedTyped DEF Halves
<1>2. \A r : Unpublished("folded", s, r) \o Unpublished("pending", s, r) \in Seq(Done)
  BY <1>1, ConcatProperties
<1>3. each \in [1..NRepos -> Seq(Done)]
  BY <1>2, EmptySeq DEF Repos
<1> HIDE DEF each
<1>4. FlattenSeq(each) \in Seq(Done)
  BY <1>3, FlatSeq, MemoryAssumption
<1> QED
  BY <1>4 DEF Publications, each

LEMMA JobStep ==
    ASSUME Typed, NEW p \in Procs, Step(p) PROVE JobTyped'
<1> DEFINE A == [state : Nat, commits : Seq(Done), pubs : [States -> Seq(Public)],
                 seq : Nat, written : Seq(Row)]
           B == [state : Nat, commits : Seq(Done'), pubs : [States -> Seq(Public')],
                 seq : Nat, written : Seq(Row)]
<1>1. job \in [Procs -> A]
  BY DEF Typed, JobTyped
<1>2. A \subseteq B
  <2>1. Seq(Done) \subseteq Seq(Done') /\ Seq(Public) \subseteq Seq(Public')
    BY GitStep, Lifted DEF Typed
  <2>2. [States -> Seq(Public)] \subseteq [States -> Seq(Public')]
    BY <2>1
  <2> QED
    BY <2>1, <2>2
<1>3. NoJob \in B
  <2>1. \A S : <<>> \in Seq(S)
    BY EmptySeq
  <2> QED
    BY <2>1 DEF NoJob, Job, NoPubs
<1>4. job \in [Procs -> B]
  <2> HIDE DEF A, B
  <2> QED
    BY <1>1, <1>2
<1>5. \A q \in Procs : at[q] \in Recording => job[q].state \in States
  BY DEF Typed, JobTyped
<1>6. at \in [Procs -> Steps]
  BY DEF Typed, ControlTyped
<1>7. ASSUME job' \in [Procs -> B], \A q \in Procs : at'[q] \in Recording => job'[q].state \in States
      PROVE  JobTyped'
  BY <1>7 DEF JobTyped
<1> HIDE DEF A, B
<1>8. ASSUME NEW x \in B, job' = [job EXCEPT ![p] = x], NEW step, Go(p, step),
             step \in Recording => x.state \in States
      PROVE  JobTyped'
  <2>1. job' \in [Procs -> B]
    BY <1>4, <1>8
  <2>2. \A q \in Procs : at'[q] \in Recording => job'[q].state \in States
    BY <1>4, <1>5, <1>6, <1>8 DEF Go
  <2> QED
    BY <1>7, <2>1, <2>2
<1>9. ASSUME job' = job, NEW step, Go(p, step), step \in Recording => job[p].state \in States
      PROVE  JobTyped'
  <2>1. \A q \in Procs : at'[q] \in Recording => job'[q].state \in States
    BY <1>5, <1>6, <1>9 DEF Go
  <2> QED
    BY <1>4, <1>7, <1>9, <2>1
<1>10. ASSUME job' = job, at' = at PROVE JobTyped'
  BY <1>4, <1>5, <1>7, <1>10
<1>11. ASSUME End(p) PROVE JobTyped'
  BY <1>3, <1>8, <1>11 DEF End, Recording
<1>12. \A s \in States : s \in Nat
  BY MemoryAssumption DEF States
<1>13. \A S : <<>> \in Seq(S)
  BY EmptySeq
<1>14. NoPubs \in [States -> Seq(Public')]
  BY <1>13 DEF NoPubs
<1>15. CASE Commit(p)
  <2>1. PICK repos \in SUBSET {r \in Repos : made[r] < MaxCommits}, s \in States :
          /\ made' = [r \in Repos |-> IF r \in repos THEN made[r] + 1 ELSE made[r]]
          /\ job' = [job EXCEPT ![p] =
                       Job(s, FlattenSeq([r \in Repos |-> IF r \in repos
                              THEN << [repo |-> r, nr |-> made'[r]] >> ELSE <<>>]), NoPubs)]
    BY <1>15 DEF Commit
  <2> DEFINE shas == [r \in Repos |-> IF r \in repos
                                     THEN << [repo |-> r, nr |-> made'[r]] >> ELSE <<>>]
             x == Job(s, FlattenSeq(shas), NoPubs)
  <2>2. \A r \in repos : [repo |-> r, nr |-> made'[r]] \in Done'
    <3>1. \A r \in repos : made'[r] = made[r] + 1 /\ made[r] < MaxCommits /\ made[r] \in Nat
      BY <2>1, MemoryAssumption DEF Typed, GitTyped
    <3> QED
      BY <3>1, MemoryAssumption DEF Done, Sha
  <2>3. shas \in [1..NRepos -> Seq(Done')]
    <3>1. PICK D : D = Done'
      OBVIOUS
    <3>2. shas \in [1..NRepos -> Seq(D)]
      BY <2>2, <3>1, <1>13 DEF Repos
    <3> QED
      BY <3>1, <3>2
  <2> HIDE DEF shas
  <2>4. FlattenSeq(shas) \in Seq(Done')
    <3>1. PICK D : D = Done'
      OBVIOUS
    <3>2. FlattenSeq(shas) \in Seq(D)
      BY <2>3, <3>1, FlatSeq, MemoryAssumption
    <3> QED
      BY <3>1, <3>2
  <2>5. x \in B /\ x.state = s
    BY <2>4, <1>12, <1>13, <1>14 DEF Job, B
  <2>6. job' = [job EXCEPT ![p] = x]
    BY <2>1 DEF shas
  <2> HIDE DEF x
  <2> QED
    BY <1>8, <1>15, <2>5, <2>6 DEF Commit
<1>16. CASE Snapshot(p)
  <2>1. PICK s \in States : job' = [job EXCEPT ![p] = Job(s, <<>>, NoPubs)]
    BY <1>16 DEF Snapshot
  <2>2. Job(s, <<>>, NoPubs) \in B /\ Job(s, <<>>, NoPubs).state = s
    BY <1>12, <1>13, <1>14 DEF Job, B
  <2> QED
    BY <1>8, <1>16, <2>1, <2>2 DEF Snapshot
<1>17. CASE StartFold(p) \/ RefuseFold(p) \/ Repair(p)
  BY <1>9, <1>10, <1>17 DEF StartFold, RefuseFold, Repair, Recording
<1>18. CASE MoveEntry(p) \/ MoveHead(p) \/ MoveState(p)
  BY <1>10, <1>18 DEF MoveEntry, MoveHead, MoveState
<1>19. CASE \/ RemoveLgr(p) \/ RemoveStates(p) \/ FoldCommits(p) \/ FoldPublished(p) \/ UnlinkLog(p)
  BY <1>9, <1>19 DEF RemoveLgr, RemoveStates, FoldCommits, FoldPublished, UnlinkLog, Recording
<1>20. CASE EndFold(p) \/ FoldRaises(p)
  BY <1>9, <1>11, <1>20 DEF EndFold, FoldRaises, Recording
<1>21. CASE Publish(p)
  <2>1. PICK s \in States : job' = [job EXCEPT ![p] = Job(s, <<>>, [t \in States |-> Publications(t)])]
    BY <1>21 DEF Publish
  <2> DEFINE x == Job(s, <<>>, [t \in States |-> Publications(t)])
  <2>2. Done = Public'
    BY <1>21 DEF Publish, Done, Public
  <2>3. [t \in States |-> Publications(t)] \in [States -> Seq(Public')]
    BY <2>2, PublicationsTyped DEF Typed
  <2>4. x \in B /\ x.state = s
    BY <1>12, <1>13, <2>3 DEF Job, B
  <2> HIDE DEF x
  <2> QED
    BY <1>8, <1>21, <2>1, <2>4 DEF Publish, x
<1>22. CASE WriteState(p)
  <2>1. job[p].state \in States
    BY <1>5, <1>22 DEF WriteState, Recording
  <2> QED
    BY <1>9, <1>22, <2>1 DEF WriteState
<1>23. CASE AskSeq(p)
  <2> DEFINE n == IF Entries = {} THEN 1 ELSE Newest(Entries).seq + 1
             x == [job[p] EXCEPT !.seq = n]
  <2>1. n \in Nat
    BY NewestTyped DEF Typed, Entry
  <2>2. job' = [job EXCEPT ![p] = x]
    BY <1>23 DEF AskSeq
  <2> HIDE DEF n
  <2>3. x \in B /\ x.state = job[p].state
    BY <1>4, <2>1 DEF B
  <2>4. job[p].state \in States
    BY <1>5, <1>23 DEF AskSeq, Recording
  <2> HIDE DEF x
  <2> QED
    BY <1>8, <1>23, <2>2, <2>3, <2>4 DEF AskSeq
<1>24. ASSUME NEW D \in SUBSET Sha, NEW shas \in Seq(D), NEW table \in {"commit", "published"}
       PROVE  RowsFor(p, table, shas) \in Seq(Row)
  <2>1. RowsFor(p, table, shas) \in Seq(RowsOf(D))
    BY RowsForTyped DEF Typed, JobTyped
  <2>2. RowsOf(D) \subseteq Row
    BY DEF RowsOf, Row
  <2> QED
    BY <2>1, <2>2, SeqMonotonic
<1>25. Done \in SUBSET Sha /\ Public \in SUBSET Sha
  BY DEF Done, Public
<1>26. CASE WriteCommits(p)
  <2> DEFINE rows == RowsFor(p, "commit", job[p].commits)
             x == [job[p] EXCEPT !.written = rows]
  <2>1. rows \in Seq(Row)
    BY <1>1, <1>24, <1>25 DEF A
  <2>2. job' = [job EXCEPT ![p] = x]
    BY <1>26 DEF WriteCommits
  <2> HIDE DEF rows
  <2>3. x \in B /\ x.state = job[p].state
    BY <1>4, <2>1 DEF B
  <2>4. job[p].state \in States
    BY <1>5, <1>26 DEF WriteCommits, Recording
  <2> HIDE DEF x
  <2> QED
    BY <1>8, <1>26, <2>2, <2>3, <2>4 DEF WriteCommits
<1>27. CASE WritePublications(p)
  <2> DEFINE s == Min(Due(p))
             rows == RowsFor(p, "published", job[p].pubs[s])
             x == [job[p] EXCEPT !.written = @ \o rows, !.pubs[s] = <<>>]
  <2>1. s \in States
    <3>1. Due(p) \in SUBSET States
      BY DEF Due
    <3> QED
      BY <1>27, <3>1, Least, MemoryAssumption DEF States, WritePublications
  <2>2. job' = [job EXCEPT ![p] = x]
    BY <1>1, <1>27 DEF WritePublications, A
  <2> HIDE DEF s
  <2>3. rows \in Seq(Row)
    BY <1>1, <1>24, <1>25, <2>1 DEF A
  <2> HIDE DEF rows
  <2>4. job[p].written \o rows \in Seq(Row)
    BY <1>1, <2>3, ConcatProperties DEF A
  <2>5. x \in B /\ x.state = job[p].state
    BY <1>4, <1>13, <2>4 DEF B
  <2>6. job[p].state \in States
    BY <1>5, <1>27 DEF WritePublications, Recording
  <2> HIDE DEF x
  <2>7. Go(p, "publications")
    BY <1>6, <1>27 DEF WritePublications, Go
  <2> QED
    BY <1>8, <2>2, <2>5, <2>6, <2>7
<1>28. CASE RowsWritten(p) \/ ReadFolded(p) \/ ReadPending(p)
  BY <1>5, <1>9, <1>28 DEF RowsWritten, ReadFolded, ReadPending, Recording, disk
<1>29. CASE Link(p)
  BY <1>9, <1>29 DEF Link, Recording
<1>30. CASE LinkCollides(p) \/ WriteHead(p) \/ PublishFails(p) \/ AppendFails(p) \/ Stop(p)
  BY <1>11, <1>30 DEF LinkCollides, WriteHead, PublishFails, AppendFails, Stop
<1> QED
  BY <1>15, <1>16, <1>17, <1>18, <1>19, <1>20, <1>21, <1>22, <1>23, <1>26, <1>27, <1>28, <1>29, <1>30
     DEF Step, Start, Fold, Record

LEMMA TypedStep ==
    ASSUME Typed, [Next]_vars PROVE Typed'
<1>1. CASE Next
  <2>1. PICK p \in Procs : Step(p)
    BY <1>1 DEF Next, Step
  <2> QED
    BY <2>1, ControlStep, LedgerStep, GitStep, LogStep, JobStep DEF Typed
<1>2. CASE UNCHANGED vars
  <2>1. Done' = Done /\ Public' = Public
    BY <1>2 DEF vars, git, Done, Public
  <2> QED
    BY <1>2, <2>1 DEF vars, disk, git, Typed, ControlTyped, LedgerTyped, GitTyped, LogTyped, JobTyped,
                      RowsOf
<1> QED
  BY <1>1, <1>2

LEMMA TypedAlways == Spec => []Typed
<1>1. Typed /\ [Next]_vars => Typed'
  BY TypedStep
<1> QED
  BY <1>1, TypedInit, PTL DEF Spec

\* Every variable keeps its type, whoever takes the lock and whatever fails
\* (PendingMemory, LedgerStore, CommitLog).
THEOREM MemoryTypeOK == Spec => []TypeOK
BY TypedAlways, TypedTypeOK, PTL

\* A publication row names a commit its remote has: of a push that fails midway,
\* nothing is recorded (_collect_publication_records, TreeSweep).
THEOREM LogNeverOverclaims == Spec => []NeverOverclaims
<1>1. Typed => NeverOverclaims
  <2> SUFFICES ASSUME Typed, NEW h \in Halves, NEW s \in States, NEW row \in ToSet(log[h][s].published)
               PROVE  row.sha.nr <= pushed[row.sha.repo]
    BY DEF NeverOverclaims
  <2> DEFINE rows == log[h][s].published
  <2>1. rows \in Seq(RowsOf(Public))
    BY DEF Typed, LogTyped
  <2>2. rows \in [1..Len(rows) -> RowsOf(Public)] /\ DOMAIN rows = 1..Len(rows)
    BY <2>1, LenProperties
  <2>3. \A i \in DOMAIN rows : rows[i] \in RowsOf(Public)
    BY <2>2
  <2>4. row \in RowsOf(Public)
    BY <2>3 DEF ToSet
  <2> QED
    BY <2>4 DEF RowsOf, Public
<1> QED
  BY <1>1, TypedAlways, PTL

-----------------------------------------------------------------------------
(* One number, one entry                                                    *)

\* One number is one entry within the pending half, even for commands that race for
\* it without a lock: the link into place refuses a name that exists
\* (LedgerStore.write_entry).
THEOREM PendingUnique == Spec => []PendingSeqsUnique
<1> DEFINE Inv == PendingSeqsUnique /\ lgr = [h \in Halves |-> lgr[h]]
<1>1. Init => Inv
  BY DEF Init, PendingSeqsUnique, Halves
<1>2. Inv /\ [Next]_vars => Inv'
  <2> SUFFICES ASSUME Inv, [Next]_vars PROVE Inv'
    OBVIOUS
  <2>1. CASE lgr' = lgr
    BY <2>1 DEF PendingSeqsUnique
  <2>2. ASSUME NEW p \in Procs, MoveEntry(p) PROVE Inv'
    <3>1. PICK n : LET moved == {e \in lgr.pending : e.seq = n}
                   IN lgr' = [folded  |-> {e \in lgr.folded : e.seq # n} \cup moved,
                              pending |-> lgr.pending \ moved]
      BY <2>2 DEF MoveEntry
    <3> QED
      BY <3>1 DEF PendingSeqsUnique, Halves
  <2>3. ASSUME NEW p \in Procs, Link(p) PROVE Inv'
    <3> DEFINE e == [seq |-> last[p].seq + 1, id |-> built + 1, prev |-> last[p].id,
                     state |-> job[p].state, vouches |-> job[p].written]
    <3>1. lgr' = [lgr EXCEPT !.pending = @ \cup {e}]
      BY <2>3 DEF Link
    <3>2. \A f \in lgr.pending : f.seq # e.seq
      BY <2>3 DEF Link, Collides
    <3> HIDE DEF e
    <3> QED
      BY <3>1, <3>2 DEF PendingSeqsUnique, Halves
  <2>4. ASSUME NEW p \in Procs, Step(p), ~MoveEntry(p), ~Link(p) PROVE lgr' = lgr
    <3>1. CASE Start(p) \/ Publish(p) \/ PublishFails(p) \/ AppendFails(p) \/ Stop(p)
      BY <3>1 DEF Start, Commit, Snapshot, StartFold, RefuseFold, Repair, disk,
                  Publish, PublishFails, AppendFails, Stop
    <3>2. CASE Fold(p)
      BY <2>4, <3>2 DEF Fold, MoveHead, RemoveLgr, MoveState, RemoveStates, FoldCommits,
                        FoldPublished, UnlinkLog, EndFold, FoldRaises, disk
    <3>3. CASE Record(p)
      BY <2>4, <3>3 DEF Record, WriteState, AskSeq, WriteCommits, WritePublications, RowsWritten,
                        ReadFolded, ReadPending, LinkCollides, WriteHead, disk
    <3> QED
      BY <2>4, <3>1, <3>2, <3>3 DEF Step
  <2>5. CASE UNCHANGED vars
    BY <2>1, <2>5 DEF vars, disk
  <2> HIDE DEF Inv
  <2> QED
    BY <2>1, <2>2, <2>3, <2>4, <2>5 DEF Next, Step
<1> QED
  BY <1>1, <1>2, PTL DEF Spec

-----------------------------------------------------------------------------
(* Rows are kept                                                            *)

\* Commands that take the lock run one at a time.
Serial == \A p, q \in Locked : at[p] # "idle" /\ at[q] # "idle" => p = q

\* The methods that take no lock never record a commit or a publication.
FreeWritesNoRows ==
    \A p \in Free :
        /\ at[p] \in {"idle", "state", "read_folded", "read_pending", "link", "head"}
        /\ job[p].commits = <<>> /\ job[p].pubs = NoPubs

\* A pending log is unlinked only when the folded one has its rows.
Copied ==
    \A p \in Procs :
        /\ at[p] \in {"log_published", "unlink_log"} =>
              /\ Logs # {}
              /\ ToSet(log.pending[Min(Logs)].commit) \subseteq ToSet(log.folded[Min(Logs)].commit)
        /\ at[p] = "unlink_log" =>
              ToSet(log.pending[Min(Logs)].published) \subseteq ToSet(log.folded[Min(Logs)].published)

RowsInv == Typed /\ Serial /\ FreeWritesNoRows /\ Copied

\* A step of p is a step of nobody else.
LEMMA Local ==
    ASSUME Typed, NEW p \in Procs, Step(p)
    PROVE  /\ \A q \in Procs : q # p => at'[q] = at[q] /\ job'[q] = job[q]
           /\ at[p] # "idle" \/ MayStart(p)
<1> USE DEF Typed, ControlTyped, JobTyped, Go, disk
<1>1. CASE Start(p)
  BY <1>1 DEF Start, Commit, Snapshot, StartFold, RefuseFold, Repair
<1>2. CASE Fold(p)
  BY <1>2 DEF Fold, MoveEntry, MoveHead, RemoveLgr, MoveState, RemoveStates, FoldCommits, FoldPublished,
              UnlinkLog, EndFold, FoldRaises, LgrMoved, StatesMoved, LogsMerged, End
<1>3. CASE Publish(p) \/ PublishFails(p) \/ AppendFails(p) \/ Stop(p)
  BY <1>3 DEF Publish, PublishFails, AppendFails, Stop, End
<1>4. CASE Record(p)
  BY <1>4 DEF Record, WriteState, AskSeq, WriteCommits, WritePublications, RowsWritten,
              ReadFolded, ReadPending, Link, LinkCollides, WriteHead, End
<1> QED
  BY <1>1, <1>2, <1>3, <1>4 DEF Step

LEMMA SerialStep ==
    ASSUME Typed, Serial, NEW p \in Procs, Step(p) PROVE Serial'
BY Local DEF Serial, MayStart, Locked

LEMMA FreeStep ==
    ASSUME Typed, FreeWritesNoRows, NEW p \in Free, Step(p)
    PROVE  /\ log' = log /\ pushed' = pushed /\ made' = made
           /\ at'[p] \in {"idle", "state", "read_folded", "read_pending", "link", "head"}
           /\ job'[p].commits = <<>> /\ job'[p].pubs = NoPubs
<1> USE DEF Typed, ControlTyped, JobTyped, Go, disk, git, NoJob, Job
<1>1. p \in Procs /\ p \notin Locked
  BY MemoryAssumption DEF Locked
<1>2. /\ at[p] \in {"idle", "state", "read_folded", "read_pending", "link", "head"}
      /\ job[p].commits = <<>> /\ job[p].pubs = NoPubs
  BY DEF FreeWritesNoRows
<1>3. CASE Start(p)
  <2>1. Snapshot(p)
    BY <1>1, <1>3 DEF Start, Commit, StartFold, RefuseFold, Repair
  <2> QED
    BY <1>1, <2>1 DEF Snapshot
<1>4. ~Fold(p)
  BY <1>2 DEF Fold, MoveEntry, MoveHead, RemoveLgr, MoveState, RemoveStates, FoldCommits, FoldPublished,
              UnlinkLog, EndFold, FoldRaises, LgrMoved, StatesMoved, LogsMerged
<1>5. ~Publish(p) /\ ~PublishFails(p)
  BY <1>2 DEF Publish, PublishFails
<1>6. CASE AppendFails(p) \/ Stop(p)
  BY <1>1, <1>6 DEF AppendFails, Stop, End
<1>7. CASE Record(p)
  <2>1. CASE WriteState(p)
    BY <1>1, <1>2, <2>1 DEF WriteState
  <2>2. CASE ReadFolded(p) \/ ReadPending(p) \/ Link(p)
    BY <1>1, <1>2, <2>2 DEF ReadFolded, ReadPending, Link
  <2>3. CASE LinkCollides(p) \/ WriteHead(p)
    BY <1>1, <2>3 DEF LinkCollides, WriteHead, End
  <2> QED
    BY <1>2, <1>7, <2>1, <2>2, <2>3 DEF Record, AskSeq, WriteCommits, WritePublications, RowsWritten
<1> QED
  BY <1>3, <1>4, <1>5, <1>6, <1>7 DEF Step

LEMMA FreeWritesNoRowsStep ==
    ASSUME Typed, FreeWritesNoRows, NEW p \in Procs, Step(p) PROVE FreeWritesNoRows'
BY FreeStep, Local, MemoryAssumption DEF FreeWritesNoRows

\* Who writes or moves rows.
RowWriter(p) ==
    FoldCommits(p) \/ FoldPublished(p) \/ UnlinkLog(p) \/ WriteCommits(p) \/ WritePublications(p)

LEMMA LogFrame ==
    ASSUME NEW p \in Procs, Step(p), ~RowWriter(p) PROVE log' = log
<1>1. CASE Start(p) \/ Publish(p) \/ PublishFails(p) \/ AppendFails(p) \/ Stop(p)
  BY <1>1 DEF Start, Commit, Snapshot, StartFold, RefuseFold, Repair, disk,
              Publish, PublishFails, AppendFails, Stop
<1>2. CASE \/ MoveEntry(p) \/ MoveHead(p) \/ RemoveLgr(p) \/ MoveState(p) \/ RemoveStates(p)
           \/ EndFold(p) \/ FoldRaises(p)
  BY <1>2 DEF MoveEntry, MoveHead, RemoveLgr, MoveState, RemoveStates, EndFold, FoldRaises, disk
<1>3. CASE \/ WriteState(p) \/ AskSeq(p) \/ RowsWritten(p) \/ ReadFolded(p) \/ ReadPending(p)
           \/ Link(p) \/ LinkCollides(p) \/ WriteHead(p)
  BY <1>3 DEF WriteState, AskSeq, RowsWritten, ReadFolded, ReadPending, Link, LinkCollides,
              WriteHead, disk
<1> QED
  BY <1>1, <1>2, <1>3 DEF Step, Fold, Record, RowWriter

\* Tables are sequences of rows.
LEMMA Tables ==
    ASSUME Typed
    PROVE  /\ log \in [Halves -> [States -> [commit : Seq(Row), published : Seq(Row)]]]
           /\ \A a, b \in Seq(Row) : ToSet(a \o b) = ToSet(a) \cup ToSet(b)
<1>1. \A a, b \in Seq(Row) : ToSet(a \o b) = ToSet(a) \cup ToSet(b)
  BY ToSetConcat
<1> QED
  BY <1>1, TypedTypeOK DEF TypeOK

LEMMA CopiedStep ==
    ASSUME RowsInv, NEW p \in Procs, Step(p) PROVE Copied'
<1> SUFFICES ASSUME NEW q \in Procs, at'[q] \in {"log_published", "unlink_log"}
             PROVE  /\ Logs' # {}
                    /\ ToSet(log'.pending[Min(Logs')].commit) \subseteq ToSet(log'.folded[Min(Logs')].commit)
                    /\ at'[q] = "unlink_log" =>
                         ToSet(log'.pending[Min(Logs')].published)
                             \subseteq ToSet(log'.folded[Min(Logs')].published)
  BY DEF Copied
<1>1. log \in [Halves -> [States -> [commit : Seq(Row), published : Seq(Row)]]]
  BY Tables DEF RowsInv
<1>2. \A a, b \in Seq(Row) : ToSet(a \o b) = ToSet(a) \cup ToSet(b)
  BY ToSetConcat
<1>3. at \in [Procs -> Steps]
  BY DEF RowsInv, Typed, ControlTyped
<1>4. CASE q # p
  <2>1. at[q] = at'[q] /\ q \in Locked
    BY <1>4, Local DEF RowsInv, FreeWritesNoRows, Locked
  <2>2. p \in Free
    BY <1>4, <2>1, Local DEF RowsInv, Serial, MayStart, Locked
  <2>3. log' = log /\ Logs' = Logs
    BY <2>2, FreeStep DEF RowsInv, Logs
  <2> QED
    BY <2>1, <2>3 DEF RowsInv, Copied
<1>5. CASE FoldCommits(p) /\ q = p
  <2> DEFINE s == Min(Logs)
  <2>1. Logs # {} /\ s \in States
    BY <1>5, MinLogs DEF FoldCommits
  <2>2. /\ log' = [log EXCEPT !.folded[s].commit = @ \o log.pending[s].commit]
        /\ at'[q] = "log_published"
    BY <1>3, <1>5 DEF FoldCommits, Go
  <2> HIDE DEF s
  <2>3. log'.pending = log.pending
    BY <1>1, <2>1, <2>2 DEF Halves
  <2>4. Logs' = Logs /\ Min(Logs') = s
    BY <2>3 DEF Logs, s
  <2>5. log'.folded[s].commit = log.folded[s].commit \o log.pending[s].commit
    BY <1>1, <2>1, <2>2 DEF Halves
  <2>6. log.folded[s].commit \in Seq(Row) /\ log.pending[s].commit \in Seq(Row)
    BY <1>1, <2>1 DEF Halves
  <2>7. ToSet(log'.folded[s].commit) = ToSet(log.folded[s].commit) \cup ToSet(log.pending[s].commit)
    BY <1>2, <2>5, <2>6
  <2> QED
    BY <2>1, <2>2, <2>3, <2>4, <2>7
<1>6. CASE FoldPublished(p) /\ q = p
  <2> DEFINE s == Min(Logs)
  <2>1. /\ Logs # {} /\ s \in States
        /\ ToSet(log.pending[s].commit) \subseteq ToSet(log.folded[s].commit)
    <3>1. at[p] = "log_published"
      BY <1>6 DEF FoldPublished
    <3>2. Logs # {} /\ ToSet(log.pending[s].commit) \subseteq ToSet(log.folded[s].commit)
      BY <3>1 DEF RowsInv, Copied
    <3> QED
      BY <3>2, MinLogs
  <2>2. log' = [log EXCEPT !.folded[s].published = @ \o log.pending[s].published]
    BY <1>6 DEF FoldPublished
  <2> HIDE DEF s
  <2>3. log'.pending = log.pending
    BY <1>1, <2>1, <2>2 DEF Halves
  <2>4. Logs' = Logs /\ Min(Logs') = s
    BY <2>3 DEF Logs, s
  <2>5. /\ log'.folded[s].published = log.folded[s].published \o log.pending[s].published
        /\ log'.folded[s].commit = log.folded[s].commit
    BY <1>1, <2>1, <2>2 DEF Halves
  <2>6. log.folded[s].published \in Seq(Row) /\ log.pending[s].published \in Seq(Row)
    BY <1>1, <2>1 DEF Halves
  <2>7. ToSet(log'.folded[s].published)
           = ToSet(log.folded[s].published) \cup ToSet(log.pending[s].published)
    BY <1>2, <2>5, <2>6
  <2> QED
    BY <2>1, <2>3, <2>4, <2>5, <2>7
<1>7. q = p => FoldCommits(p) \/ FoldPublished(p)
  <2> SUFFICES ASSUME q = p, ~FoldCommits(p), ~FoldPublished(p)
               PROVE  at'[p] \notin {"log_published", "unlink_log"}
    OBVIOUS
  <2> USE <1>3 DEF Go, disk
  <2>1. CASE Start(p)
    BY <2>1 DEF Start, Commit, Snapshot, StartFold, RefuseFold, Repair, MayStart
  <2>2. CASE Fold(p)
    BY <2>2 DEF Fold, MoveEntry, MoveHead, RemoveLgr, MoveState, RemoveStates,
                UnlinkLog, EndFold, FoldRaises, End, LgrMoved, StatesMoved, LogsMerged
  <2>3. CASE Publish(p) \/ PublishFails(p) \/ AppendFails(p) \/ Stop(p)
    BY <2>3 DEF Publish, PublishFails, AppendFails, Stop, End
  <2>4. CASE Record(p)
    BY <2>4 DEF Record, WriteState, AskSeq, WriteCommits, WritePublications, RowsWritten,
                ReadFolded, ReadPending, Link, LinkCollides, WriteHead, End
  <2> QED
    BY <2>1, <2>2, <2>3, <2>4 DEF Step
<1> QED
  BY <1>4, <1>5, <1>6, <1>7

LEMMA RowsInvStep ==
    ASSUME RowsInv, [Next]_vars PROVE RowsInv'
<1>1. CASE Next
  <2>1. PICK p \in Procs : Step(p)
    BY <1>1 DEF Next, Step
  <2> QED
    BY <1>1, <2>1, TypedStep, SerialStep, FreeWritesNoRowsStep, CopiedStep DEF RowsInv
<1>2. CASE UNCHANGED vars
  <2>1. UNCHANGED <<at, job, log>>
    BY <1>2 DEF vars, disk
  <2> QED
    BY <1>2, <2>1, TypedStep DEF RowsInv, Serial, FreeWritesNoRows, Copied, Logs
<1> QED
  BY <1>1, <1>2

LEMMA RowsInvInit == Init => RowsInv
<1> SUFFICES ASSUME Init PROVE RowsInv
  OBVIOUS
<1>1. at = [p \in Procs |-> "idle"] /\ job = [p \in Procs |-> NoJob]
  BY DEF Init
<1> QED
  BY <1>1, TypedInit, MemoryAssumption DEF RowsInv, Serial, FreeWritesNoRows, Copied, Locked, NoJob, Job

LEMMA RowsInvAlways == Spec => []RowsInv
<1>1. RowsInv /\ [Next]_vars => RowsInv'
  BY RowsInvStep
<1> QED
  BY <1>1, RowsInvInit, PTL DEF Spec

\* An append to one table keeps every row of every table.
LEMMA AppendKeeps ==
    ASSUME Typed, NEW h \in Halves, NEW s, NEW table \in {"commit", "published"}, NEW rows,
           s \in States => rows \in Seq(Row),
           log' = [log EXCEPT ![h][s][table] = @ \o rows]
    PROVE  \A k \in Halves, t \in States, tab \in {"commit", "published"} :
              ToSet(log[k][t][tab]) \subseteq ToSet(log'[k][t][tab])
<1> SUFFICES ASSUME NEW k \in Halves, NEW t \in States, NEW tab \in {"commit", "published"}
             PROVE  ToSet(log[k][t][tab]) \subseteq ToSet(log'[k][t][tab])
  OBVIOUS
<1>1. log \in [Halves -> [States -> [commit : Seq(Row), published : Seq(Row)]]]
  BY Tables
<1>2. CASE k = h /\ t = s /\ tab = table
  <2>1. log'[k][t][tab] = log[k][t][tab] \o rows
    BY <1>1, <1>2
  <2>2. log[k][t][tab] \in Seq(Row) /\ rows \in Seq(Row)
    BY <1>1, <1>2
  <2> QED
    BY <2>1, <2>2, Tables
<1>3. CASE ~(k = h /\ t = s /\ tab = table)
  <2>1. log'[k][t][tab] = log[k][t][tab]
    BY <1>1, <1>3
  <2> QED
    BY <2>1
<1> QED
  BY <1>2, <1>3

LEMMA RowsKeptStep ==
    ASSUME RowsInv, [Next]_vars
    PROVE  \A h \in Halves, s \in States, table \in {"commit", "published"} :
              ToSet(log[h][s][table])
                  \subseteq ToSet(log'["folded"][s][table]) \cup ToSet(log'["pending"][s][table])
<1> DEFINE Kept == \A h \in Halves, s \in States, table \in {"commit", "published"} :
              ToSet(log[h][s][table])
                  \subseteq ToSet(log'["folded"][s][table]) \cup ToSet(log'["pending"][s][table])
<1>1. CASE log' = log
  BY <1>1 DEF Halves
<1>2. ASSUME \A h \in Halves, s \in States, table \in {"commit", "published"} :
                ToSet(log[h][s][table]) \subseteq ToSet(log'[h][s][table])
      PROVE  Kept
  BY <1>2 DEF Halves
<1>3. ASSUME NEW p \in Procs, Step(p), RowWriter(p) PROVE Kept
  <2>1. log \in [Halves -> [States -> [commit : Seq(Row), published : Seq(Row)]]]
    BY Tables DEF RowsInv
  <2>2. CASE FoldCommits(p)
    <3> DEFINE s == Min(Logs)
    <3>1. log' = [log EXCEPT !["folded"][s]["commit"] = @ \o log.pending[s].commit]
      BY <2>2 DEF FoldCommits
    <3>2. s \in States => log.pending[s].commit \in Seq(Row)
      BY <2>1 DEF Halves
    <3> HIDE DEF s
    <3> QED
      BY <1>2, <3>1, <3>2, AppendKeeps DEF RowsInv, Halves
  <2>3. CASE FoldPublished(p)
    <3> DEFINE s == Min(Logs)
    <3>1. log' = [log EXCEPT !["folded"][s]["published"] = @ \o log.pending[s].published]
      BY <2>3 DEF FoldPublished
    <3>2. s \in States => log.pending[s].published \in Seq(Row)
      BY <2>1 DEF Halves
    <3> HIDE DEF s
    <3> QED
      BY <1>2, <3>1, <3>2, AppendKeeps DEF RowsInv, Halves
  <2>4. CASE WriteCommits(p)
    <3> DEFINE s == job[p].state
               rows == RowsFor(p, "commit", job[p].commits)
    <3>1. log' = [log EXCEPT !["pending"][s]["commit"] = @ \o rows]
      BY <2>4 DEF WriteCommits
    <3>2. rows \in Seq(Row)
      <4>1. job[p].commits \in Seq(Sha) /\ job[p].seq \in Nat
        BY TypedTypeOK DEF RowsInv, TypeOK
      <4>2. RowsOf(Sha) = Row
        BY DEF RowsOf, Row
      <4> QED
        BY <4>1, <4>2, RowsForTyped
    <3> HIDE DEF s, rows
    <3> QED
      BY <1>2, <3>1, <3>2, AppendKeeps DEF RowsInv, Halves
  <2>5. CASE WritePublications(p)
    <3> DEFINE s == Min(Due(p))
               rows == RowsFor(p, "published", job[p].pubs[s])
    <3>1. log' = [log EXCEPT !["pending"][s]["published"] = @ \o rows]
      BY <2>5 DEF WritePublications
    <3>2. s \in States => rows \in Seq(Row)
      <4>1. /\ s \in States => job[p].pubs[s] \in Seq(Sha)
            /\ job[p].seq \in Nat
        BY TypedTypeOK DEF RowsInv, TypeOK
      <4>2. RowsOf(Sha) = Row
        BY DEF RowsOf, Row
      <4> QED
        BY <4>1, <4>2, RowsForTyped
    <3> HIDE DEF s, rows
    <3> QED
      BY <1>2, <3>1, <3>2, AppendKeeps DEF RowsInv, Halves
  <2>6. CASE UnlinkLog(p)
    <3> DEFINE m == Min(Logs)
    <3>1. /\ ToSet(log.pending[m].commit) \subseteq ToSet(log.folded[m].commit)
          /\ ToSet(log.pending[m].published) \subseteq ToSet(log.folded[m].published)
      BY <2>6 DEF UnlinkLog, RowsInv, Copied
    <3>2. log' = [log EXCEPT !.pending[m] = NoLog]
      BY <2>6 DEF UnlinkLog
    <3> HIDE DEF m
    <3>3. /\ log'.folded = log.folded
          /\ \A s \in States : s # m => log'.pending[s] = log.pending[s]
      BY <2>1, <3>2 DEF Halves
    <3> QED
      BY <3>1, <3>3 DEF Halves
  <2> QED
    BY <1>3, <2>2, <2>3, <2>4, <2>5, <2>6 DEF RowWriter
<1>4. CASE Next
  <2>1. PICK p \in Procs : Step(p)
    BY <1>4 DEF Next, Step
  <2> QED
    BY <1>1, <1>3, <2>1, LogFrame
<1>5. CASE UNCHANGED vars
  BY <1>1, <1>5 DEF vars, disk
<1> QED
  BY <1>4, <1>5

\* No step of any command, fold, kill or failure loses a row of a commit log: a fold
\* unlinks a pending log only after both its tables were appended to the folded one
\* (_fold_commit_logs).
THEOREM LogRowsKept == Spec => RowsKept
<1> DEFINE Kept == \A h \in Halves, s \in States, table \in {"commit", "published"} :
              ToSet(log[h][s][table])
                  \subseteq ToSet(log'["folded"][s][table]) \cup ToSet(log'["pending"][s][table])
<1>1. RowsInv /\ [Next]_vars => [Kept]_vars
  BY RowsKeptStep
<1> QED
  BY <1>1, RowsInvAlways, PTL DEF Spec, RowsKept

-----------------------------------------------------------------------------
(* Sequences: what FlattenSeq and Naming keep                               *)

\* A sequence without elements is the empty one.
LEMMA EmptyOrNot ==
    ASSUME NEW T, NEW a \in Seq(T), ToSet(a) = {} PROVE a = <<>>
<1>1. Len(a) \in Nat /\ DOMAIN a = 1..Len(a)
  BY LenProperties
<1>2. a # <<>> => Len(a) \in Nat \ {0}
  BY EmptySeq
<1>3. Len(a) # 0 => a[1] \in ToSet(a)
  BY <1>1 DEF ToSet
<1> QED
  BY <1>2, <1>3

\* Nothing flattened is nothing,
LEMMA FlatNone ==
    ASSUME NEW T, NEW n \in Nat, NEW f \in [1..n -> Seq(T)], \A i \in 1..n : f[i] = <<>>
    PROVE  FlattenSeq(f) = <<>>
<1>1. \A i \in 1..n : ToSet(f[i]) = {}
  BY DEF ToSet
<1>2. \A x : x \notin ToSet(FlattenSeq(f))
  BY <1>1, FlatIn
<1>3. FlattenSeq(f) \in Seq(T)
  BY FlatSeq
<1> QED
  BY <1>2, <1>3, EmptyOrNot

\* and only nothing flattens to nothing.
LEMMA NoneFlat ==
    ASSUME NEW T, NEW n \in Nat, NEW f \in [1..n -> Seq(T)], FlattenSeq(f) = <<>>
    PROVE  \A i \in 1..n : f[i] = <<>>
<1>1. \A x : x \notin ToSet(FlattenSeq(f))
  BY DEF ToSet
<1>2. \A i \in 1..n : ToSet(f[i]) = {}
  <2> SUFFICES ASSUME NEW i \in 1..n, NEW x \in ToSet(f[i]) PROVE FALSE
    OBVIOUS
  <2> QED
    BY <1>1, FlatIn
<1>3. \A i \in 1..n : f[i] \in Seq(T)
  OBVIOUS
<1> QED
  BY <1>2, <1>3, EmptyOrNot

\* f, of length n, has nothing from s on; e is f with x there.
Ends(e, f, n, s, x, T) ==
    /\ n \in Nat /\ s \in 1..n /\ x \in Seq(T)
    /\ f \in [1..n -> Seq(T)] /\ e \in [1..n -> Seq(T)]
    /\ \A t \in s..n : f[t] = <<>>
    /\ e[s] = x /\ \A t \in 1..n : t # s => e[t] = f[t]

\* What is put after all the rest comes last in the flattened sequence.
LEMMA FlatAppend ==
    ASSUME NEW T, NEW n, NEW e, NEW f, NEW s, NEW x, Ends(e, f, n, s, x, T)
    PROVE  FlattenSeq(e) = FlattenSeq(f) \o x
<1>a. /\ n \in Nat /\ f \in [1..n -> Seq(T)] /\ s \in 1..n /\ x \in Seq(T)
       /\ \A t \in s..n : f[t] = <<>>
       /\ e \in [1..n -> Seq(T)] /\ e[s] = x /\ \A i \in 1..n : i # s => e[i] = f[i]
  BY DEF Ends
<1> USE <1>a
<1>0. n \in Nat \ {0}
  OBVIOUS
<1>1. e \in [1..n -> Seq(T)] /\ e[s] = x /\ \A i \in 1..n : i # s => e[i] = f[i]
  BY SMTT(30)
<1>2. PICK g : Sums(g, f, n, T) /\ FlattenSeq(f) = g[n]
  BY <1>0, Flattened
<1>3. PICK h : Sums(h, e, n, T) /\ FlattenSeq(e) = h[n]
  BY <1>0, <1>1, Flattened
<1>4. /\ g \in [1..n -> Seq(T)] /\ g[1] = f[1]
      /\ \A i \in 2..n : g[i] = g[i - 1] \o f[i]
      /\ h \in [1..n -> Seq(T)] /\ h[1] = e[1]
      /\ \A i \in 2..n : h[i] = h[i - 1] \o e[i]
  BY <1>2, <1>3 DEF Sums
<1>5. \A a \in Seq(T) : a \o <<>> = a /\ <<>> \o a = a
  BY ConcatEmptySeq
<1> DEFINE S == {m \in 1..n : h[m] = IF m < s THEN g[m] ELSE g[m] \o x}
<1>6. 1 \in S
  <2>1. CASE s = 1
    <3>1. h[1] = x /\ g[1] = <<>> /\ 1 \in 1..n
      BY <1>0, <1>1, <1>4, <2>1
    <3>2. h[1] = g[1] \o x
      BY <1>5, <3>1
    <3>3. h[1] = IF 1 < s THEN g[1] ELSE g[1] \o x
      BY <2>1, <3>2
    <3> QED
      BY <3>1, <3>3
  <2>2. CASE s # 1
    BY <1>0, <1>1, <1>4, <2>2
  <2> QED
    BY <2>1, <2>2
<1>7. ASSUME NEW m \in S, m < n PROVE m + 1 \in S
  <2>1. m \in 1..n /\ m + 1 \in 2..n /\ m + 1 \in 1..n /\ (m + 1) - 1 = m
    BY <1>7
  <2>2. g[m + 1] = g[m] \o f[m + 1] /\ h[m + 1] = h[m] \o e[m + 1]
    BY <1>4, <2>1
  <2>3. g[m] \in Seq(T) /\ f[m + 1] \in Seq(T) /\ h[m] \in Seq(T)
    BY <1>4, <2>1
  <2>4. h[m] = IF m < s THEN g[m] ELSE g[m] \o x
    OBVIOUS
  <2>5. CASE m + 1 < s
    <3>1. e[m + 1] = f[m + 1] /\ h[m] = g[m]
      BY <1>1, <2>1, <2>4, <2>5
    <3> QED
      BY <2>1, <2>2, <2>5, <3>1
  <2>6. CASE m + 1 = s
    <3>1. e[m + 1] = x /\ h[m] = g[m] /\ f[m + 1] = <<>>
      BY <1>1, <2>1, <2>4, <2>6
    <3>2. g[m + 1] = g[m]
      BY <1>5, <2>2, <2>3, <3>1
    <3>3. h[m + 1] = g[m + 1] \o x
      BY <2>2, <3>1, <3>2
    <3>4. ~(m + 1 < s)
      BY <2>6
    <3> QED
      BY <2>1, <3>3, <3>4
  <2>7. CASE m + 1 > s
    <3>0. m + 1 \in s..n /\ m + 1 # s /\ ~(m < s) /\ ~(m + 1 < s)
      BY <2>1, <2>7
    <3>1. e[m + 1] = <<>> /\ h[m] = g[m] \o x /\ f[m + 1] = <<>>
      BY <1>1, <2>1, <2>4, <3>0
    <3>2. g[m + 1] = g[m] /\ h[m + 1] = h[m]
      BY <1>5, <2>2, <2>3, <3>1
    <3>3. h[m + 1] = g[m + 1] \o x
      BY <3>1, <3>2
    <3> QED
      BY <2>1, <3>0, <3>3
  <2> QED
    BY <2>1, <2>5, <2>6, <2>7
<1>8. h[n] = g[n] \o x
  <2>1. S \in SUBSET (1..n)
    OBVIOUS
  <2>2. n \in S
    <3> HIDE DEF S
    <3> QED
      BY <1>6, <1>7, <2>1, Climb
  <2>3. h[n] = IF n < s THEN g[n] ELSE g[n] \o x
    BY <2>2
  <2>4. ~(n < s)
    OBVIOUS
  <2> HIDE DEF S
  <2> QED
    BY <2>3, <2>4
<1>9. FlattenSeq(e) = FlattenSeq(f) \o x
  BY <1>2, <1>3, <1>8
<1> QED
  BY <1>9

\* e is f, of length n, followed by g, of length m: sequences over T.
Joins(e, f, n, g, m, T) ==
    /\ n \in Nat /\ m \in Nat
    /\ f \in [1..n -> Seq(T)] /\ g \in [1..m -> Seq(T)] /\ e \in [1..n + m -> Seq(T)]
    /\ \A i \in 1..n : e[i] = f[i]
    /\ \A i \in 1..m : e[n + i] = g[i]

\* Flattening goes through concatenation.
LEMMA FlatConcat ==
    ASSUME NEW T, NEW n, NEW m, NEW f, NEW g, NEW e, Joins(e, f, n, g, m, T)
    PROVE  FlattenSeq(e) = FlattenSeq(f) \o FlattenSeq(g)
<1>0. /\ n \in Nat /\ m \in Nat
      /\ f \in [1..n -> Seq(T)] /\ g \in [1..m -> Seq(T)] /\ e \in [1..n + m -> Seq(T)]
      /\ \A i \in 1..n : e[i] = f[i]
      /\ \A i \in 1..m : e[n + i] = g[i]
  BY DEF Joins
<1>1. \A a \in Seq(T) : a \o <<>> = a /\ <<>> \o a = a
  BY ConcatEmptySeq
<1>2. FlattenSeq(f) \in Seq(T) /\ FlattenSeq(g) \in Seq(T)
  BY <1>0, FlatSeq
<1>3. CASE n = 0
  <2>1. e = g
    BY <1>0, <1>3
  <2>2. FlattenSeq(f) = <<>>
    <3>1. \A i \in 1..n : f[i] = <<>>
      BY <1>3
    <3> QED
      BY <1>0, <3>1, FlatNone
  <2> QED
    BY <1>1, <1>2, <2>1, <2>2
<1>4. CASE m = 0
  <2>1. e = f
    BY <1>0, <1>4
  <2>2. FlattenSeq(g) = <<>>
    <3>1. \A i \in 1..m : g[i] = <<>>
      BY <1>4
    <3> QED
      BY <1>0, <3>1, FlatNone
  <2> QED
    BY <1>1, <1>2, <2>1, <2>2
<1>6. \A a, b, c \in Seq(T) : (a \o b) \o c = a \o (b \o c)
  BY SMTT(30), ConcatAssociative
<1>5. CASE n # 0 /\ m # 0
  <2> USE <1>0
  <2>0. n \in Nat \ {0} /\ m \in Nat \ {0} /\ n + m \in Nat \ {0}
    BY <1>5
  <2>1. PICK F : Sums(F, f, n, T) /\ FlattenSeq(f) = F[n]
    BY <2>0, Flattened
  <2>2. PICK G : Sums(G, g, m, T) /\ FlattenSeq(g) = G[m]
    BY <2>0, Flattened
  <2>3. PICK E : Sums(E, e, n + m, T) /\ FlattenSeq(e) = E[n + m]
    BY <2>0, Flattened
  <2>4. /\ F \in [1..n -> Seq(T)] /\ F[1] = f[1]
        /\ \A i \in 2..n : F[i] = F[i - 1] \o f[i]
    BY <2>1 DEF Sums
  <2>5. /\ G \in [1..m -> Seq(T)] /\ G[1] = g[1]
        /\ \A i \in 2..m : G[i] = G[i - 1] \o g[i]
    BY <2>2 DEF Sums
  <2>6. /\ E \in [1..n + m -> Seq(T)] /\ E[1] = e[1]
        /\ \A i \in 2..n + m : E[i] = E[i - 1] \o e[i]
    BY <2>3 DEF Sums
  <2>7. E[n] = F[n]
    <3> DEFINE S == {i \in 1..n : E[i] = F[i]}
    <3>1. 1 \in S
      BY <2>0, <2>4, <2>6
    <3>2. ASSUME NEW i \in S, i < n PROVE i + 1 \in S
      <4>1. i \in 1..n /\ i + 1 \in 2..n /\ i + 1 \in 1..n /\ i + 1 \in 2..n + m /\ (i + 1) - 1 = i
        BY <3>2
      <4>2. F[i + 1] = F[i] \o f[i + 1] /\ E[i + 1] = E[i] \o e[i + 1] /\ e[i + 1] = f[i + 1]
        BY <2>4, <2>6, <4>1
      <4> QED
        BY <4>1, <4>2
    <3>3. S \in SUBSET (1..n)
      OBVIOUS
    <3>4. n \in S
      <4> HIDE DEF S
      <4> QED
        BY <2>0, <3>1, <3>2, <3>3, Climb
    <3> QED
      BY <3>4
  <2>8. E[n + m] = F[n] \o G[m]
    <3> DEFINE S == {i \in 1..m : E[n + i] = F[n] \o G[i]}
    <3>1. 1 \in S
      <4>1. n + 1 \in 2..n + m /\ (n + 1) - 1 = n
        BY <2>0
      <4>2. E[n + 1] = E[n] \o e[n + 1]
        BY <2>6, <4>1
      <4>3. 1 \in 1..m
        BY <2>0
      <4>4. e[n + 1] = g[1]
        BY <4>3
      <4>5. E[n + 1] = F[n] \o G[1]
        BY <2>5, <2>7, <4>2, <4>4
      <4> QED
        BY <4>3, <4>5
    <3>2. ASSUME NEW i \in S, i < m PROVE i + 1 \in S
      <4>1. /\ i \in 1..m /\ i + 1 \in 2..m /\ i + 1 \in 1..m /\ (i + 1) - 1 = i
            /\ n + (i + 1) \in 2..n + m /\ (n + (i + 1)) - 1 = n + i
        BY <3>2, <2>0
      <4>2. /\ G[i + 1] = G[i] \o g[i + 1] /\ E[n + (i + 1)] = E[n + i] \o e[n + (i + 1)]
            /\ e[n + (i + 1)] = g[i + 1]
        BY <2>5, <2>6, <4>1
      <4>3. F[n] \in Seq(T) /\ G[i] \in Seq(T) /\ g[i + 1] \in Seq(T)
        BY <2>0, <2>4, <2>5, <4>1
      <4>4. (F[n] \o G[i]) \o g[i + 1] = F[n] \o (G[i] \o g[i + 1])
        BY <1>6, <4>3
      <4>5. E[n + i] = F[n] \o G[i]
        OBVIOUS
      <4>6. E[n + (i + 1)] = F[n] \o G[i + 1]
        BY <4>2, <4>4, <4>5
      <4> QED
        BY <4>1, <4>6
    <3>3. S \in SUBSET (1..m)
      OBVIOUS
    <3>4. m \in S
      <4> HIDE DEF S
      <4> QED
        BY <2>0, <3>1, <3>2, <3>3, Climb
    <3> QED
      BY <3>4
  <2> QED
    BY <2>1, <2>2, <2>3, <2>8
<1> QED
  BY <1>3, <1>4, <1>5

\* The parts Naming flattens are rows.
LEMMA NamingEach ==
    ASSUME NEW rows \in Seq(Row), NEW n
    PROVE  /\ Len(rows) \in Nat /\ DOMAIN rows = 1..Len(rows) /\ rows \in [1..Len(rows) -> Row]
           /\ [i \in DOMAIN rows |-> IF rows[i].entry = n THEN << rows[i] >> ELSE <<>>]
                  \in [1..Len(rows) -> Seq(Row)]
<1>1. Len(rows) \in Nat /\ DOMAIN rows = 1..Len(rows) /\ rows \in [1..Len(rows) -> Row]
  BY LenProperties
<1> HIDE DEF Row
<1> QED
  BY <1>1

\* rows_by_entry returns rows,
LEMMA NamingTyped ==
    ASSUME NEW rows \in Seq(Row), NEW n PROVE Naming(rows, n) \in Seq(Row)
<1> DEFINE each == [i \in DOMAIN rows |-> IF rows[i].entry = n THEN << rows[i] >> ELSE <<>>]
<1>1. Len(rows) \in Nat /\ each \in [1..Len(rows) -> Seq(Row)]
  BY NamingEach
<1> HIDE DEF each
<1>2. FlattenSeq(each) \in Seq(Row)
  BY <1>1, FlatSeq
<1> QED
  BY <1>2 DEF Naming, each

\* none when no row names the entry,
LEMMA NamingNone ==
    ASSUME NEW rows \in Seq(Row), NEW n, \A row \in ToSet(rows) : row.entry # n
    PROVE  Naming(rows, n) = <<>>
<1> DEFINE each == [i \in DOMAIN rows |-> IF rows[i].entry = n THEN << rows[i] >> ELSE <<>>]
<1>1. Len(rows) \in Nat /\ DOMAIN rows = 1..Len(rows) /\ each \in [1..Len(rows) -> Seq(Row)]
  BY NamingEach
<1>2. \A i \in 1..Len(rows) : each[i] = <<>>
  BY <1>1 DEF ToSet
<1> HIDE DEF each
<1>3. FlattenSeq(each) = <<>>
  BY <1>1, <1>2, FlatNone
<1> QED
  BY <1>3 DEF Naming, each

\* those of both parts, in their order,
LEMMA NamingConcat ==
    ASSUME NEW a \in Seq(Row), NEW b \in Seq(Row), NEW n
    PROVE  Naming(a \o b, n) = Naming(a, n) \o Naming(b, n)
<1> DEFINE c == a \o b
           each(rows) == [i \in DOMAIN rows |-> IF rows[i].entry = n THEN << rows[i] >> ELSE <<>>]
           ea == each(a)
           eb == each(b)
           ec == each(c)
<1>1. /\ c \in Seq(Row) /\ Len(c) = Len(a) + Len(b)
      /\ \A i \in 1..Len(a) + Len(b) : c[i] = IF i <= Len(a) THEN a[i] ELSE b[i - Len(a)]
  BY ConcatProperties
<1>2. /\ Len(a) \in Nat /\ DOMAIN a = 1..Len(a) /\ ea \in [1..Len(a) -> Seq(Row)]
      /\ Len(b) \in Nat /\ DOMAIN b = 1..Len(b) /\ eb \in [1..Len(b) -> Seq(Row)]
      /\ DOMAIN c = 1..Len(c) /\ ec \in [1..Len(c) -> Seq(Row)]
  <2> HIDE DEF c
  <2> QED
    BY <1>1, NamingEach
<1> HIDE DEF c
<1>3. \A i \in 1..Len(a) : ec[i] = ea[i]
  <2> SUFFICES ASSUME NEW i \in 1..Len(a) PROVE ec[i] = ea[i]
    OBVIOUS
  <2>1. i \in DOMAIN c /\ i \in DOMAIN a /\ c[i] = a[i]
    BY <1>1, <1>2
  <2> QED
    BY <2>1
<1>4. \A i \in 1..Len(b) : ec[Len(a) + i] = eb[i]
  <2> SUFFICES ASSUME NEW i \in 1..Len(b) PROVE ec[Len(a) + i] = eb[i]
    OBVIOUS
  <2>1. Len(a) + i \in DOMAIN c /\ i \in DOMAIN b /\ c[Len(a) + i] = b[i]
    BY SMTT(30), <1>1, <1>2
  <2> QED
    BY <2>1
<1> HIDE DEF ea, eb, ec
<1>5. FlattenSeq(ec) = FlattenSeq(ea) \o FlattenSeq(eb)
  <2>1. Joins(ec, ea, Len(a), eb, Len(b), Row)
    BY <1>1, <1>2, <1>3, <1>4 DEF Joins
  <2> QED
    BY <2>1, FlatConcat
<1> QED
  BY <1>5 DEF Naming, c, ea, eb, ec

\* and all of them when every row names it.
LEMMA NamingAll ==
    ASSUME NEW rows \in Seq(Row), NEW n, \A row \in ToSet(rows) : row.entry = n
    PROVE  Naming(rows, n) = rows
<1> DEFINE each == [i \in DOMAIN rows |-> IF rows[i].entry = n THEN << rows[i] >> ELSE <<>>]
           N == Len(rows)
<1>1. /\ N \in Nat /\ DOMAIN rows = 1..N /\ rows \in [1..N -> Row]
      /\ each \in [1..N -> Seq(Row)]
  BY NamingEach
<1>2. \A i \in 1..N : each[i] = << rows[i] >>
  BY <1>1 DEF ToSet
<1> HIDE DEF each, N
<1>3. FlattenSeq(each) = rows
  <2>1. CASE N = 0
    <3>1. \A i \in 1..N : each[i] = <<>>
      BY <2>1
    <3>2. FlattenSeq(each) = <<>>
      BY <1>1, <3>1, FlatNone
    <3>3. rows = <<>>
      BY <2>1, EmptySeq DEF N
    <3> QED
      BY <3>2, <3>3
  <2>2. CASE N # 0
    <3>1. N \in Nat \ {0}
      BY <1>1, <2>2
    <3>2. PICK g : Sums(g, each, N, Row) /\ FlattenSeq(each) = g[N]
      BY <1>1, <3>1, Flattened
    <3>3. /\ g \in [1..N -> Seq(Row)] /\ g[1] = each[1]
          /\ \A i \in 2..N : g[i] = g[i - 1] \o each[i]
      BY <3>2 DEF Sums
    <3> DEFINE S == {m \in 1..N : Len(g[m]) = m /\ \A i \in 1..m : g[m][i] = rows[i]}
    <3>4. 1 \in S
      <4>1. 1 \in 1..N
        BY <3>1
      <4>2. g[1] = << rows[1] >>
        BY <1>2, <3>3, <4>1
      <4>3. Len(<< rows[1] >>) = 1 /\ << rows[1] >>[1] = rows[1]
        OBVIOUS
      <4>4. Len(g[1]) = 1 /\ \A i \in 1..1 : g[1][i] = rows[i]
        BY <4>2, <4>3
      <4> QED
        BY <4>1, <4>4
    <3>5. ASSUME NEW m \in S, m < N PROVE m + 1 \in S
      <4>1. m \in 1..N /\ m + 1 \in 2..N /\ m + 1 \in 1..N /\ (m + 1) - 1 = m
        BY <1>1, <3>5
      <4>2. g[m + 1] = g[m] \o << rows[m + 1] >>
        BY <1>2, <3>3, <4>1
      <4>3. g[m] \in Seq(Row) /\ << rows[m + 1] >> \in Seq(Row)
        BY <1>1, <3>3, <4>1
      <4>4. Len(g[m]) = m /\ \A i \in 1..m : g[m][i] = rows[i]
        OBVIOUS
      <4>5. Len(<< rows[m + 1] >>) = 1 /\ << rows[m + 1] >>[1] = rows[m + 1]
        OBVIOUS
      <4>6. /\ Len(g[m + 1]) = Len(g[m]) + Len(<< rows[m + 1] >>)
            /\ \A i \in 1..Len(g[m]) + Len(<< rows[m + 1] >>) :
                 g[m + 1][i] = IF i <= Len(g[m]) THEN g[m][i] ELSE << rows[m + 1] >>[i - Len(g[m])]
        BY <4>2, <4>3, ConcatProperties
      <4>7. Len(g[m + 1]) = m + 1
        BY <4>4, <4>5, <4>6
      <4>8. ASSUME NEW i \in 1..m + 1 PROVE g[m + 1][i] = rows[i]
        <5>1. g[m + 1][i] = IF i <= m THEN g[m][i] ELSE << rows[m + 1] >>[i - m]
          BY <4>4, <4>5, <4>6
        <5>2. CASE i <= m
          BY <4>4, <5>1, <5>2
        <5>3. CASE i = m + 1
          <6>1. i - m = 1 /\ ~(i <= m)
            BY <4>1, <5>3
          <6> QED
            BY <4>5, <5>1, <5>3, <6>1
        <5> QED
          BY <4>1, <5>2, <5>3
      <4> QED
        BY <4>1, <4>7, <4>8
    <3>6. N \in S
      <4>1. S \in SUBSET (1..N)
        OBVIOUS
      <4> HIDE DEF S
      <4> QED
        BY <1>1, <3>4, <3>5, <4>1, Climb
    <3>7. g[N] \in Seq(Row) /\ Len(g[N]) = N /\ \A i \in 1..N : g[N][i] = rows[i]
      BY <3>1, <3>3, <3>6
    <3>8. g[N] = rows
      BY <3>7, SeqEqual DEF N
    <3> QED
      BY <3>2, <3>8
  <2> QED
    BY <2>1, <2>2
<1> QED
  BY <1>3 DEF Naming, each

\* No element is in a twice.
Distinct(a) == \A i, j \in DOMAIN a : a[i] = a[j] => i = j

\* Two lists with nothing in common, one after the other.
LEMMA DistinctConcat ==
    ASSUME NEW T, NEW a \in Seq(T), NEW b \in Seq(T), Distinct(a), Distinct(b),
           ToSet(a) \cap ToSet(b) = {}
    PROVE  Distinct(a \o b)
<1> DEFINE c == a \o b
<1>1. /\ c \in Seq(T) /\ Len(c) = Len(a) + Len(b)
      /\ \A i \in 1..Len(a) + Len(b) : c[i] = IF i <= Len(a) THEN a[i] ELSE b[i - Len(a)]
  BY ConcatProperties
<1>2. /\ Len(a) \in Nat /\ DOMAIN a = 1..Len(a)
      /\ Len(b) \in Nat /\ DOMAIN b = 1..Len(b)
      /\ DOMAIN c = 1..Len(c)
  BY <1>1, LenProperties
<1> HIDE DEF c
<1>3. ASSUME NEW i \in DOMAIN c, NEW j \in DOMAIN c, c[i] = c[j] PROVE i = j
  <2>0. i \in 1..Len(a) + Len(b) /\ j \in 1..Len(a) + Len(b)
    BY <1>1, <1>2
  <2>1. CASE i <= Len(a) /\ j <= Len(a)
    <3>1. i \in DOMAIN a /\ j \in DOMAIN a /\ c[i] = a[i] /\ c[j] = a[j]
      BY <1>1, <1>2, <2>0, <2>1
    <3> QED
      BY <1>3, <3>1 DEF Distinct
  <2>2. CASE ~(i <= Len(a)) /\ ~(j <= Len(a))
    <3>1. /\ i - Len(a) \in DOMAIN b /\ j - Len(a) \in DOMAIN b
          /\ c[i] = b[i - Len(a)] /\ c[j] = b[j - Len(a)]
      BY <1>1, <1>2, <2>0, <2>2
    <3>2. i - Len(a) = j - Len(a)
      BY <1>3, <3>1 DEF Distinct
    <3> QED
      BY <1>2, <2>0, <3>2
  <2>3. CASE i <= Len(a) /\ ~(j <= Len(a))
    <3>1. i \in DOMAIN a /\ j - Len(a) \in DOMAIN b /\ c[i] = a[i] /\ c[j] = b[j - Len(a)]
      BY <1>1, <1>2, <2>0, <2>3
    <3> QED
      BY <1>3, <3>1 DEF ToSet
  <2>4. CASE ~(i <= Len(a)) /\ j <= Len(a)
    <3>1. j \in DOMAIN a /\ i - Len(a) \in DOMAIN b /\ c[j] = a[j] /\ c[i] = b[i - Len(a)]
      BY <1>1, <1>2, <2>0, <2>4
    <3> QED
      BY <1>3, <3>1 DEF ToSet
  <2> QED
    BY <2>1, <2>2, <2>3, <2>4
<1>4. Distinct(c)
  BY <1>3 DEF Distinct
<1> QED
  BY <1>4 DEF c

\* Lists with nothing in common, flattened.
LEMMA FlatDistinct ==
    ASSUME NEW T, NEW n \in Nat, NEW f \in [1..n -> Seq(T)],
           \A i \in 1..n : Distinct(f[i]),
           \A i, j \in 1..n : i # j => ToSet(f[i]) \cap ToSet(f[j]) = {}
    PROVE  Distinct(FlattenSeq(f))
<1>1. CASE n = 0
  <2>1. \A i \in 1..n : f[i] = <<>>
    BY <1>1
  <2>2. FlattenSeq(f) = <<>>
    BY <2>1, FlatNone
  <2> QED
    BY <2>2 DEF Distinct
<1>2. CASE n # 0
  <2>0. n \in Nat \ {0}
    BY <1>2
  <2>1. PICK g : Sums(g, f, n, T) /\ FlattenSeq(f) = g[n]
    BY <2>0, Flattened
  <2>2. /\ g \in [1..n -> Seq(T)] /\ g[1] = f[1]
        /\ \A i \in 2..n : g[i] = g[i - 1] \o f[i]
    BY <2>1 DEF Sums
  <2> DEFINE S == {m \in 1..n : /\ Distinct(g[m])
                                /\ \A x \in ToSet(g[m]) : \E i \in 1..m : x \in ToSet(f[i])}
  <2>3. 1 \in S
    BY <2>0, <2>2
  <2>4. ASSUME NEW m \in S, m < n PROVE m + 1 \in S
    <3>1. m \in 1..n /\ m + 1 \in 2..n /\ m + 1 \in 1..n /\ (m + 1) - 1 = m
      BY <2>4
    <3>2. g[m + 1] = g[m] \o f[m + 1]
      BY <2>2, <3>1
    <3>3. g[m] \in Seq(T) /\ f[m + 1] \in Seq(T)
      BY <2>2, <3>1
    <3>4. Distinct(g[m]) /\ \A x \in ToSet(g[m]) : \E i \in 1..m : x \in ToSet(f[i])
      OBVIOUS
    <3>5. ToSet(g[m]) \cap ToSet(f[m + 1]) = {}
      <4> SUFFICES ASSUME NEW x \in ToSet(g[m]), x \in ToSet(f[m + 1]) PROVE FALSE
        OBVIOUS
      <4>1. PICK i \in 1..m : x \in ToSet(f[i])
        BY <3>4
      <4>2. i \in 1..n /\ i # m + 1
        BY <3>1
      <4> QED
        BY <3>1, <4>1, <4>2
    <3>6. Distinct(g[m + 1])
      BY <3>1, <3>2, <3>3, <3>4, <3>5, DistinctConcat
    <3>7. ToSet(g[m + 1]) = ToSet(g[m]) \cup ToSet(f[m + 1])
      BY <3>2, <3>3, ToSetConcat
    <3>8. \A x \in ToSet(g[m + 1]) : \E i \in 1..m + 1 : x \in ToSet(f[i])
      <4> SUFFICES ASSUME NEW x \in ToSet(g[m + 1]) PROVE \E i \in 1..m + 1 : x \in ToSet(f[i])
        OBVIOUS
      <4>1. CASE x \in ToSet(g[m])
        <5>1. PICK i \in 1..m : x \in ToSet(f[i])
          BY <3>4, <4>1
        <5>2. i \in 1..m + 1
          BY <3>1
        <5> QED
          BY <5>1, <5>2
      <4>2. CASE x \in ToSet(f[m + 1])
        <5>1. m + 1 \in 1..m + 1
          BY <3>1
        <5> QED
          BY <4>2, <5>1
      <4> QED
        BY <3>7, <4>1, <4>2
    <3> QED
      BY <3>1, <3>6, <3>8
  <2>5. S \in SUBSET (1..n)
    OBVIOUS
  <2>6. n \in S
    <3> HIDE DEF S
    <3> QED
      BY <2>3, <2>4, <2>5, Climb
  <2>7. Distinct(g[n])
    BY <2>6
  <2> QED
    BY <2>1, <2>7
<1> QED
  BY <1>1, <1>2

-----------------------------------------------------------------------------
(* The inductive invariant: what holds while nothing has failed             *)

\* The steps of a fold, and the tables of a log.
Folding == {"entries", "states", "log_commits", "log_published", "unlink_log"}
TableNames == {"commit", "published"}

\* The number of the newest entry, 0 when there is none.
Top == CHOOSE n \in Nat : Numbers(Entries, 1, n)

\* id names the newest entry of S.
IsTip(id, S) == \E e \in S : id = e.id /\ \A f \in S : f.seq <= e.seq

\* The cached hash is the newest entry's, in the half that holds it.
HeadSettled ==
    IF lgr.pending # {} THEN IsTip(head.pending, lgr.pending)
    ELSE head.pending = 0 /\ (lgr.folded # {} => IsTip(head.folded, lgr.folded))

\* The cached head, for a process at step c, which knows f of its fold and
\* has read l as the last entry: settled but while a fold moves the entries (then
\* it still names the newest of both halves) or an entry is linked and its head is not.
HeadGood(c, f, l) ==
    /\ \A e \in Entries : e.id # 0
    /\ c \notin {"entries", "head"} => HeadSettled
    /\ c = "entries" =>
          IF f.head THEN IsTip(head.pending, Entries) ELSE HeadSettled /\ lgr.pending = {}
    /\ c = "head" => IsTip(l.id, lgr.pending)

\* Nothing is written behind a fold: what it finds pending is what it moves.
FoldGood(c, j, f) ==
    /\ litter = {}
    /\ c \in Folding \cup {"idle", "publish"} => j = NoJob
    /\ c \in (Folding \ {"entries"}) \cup {"publish"} => lgr.pending = {}
    /\ c = "states" => f.states = states.pending
    /\ c = "publish" => Logs = {}

\* Every entry's State is on disk, and the one a command is about to record.
StatesGood(c, j) ==
    /\ StatesOnDisk
    /\ c \in Recording \ {"state"} => j.state \in states.folded \cup states.pending

\* A fold has appended this pending table to the folded one, and not unlinked it.
Merged(c, s, table) ==
    /\ c = "unlink_log" \/ (c = "log_published" /\ table = "commit")
    /\ s = Min(Logs)

\* A table of a State's log over its two halves, each row once.
WholeTable(c, s, table) ==
    IF Merged(c, s, table) THEN log.folded[s][table]
    ELSE log.folded[s][table] \o log.pending[s][table]

Whole(c) == [s \in States |-> [commit    |-> WholeTable(c, s, "commit"),
                               published |-> WholeTable(c, s, "published")]]

\* n is the number of an entry of S.
Names(S, n) == \E e \in S : e.seq = n

\* A row is in the half of the entry it names, but while a fold moves the logs
\* after the entries; only a command that is recording may name an entry to come.
SplitGood(c) ==
    /\ \A s \in States, table \in TableNames : \A row \in ToSet(log.folded[s][table]) :
          Names(lgr.folded, row.entry)
    /\ \A s \in States, table \in TableNames : \A row \in ToSet(log.pending[s][table]) :
          /\ c \notin Folding => ~Names(lgr.folded, row.entry)
          /\ \/ Names(Entries, row.entry)
             \/ c \in {"publications", "read_folded", "read_pending", "link"} /\ row.entry = Top + 1

\* The rows of the logs w that name entry n: in one table, and in both.
Named(w, table, n) == FlattenSeq([s \in States |-> Naming(w[s][table], n)])
Signed(w, n) == Named(w, "commit", n) \o Named(w, "published", n)

\* Each entry of es vouches for exactly the rows that name it; the rows that name
\* the next one are those the command has written, and publication rows are
\* written in the order in which rows_by_entry reads them back.
SignGood(w, es, top, c, j) ==
    /\ \A e \in es : Signed(w, e.seq) = e.vouches
    /\ c \in {"commits", "publications"} => j.seq = top + 1
    /\ c \in {"state", "seq", "commits"} => j.written = <<>>
    /\ c \in Recording => Signed(w, top + 1) = j.written
    /\ c = "publications" =>
          \A s, d \in States :
              j.pubs[d] # <<>> /\ Naming(w[s].published, top + 1) # <<>> => s < d

\* The commits of some rows.
Shas(rows) == {row.sha : row \in ToSet(rows)}

\* No sha is twice in a table, over all States.
Once(w, table) ==
    \A s, u \in States : \A i \in DOMAIN w[s][table], k \in DOMAIN w[u][table] :
        w[s][table][i].sha = w[u][table][k].sha => s = u /\ i = k

\* Each commit is remembered once and published once, in the log of one State; a
\* public commit is marked as published or about to be; what a command is about to
\* write is new.
PubGood(w, public, c, j) ==
    /\ Once(w, "commit") /\ Once(w, "published")
    /\ \A s \in States : Shas(w[s].published) \subseteq Shas(w[s].commit)
    /\ \A s \in States : \A sha \in Shas(w[s].commit) :
          sha \in public => sha \in Shas(w[s].published) \/ sha \in ToSet(j.pubs[s])
    /\ c \in {"state", "seq", "commits"} =>
          /\ \A i, k \in DOMAIN j.commits : j.commits[i] = j.commits[k] => i = k
          /\ \A sha \in ToSet(j.commits) :
                sha \notin public /\ \A s \in States : sha \notin Shas(w[s].commit)
    /\ \A s \in States :
          /\ \A i, k \in DOMAIN j.pubs[s] : j.pubs[s][i] = j.pubs[s][k] => i = k
          /\ \A sha \in ToSet(j.pubs[s]) :
                sha \in Shas(w[s].commit) /\ sha \notin Shas(w[s].published)
    /\ c \in {"read_folded", "read_pending", "link", "head"} => j.pubs = NoPubs

\* All of it, for a process at step c with job j, fold f and last entry l.
Good(c, j, f, l) ==
    /\ HeadGood(c, f, l) /\ FoldGood(c, j, f) /\ StatesGood(c, j) /\ SplitGood(c)
    /\ SignGood(Whole(c), Entries, Top, c, j) /\ PubGood(Whole(c), Public, c, j)

\* While nothing has failed: between two commands, and for the command that runs.
RestInv ==
    faults = 0 =>
        /\ \A p \in Procs : at[p] = "idle" => job[p] = NoJob
        /\ AtRest => Good("idle", NoJob, NoFold, NoEntry)
        /\ \A p \in Procs : at[p] # "idle" => Good(at[p], job[p], fold[p], last[p])

-----------------------------------------------------------------------------
(* The number of the next entry                                             *)

\* Top is the number of the newest entry,
LEMMA TopIs ==
    ASSUME LedgerInv PROVE Top \in Nat /\ Numbers(Entries, 1, Top)
BY EntriesNumbered DEF Top

\* there is one such number,
LEMMA OneTop ==
    ASSUME NEW S, NEW n \in Nat, NEW m \in Nat, Numbers(S, 1, n), Numbers(S, 1, m) PROVE n = m
<1>1. n <= m
  <2>1. CASE n = 0
    BY <2>1
  <2>2. CASE n # 0
    <3>1. PICK e \in S : e.seq = n
      BY <2>2 DEF Numbers
    <3> QED
      BY <3>1 DEF Numbers
  <2> QED
    BY <2>1, <2>2
<1>2. m <= n
  <2>1. CASE m = 0
    BY <2>1
  <2>2. CASE m # 0
    <3>1. PICK e \in S : e.seq = m
      BY <2>2 DEF Numbers
    <3> QED
      BY <3>1 DEF Numbers
  <2> QED
    BY <2>1, <2>2
<1> QED
  BY <1>1, <1>2

\* it changes only with the entries,
LEMMA SameTop ==
    ASSUME Entries' = Entries PROVE Top' = Top
<1>1. Top' = CHOOSE n \in Nat : Numbers(Entries', 1, n)
  BY DEF Top, Numbers
<1> QED
  BY <1>1 DEF Top

\* and Newest finds the entry that has it.
LEMMA NewestTop ==
    ASSUME LedgerInv
    PROVE  /\ Entries = {} => Top = 0
           /\ Entries # {} => Newest(Entries) \in Entries /\ Newest(Entries).seq = Top
<1>1. Top \in Nat /\ Numbers(Entries, 1, Top)
  BY TopIs
<1>2. CASE Entries = {}
  BY <1>1, <1>2 DEF Numbers
<1>3. CASE Entries # {}
  <2>1. Newest(Entries) \in Entries /\ \A f \in Entries : f.seq <= Newest(Entries).seq
    BY <1>1, <1>3, NewestIs
  <2>2. 1 <= Top
    BY <1>1, <1>3 DEF Numbers
  <2>3. PICK e \in Entries : e.seq = Top
    BY <1>1, <2>2 DEF Numbers
  <2>4. Newest(Entries).seq \in 1..Top
    BY <1>1, <2>1 DEF Numbers
  <2> QED
    BY <1>1, <1>3, <2>1, <2>3, <2>4
<1> QED
  BY <1>2, <1>3

\* What an appending command read is the last number, so its link never collides.
LEMMA LinkTop ==
    ASSUME LedgerInv, NEW p \in Procs, at[p] = "link"
    PROVE  last[p].seq = Top /\ ~Collides(p)
<1>1. Knows(last[p], Entries)
  BY DEF LedgerInv, Informed
<1>2. Top \in Nat /\ Numbers(Entries, 1, Top)
  BY TopIs
<1>3. last[p].seq = Top
  <2>1. CASE Entries = {}
    BY <1>1, <2>1, NewestTop DEF Knows, NoEntry
  <2>2. CASE Entries # {}
    <3>1. PICK e \in Entries : last[p] = [seq |-> e.seq, id |-> e.id] /\ \A f \in Entries : f.seq <= e.seq
      BY <1>1, <2>2 DEF Knows
    <3>2. Newest(Entries) \in Entries /\ Newest(Entries).seq = Top
      BY <2>2, NewestTop
    <3>3. e.seq \in 1..Top /\ Top <= e.seq
      BY <1>2, <3>1, <3>2 DEF Numbers
    <3> QED
      BY <1>2, <3>1, <3>3
  <2> QED
    BY <2>1, <2>2
<1>4. \A f \in lgr.pending : f.seq \in 1..Top
  BY <1>2 DEF Numbers, Entries
<1> QED
  BY <1>2, <1>3, <1>4 DEF Collides

\* The entry a command links is the next one.
LEMMA LinkedNext ==
    ASSUME LedgerInv, LedgerInv', NEW p \in Procs, Link(p), Typed
    PROVE  \E e : /\ e = [seq |-> Top + 1, id |-> built + 1, prev |-> last[p].id,
                          state |-> job[p].state, vouches |-> job[p].written]
                  /\ lgr'.folded = lgr.folded /\ lgr'.pending = lgr.pending \cup {e}
                  /\ Entries' = Entries \cup {e}
                  /\ last'[p] = [seq |-> e.seq, id |-> e.id]
                  /\ Top' = Top + 1
<1> DEFINE e == [seq |-> Top + 1, id |-> built + 1, prev |-> last[p].id,
                 state |-> job[p].state, vouches |-> job[p].written]
<1>1. last[p].seq = Top
  BY LinkTop DEF Link
<1>2. lgr' = [lgr EXCEPT !.pending = @ \cup {e}]
  BY <1>1 DEF Link
<1>3. last'[p] = [seq |-> e.seq, id |-> e.id]
  BY <1>1 DEF Link, Typed, LedgerTyped
<1>4. Top \in Nat /\ Numbers(Entries, 1, Top) /\ e.seq = Top + 1
  BY TopIs
<1> HIDE DEF e
<1>5. lgr'.folded = lgr.folded /\ lgr'.pending = lgr.pending \cup {e}
  BY <1>2 DEF Typed, LedgerTyped, Halves
<1>6. Entries' = Entries \cup {e}
  BY <1>5 DEF Entries
<1>7. Numbers(Entries', 1, Top + 1)
  BY <1>4, <1>6 DEF Numbers
<1>8. Top' \in Nat /\ Numbers(Entries', 1, Top')
  <2>1. Top' = CHOOSE n \in Nat : Numbers(Entries', 1, n)
    BY DEF Top, Numbers
  <2> HIDE DEF Top
  <2>2. Top + 1 \in Nat
    BY <1>4
  <2> QED
    BY <1>7, <2>1, <2>2
<1>9. Top' = Top + 1
  BY <1>4, <1>7, <1>8, OneTop
<1> QED
  BY <1>3, <1>5, <1>6, <1>9 DEF e

-----------------------------------------------------------------------------
(* Steps that are no fault, and the cached head                             *)

\* The steps that are no fault.
Works(p) ==
    \/ Commit(p) \/ Snapshot(p) \/ StartFold(p) \/ Repair(p)
    \/ Fold(p) \/ Publish(p) \/ Record(p)

LEMMA NoFault ==
    ASSUME faults = 0, faults' = 0, NEW p \in Procs, Step(p) PROVE Works(p)
BY DEF Works, Step, Start, RefuseFold, PublishFails, AppendFails, Stop, Fault

\* What holds around a step of p that is no fault.
Around(p) ==
    /\ Typed /\ Typed' /\ LedgerInv /\ LedgerInv'
    /\ OthersIdle(p)
    /\ Works(p)
    /\ at[p] = "idle" => job[p] = NoJob

\* A command that ends forgets what it knew,
LEMMA EndedIs ==
    ASSUME Typed, NEW p \in Procs, End(p)
    PROVE  at'[p] = "idle" /\ job'[p] = NoJob /\ fold'[p] = NoFold /\ last'[p] = NoEntry
BY DEF Typed, ControlTyped, LedgerTyped, JobTyped, End, Go

\* and one that goes on is at the step it goes to.
LEMMA GoesTo ==
    ASSUME Typed, NEW p \in Procs, NEW step, Go(p, step) PROVE at'[p] = step
BY DEF Typed, ControlTyped, Go

\* A step that touches neither ledger nor head.
LEMMA HeadFrame ==
    ASSUME NEW p \in Procs, HeadGood(at[p], fold[p], last[p]), lgr' = lgr, head' = head,
           at[p] \notin {"entries", "head"}, at'[p] \notin {"entries", "head"}
    PROVE  HeadGood(at[p], fold[p], last[p])'
BY DEF HeadGood, HeadSettled, IsTip, Entries

\* The newest entry of both halves is the newest pending one, if there is any.
LEMMA TipOfBoth ==
    ASSUME LedgerInv, lgr.pending # {}, NEW id
    PROVE  IsTip(id, lgr.pending) <=> IsTip(id, Entries)
<1> PICK k \in Nat, n \in Nat : Halved(k, n)
  BY DEF LedgerInv
<1>1. \A e \in lgr.folded, f \in lgr.pending : e.seq \in 1..k /\ f.seq \in k + 1 .. n
  BY DEF Halved, Numbers
<1> QED
  BY <1>1 DEF IsTip, Entries

\* A fold starts from a settled head (_fold_memory_pending).
LEMMA StartFoldHead ==
    ASSUME NEW p \in Procs, Around(p), HeadGood(at[p], fold[p], last[p]), StartFold(p)
    PROVE  HeadGood(at[p], fold[p], last[p])'
<1>1. /\ lgr' = lgr /\ head' = head /\ at[p] = "idle"
  BY DEF StartFold, MayStart, disk
<1>2. at'[p] = "entries"
  BY GoesTo DEF StartFold, Around
<1>3. fold'[p].head = (head.pending # 0)
  BY DEF StartFold, Around, Typed, ControlTyped, NoFold
<1>4. HeadSettled /\ \A e \in Entries : e.id # 0
  BY <1>1 DEF HeadGood
<1>5. CASE lgr.pending = {}
  <2>1. head.pending = 0
    BY <1>4, <1>5 DEF HeadSettled
  <2> QED
    BY <1>1, <1>2, <1>3, <1>4, <1>5, <2>1 DEF HeadGood, HeadSettled, IsTip, Entries
<1>6. CASE lgr.pending # {}
  <2>1. IsTip(head.pending, lgr.pending)
    BY <1>4, <1>6 DEF HeadSettled
  <2>2. IsTip(head.pending, Entries)
    BY <1>6, <2>1, TipOfBoth DEF Around
  <2>3. head.pending # 0
    BY <1>4, <2>2 DEF IsTip
  <2> QED
    BY <1>1, <1>2, <1>3, <1>4, <2>2, <2>3 DEF HeadGood, IsTip, Entries
<1> QED
  BY <1>5, <1>6

\* A repair leaves the head it would find right (verify --repair).
LEMMA RepairHead ==
    ASSUME NEW p \in Procs, Around(p), HeadGood(at[p], fold[p], last[p]), Repair(p)
    PROVE  HeadGood(at[p], fold[p], last[p])'
<1>1. at' = at /\ lgr' = lgr /\ at[p] = "idle" /\ Entries # {} /\ Entries' = Entries
  BY DEF Repair, MayStart, Entries
<1>2. HeadSettled /\ \A e \in Entries : e.id # 0
  BY <1>1 DEF HeadGood
<1>3. Active \in Halves /\ lgr[Active] # {} /\ (lgr[Active] = lgr.folded \/ lgr[Active] = lgr.pending)
  BY <1>1 DEF Active, Entries, Halves
<1>4. Newest(lgr[Active]) \in lgr[Active] /\ \A e \in lgr[Active] : e.seq <= Newest(lgr[Active]).seq
  <2>1. \A e \in lgr[Active] : e.seq \in 0..built /\ built \in Nat
    BY <1>3 DEF Around, Typed, LedgerTyped, Entry
  <2> QED
    BY <1>3, <2>1, Greatest
<1>5. head'[Active] = Newest(lgr[Active]).id /\ \A h \in Halves : h # Active => head'[h] = head[h]
  BY <1>3 DEF Repair, Around, Typed, LedgerTyped
<1>6. IsTip(head'[Active], lgr[Active])
  BY <1>4, <1>5 DEF IsTip
<1>7. HeadSettled'
  <2>1. CASE lgr.pending # {}
    <3>1. IsTip(head'.pending, lgr'.pending)
      BY <1>1, <1>6, <2>1 DEF Active
    <3> QED
      BY <1>1, <2>1, <3>1 DEF HeadSettled, IsTip
  <2>2. CASE lgr.pending = {}
    <3>1. IsTip(head'.folded, lgr'.folded) /\ head'.pending = 0
      BY <1>1, <1>2, <1>5, <1>6, <2>2 DEF Active, HeadSettled, Halves
    <3> QED
      BY <1>1, <2>2, <3>1 DEF HeadSettled, IsTip
  <2> QED
    BY <2>1, <2>2
<1> QED
  BY <1>1, <1>2, <1>7 DEF HeadGood

\* The head is moved after the entries, and names the newest of them.
LEMMA FoldHead ==
    ASSUME NEW p \in Procs, Around(p), HeadGood(at[p], fold[p], last[p]),
           MoveEntry(p) \/ MoveHead(p) \/ RemoveLgr(p) \/ (LgrMoved(p) /\ FoldRaises(p))
    PROVE  HeadGood(at[p], fold[p], last[p])'
<1>1. /\ at[p] = "entries"
      /\ fold[p].entries = {e.seq : e \in lgr.pending}
  BY DEF MoveEntry, MoveHead, RemoveLgr, LgrMoved, Around, LedgerInv, Informed
<1>2. /\ \A e \in Entries : e.id # 0
      /\ IF fold[p].head THEN IsTip(head.pending, Entries) ELSE HeadSettled /\ lgr.pending = {}
  BY <1>1 DEF HeadGood
<1>3. CASE MoveEntry(p)
  <2>1. Entries' = Entries
    BY <1>3, MoveEntryStep DEF Around, LedgerInv
  <2>2. lgr.pending # {}
    BY <1>1, <1>3 DEF MoveEntry
  <2>3. head' = head /\ at'[p] = "entries" /\ fold'[p].head = fold[p].head
    BY <1>1, <1>3 DEF MoveEntry, Around, Typed, ControlTyped
  <2> QED
    BY <1>2, <2>1, <2>2, <2>3 DEF HeadGood, IsTip
<1>4. CASE MoveHead(p)
  <2>1. lgr' = lgr /\ lgr.pending = {} /\ fold[p].head /\ at'[p] = "entries" /\ Entries' = Entries
    BY <1>1, <1>4 DEF MoveHead, Entries
  <2>2. head'.folded = head.pending /\ head'.pending = 0 /\ ~fold'[p].head
    BY <1>4 DEF MoveHead, Around, Typed, ControlTyped
  <2>3. IsTip(head'.folded, lgr'.folded)
    BY <1>2, <2>1, <2>2 DEF IsTip, Entries
  <2> QED
    BY <1>2, <2>1, <2>2, <2>3 DEF HeadGood, HeadSettled, IsTip
<1>5. CASE RemoveLgr(p)
  <2>1. lgr' = lgr /\ head' = head /\ at'[p] = "states" /\ ~fold[p].head
    BY <1>5, GoesTo DEF RemoveLgr, LgrMoved, disk, Around
  <2> QED
    BY <1>2, <2>1 DEF HeadGood, HeadSettled, IsTip, Entries
<1>6. CASE LgrMoved(p) /\ FoldRaises(p)
  <2>1. lgr' = lgr /\ head' = head /\ at'[p] = "idle" /\ ~fold[p].head
    BY <1>6, EndedIs DEF FoldRaises, LgrMoved, disk, Around
  <2> QED
    BY <1>2, <2>1 DEF HeadGood, HeadSettled, IsTip, Entries
<1> QED
  BY <1>3, <1>4, <1>5, <1>6

\* An entry is linked, then its head written.
LEMMA LinkHead ==
    ASSUME NEW p \in Procs, Around(p), HeadGood(at[p], fold[p], last[p]), Link(p) \/ WriteHead(p)
    PROVE  HeadGood(at[p], fold[p], last[p])'
<1>1. CASE Link(p)
  <2>1. PICK e : /\ e = [seq |-> Top + 1, id |-> built + 1, prev |-> last[p].id,
                         state |-> job[p].state, vouches |-> job[p].written]
                 /\ lgr'.folded = lgr.folded /\ lgr'.pending = lgr.pending \cup {e}
                 /\ Entries' = Entries \cup {e}
                 /\ last'[p] = [seq |-> e.seq, id |-> e.id]
                 /\ Top' = Top + 1
    BY <1>1, LinkedNext DEF Around
  <2>2. Top \in Nat /\ Numbers(Entries, 1, Top) /\ built \in Nat
    BY TopIs DEF Around, Typed, LedgerTyped
  <2>3. e.seq = Top + 1 /\ e.id = built + 1 /\ last'[p].id = e.id
    BY <2>1
  <2>4. \A f \in lgr'.pending : f.seq <= e.seq
    BY <2>1, <2>2, <2>3 DEF Numbers, Entries
  <2>5. IsTip(last'[p].id, lgr'.pending)
    BY <2>1, <2>3, <2>4 DEF IsTip
  <2>6. at[p] = "link" /\ at'[p] = "head"
    BY <1>1, GoesTo DEF Link, Around
  <2>7. \A f \in Entries' : f.id # 0
    <3>1. e.id # 0
      BY <2>2, <2>3
    <3> QED
      BY <2>1, <3>1 DEF HeadGood
  <2> QED
    BY <2>5, <2>6, <2>7 DEF HeadGood, IsTip
<1>2. CASE WriteHead(p)
  <2>1. lgr' = lgr /\ at[p] = "head" /\ at'[p] = "idle" /\ Entries' = Entries
    BY <1>2, EndedIs DEF WriteHead, Around, Entries
  <2>2. head'.pending = last[p].id
    BY <1>2 DEF WriteHead, Around, Typed, LedgerTyped, Halves
  <2>3. IsTip(head'.pending, lgr'.pending) /\ lgr'.pending # {}
    BY <2>1, <2>2 DEF HeadGood, IsTip
  <2>4. HeadSettled'
    BY <2>3 DEF HeadSettled, IsTip
  <2> QED
    BY <2>1, <2>4 DEF HeadGood
<1> QED
  BY <1>1, <1>2

\* Every step keeps the head good.
LEMMA HeadStep ==
    ASSUME NEW p \in Procs, Around(p), HeadGood(at[p], fold[p], last[p])
    PROVE  HeadGood(at[p], fold[p], last[p])'
<1>1. CASE StartFold(p) \/ Repair(p)
  BY <1>1, StartFoldHead, RepairHead
<1>2. CASE MoveEntry(p) \/ MoveHead(p) \/ RemoveLgr(p) \/ (LgrMoved(p) /\ FoldRaises(p))
  BY <1>2, FoldHead
<1>3. CASE Link(p) \/ WriteHead(p)
  BY <1>3, LinkHead
<1>4. CASE \/ Commit(p) \/ Snapshot(p) \/ MoveState(p) \/ RemoveStates(p)
           \/ FoldCommits(p) \/ FoldPublished(p) \/ UnlinkLog(p) \/ EndFold(p)
           \/ (FoldRaises(p) /\ ~LgrMoved(p))
  <2>1. lgr' = lgr /\ head' = head /\ at[p] \notin {"entries", "head"}
    BY <1>4 DEF Commit, Snapshot, MoveState, RemoveStates, FoldCommits, FoldPublished, UnlinkLog,
                EndFold, FoldRaises, MayStart, StatesMoved, LogsMerged, disk
  <2>2. at'[p] \notin {"entries", "head"}
    BY <1>4, <2>1, GoesTo, EndedIs
       DEF Commit, Snapshot, MoveState, RemoveStates, FoldCommits, FoldPublished, UnlinkLog,
           EndFold, FoldRaises, Around
  <2> QED
    BY <2>1, <2>2, HeadFrame
<1>5. CASE \/ Publish(p) \/ WriteState(p) \/ AskSeq(p) \/ WriteCommits(p) \/ WritePublications(p)
           \/ RowsWritten(p) \/ ReadFolded(p) \/ ReadPending(p) \/ LinkCollides(p)
  <2>1. lgr' = lgr /\ head' = head /\ at[p] \notin {"entries", "head"}
    BY <1>5 DEF Publish, WriteState, AskSeq, WriteCommits, WritePublications, RowsWritten,
                ReadFolded, ReadPending, LinkCollides, disk
  <2>2. at'[p] \notin {"entries", "head"}
    BY <1>5, <2>1, GoesTo, EndedIs
       DEF Publish, WriteState, AskSeq, WriteCommits, WritePublications, RowsWritten,
           ReadFolded, ReadPending, LinkCollides, Around
  <2> QED
    BY <2>1, <2>2, HeadFrame
<1> QED
  BY <1>1, <1>2, <1>3, <1>4, <1>5 DEF Around, Works, Fold, Record

-----------------------------------------------------------------------------
(* The fold, and the States on disk                                         *)

\* Nothing is written behind a fold's back, so none of its rmdir raises.
LEMMA NeverRaises ==
    ASSUME NEW p \in Procs, Around(p), HeadGood(at[p], fold[p], last[p]),
           FoldGood(at[p], job[p], fold[p])
    PROVE  ~FoldRaises(p)
<1>1. ASSUME LgrMoved(p) PROVE lgr.pending = {} /\ head.pending = 0
  <2>1. at[p] = "entries" /\ fold[p].entries = {e.seq : e \in lgr.pending} /\ ~fold[p].head
    BY <1>1 DEF LgrMoved, Around, LedgerInv, Informed
  <2>2. lgr.pending = {}
    BY <1>1, <2>1 DEF LgrMoved
  <2> QED
    BY <2>1, <2>2 DEF HeadGood, HeadSettled
<1>2. ASSUME StatesMoved(p) PROVE states.pending = {}
  BY <1>2 DEF StatesMoved, FoldGood
<1> QED
  BY <1>1, <1>2 DEF FoldRaises, FoldGood

\* Every step leaves a fold what it listed.
LEMMA FoldGoodStep ==
    ASSUME NEW p \in Procs, Around(p), HeadGood(at[p], fold[p], last[p]),
           FoldGood(at[p], job[p], fold[p])
    PROVE  FoldGood(at[p], job[p], fold[p])'
<1> USE DEF FoldGood, Folding
<1>0. Typed
  BY DEF Around
<1>1. CASE Commit(p) \/ Snapshot(p) \/ Publish(p)
  <2>1. at'[p] = "state" /\ litter' = litter
    BY <1>0, <1>1, GoesTo DEF Commit, Snapshot, Publish, disk
  <2> QED
    BY <2>1
<1>2. CASE StartFold(p)
  <2>1. at[p] = "idle" /\ at'[p] = "entries" /\ litter' = litter /\ job' = job
    BY <1>0, <1>2, GoesTo DEF StartFold, MayStart, disk
  <2> QED
    BY <2>1
<1>3. CASE Repair(p)
  BY <1>3 DEF Repair, MayStart
<1>4. CASE MoveEntry(p) \/ MoveHead(p)
  BY <1>4 DEF MoveEntry, MoveHead
<1>5. CASE RemoveLgr(p)
  <2>1. at[p] = "entries" /\ at'[p] = "states" /\ job' = job /\ UNCHANGED <<lgr, litter, states>>
    BY <1>0, <1>5, GoesTo DEF RemoveLgr, LgrMoved, disk
  <2>2. fold'[p].states = states.pending /\ lgr.pending = {}
    BY <1>0, <1>5 DEF RemoveLgr, Typed, ControlTyped
  <2> QED
    BY <2>1, <2>2
<1>6. CASE MoveState(p)
  <2>1. at[p] = "states" /\ at' = at /\ job' = job /\ UNCHANGED <<lgr, litter>>
    BY <1>6 DEF MoveState
  <2>2. PICK s : /\ states' = [folded |-> states.folded \cup {s}, pending |-> states.pending \ {s}]
                 /\ fold' = [fold EXCEPT ![p].states = @ \ {s}]
    BY <1>6 DEF MoveState
  <2>3. fold'[p].states = states'.pending
    BY <1>0, <2>1, <2>2 DEF Typed, ControlTyped
  <2> QED
    BY <2>1, <2>3
<1>7. CASE RemoveStates(p)
  <2>1. at[p] = "states" /\ at'[p] = "log_commits" /\ job' = job /\ UNCHANGED <<lgr, litter>>
    BY <1>0, <1>7, GoesTo DEF RemoveStates, StatesMoved, disk
  <2> QED
    BY <2>1
<1>8. CASE FoldCommits(p) \/ FoldPublished(p) \/ UnlinkLog(p)
  <2>1. /\ at[p] \in {"log_commits", "log_published", "unlink_log"}
        /\ at'[p] \in {"log_commits", "log_published", "unlink_log"}
        /\ job' = job /\ UNCHANGED <<lgr, litter>>
    BY <1>0, <1>8, GoesTo DEF FoldCommits, FoldPublished, UnlinkLog
  <2> QED
    BY <2>1
<1>9. CASE EndFold(p)
  <2>1. at[p] = "log_commits" /\ Logs = {} /\ UNCHANGED <<lgr, litter, log>> /\ Logs' = Logs
    BY <1>9 DEF EndFold, LogsMerged, disk, Logs
  <2>2. (at'[p] = "publish" /\ job' = job) \/ (at'[p] = "idle" /\ job'[p] = NoJob)
    BY <1>0, <1>9, GoesTo, EndedIs DEF EndFold
  <2> QED
    BY <2>1, <2>2
<1>10. ~FoldRaises(p)
  BY NeverRaises
<1>11. CASE \/ WriteState(p) \/ AskSeq(p) \/ WriteCommits(p) \/ RowsWritten(p) \/ ReadFolded(p)
            \/ ReadPending(p) \/ Link(p)
  <2>1. at'[p] \in Recording \cup {"head"}
    BY <1>0, <1>11, GoesTo DEF WriteState, AskSeq, WriteCommits, RowsWritten, ReadFolded,
                               ReadPending, Link, Recording
  <2>2. litter' = {}
    BY <1>11 DEF WriteState, AskSeq, WriteCommits, RowsWritten, ReadFolded, ReadPending, Link, disk
  <2> QED
    BY <2>1, <2>2 DEF Recording
<1>12. CASE WritePublications(p)
  <2>1. at[p] = "publications" /\ at' = at /\ litter' = {}
    BY <1>12 DEF WritePublications
  <2> QED
    BY <2>1
<1>13. CASE LinkCollides(p) \/ WriteHead(p)
  <2>1. at'[p] = "idle" /\ job'[p] = NoJob /\ litter' = litter
    BY <1>0, <1>13, EndedIs DEF LinkCollides, WriteHead, disk
  <2> QED
    BY <2>1
<1> QED
  BY <1>1, <1>2, <1>3, <1>4, <1>5, <1>6, <1>7, <1>8, <1>9, <1>10, <1>11, <1>12, <1>13
     DEF Around, Works, Fold, Record

\* A State is on disk before an entry names it, and is only moved.
LEMMA StatesGoodStep ==
    ASSUME NEW p \in Procs, Around(p), StatesGood(at[p], job[p])
    PROVE  StatesGood(at[p], job[p])'
<1> USE DEF StatesGood, StatesOnDisk, Recording
<1>0. Typed
  BY DEF Around
<1> DEFINE Kept == states.folded \cup states.pending \subseteq states'.folded \cup states'.pending
           Same == Entries' = Entries /\ Kept
<1>1. CASE Commit(p) \/ Snapshot(p) \/ Publish(p)
  <2>1. at'[p] = "state" /\ UNCHANGED <<lgr, states>> /\ Entries' = Entries
    BY <1>0, <1>1, GoesTo DEF Commit, Snapshot, Publish, disk, Entries
  <2> QED
    BY <2>1
<1>2. CASE StartFold(p) \/ Repair(p)
  <2>1. at'[p] \in {"idle", "entries"} /\ UNCHANGED <<lgr, states>> /\ Entries' = Entries
    BY <1>0, <1>2, GoesTo DEF StartFold, Repair, MayStart, disk, Entries
  <2> QED
    BY <2>1
<1>3. CASE Fold(p)
  <2>1. Entries' = Entries
    BY <1>3, FoldStep DEF Around
  <2>2. Kept
    <3>1. CASE MoveState(p)
      <4>1. PICK s : states' = [folded |-> states.folded \cup {s}, pending |-> states.pending \ {s}]
        BY <3>1 DEF MoveState
      <4> QED
        BY <4>1
    <3>2. CASE ~MoveState(p)
      BY <1>3, <3>2 DEF Fold, MoveEntry, MoveHead, RemoveLgr, RemoveStates, FoldCommits,
                        FoldPublished, UnlinkLog, EndFold, FoldRaises, disk
    <3> QED
      BY <3>1, <3>2
  <2>3. at'[p] \in Folding \cup {"publish", "idle"}
    <3>1. CASE EndFold(p) \/ FoldRaises(p)
      BY <1>0, <3>1, GoesTo, EndedIs DEF EndFold, FoldRaises
    <3>2. CASE \/ RemoveLgr(p) \/ RemoveStates(p) \/ FoldCommits(p) \/ FoldPublished(p) \/ UnlinkLog(p)
      BY <1>0, <3>2, GoesTo DEF RemoveLgr, RemoveStates, FoldCommits, FoldPublished, UnlinkLog, Folding
    <3>3. CASE MoveEntry(p) \/ MoveHead(p) \/ MoveState(p)
      BY <3>3 DEF MoveEntry, MoveHead, MoveState, Folding
    <3> QED
      BY <1>3, <3>1, <3>2, <3>3 DEF Fold
  <2> QED
    BY <2>1, <2>2, <2>3 DEF Folding
<1>4. CASE WriteState(p)
  <2>1. /\ UNCHANGED <<lgr, job>> /\ Entries' = Entries
        /\ states'.folded = states.folded
        /\ states'.pending = states.pending \cup {job[p].state}
    BY <1>0, <1>4 DEF WriteState, Entries, Typed, ControlTyped, Halves
  <2> QED
    BY <2>1
<1>5. CASE \/ AskSeq(p) \/ WriteCommits(p) \/ WritePublications(p) \/ RowsWritten(p) \/ ReadFolded(p)
           \/ ReadPending(p)
  <2>1. UNCHANGED <<lgr, states>> /\ Entries' = Entries /\ at[p] \in Recording \ {"state"}
    BY <1>5 DEF AskSeq, WriteCommits, WritePublications, RowsWritten, ReadFolded, ReadPending, disk,
                Entries
  <2>2. job'[p].state = job[p].state
    <3>1. CASE AskSeq(p)
      BY <1>0, <3>1 DEF AskSeq, Typed, JobTyped
    <3>2. CASE WriteCommits(p)
      BY <1>0, <3>2 DEF WriteCommits, Typed, JobTyped
    <3>3. CASE WritePublications(p)
      BY <1>0, <3>3 DEF WritePublications, Typed, JobTyped
    <3>4. CASE RowsWritten(p) \/ ReadFolded(p) \/ ReadPending(p)
      BY <3>4 DEF RowsWritten, ReadFolded, ReadPending
    <3> QED
      BY <1>5, <3>1, <3>2, <3>3, <3>4
  <2> QED
    BY <2>1, <2>2
<1>6. CASE Link(p)
  <2>1. PICK e : /\ e = [seq |-> Top + 1, id |-> built + 1, prev |-> last[p].id,
                         state |-> job[p].state, vouches |-> job[p].written]
                 /\ Entries' = Entries \cup {e}
    BY <1>6, LinkedNext DEF Around
  <2>2. e.state = job[p].state
    BY <2>1
  <2>3. at[p] = "link" /\ at'[p] = "head" /\ states' = states
    BY <1>0, <1>6, GoesTo DEF Link
  <2> QED
    BY <2>1, <2>2, <2>3
<1>7. CASE LinkCollides(p) \/ WriteHead(p)
  <2>1. at'[p] = "idle" /\ UNCHANGED <<lgr, states>> /\ Entries' = Entries
    BY <1>0, <1>7, EndedIs DEF LinkCollides, WriteHead, disk, Entries
  <2> QED
    BY <2>1
<1> QED
  BY <1>1, <1>2, <1>3, <1>4, <1>5, <1>6, <1>7 DEF Around, Works, Record

-----------------------------------------------------------------------------
(* The logs of a State as one: who writes rows, and where                   *)

\* The logs of each State as one, rows that were made and pushed.
WholeLogs == [States -> [commit : Seq(RowsOf(Done)), published : Seq(RowsOf(Public))]]

\* Whole logs hold rows of commits that were made, and pushed.
LEMMA WholeTyped ==
    ASSUME Typed, NEW c PROVE Whole(c) \in WholeLogs
<1>1. ASSUME NEW s \in States
      PROVE  /\ WholeTable(c, s, "commit") \in Seq(RowsOf(Done))
             /\ WholeTable(c, s, "published") \in Seq(RowsOf(Public))
  <2>1. /\ log.folded[s].commit \in Seq(RowsOf(Done)) /\ log.pending[s].commit \in Seq(RowsOf(Done))
        /\ log.folded[s].published \in Seq(RowsOf(Public))
        /\ log.pending[s].published \in Seq(RowsOf(Public))
    BY <1>1 DEF Typed, LogTyped, Halves
  <2>2. \A a, b \in Seq(RowsOf(Done)) : a \o b \in Seq(RowsOf(Done))
    BY ConcatProperties
  <2>3. \A a, b \in Seq(RowsOf(Public)) : a \o b \in Seq(RowsOf(Public))
    BY ConcatProperties
  <2>4. log.folded[s].commit \o log.pending[s].commit \in Seq(RowsOf(Done))
    BY <2>1, <2>2
  <2>5. log.folded[s].published \o log.pending[s].published \in Seq(RowsOf(Public))
    BY <2>1, <2>3
  <2> QED
    BY <2>1, <2>4, <2>5 DEF WholeTable
<1> QED
  BY <1>1 DEF Whole, WholeLogs

\* A step that does not touch the logs,
LEMMA WholeFrame ==
    ASSUME NEW p \in Procs, log' = log,
           at[p] \notin {"log_published", "unlink_log"}, at'[p] \notin {"log_published", "unlink_log"}
    PROVE  Whole(at[p])' = Whole(at[p])
<1>1. \A s \in States, table \in TableNames :
         WholeTable(at[p], s, table)' = WholeTable(at[p], s, table)
  BY DEF WholeTable, Merged
<1> QED
  BY <1>1 DEF Whole, TableNames

\* and one that folds them, shows the same whole.
LEMMA WholeFold ==
    ASSUME NEW p \in Procs, Around(p), Copied, FoldCommits(p) \/ FoldPublished(p) \/ UnlinkLog(p)
    PROVE  Whole(at[p])' = Whole(at[p])
<1> DEFINE m == Min(Logs)
<1>0. Typed
  BY DEF Around
<1>1. log \in [Halves -> [States -> [commit : Seq(Row), published : Seq(Row)]]]
  BY <1>0, Tables
<1>2. /\ Logs # {} /\ m \in States
      /\ at[p] = IF FoldCommits(p) THEN "log_commits"
                 ELSE IF FoldPublished(p) THEN "log_published" ELSE "unlink_log"
  <2>1. Logs # {}
    BY DEF FoldCommits, FoldPublished, UnlinkLog, Copied
  <2>2. m \in States
    BY <2>1, MinLogs
  <2> QED
    BY <2>1, <2>2 DEF FoldCommits, FoldPublished, UnlinkLog
<1>3. \A s \in States, table \in TableNames :
         log.folded[s][table] \in Seq(Row) /\ log.pending[s][table] \in Seq(Row)
  BY <1>1 DEF Halves, TableNames
<1>4. \A a \in Seq(Row) : a \o <<>> = a
  BY ConcatEmptySeq
<1> SUFFICES ASSUME NEW s \in States, NEW table \in TableNames
             PROVE  WholeTable(at[p], s, table)' = WholeTable(at[p], s, table)
  BY DEF Whole, TableNames
<1>5. CASE FoldCommits(p)
  <2>1. log' = [log EXCEPT !.folded[m].commit = @ \o log.pending[m].commit]
    BY <1>5 DEF FoldCommits
  <2>2. at[p] = "log_commits" /\ at'[p] = "log_published"
    BY <1>0, <1>5, GoesTo DEF FoldCommits
  <2> HIDE DEF m
  <2>3. /\ log'.pending = log.pending
        /\ log'.folded[s][table] = IF s = m /\ table = "commit"
                                   THEN log.folded[s][table] \o log.pending[s][table]
                                   ELSE log.folded[s][table]
    BY <1>1, <1>2, <2>1 DEF Halves, TableNames
  <2>4. Min(Logs)' = m
    BY <2>3 DEF Logs, m
  <2>5. /\ Merged(at[p], s, table)' <=> s = m /\ table = "commit"
        /\ ~Merged(at[p], s, table)
    BY <2>2, <2>4 DEF Merged
  <2> QED
    BY <2>3, <2>5 DEF WholeTable
<1>6. CASE FoldPublished(p)
  <2>1. log' = [log EXCEPT !.folded[m].published = @ \o log.pending[m].published]
    BY <1>6 DEF FoldPublished
  <2>2. at[p] = "log_published" /\ at'[p] = "unlink_log"
    BY <1>0, <1>6, GoesTo DEF FoldPublished
  <2>3. Merged(at[p], s, table) <=> s = m /\ table = "commit"
    BY <2>2 DEF Merged
  <2> HIDE DEF m
  <2>4. /\ log'.pending = log.pending
        /\ log'.folded[s][table] = IF s = m /\ table = "published"
                                   THEN log.folded[s][table] \o log.pending[s][table]
                                   ELSE log.folded[s][table]
    BY <1>1, <1>2, <2>1 DEF Halves, TableNames
  <2>5. Min(Logs)' = m
    BY <2>4 DEF Logs, m
  <2>6. Merged(at[p], s, table)' <=> s = m
    BY <2>2, <2>5 DEF Merged
  <2> QED
    BY <2>3, <2>4, <2>6 DEF WholeTable, TableNames
<1>7. CASE UnlinkLog(p)
  <2>1. log' = [log EXCEPT !.pending[m] = NoLog]
    BY <1>7 DEF UnlinkLog
  <2>2. at[p] = "unlink_log" /\ at'[p] = "log_commits"
    BY <1>0, <1>7, GoesTo DEF UnlinkLog
  <2>3. Merged(at[p], s, table) <=> s = m
    BY <2>2 DEF Merged
  <2> HIDE DEF m
  <2>4. /\ log'.folded = log.folded
        /\ s # m => log'.pending[s][table] = log.pending[s][table]
        /\ s = m => log'.pending[s][table] = <<>>
    BY <1>1, <1>2, <2>1 DEF Halves, TableNames, NoLog
  <2>5. ~Merged(at[p], s, table)'
    BY <2>2 DEF Merged
  <2>6. log.folded[s][table] \o <<>> = log.folded[s][table]
    BY <1>3, <1>4
  <2> QED
    BY <2>3, <2>4, <2>5, <2>6 DEF WholeTable
<1> QED
  BY <1>5, <1>6, <1>7

\* Only the two writers of rows change the whole logs.
LEMMA WholeKept ==
    ASSUME NEW p \in Procs, Around(p), Copied, ~WriteCommits(p), ~WritePublications(p),
           HeadGood(at[p], fold[p], last[p]), FoldGood(at[p], job[p], fold[p])
    PROVE  Whole(at[p])' = Whole(at[p])
<1>0. Typed /\ Step(p)
  BY DEF Around, Works, Step, Start
<1>1. CASE FoldCommits(p) \/ FoldPublished(p) \/ UnlinkLog(p)
  BY <1>1, WholeFold
<1>2. CASE ~(FoldCommits(p) \/ FoldPublished(p) \/ UnlinkLog(p))
  <2>1. log' = log
    BY <1>0, <1>2, LogFrame DEF RowWriter
  <2>2. at[p] \notin {"log_published", "unlink_log"}
    <3>1. ~FoldRaises(p)
      BY NeverRaises
    <3>2. CASE Commit(p) \/ Snapshot(p) \/ StartFold(p) \/ Repair(p) \/ Publish(p)
      BY <3>2 DEF Commit, Snapshot, StartFold, Repair, MayStart, Publish
    <3>3. CASE Fold(p)
      BY <1>2, <3>1, <3>3 DEF Fold, MoveEntry, MoveHead, RemoveLgr, LgrMoved, MoveState, RemoveStates,
                              StatesMoved, EndFold, LogsMerged
    <3>4. CASE Record(p)
      BY <3>4 DEF Record, WriteState, AskSeq, WriteCommits, WritePublications, RowsWritten, ReadFolded,
                  ReadPending, Link, LinkCollides, WriteHead
    <3> QED
      BY <3>2, <3>3, <3>4 DEF Around, Works
  <2>3. at'[p] \notin {"log_published", "unlink_log"}
    <3>1. CASE Commit(p) \/ Snapshot(p) \/ StartFold(p) \/ Publish(p)
      BY <1>0, <3>1, GoesTo DEF Commit, Snapshot, StartFold, Publish
    <3>2. CASE Repair(p) \/ MoveEntry(p) \/ MoveHead(p) \/ MoveState(p)
      BY <2>2, <3>2 DEF Repair, MoveEntry, MoveHead, MoveState
    <3>3. CASE RemoveLgr(p) \/ RemoveStates(p) \/ EndFold(p) \/ FoldRaises(p)
      BY <1>0, <3>3, GoesTo, EndedIs DEF RemoveLgr, RemoveStates, EndFold, FoldRaises
    <3>4. CASE \/ WriteState(p) \/ AskSeq(p) \/ RowsWritten(p) \/ ReadFolded(p)
               \/ ReadPending(p) \/ Link(p) \/ LinkCollides(p) \/ WriteHead(p)
      BY <1>0, <3>4, GoesTo, EndedIs DEF WriteState, AskSeq, RowsWritten, ReadFolded,
                  ReadPending, Link, LinkCollides, WriteHead
    <3> QED
      BY <1>2, <3>1, <3>2, <3>3, <3>4 DEF Around, Works, Fold, Record
  <2> QED
    BY <2>1, <2>2, <2>3, WholeFrame
<1> QED
  BY <1>1, <1>2

\* v is w with some rows more in one table of one State.
Appended(v, w, d, table, rows) ==
    \A s \in States, t \in TableNames :
        v[s][t] = IF s = d /\ t = table THEN w[s][t] \o rows ELSE w[s][t]

\* What is appended to a pending table is appended to the whole.
LEMMA AppendedTable ==
    ASSUME Typed, NEW p \in Procs, NEW d \in States, NEW table \in TableNames, NEW rows \in Seq(Row),
           log' = [log EXCEPT !["pending"][d][table] = @ \o rows],
           at[p] \notin {"log_published", "unlink_log"}, at'[p] \notin {"log_published", "unlink_log"}
    PROVE  Appended(Whole(at[p])', Whole(at[p]), d, table, rows)
<1>1. log \in [Halves -> [States -> [commit : Seq(Row), published : Seq(Row)]]]
  BY Tables
<1>2. \A s \in States, t \in TableNames : log.folded[s][t] \in Seq(Row) /\ log.pending[s][t] \in Seq(Row)
  BY <1>1 DEF Halves, TableNames
<1>3. \A a, b, c \in Seq(Row) : (a \o b) \o c = a \o (b \o c)
  BY ConcatAssociative
<1> SUFFICES ASSUME NEW s \in States, NEW t \in TableNames
             PROVE  WholeTable(at[p], s, t)'
                      = IF s = d /\ t = table THEN WholeTable(at[p], s, t) \o rows
                        ELSE WholeTable(at[p], s, t)
  BY DEF Whole, Appended, TableNames
<1>4. /\ log'.folded[s][t] = log.folded[s][t]
      /\ log'.pending[s][t] = IF s = d /\ t = table THEN log.pending[s][t] \o rows
                              ELSE log.pending[s][t]
  BY <1>1 DEF Halves, TableNames
<1>5. /\ WholeTable(at[p], s, t) = log.folded[s][t] \o log.pending[s][t]
      /\ WholeTable(at[p], s, t)' = log'.folded[s][t] \o log'.pending[s][t]
  BY DEF WholeTable, Merged
<1>6. (log.folded[s][t] \o log.pending[s][t]) \o rows = log.folded[s][t] \o (log.pending[s][t] \o rows)
  <2> DEFINE a == log.folded[s][t]
             b == log.pending[s][t]
  <2>1. a \in Seq(Row) /\ b \in Seq(Row)
    BY <1>2
  <2> HIDE DEF a, b
  <2>2. (a \o b) \o rows = a \o (b \o rows)
    BY <1>3, <2>1
  <2> QED
    BY <2>2 DEF a, b
<1> QED
  BY <1>4, <1>5, <1>6

\* What a writer of rows writes, and where.
LEMMA WritesCommits ==
    ASSUME NEW p \in Procs, Around(p), WriteCommits(p)
    PROVE  /\ at[p] = "commits" /\ at'[p] = "publications"
           /\ job[p].state \in States
           /\ RowsFor(p, "commit", job[p].commits) \in Seq(RowsOf(Done))
           /\ RowsFor(p, "commit", job[p].commits) \in Seq(Row)
           /\ Appended(Whole(at[p])', Whole(at[p]), job[p].state, "commit",
                       RowsFor(p, "commit", job[p].commits))
           /\ job'[p].written = RowsFor(p, "commit", job[p].commits)
           /\ job'[p].seq = job[p].seq /\ job'[p].pubs = job[p].pubs
           /\ UNCHANGED <<lgr, made, pushed>>
<1>0. Typed
  BY DEF Around
<1> DEFINE rows == RowsFor(p, "commit", job[p].commits)
<1>1. /\ at[p] = "commits" /\ at'[p] = "publications" /\ UNCHANGED <<lgr, made, pushed>>
      /\ log' = [log EXCEPT !["pending"][job[p].state]["commit"] = @ \o rows]
      /\ job' = [job EXCEPT ![p].written = rows]
  BY <1>0, GoesTo DEF WriteCommits, git
<1>2. job[p].state \in States
  BY <1>0, <1>1 DEF Typed, JobTyped, Recording
<1>3. rows \in Seq(RowsOf(Done)) /\ rows \in Seq(Row)
  <2>1. job[p].commits \in Seq(Done) /\ job[p].commits \in Seq(Sha) /\ job[p].seq \in Nat
    BY <1>0, TypedTypeOK DEF TypeOK, Typed, JobTyped
  <2>2. RowsOf(Sha) = Row
    BY DEF RowsOf, Row
  <2> QED
    BY <2>1, <2>2, RowsForTyped
<1>4. job'[p].written = rows /\ job'[p].seq = job[p].seq /\ job'[p].pubs = job[p].pubs
  BY <1>0, <1>1 DEF Typed, JobTyped
<1> HIDE DEF rows
<1>5. Appended(Whole(at[p])', Whole(at[p]), job[p].state, "commit", rows)
  BY <1>0, <1>1, <1>2, <1>3, AppendedTable DEF TableNames
<1> QED
  BY <1>1, <1>2, <1>3, <1>4, <1>5 DEF rows

\* A push writes the rows of the first State that waits for some.
LEMMA WritesPublications ==
    ASSUME NEW p \in Procs, Around(p), WritePublications(p)
    PROVE  \E d \in States :
             /\ d \in Due(p) /\ \A s \in Due(p) : d <= s
             /\ at[p] = "publications" /\ at'[p] = "publications"
             /\ RowsFor(p, "published", job[p].pubs[d]) \in Seq(RowsOf(Public))
             /\ RowsFor(p, "published", job[p].pubs[d]) \in Seq(Row)
             /\ Appended(Whole(at[p])', Whole(at[p]), d, "published",
                         RowsFor(p, "published", job[p].pubs[d]))
             /\ job'[p].written = job[p].written \o RowsFor(p, "published", job[p].pubs[d])
             /\ job'[p].pubs = [job[p].pubs EXCEPT ![d] = <<>>] /\ job'[p].seq = job[p].seq
             /\ UNCHANGED <<lgr, made, pushed>>
<1>0. Typed
  BY DEF Around
<1> DEFINE d == Min(Due(p))
           rows == RowsFor(p, "published", job[p].pubs[d])
<1>1. /\ at[p] = "publications" /\ at' = at /\ UNCHANGED <<lgr, made, pushed>> /\ Due(p) # {}
      /\ log' = [log EXCEPT !["pending"][d]["published"] = @ \o rows]
      /\ job' = [job EXCEPT ![p].written = @ \o rows, ![p].pubs[d] = <<>>]
  BY DEF WritePublications, git
<1>2. d \in Due(p) /\ (\A s \in Due(p) : d <= s) /\ d \in States
  <2>1. Due(p) \in SUBSET States
    BY DEF Due
  <2> QED
    BY <1>1, <2>1, Least, MemoryAssumption DEF States
<1> HIDE DEF d
<1>3. rows \in Seq(RowsOf(Public)) /\ rows \in Seq(Row)
  <2>1. job[p].pubs[d] \in Seq(Public) /\ job[p].pubs[d] \in Seq(Sha) /\ job[p].seq \in Nat
    BY <1>0, <1>2, TypedTypeOK DEF TypeOK, Typed, JobTyped
  <2>2. RowsOf(Sha) = Row
    BY DEF RowsOf, Row
  <2> QED
    BY <2>1, <2>2, RowsForTyped
<1> HIDE DEF rows
<1>4. /\ job'[p].written = job[p].written \o rows /\ job'[p].pubs = [job[p].pubs EXCEPT ![d] = <<>>]
      /\ job'[p].seq = job[p].seq
  BY <1>0, <1>1 DEF Typed, JobTyped
<1>5. Appended(Whole(at[p])', Whole(at[p]), d, "published", rows)
  BY <1>0, <1>1, <1>2, <1>3, AppendedTable DEF TableNames
<1> QED
  BY <1>1, <1>2, <1>3, <1>4, <1>5 DEF rows

-----------------------------------------------------------------------------
(* Which half a row is in                                                   *)

\* The steps at which rows may name the entry the command is about to link.
Ahead == {"publications", "read_folded", "read_pending", "link"}

\* A step that touches neither logs nor entries.
LEMMA SplitFrame ==
    ASSUME NEW p \in Procs, SplitGood(at[p]), UNCHANGED <<log, lgr>>,
           at'[p] \notin Folding => at[p] \notin Folding \/ Logs = {},
           at[p] \in Ahead => at'[p] \in Ahead
    PROVE  SplitGood(at[p])'
<1>1. Entries' = Entries /\ Top' = Top
  BY SameTop DEF Entries
<1>2. ASSUME Logs = {}, NEW s \in States, NEW table \in TableNames, NEW row \in ToSet(log.pending[s][table])
      PROVE  FALSE
  <2>1. log.pending[s][table] = <<>>
    BY <1>2 DEF Logs, NoLog, TableNames
  <2> QED
    BY <1>2, <2>1 DEF ToSet
<1> QED
  BY <1>1, <1>2 DEF SplitGood, Names, Ahead

\* Rows are appended to one table.
AddsRows(h, d, table, rows) == log' = [log EXCEPT ![h][d][table] = @ \o rows]

\* Where a row of the next state comes from.
LEMMA RowsAppended ==
    ASSUME Typed, NEW h \in Halves, NEW d \in States, NEW table \in TableNames, NEW rows \in Seq(Row),
           AddsRows(h, d, table, rows)
    PROVE  \A k \in Halves, s \in States, t \in TableNames : \A row \in ToSet(log'[k][s][t]) :
              \/ row \in ToSet(log[k][s][t])
              \/ k = h /\ s = d /\ t = table /\ row \in ToSet(rows)
<1> SUFFICES ASSUME NEW k \in Halves, NEW s \in States, NEW t \in TableNames, NEW row \in ToSet(log'[k][s][t]),
                    ~(row \in ToSet(log[k][s][t]))
             PROVE  k = h /\ s = d /\ t = table /\ row \in ToSet(rows)
  OBVIOUS
<1>1. log \in [Halves -> [States -> [commit : Seq(Row), published : Seq(Row)]]]
  BY Tables
<1>2. k = h /\ s = d /\ t = table
  BY <1>1 DEF TableNames, AddsRows
<1>3. log'[k][s][t] = log[k][s][t] \o rows /\ log[k][s][t] \in Seq(Row)
  BY <1>1, <1>2 DEF TableNames, AddsRows
<1>4. ToSet(log'[k][s][t]) = ToSet(log[k][s][t]) \cup ToSet(rows)
  BY <1>3, Tables
<1> QED
  BY <1>2, <1>4

\* The rows a command writes name the entry it is about to link.
LEMMA RowsForName ==
    ASSUME NEW p, NEW table, NEW shas, NEW row \in ToSet(RowsFor(p, table, shas))
    PROVE  row.entry = job[p].seq
BY DEF RowsFor, ToSet

\* They go to the pending half, where no folded entry is named.
LEMMA SplitWrites ==
    ASSUME NEW p \in Procs, Around(p), SplitGood(at[p]), WriteCommits(p) \/ WritePublications(p),
           job[p].seq = Top + 1
    PROVE  SplitGood(at[p])'
<1>0. Typed /\ LedgerInv
  BY DEF Around
<1>1. /\ at[p] \in {"commits", "publications"} /\ at'[p] = "publications"
      /\ lgr' = lgr /\ Entries' = Entries
  BY WritesCommits, WritesPublications DEF Entries
<1>2. Top' = Top
  BY <1>1, SameTop
<1>3. \E d \in States, table \in TableNames, rows \in Seq(Row) :
         /\ AddsRows("pending", d, table, rows)
         /\ \A row \in ToSet(rows) : row.entry = Top + 1
  <2>1. CASE WriteCommits(p)
    <3> DEFINE rows == RowsFor(p, "commit", job[p].commits)
    <3>1. AddsRows("pending", job[p].state, "commit", rows)
      BY <2>1 DEF WriteCommits, AddsRows
    <3>2. rows \in Seq(Row) /\ job[p].state \in States
      BY <2>1, WritesCommits
    <3>3. \A row \in ToSet(rows) : row.entry = Top + 1
      BY RowsForName
    <3> HIDE DEF rows
    <3> QED
      BY <3>1, <3>2, <3>3 DEF TableNames
  <2>2. CASE WritePublications(p)
    <3> DEFINE d == Min(Due(p))
               rows == RowsFor(p, "published", job[p].pubs[d])
    <3>1. AddsRows("pending", d, "published", rows) /\ Due(p) # {}
      BY <2>2 DEF WritePublications, AddsRows
    <3>2. d \in States
      <4>1. Due(p) \in SUBSET States
        BY DEF Due
      <4> QED
        BY <3>1, <4>1, Least, MemoryAssumption DEF States
    <3> HIDE DEF d
    <3>3. rows \in Seq(Row)
      <4>1. job[p].pubs[d] \in Seq(Sha) /\ job[p].seq \in Nat
        BY <1>0, <3>2, TypedTypeOK DEF TypeOK
      <4>2. RowsOf(Sha) = Row
        BY DEF RowsOf, Row
      <4> QED
        BY <4>1, <4>2, RowsForTyped
    <3>4. \A row \in ToSet(rows) : row.entry = Top + 1
      BY RowsForName
    <3> HIDE DEF rows
    <3> QED
      BY <3>1, <3>2, <3>3, <3>4 DEF TableNames
  <2> QED
    BY <2>1, <2>2, <1>1 DEF TableNames
<1>4. PICK d \in States, table \in TableNames, rows \in Seq(Row) :
         /\ AddsRows("pending", d, table, rows)
         /\ \A row \in ToSet(rows) : row.entry = Top + 1
  BY <1>3
<1>5. \A k \in Halves, s \in States, t \in TableNames : \A row \in ToSet(log'[k][s][t]) :
         \/ row \in ToSet(log[k][s][t])
         \/ k = "pending" /\ row.entry = Top + 1
  <2>1. "pending" \in Halves
    BY DEF Halves
  <2> QED
    BY <1>0, <1>4, <2>1, RowsAppended
<1>6. ~Names(lgr.folded, Top + 1)
  <2>1. Top \in Nat /\ \A e \in lgr.folded : e.seq \in 1..Top
    BY <1>0, TopIs DEF Numbers, Entries
  <2> QED
    BY <2>1 DEF Names
<1>7. ASSUME NEW s \in States, NEW t \in TableNames, NEW row \in ToSet(log'.folded[s][t])
      PROVE  Names(lgr'.folded, row.entry)
  <2>1. row \in ToSet(log.folded[s][t])
    BY <1>5 DEF Halves
  <2> QED
    BY <1>1, <2>1 DEF SplitGood
<1>8. ASSUME NEW s \in States, NEW t \in TableNames, NEW row \in ToSet(log'.pending[s][t])
      PROVE  ~Names(lgr'.folded, row.entry) /\ (Names(Entries', row.entry) \/ row.entry = Top' + 1)
  <2>1. row \in ToSet(log.pending[s][t]) \/ row.entry = Top + 1
    BY <1>5 DEF Halves
  <2> QED
    BY <1>1, <1>2, <1>6, <2>1 DEF SplitGood, Folding
<1> QED
  BY <1>1, <1>7, <1>8 DEF SplitGood, Names

\* A fold moves rows after the entries they name.
LEMMA SplitFolds ==
    ASSUME NEW p \in Procs, Around(p), SplitGood(at[p]), FoldGood(at[p], job[p], fold[p]), Copied,
           FoldCommits(p) \/ FoldPublished(p) \/ UnlinkLog(p)
    PROVE  SplitGood(at[p])'
<1> DEFINE m == Min(Logs)
<1>0. Typed
  BY DEF Around
<1>1. log \in [Halves -> [States -> [commit : Seq(Row), published : Seq(Row)]]]
  BY <1>0, Tables
<1>2. /\ at[p] \in {"log_commits", "log_published", "unlink_log"}
      /\ at'[p] \in {"log_commits", "log_published", "unlink_log"}
      /\ lgr' = lgr /\ Entries' = Entries
  BY <1>0, GoesTo DEF FoldCommits, FoldPublished, UnlinkLog, Entries
<1>3. Entries = lgr.folded /\ Top' = Top
  BY <1>2, SameTop DEF FoldGood, Folding, Entries
<1>4. m \in States
  <2>1. Logs # {}
    BY DEF FoldCommits, FoldPublished, UnlinkLog, Copied
  <2> QED
    BY <2>1, MinLogs
<1>5. CASE FoldCommits(p) \/ FoldPublished(p)
  <2>1. PICK table \in TableNames : AddsRows("folded", m, table, log.pending[m][table])
    BY <1>5 DEF FoldCommits, FoldPublished, TableNames, AddsRows
  <2>2. log.pending[m][table] \in Seq(Row)
    BY <1>1, <1>4 DEF Halves, TableNames
  <2> HIDE DEF m
  <2>3. \A k \in Halves, s \in States, t \in TableNames : \A row \in ToSet(log'[k][s][t]) :
           \/ row \in ToSet(log[k][s][t])
           \/ k = "folded" /\ row \in ToSet(log.pending[m][table])
    <3>1. "folded" \in Halves
      BY DEF Halves
    <3> QED
      BY <1>0, <1>4, <2>1, <2>2, <3>1, RowsAppended
  <2>4. ASSUME NEW s \in States, NEW t \in TableNames, NEW row \in ToSet(log.pending[s][t])
        PROVE  Names(Entries, row.entry)
    BY <1>2 DEF SplitGood
  <2>5. ASSUME NEW s \in States, NEW t \in TableNames, NEW row \in ToSet(log'.folded[s][t])
        PROVE  Names(lgr'.folded, row.entry)
    <3>1. row \in ToSet(log.folded[s][t]) \/ row \in ToSet(log.pending[m][table])
      BY <2>3 DEF Halves
    <3> QED
      BY <1>2, <1>3, <1>4, <2>4, <3>1 DEF SplitGood
  <2>6. ASSUME NEW s \in States, NEW t \in TableNames, NEW row \in ToSet(log'.pending[s][t])
        PROVE  Names(Entries', row.entry)
    <3>1. row \in ToSet(log.pending[s][t])
      BY <2>3 DEF Halves
    <3> QED
      BY <1>2, <2>4, <3>1
  <2> QED
    BY <1>2, <2>5, <2>6 DEF SplitGood, Names, Folding
<1>6. CASE UnlinkLog(p)
  <2>1. log' = [log EXCEPT !.pending[m] = NoLog]
    BY <1>6 DEF UnlinkLog
  <2> HIDE DEF m
  <2>2. /\ log'.folded = log.folded
        /\ \A s \in States, t \in TableNames :
              log'.pending[s][t] = log.pending[s][t] \/ log'.pending[s][t] = <<>>
    BY <1>1, <2>1 DEF Halves, NoLog, TableNames
  <2>3. \A s \in States, t \in TableNames : \A row \in ToSet(log'.pending[s][t]) :
           row \in ToSet(log.pending[s][t])
    BY <2>2 DEF ToSet
  <2> QED
    BY <1>2, <1>3, <2>2, <2>3 DEF SplitGood, Names, Folding
<1> QED
  BY <1>5, <1>6

\* Every step keeps the rows in the half of their entry.
LEMMA SplitStep ==
    ASSUME NEW p \in Procs, Around(p), Copied,
           HeadGood(at[p], fold[p], last[p]), FoldGood(at[p], job[p], fold[p]),
           SplitGood(at[p]), at[p] \in {"commits", "publications"} => job[p].seq = Top + 1
    PROVE  SplitGood(at[p])'
<1>0. Typed
  BY DEF Around
<1> USE DEF Ahead, Folding
<1>1. CASE Commit(p) \/ Snapshot(p) \/ StartFold(p) \/ Publish(p)
  <2>1. UNCHANGED <<log, lgr>> /\ at[p] \in {"idle", "publish"} /\ at'[p] \in {"state", "entries"}
    BY <1>0, <1>1, GoesTo DEF Commit, Snapshot, StartFold, Publish, MayStart, disk
  <2> QED
    BY <2>1, SplitFrame
<1>2. CASE Repair(p) \/ MoveHead(p) \/ MoveState(p)
  <2>1. UNCHANGED <<log, lgr, at>>
    BY <1>2 DEF Repair, MoveHead, MoveState
  <2> QED
    BY <2>1, SplitFrame
<1>3. CASE MoveEntry(p)
  <2>1. Entries' = Entries /\ Top' = Top
    BY <1>3, MoveEntryStep, SameTop DEF Around, LedgerInv
  <2>2. at[p] = "entries" /\ at' = at /\ log' = log
    BY <1>3 DEF MoveEntry
  <2>3. \A n : Names(lgr.folded, n) => Names(lgr'.folded, n)
    <3>1. PICK n : lgr' = [folded  |-> {e \in lgr.folded : e.seq # n} \cup {e \in lgr.pending : e.seq = n},
                           pending |-> lgr.pending \ {e \in lgr.pending : e.seq = n}]
                  /\ n \in fold[p].entries
      <4>1. fold[p].entries = {e.seq : e \in lgr.pending} /\ fold[p].entries # {}
        BY <1>3, <2>2 DEF MoveEntry, Around, LedgerInv, Informed
      <4>2. Min(fold[p].entries) \in fold[p].entries
        <5>1. Top \in Nat /\ fold[p].entries \in SUBSET (1..Top)
          BY <4>1, TopIs DEF Around, Numbers, Entries
        <5> QED
          BY <4>1, <5>1, Least
      <4> QED
        BY <1>3, <4>2 DEF MoveEntry
    <3>2. PICK f \in lgr.pending : f.seq = n
      BY <2>2, <3>1 DEF Around, LedgerInv, Informed
    <3> QED
      BY <3>1, <3>2 DEF Names
  <2> QED
    BY <2>1, <2>2, <2>3 DEF SplitGood, Names
<1>4. CASE RemoveLgr(p) \/ RemoveStates(p)
  <2>1. UNCHANGED <<log, lgr>> /\ at[p] \in {"entries", "states"} /\ at'[p] \in {"states", "log_commits"}
    BY <1>0, <1>4, GoesTo DEF RemoveLgr, RemoveStates, LgrMoved, StatesMoved, disk
  <2> QED
    BY <2>1, SplitFrame
<1>5. CASE FoldCommits(p) \/ FoldPublished(p) \/ UnlinkLog(p)
  BY <1>5, SplitFolds
<1>6. CASE EndFold(p)
  <2>1. UNCHANGED <<log, lgr>> /\ at[p] = "log_commits" /\ Logs = {}
    BY <1>6 DEF EndFold, LogsMerged, disk
  <2> QED
    BY <2>1, SplitFrame
<1>7. ~FoldRaises(p)
  BY NeverRaises
<1>8. CASE WriteCommits(p) \/ WritePublications(p)
  <2>1. at[p] \in {"commits", "publications"}
    BY <1>8 DEF WriteCommits, WritePublications
  <2> QED
    BY <1>8, <2>1, SplitWrites
<1>9. CASE WriteState(p) \/ AskSeq(p)
  <2>1. UNCHANGED <<log, lgr>> /\ at[p] \in {"state", "seq"}
    BY <1>9 DEF WriteState, AskSeq, disk
  <2> QED
    BY <2>1, SplitFrame
<1>10. CASE RowsWritten(p) \/ ReadFolded(p) \/ ReadPending(p)
  <2>1. UNCHANGED <<log, lgr>> /\ at[p] \in Ahead /\ at'[p] \in Ahead
    BY <1>0, <1>10, GoesTo DEF RowsWritten, ReadFolded, ReadPending, disk
  <2> QED
    BY <2>1, SplitFrame
<1>11. CASE Link(p)
  <2>1. PICK e : /\ e = [seq |-> Top + 1, id |-> built + 1, prev |-> last[p].id,
                         state |-> job[p].state, vouches |-> job[p].written]
                 /\ lgr'.folded = lgr.folded
                 /\ Entries' = Entries \cup {e}
    BY <1>11, LinkedNext DEF Around
  <2>2. e.seq = Top + 1
    BY <2>1
  <2>3. log' = log /\ at[p] = "link"
    BY <1>11 DEF Link
  <2> QED
    BY <2>1, <2>2, <2>3 DEF SplitGood, Names
<1>12. ~LinkCollides(p)
  BY LinkTop DEF LinkCollides, Around
<1>13. CASE WriteHead(p)
  <2>1. UNCHANGED <<log, lgr>> /\ at[p] = "head"
    BY <1>13 DEF WriteHead
  <2> QED
    BY <2>1, SplitFrame
<1> QED
  BY <1>1, <1>2, <1>3, <1>4, <1>5, <1>6, <1>7, <1>8, <1>9, <1>10, <1>11, <1>12, <1>13
     DEF Around, Works, Fold, Record

-----------------------------------------------------------------------------
(* What an entry signed                                                     *)

\* The tables of whole logs, as rows of any kind.
LEMMA WholeTables ==
    ASSUME NEW w \in WholeLogs, NEW s \in States, NEW table \in TableNames
    PROVE  w[s][table] \in Seq(Row)
<1>1. RowsOf(Done) \subseteq Row /\ RowsOf(Public) \subseteq Row
  BY DEF RowsOf, Done, Public, Row
<1>2. Seq(RowsOf(Done)) \subseteq Seq(Row) /\ Seq(RowsOf(Public)) \subseteq Seq(Row)
  BY <1>1, SeqMonotonic
<1>3. w[s].commit \in Seq(RowsOf(Done)) /\ w[s].published \in Seq(RowsOf(Public))
  BY DEF WholeLogs
<1> QED
  BY <1>2, <1>3 DEF TableNames

\* The rows that name an entry are rows,
LEMMA NamedEach ==
    ASSUME NEW w \in WholeLogs, NEW table \in TableNames, NEW n
    PROVE  /\ [s \in States |-> Naming(w[s][table], n)] \in [1..NStates -> Seq(Row)]
           /\ Named(w, table, n) \in Seq(Row)
<1> DEFINE f == [s \in States |-> Naming(w[s][table], n)]
<1>1. f \in [1..NStates -> Seq(Row)]
  BY WholeTables, NamingTyped DEF States
<1> HIDE DEF f
<1>2. FlattenSeq(f) \in Seq(Row)
  BY <1>1, FlatSeq, MemoryAssumption
<1> QED
  BY <1>1, <1>2 DEF Named, f

\* none in a table when no row of it does,
LEMMA NamedNone ==
    ASSUME NEW w \in WholeLogs, NEW table \in TableNames, NEW n,
           \A s \in States : \A row \in ToSet(w[s][table]) : row.entry # n
    PROVE  Named(w, table, n) = <<>>
<1> DEFINE f == [s \in States |-> Naming(w[s][table], n)]
<1>1. f \in [1..NStates -> Seq(Row)]
  BY NamedEach
<1>2. \A s \in 1..NStates : f[s] = <<>>
  BY WholeTables, NamingNone DEF States
<1> HIDE DEF f
<1>3. FlattenSeq(f) = <<>>
  BY <1>1, <1>2, FlatNone, MemoryAssumption
<1> QED
  BY <1>3 DEF Named, f

\* and none at all when no row does.
LEMMA SignedNone ==
    ASSUME NEW w \in WholeLogs, NEW n,
           \A s \in States, table \in TableNames : \A row \in ToSet(w[s][table]) : row.entry # n
    PROVE  Signed(w, n) = <<>>
<1>1. Named(w, "commit", n) = <<>> /\ Named(w, "published", n) = <<>>
  BY NamedNone DEF TableNames
<1> QED
  BY <1>1 DEF Signed

\* Nothing signed: no table has a row that names it.
LEMMA NoneSigned ==
    ASSUME NEW w \in WholeLogs, NEW n, Signed(w, n) = <<>>
    PROVE  \A s \in States, table \in TableNames : Naming(w[s][table], n) = <<>>
<1>1. Named(w, "commit", n) \in Seq(Row) /\ Named(w, "published", n) \in Seq(Row)
  BY NamedEach DEF TableNames
<1>2. \A a, b \in Seq(Row) : a \o b = <<>> => a = <<>> /\ b = <<>>
  <2> SUFFICES ASSUME NEW a \in Seq(Row), NEW b \in Seq(Row), a \o b = <<>> PROVE a = <<>> /\ b = <<>>
    OBVIOUS
  <2>1. Len(a) + Len(b) = 0 /\ Len(a) \in Nat /\ Len(b) \in Nat
    BY ConcatProperties, EmptySeq, LenProperties
  <2> QED
    BY <2>1, EmptySeq
<1>3. \A table \in TableNames : Named(w, table, n) = <<>>
  BY <1>1, <1>2 DEF Signed, TableNames
<1> SUFFICES ASSUME NEW s \in States, NEW table \in TableNames PROVE Naming(w[s][table], n) = <<>>
  OBVIOUS
<1> DEFINE f == [t \in States |-> Naming(w[t][table], n)]
<1>4. f \in [1..NStates -> Seq(Row)]
  BY NamedEach
<1>5. FlattenSeq(f) = <<>>
  BY <1>3 DEF Named
<1>6. f[s] = Naming(w[s][table], n)
  OBVIOUS
<1> HIDE DEF f
<1>7. \A t \in 1..NStates : f[t] = <<>>
  BY <1>4, <1>5, NoneFlat, MemoryAssumption
<1> QED
  BY <1>6, <1>7 DEF States

\* Rows that name something else change nothing.
LEMMA SignedSame ==
    ASSUME NEW v \in WholeLogs, NEW w \in WholeLogs, NEW d \in States, NEW table \in TableNames,
           NEW rows \in Seq(Row), Appended(v, w, d, table, rows),
           NEW n, \A row \in ToSet(rows) : row.entry # n
    PROVE  Signed(v, n) = Signed(w, n)
<1>1. \A s \in States, t \in TableNames : Naming(v[s][t], n) = Naming(w[s][t], n)
  <2> SUFFICES ASSUME NEW s \in States, NEW t \in TableNames
               PROVE  Naming(v[s][t], n) = Naming(w[s][t], n)
    OBVIOUS
  <2>1. CASE s = d /\ t = table
    <3>1. v[s][t] = w[s][t] \o rows /\ w[s][t] \in Seq(Row)
      BY <2>1, WholeTables DEF Appended
    <3>2. Naming(w[s][t] \o rows, n) = Naming(w[s][t], n) \o Naming(rows, n)
      BY <3>1, NamingConcat
    <3>3. Naming(rows, n) = <<>> /\ Naming(w[s][t], n) \in Seq(Row)
      BY <3>1, NamingNone, NamingTyped
    <3>4. \A a \in Seq(Row) : a \o <<>> = a
      BY ConcatEmptySeq
    <3> QED
      BY <3>1, <3>2, <3>3, <3>4
  <2>2. CASE ~(s = d /\ t = table)
    BY <2>2 DEF Appended
  <2> QED
    BY <2>1, <2>2
<1>2. \A t \in TableNames : Named(v, t, n) = Named(w, t, n)
  BY <1>1 DEF Named
<1> QED
  BY <1>2 DEF Signed, TableNames

\* Rows that name n, appended after all those of the table that do, come last.
LEMMA NamedGrows ==
    ASSUME NEW v \in WholeLogs, NEW w \in WholeLogs, NEW d \in States, NEW table \in TableNames,
           NEW rows \in Seq(Row), Appended(v, w, d, table, rows),
           NEW n, \A row \in ToSet(rows) : row.entry = n,
           \A s \in States : d <= s => Naming(w[s][table], n) = <<>>
    PROVE  /\ Named(v, table, n) = Named(w, table, n) \o rows
           /\ \A t \in TableNames : t # table => Named(v, t, n) = Named(w, t, n)
           /\ \A s \in States : Naming(v[s][table], n) = IF s = d THEN rows ELSE Naming(w[s][table], n)
<1> DEFINE f == [s \in States |-> Naming(w[s][table], n)]
           g == [s \in States |-> Naming(v[s][table], n)]
<1>1. Naming(v[d][table], n) = rows
  <2>1. v[d][table] = w[d][table] \o rows /\ w[d][table] \in Seq(Row)
    BY WholeTables DEF Appended
  <2>2. Naming(w[d][table] \o rows, n) = Naming(w[d][table], n) \o Naming(rows, n)
    BY <2>1, NamingConcat
  <2>3. Naming(rows, n) = rows
    BY NamingAll
  <2>4. Naming(w[d][table], n) = <<>>
    BY DEF States
  <2>5. <<>> \o rows = rows
    BY ConcatEmptySeq
  <2> QED
    BY <2>1, <2>2, <2>3, <2>4, <2>5
<1>2. \A s \in States : s # d => v[s][table] = w[s][table]
  BY DEF Appended
<1>3. g[d] = rows /\ \A s \in 1..NStates : s # d => g[s] = f[s]
  BY <1>1, <1>2 DEF States
<1>4. f \in [1..NStates -> Seq(Row)] /\ g \in [1..NStates -> Seq(Row)]
  BY NamedEach
<1>5. \A s \in d..NStates : f[s] = <<>>
  BY DEF States
<1>6. d \in 1..NStates /\ NStates \in Nat
  BY MemoryAssumption DEF States
<1>7. \A s \in States : Naming(v[s][table], n) = IF s = d THEN rows ELSE Naming(w[s][table], n)
  BY <1>1, <1>2
<1>8. FlattenSeq(f) = Named(w, table, n) /\ FlattenSeq(g) = Named(v, table, n)
  BY DEF Named
<1> HIDE DEF f, g
<1>9. FlattenSeq(g) = FlattenSeq(f) \o rows
  <2>1. Ends(g, f, NStates, d, rows, Row)
    BY <1>3, <1>4, <1>5, <1>6 DEF Ends
  <2> QED
    BY <2>1, FlatAppend
<1>10. \A t \in TableNames : t # table => Named(v, t, n) = Named(w, t, n)
  <2>1. \A t \in TableNames, s \in States : t # table => v[s][t] = w[s][t]
    BY DEF Appended
  <2> QED
    BY <2>1 DEF Named
<1> QED
  BY <1>7, <1>8, <1>9, <1>10

\* Until a command writes its rows, none names the next entry.
LEMMA NoneAhead ==
    ASSUME Typed, LedgerInv, NEW c, SplitGood(c), c \notin Ahead
    PROVE  Signed(Whole(c), Top + 1) = <<>>
<1>1. Whole(c) \in WholeLogs
  BY WholeTyped
<1>2. Top \in Nat /\ \A e \in Entries : e.seq \in 1..Top
  BY TopIs DEF Numbers
<1>3. ~Names(Entries, Top + 1)
  BY <1>2 DEF Names
<1>4. ASSUME NEW s \in States, NEW table \in TableNames, NEW row \in ToSet(Whole(c)[s][table])
      PROVE  row.entry # Top + 1
  <2>1. row \in ToSet(log.folded[s][table]) \/ row \in ToSet(log.pending[s][table])
    <3>1. Whole(c)[s][table] = WholeTable(c, s, table)
      BY DEF Whole, TableNames
    <3>2. log.folded[s][table] \in Seq(Row) /\ log.pending[s][table] \in Seq(Row)
      BY Tables DEF Halves, TableNames
    <3>3. ToSet(log.folded[s][table] \o log.pending[s][table])
            = ToSet(log.folded[s][table]) \cup ToSet(log.pending[s][table])
      BY <3>2, Tables
    <3> QED
      BY <1>4, <3>1, <3>3 DEF WholeTable
  <2>2. Names(Entries, row.entry)
    BY <2>1 DEF SplitGood, Ahead, Names, Entries
  <2> QED
    BY <1>3, <2>2
<1> QED
  BY <1>1, <1>4, SignedNone

\* A step that writes no row and links no entry.
LEMMA SignFrame ==
    ASSUME NEW w, NEW es, NEW top, NEW c, NEW d, NEW j, NEW k,
           SignGood(w, es, top, c, j),
           \/ d \notin Recording
           \/ /\ c \in Recording /\ d \in Recording \ {"commits", "publications"}
              /\ k.written = j.written
              /\ d \in {"state", "seq"} => c \in {"state", "seq", "commits"}
    PROVE  SignGood(w, es, top, d, k)
BY DEF SignGood, Recording

\* Rows of the right kind, appended, leave whole logs.
LEMMA AppendedTyped ==
    ASSUME NEW w \in WholeLogs, NEW v, NEW d, NEW table \in TableNames, NEW rows,
           v = [s \in States |-> [commit |-> v[s].commit, published |-> v[s].published]],
           Appended(v, w, d, table, rows),
           table = "commit" => rows \in Seq(RowsOf(Done)),
           table = "published" => rows \in Seq(RowsOf(Public))
    PROVE  v \in WholeLogs
<1>1. ASSUME NEW s \in States
      PROVE  v[s].commit \in Seq(RowsOf(Done)) /\ v[s].published \in Seq(RowsOf(Public))
  <2>1. w[s].commit \in Seq(RowsOf(Done)) /\ w[s].published \in Seq(RowsOf(Public))
    BY DEF WholeLogs
  <2>2. \A a, b \in Seq(RowsOf(Done)) : a \o b \in Seq(RowsOf(Done))
    BY ConcatProperties
  <2>3. \A a, b \in Seq(RowsOf(Public)) : a \o b \in Seq(RowsOf(Public))
    BY ConcatProperties
  <2>4. v[s].commit = w[s].commit \/ (table = "commit" /\ v[s].commit = w[s].commit \o rows)
    BY DEF Appended, TableNames
  <2>5. \/ v[s].published = w[s].published
        \/ table = "published" /\ v[s].published = w[s].published \o rows
    BY DEF Appended, TableNames
  <2>6. v[s].commit \in Seq(RowsOf(Done))
    BY <2>1, <2>2, <2>4
  <2>7. v[s].published \in Seq(RowsOf(Public))
    BY <2>1, <2>3, <2>5
  <2> QED
    BY <2>6, <2>7
<1> QED
  BY <1>1 DEF WholeLogs

\* Rows are written in the order in which they will be read back.
LEMMA SignWrites ==
    ASSUME NEW p \in Procs, Around(p), SignGood(Whole(at[p]), Entries, Top, at[p], job[p]),
           WriteCommits(p) \/ WritePublications(p)
    PROVE  SignGood(Whole(at[p]), Entries, Top, at[p], job[p])'
<1> DEFINE n == Top + 1
           w == Whole(at[p])
           v == Whole(at[p])'
<1>0. Typed /\ Typed'
  BY DEF Around
<1>1. w \in WholeLogs /\ v \in WholeLogs
  <2>1. w \in WholeLogs
    BY <1>0, WholeTyped
  <2>2. v = [s \in States |-> [commit |-> v[s].commit, published |-> v[s].published]]
    BY DEF Whole
  <2> HIDE DEF w, v
  <2>3. \E d \in States, table \in TableNames : \E rows :
           /\ Appended(v, w, d, table, rows)
           /\ table = "commit" => rows \in Seq(RowsOf(Done))
           /\ table = "published" => rows \in Seq(RowsOf(Public))
    <3>1. CASE WriteCommits(p)
      BY <3>1, WritesCommits DEF w, v, TableNames
    <3>2. CASE WritePublications(p)
      BY <3>2, WritesPublications DEF w, v, TableNames
    <3> QED
      BY <3>1, <3>2
  <2> QED
    BY <2>1, <2>2, <2>3, AppendedTyped
<1>2. Entries' = Entries /\ Top' = Top
  <2>1. lgr' = lgr
    BY WritesCommits, WritesPublications
  <2> QED
    BY <2>1, SameTop DEF Entries
<1>3. Top \in Nat /\ \A e \in Entries : e.seq \in 1..Top
  BY TopIs DEF Numbers, Around
<1>4. at[p] \in {"commits", "publications"} /\ at'[p] = "publications" /\ job'[p].seq = job[p].seq
  <2>1. job'[p].seq = job[p].seq
    BY WritesCommits, WritesPublications
  <2> QED
    BY <2>1, WritesCommits, WritesPublications
<1>5. job[p].seq = n
  BY <1>4 DEF SignGood
<1>6. Signed(w, n) = job[p].written
  BY <1>4 DEF SignGood, Recording
<1>7. \A e \in Entries : e.seq # n
  BY <1>3
<1>8. v = Whole(at[p])'
  OBVIOUS
<1> HIDE DEF w, v, n
<1>9. \A a \in Seq(Row) : a \o <<>> = a /\ <<>> \o a = a
  BY ConcatEmptySeq
<1>10. Named(w, "commit", n) \in Seq(Row) /\ Named(w, "published", n) \in Seq(Row)
  BY <1>1, NamedEach DEF TableNames
<1>11. CASE WriteCommits(p)
  <2> DEFINE rows == RowsFor(p, "commit", job[p].commits)
             d == job[p].state
  <2>1. /\ d \in States /\ rows \in Seq(Row) /\ Appended(v, w, d, "commit", rows)
        /\ job'[p].written = rows
    BY <1>11, WritesCommits DEF w, v
  <2>2. \A row \in ToSet(rows) : row.entry = n
    BY <1>5, RowsForName
  <2> HIDE DEF rows, d
  <2>3. Signed(w, n) = <<>>
    BY <1>6, <1>11 DEF SignGood, WriteCommits
  <2>4. \A s \in States, table \in TableNames : Naming(w[s][table], n) = <<>>
    BY <1>1, <2>3, NoneSigned
  <2>5. Named(w, "commit", n) = <<>> /\ Named(w, "published", n) = <<>>
    <3>1. \A a, b \in Seq(Row) : a \o b = <<>> => a = <<>> /\ b = <<>>
      <4> SUFFICES ASSUME NEW a \in Seq(Row), NEW b \in Seq(Row), a \o b = <<>> PROVE a = <<>> /\ b = <<>>
        OBVIOUS
      <4>1. Len(a) + Len(b) = 0 /\ Len(a) \in Nat /\ Len(b) \in Nat
        BY ConcatProperties, EmptySeq, LenProperties
      <4> QED
        BY <4>1, EmptySeq
    <3> QED
      BY <1>10, <2>3, <3>1 DEF Signed
  <2>6. "commit" \in TableNames /\ "published" \in TableNames
    BY DEF TableNames
  <2>7. \A s \in States : d <= s => Naming(w[s]["commit"], n) = <<>>
    BY <2>4, <2>6
  <2>8. /\ Named(v, "commit", n) = Named(w, "commit", n) \o rows
        /\ Named(v, "published", n) = Named(w, "published", n)
    BY SMTT(30), <1>1, <2>1, <2>2, <2>6, <2>7, NamedGrows
  <2>9. Signed(v, n) = job'[p].written
    BY <1>9, <2>1, <2>5, <2>8 DEF Signed
  <2>10. \A s \in States : Naming(v[s].published, n) = <<>>
    BY <2>1, <2>4, <2>6 DEF Appended
  <2>11. \A e \in Entries : Signed(v, e.seq) = Signed(w, e.seq)
    <3> SUFFICES ASSUME NEW e \in Entries PROVE Signed(v, e.seq) = Signed(w, e.seq)
      OBVIOUS
    <3>1. \A row \in ToSet(rows) : row.entry # e.seq
      BY <1>7, <2>2
    <3> QED
      BY <1>1, <2>1, <2>6, <3>1, SignedSame
  <2>12. \A e \in Entries : Signed(v, e.seq) = e.vouches
    BY <2>11 DEF SignGood, w
  <2>13. SignGood(v, Entries, Top, "publications", job'[p])
    BY <1>4, <1>5, <2>9, <2>10, <2>12 DEF SignGood, n
  <2> QED
    BY <1>2, <1>4, <2>13 DEF v
<1>12. CASE WritePublications(p)
  <2>1. PICK d \in States :
           /\ d \in Due(p) /\ \A s \in Due(p) : d <= s
           /\ RowsFor(p, "published", job[p].pubs[d]) \in Seq(Row)
           /\ Appended(v, w, d, "published", RowsFor(p, "published", job[p].pubs[d]))
           /\ job'[p].written = job[p].written \o RowsFor(p, "published", job[p].pubs[d])
           /\ job'[p].pubs = [job[p].pubs EXCEPT ![d] = <<>>]
    BY <1>12, WritesPublications DEF w, v
  <2> DEFINE rows == RowsFor(p, "published", job[p].pubs[d])
  <2>2. \A row \in ToSet(rows) : row.entry = n
    BY <1>5, RowsForName
  <2>3. /\ rows \in Seq(Row) /\ Appended(v, w, d, "published", rows)
        /\ job'[p].written = job[p].written \o rows
    BY <2>1
  <2> HIDE DEF rows
  <2>4. at[p] = "publications" /\ job[p].pubs[d] # <<>>
    BY <1>12, <2>1 DEF WritePublications, Due
  <2>5. \A s, t \in States : job[p].pubs[t] # <<>> /\ Naming(w[s].published, n) # <<>> => s < t
    BY <2>4 DEF SignGood, w, n
  <2>6. \A s \in States : d <= s => Naming(w[s]["published"], n) = <<>>
    BY <2>4, <2>5 DEF States
  <2>7. "commit" \in TableNames /\ "published" \in TableNames
    BY DEF TableNames
  <2>8. /\ Named(v, "published", n) = Named(w, "published", n) \o rows
        /\ Named(v, "commit", n) = Named(w, "commit", n)
        /\ \A s \in States : Naming(v[s]["published"], n)
                               = IF s = d THEN rows ELSE Naming(w[s]["published"], n)
    BY <1>1, <2>2, <2>3, <2>6, <2>7, NamedGrows
  <2>9. Signed(v, n) = job'[p].written
    <3> DEFINE a == Named(w, "commit", n)
               b == Named(w, "published", n)
    <3>1. a \in Seq(Row) /\ b \in Seq(Row)
      BY <1>10
    <3>2. Signed(v, n) = a \o (b \o rows) /\ Signed(w, n) = a \o b
      BY <2>8 DEF Signed
    <3> HIDE DEF a, b
    <3>3. \A x, y, z \in Seq(Row) : (x \o y) \o z = x \o (y \o z)
      BY ConcatAssociative
    <3>4. (a \o b) \o rows = a \o (b \o rows)
      BY <2>3, <3>1, <3>3
    <3> QED
      BY <1>6, <2>3, <3>2, <3>4
  <2>10. \A e \in Entries : Signed(v, e.seq) = e.vouches
    <3> SUFFICES ASSUME NEW e \in Entries PROVE Signed(v, e.seq) = e.vouches
      OBVIOUS
    <3>1. \A row \in ToSet(rows) : row.entry # e.seq
      BY <1>7, <2>2
    <3>2. Signed(v, e.seq) = Signed(w, e.seq)
      BY <1>1, <2>3, <2>7, <3>1, SignedSame
    <3> QED
      BY <3>2 DEF SignGood, w
  <2>11. ASSUME NEW s \in States, NEW t \in States,
                job'[p].pubs[t] # <<>>, Naming(v[s].published, n) # <<>>
         PROVE  s < t
    <3>1. job[p].pubs \in [States -> Seq(Public)]
      BY <1>0 DEF Typed, JobTyped
    <3>2. t # d /\ job[p].pubs[t] # <<>>
      BY <2>1, <2>11, <3>1
    <3>3. d <= t
      BY <2>1, <3>2 DEF Due
    <3>4. s = d \/ s < d
      BY <2>4, <2>5, <2>8, <2>11
    <3> QED
      BY <3>2, <3>3, <3>4 DEF States
  <2>12. SignGood(v, Entries, Top, "publications", job'[p])
    BY <1>4, <1>5, <2>9, <2>10, <2>11 DEF SignGood, n
  <2> QED
    BY <1>2, <1>4, <2>12 DEF v
<1> QED
  BY <1>11, <1>12

\* Every step keeps what the entries signed.
LEMMA SignStep ==
    ASSUME NEW p \in Procs, Around(p), Copied,
           HeadGood(at[p], fold[p], last[p]), FoldGood(at[p], job[p], fold[p]), SplitGood(at[p]),
           SignGood(Whole(at[p]), Entries, Top, at[p], job[p])
    PROVE  SignGood(Whole(at[p]), Entries, Top, at[p], job[p])'
<1>0. Typed /\ LedgerInv
  BY DEF Around
<1>1. CASE WriteCommits(p) \/ WritePublications(p)
  BY <1>1, SignWrites
<1>2. CASE ~(WriteCommits(p) \/ WritePublications(p))
  <2>1. Whole(at[p])' = Whole(at[p])
    BY <1>2, WholeKept
  <2>2. CASE Link(p)
    <3>1. PICK e : /\ e = [seq |-> Top + 1, id |-> built + 1, prev |-> last[p].id,
                           state |-> job[p].state, vouches |-> job[p].written]
                   /\ Entries' = Entries \cup {e}
      BY <2>2, LinkedNext DEF Around
    <3>2. e.seq = Top + 1 /\ e.vouches = job[p].written
      BY <3>1
    <3>3. at[p] = "link" /\ at'[p] = "head"
      BY <1>0, <2>2, GoesTo DEF Link
    <3>4. Signed(Whole(at[p]), Top + 1) = job[p].written
      BY <3>3 DEF SignGood, Recording
    <3>5. \A f \in Entries \cup {e} : Signed(Whole(at[p]), f.seq) = f.vouches
      BY <3>2, <3>4 DEF SignGood
    <3>6. SignGood(Whole(at[p]), Entries \cup {e}, Top', "head", job'[p])
      BY <3>5 DEF SignGood, Recording
    <3> QED
      BY <2>1, <3>1, <3>3, <3>6
  <2>3. CASE ~Link(p)
    <3>1. Entries' = Entries
      <4>1. CASE Commit(p) \/ Snapshot(p) \/ StartFold(p) \/ Repair(p) \/ Publish(p)
        BY <4>1 DEF Commit, Snapshot, StartFold, Repair, Publish, disk, Entries
      <4>2. CASE Fold(p)
        BY <1>0, <4>2, FoldStep
      <4>3. CASE Record(p)
        BY <1>2, <2>3, <4>3 DEF Record, WriteState, AskSeq, RowsWritten, ReadFolded, ReadPending,
                    LinkCollides, WriteHead, disk, Entries
      <4> QED
        BY <4>1, <4>2, <4>3 DEF Around, Works
    <3>2. Top' = Top
      BY <3>1, SameTop
    <3>3. SignGood(Whole(at[p]), Entries, Top, at'[p], job'[p])
      <4>1. CASE Commit(p) \/ Snapshot(p) \/ Publish(p)
        <5>1. at[p] \in {"idle", "publish"} /\ at'[p] = "state"
          BY <1>0, <4>1, GoesTo DEF Commit, Snapshot, Publish, MayStart
        <5>2. job'[p].written = <<>>
          <6>1. \A s, c, q : Job(s, c, q).written = <<>>
            BY DEF Job
          <6>2. PICK s, c, q : job' = [job EXCEPT ![p] = Job(s, c, q)]
            <7>1. CASE Commit(p)
              BY <7>1, Zenon DEF Commit
            <7>2. CASE Snapshot(p)
              BY <7>2, Zenon DEF Snapshot
            <7>3. CASE Publish(p)
              BY <7>3, Zenon DEF Publish
            <7> QED
              BY <4>1, <7>1, <7>2, <7>3
          <6>3. job'[p] = Job(s, c, q)
            BY <1>0, <6>2 DEF Typed, JobTyped
          <6> QED
            BY <6>1, <6>3
        <5>3. Signed(Whole(at[p]), Top + 1) = <<>>
          BY <1>0, <5>1, NoneAhead DEF Ahead
        <5> QED
          BY <5>1, <5>2, <5>3 DEF SignGood
      <4>2. CASE StartFold(p) \/ RemoveLgr(p) \/ RemoveStates(p) \/ FoldCommits(p) \/ FoldPublished(p) \/ UnlinkLog(p)
        BY <1>0, <4>2, GoesTo, SignFrame DEF StartFold, RemoveLgr, RemoveStates, FoldCommits,
           FoldPublished, UnlinkLog, Recording
      <4>3. CASE Repair(p) \/ MoveEntry(p) \/ MoveHead(p) \/ MoveState(p)
        <5>1. at' = at /\ at[p] \notin Recording
          BY <4>3 DEF Repair, MayStart, MoveEntry, MoveHead, MoveState, Recording
        <5> QED
          BY <5>1, SignFrame
      <4>4. CASE EndFold(p) \/ LinkCollides(p) \/ WriteHead(p) \/ FoldRaises(p)
        <5>1. at'[p] \in {"idle", "publish"}
          BY <1>0, <4>4, GoesTo, EndedIs DEF EndFold, LinkCollides, WriteHead, FoldRaises
        <5> QED
          BY <5>1, SignFrame DEF Recording
      <4>5. CASE WriteState(p)
        <5>1. at[p] = "state" /\ at'[p] \in {"seq", "read_folded"} /\ job'[p] = job[p]
          BY <1>0, <4>5, GoesTo DEF WriteState
        <5> QED
          BY <5>1, SignFrame DEF Recording
      <4>6. CASE AskSeq(p)
        <5>1. /\ at[p] = "seq" /\ at'[p] = "commits"
              /\ job'[p].seq = (IF Entries = {} THEN 1 ELSE Newest(Entries).seq + 1)
              /\ job'[p].written = job[p].written
          BY <1>0, <4>6, GoesTo DEF AskSeq, Typed, JobTyped
        <5>2. job'[p].seq = Top + 1
          BY <1>0, <5>1, NewestTop
        <5> QED
          BY <5>1, <5>2 DEF SignGood, Recording
      <4>7. CASE RowsWritten(p) \/ ReadFolded(p) \/ ReadPending(p)
        <5>1. /\ at[p] \in Recording /\ at'[p] \in {"read_folded", "read_pending", "link"}
              /\ job'[p] = job[p]
          BY <1>0, <4>7, GoesTo DEF RowsWritten, ReadFolded, ReadPending, Recording
        <5> QED
          BY <5>1, SignFrame DEF Recording
      <4> QED
        BY <1>2, <2>3, <4>1, <4>2, <4>3, <4>4, <4>5, <4>6, <4>7 DEF Around, Works, Fold, Record
    <3> QED
      BY <2>1, <3>1, <3>2, <3>3
  <2> QED
    BY <2>2, <2>3
<1> QED
  BY <1>1, <1>2

-----------------------------------------------------------------------------
(* Which commits are published                                              *)

\* The commits of a table, by position,
LEMMA ShasTable ==
    ASSUME NEW a \in Seq(Row)
    PROVE  /\ \A i \in DOMAIN a : a[i].sha \in Shas(a)
           /\ \A sha \in Shas(a) : \E i \in DOMAIN a : a[i].sha = sha
BY DEF Shas, ToSet

\* of two tables, one after the other,
LEMMA ShasConcat ==
    ASSUME NEW a \in Seq(Row), NEW b \in Seq(Row)
    PROVE  Shas(a \o b) = Shas(a) \cup Shas(b)
<1>1. ToSet(a \o b) = ToSet(a) \cup ToSet(b)
  BY ToSetConcat
<1> QED
  BY <1>1 DEF Shas

\* and of the rows a command writes.
LEMMA ShasFor ==
    ASSUME NEW p, NEW table, NEW shas
    PROVE  /\ Shas(RowsFor(p, table, shas)) = ToSet(shas)
           /\ DOMAIN RowsFor(p, table, shas) = DOMAIN shas
           /\ \A i \in DOMAIN shas : RowsFor(p, table, shas)[i].sha = shas[i]
<1> DEFINE rows == RowsFor(p, table, shas)
<1>1. DOMAIN rows = DOMAIN shas /\ \A i \in DOMAIN shas : rows[i].sha = shas[i]
  BY DEF RowsFor
<1> HIDE DEF rows
<1>2. \A sha : sha \in Shas(rows) <=> \E i \in DOMAIN rows : rows[i].sha = sha
  BY DEF Shas, ToSet
<1>3. \A sha : sha \in ToSet(shas) <=> \E i \in DOMAIN shas : shas[i] = sha
  BY DEF ToSet
<1>4. Shas(rows) = ToSet(shas)
  BY <1>1, <1>2, <1>3
<1> QED
  BY <1>1, <1>4 DEF rows

\* NewCommits shas, each once, leave each sha at most once.
FreshShas(w, table, rows) ==
    /\ \A i, k \in DOMAIN rows : rows[i].sha = rows[k].sha => i = k
    /\ \A sha \in Shas(rows) : \A s \in States : sha \notin Shas(w[s][table])

\* Appending fresh rows keeps each commit at one place.
LEMMA OnceAppended ==
    ASSUME NEW w \in WholeLogs, NEW v, NEW d \in States, NEW table \in TableNames,
           NEW rows \in Seq(Row), Appended(v, w, d, table, rows), Once(w, table), FreshShas(w, table, rows)
    PROVE  Once(v, table)
<1>1. \A s \in States : w[s][table] \in Seq(Row)
  BY WholeTables
<1>2. \A s \in States : v[s][table] = IF s = d THEN w[s][table] \o rows ELSE w[s][table]
  BY DEF Appended
<1> DEFINE n == Len(w[d][table])
           c == w[d][table] \o rows
<1>3. /\ DOMAIN w[d][table] = 1..n /\ n \in Nat
      /\ DOMAIN rows = 1..Len(rows) /\ Len(rows) \in Nat
      /\ DOMAIN c = 1..n + Len(rows)
      /\ \A i \in 1..n + Len(rows) : c[i] = IF i <= n THEN w[d][table][i] ELSE rows[i - n]
  <2>1. w[d][table] \in Seq(Row)
    BY <1>1
  <2>2. /\ c \in Seq(Row) /\ Len(c) = n + Len(rows)
        /\ \A i \in 1..n + Len(rows) : c[i] = IF i <= n THEN w[d][table][i] ELSE rows[i - n]
    BY <2>1, ConcatProperties
  <2> HIDE DEF c
  <2>3. DOMAIN c = 1..Len(c)
    BY <2>2, LenProperties
  <2> QED
    BY <2>1, <2>2, <2>3, LenProperties
<1>4. ASSUME NEW i \in DOMAIN c
      PROVE  \/ i \in DOMAIN w[d][table] /\ c[i] = w[d][table][i]
             \/ i > n /\ i - n \in DOMAIN rows /\ c[i] = rows[i - n]
  BY <1>3, <1>4
<1>5. v[d][table] = c
  BY <1>2
<1> HIDE DEF c, n
<1>6. ASSUME NEW k \in DOMAIN rows, NEW s \in States, NEW i \in DOMAIN w[s][table]
      PROVE  w[s][table][i].sha # rows[k].sha
  <2>1. rows[k].sha \in Shas(rows) /\ w[s][table][i].sha \in Shas(w[s][table])
    BY <1>1, ShasTable
  <2> QED
    BY <2>1 DEF FreshShas
<1> SUFFICES ASSUME NEW s \in States, NEW u \in States,
                    NEW i \in DOMAIN v[s][table], NEW k \in DOMAIN v[u][table],
                    v[s][table][i].sha = v[u][table][k].sha
             PROVE  s = u /\ i = k
  BY DEF Once
<1>7. CASE s # d /\ u # d
  BY <1>2, <1>7 DEF Once
<1>8. CASE s = d /\ u # d
  <2>1. i \in DOMAIN c /\ v[s][table][i] = c[i] /\ k \in DOMAIN w[u][table]
        /\ v[u][table][k] = w[u][table][k]
    BY <1>2, <1>5, <1>8
  <2> QED
    BY <1>4, <1>6, <1>8, <2>1 DEF Once
<1>9. CASE s # d /\ u = d
  <2>1. k \in DOMAIN c /\ v[u][table][k] = c[k] /\ i \in DOMAIN w[s][table]
        /\ v[s][table][i] = w[s][table][i]
    BY <1>2, <1>5, <1>9
  <2> QED
    BY <1>4, <1>6, <1>9, <2>1 DEF Once
<1>10. CASE s = d /\ u = d
  <2>1. i \in DOMAIN c /\ k \in DOMAIN c /\ c[i].sha = c[k].sha
    BY <1>5, <1>10
  <2>2. CASE i \in DOMAIN w[d][table] /\ c[i] = w[d][table][i]
    <3>1. k \in DOMAIN w[d][table] /\ c[k] = w[d][table][k]
      BY <1>4, <1>6, <2>1, <2>2
    <3> QED
      BY <1>10, <2>1, <2>2, <3>1 DEF Once
  <2>3. CASE i > n /\ i - n \in DOMAIN rows /\ c[i] = rows[i - n]
    <3>1. k > n /\ k - n \in DOMAIN rows /\ c[k] = rows[k - n]
      BY <1>4, <1>6, <2>1, <2>3
    <3>2. i - n = k - n
      BY <2>1, <2>3, <3>1 DEF FreshShas
    <3>3. i \in Nat /\ k \in Nat /\ n \in Nat
      BY <1>3, <2>1
    <3> QED
      BY <1>10, <3>2, <3>3
  <2> QED
    BY <1>4, <2>1, <2>2, <2>3
<1> QED
  BY <1>7, <1>8, <1>9, <1>10

\* A step that leaves what is recorded and what is to be.
LEMMA PubFrame ==
    ASSUME NEW w, NEW public, NEW c, NEW d, NEW j, NEW k, PubGood(w, public, c, j),
           k.pubs = j.pubs,
           d \in {"state", "seq", "commits"} =>
               c \in {"state", "seq", "commits"} /\ k.commits = j.commits,
           d \in {"read_folded", "read_pending", "link", "head"} =>
               c \in {"read_folded", "read_pending", "link", "head"} \/ j.pubs = NoPubs
    PROVE  PubGood(w, public, d, k)
BY DEF PubGood

\* The commits a command is about to remember are new.
NewCommits(w, public, commits) ==
    /\ \A i, k \in DOMAIN commits : commits[i] = commits[k] => i = k
    /\ \A sha \in ToSet(commits) :
          sha \notin public /\ \A s \in States : sha \notin Shas(w[s].commit)

\* A command that records commits starts.
LEMMA PubStarts ==
    ASSUME NEW w, NEW public, NEW c, NEW j, NEW k, PubGood(w, public, c, j),
           k.pubs = j.pubs, NewCommits(w, public, k.commits)
    PROVE  PubGood(w, public, "state", k)
BY DEF PubGood, NewCommits

\* What commit_tree made was never remembered, nor pushed.
LEMMA CommitNew ==
    ASSUME NEW p \in Procs, Around(p), Commit(p)
    PROVE  /\ at[p] = "idle" /\ at'[p] = "state" /\ UNCHANGED <<log, pushed>>
           /\ job'[p].pubs = NoPubs
           /\ NewCommits(Whole(at[p]), Public, job'[p].commits)
<1>0. Typed
  BY DEF Around
<1>1. PICK repos \in SUBSET {r \in Repos : made[r] < MaxCommits} \ {{}}, s \in States :
         /\ made' = [r \in Repos |-> IF r \in repos THEN made[r] + 1 ELSE made[r]]
         /\ job' = [job EXCEPT ![p] =
                      Job(s, FlattenSeq([r \in Repos |-> IF r \in repos
                                          THEN << [repo |-> r, nr |-> made'[r]] >> ELSE <<>>]), NoPubs)]
  BY DEF Commit
<1> DEFINE shas == [r \in Repos |-> IF r \in repos THEN << [repo |-> r, nr |-> made'[r]] >> ELSE <<>>]
<1>2. job'[p] = Job(s, FlattenSeq(shas), NoPubs)
  BY <1>0, <1>1 DEF Typed, JobTyped
<1>3. job'[p].pubs = NoPubs /\ job'[p].commits = FlattenSeq(shas)
  BY <1>2 DEF Job
<1>4. at[p] = "idle" /\ at'[p] = "state" /\ UNCHANGED <<log, pushed>>
  BY <1>0, GoesTo DEF Commit, MayStart, disk
<1>5. /\ made \in [Repos -> 0..MaxCommits] /\ pushed \in [Repos -> 0..MaxCommits]
      /\ \A r \in Repos : pushed[r] <= made[r]
      /\ MaxCommits \in Nat
  BY <1>0, MemoryAssumption DEF Typed, GitTyped
<1>6. \A r \in repos : r \in Repos /\ made'[r] = made[r] + 1 /\ made'[r] \in 1..MaxCommits
  BY <1>1, <1>5
<1>7. shas \in [1..NRepos -> Seq(Sha)]
  <2>1. ASSUME NEW r \in Repos
        PROVE  (IF r \in repos THEN << [repo |-> r, nr |-> made'[r]] >> ELSE <<>>) \in Seq(Sha)
    <3>1. CASE r \in repos
      <4>1. [repo |-> r, nr |-> made'[r]] \in Sha
        BY <1>6, <3>1 DEF Sha
      <4> QED
        BY <3>1, <4>1
    <3>2. CASE r \notin repos
      BY <3>2
    <3> QED
      BY <3>1, <3>2
  <2> QED
    BY <2>1 DEF Repos
<1>8. \A r \in Repos : \A sha \in ToSet(shas[r]) : sha.repo = r /\ sha.nr = made[r] + 1 /\ sha \in Sha
  <2> SUFFICES ASSUME NEW r \in Repos, NEW sha \in ToSet(shas[r])
               PROVE  sha.repo = r /\ sha.nr = made[r] + 1 /\ sha \in Sha
    OBVIOUS
  <2>1. r \in repos
    BY DEF ToSet
  <2>2. shas[r] = << [repo |-> r, nr |-> made'[r]] >>
    BY <2>1
  <2>3. sha = [repo |-> r, nr |-> made'[r]]
    BY <2>2 DEF ToSet
  <2> QED
    BY <1>6, <2>1, <2>3 DEF Sha
<1>9. \A r \in Repos : Distinct(shas[r])
  BY DEF Distinct
<1> HIDE DEF shas
<1>10. Distinct(FlattenSeq(shas))
  <2>1. \A r, q \in 1..NRepos : r # q => ToSet(shas[r]) \cap ToSet(shas[q]) = {}
    BY <1>8 DEF Repos
  <2>2. \A r \in 1..NRepos : Distinct(shas[r])
    BY <1>9 DEF Repos
  <2> QED
    BY <1>7, <2>1, <2>2, FlatDistinct, MemoryAssumption
<1>11. ASSUME NEW sha \in ToSet(FlattenSeq(shas))
       PROVE  sha \notin Done
  <2>1. PICK r \in 1..NRepos : sha \in ToSet(shas[r])
    BY <1>7, <1>11, FlatIn, MemoryAssumption
  <2>2. r \in Repos /\ sha.repo = r /\ sha.nr = made[r] + 1
    BY <1>8, <2>1 DEF Repos
  <2>3. made[r] \in Nat
    BY <1>5, <2>2
  <2> QED
    BY <2>2, <2>3 DEF Done
<1>12. Public \subseteq Done
  BY <1>5 DEF Public, Done, Sha
<1>13. \A t \in States : Shas(Whole(at[p])[t].commit) \subseteq Done
  <2> SUFFICES ASSUME NEW t \in States PROVE Shas(Whole(at[p])[t].commit) \subseteq Done
    OBVIOUS
  <2>1. Whole(at[p])[t].commit \in Seq(RowsOf(Done))
    BY <1>0, WholeTyped DEF WholeLogs
  <2> QED
    <3> DEFINE a == Whole(at[p])[t].commit
    <3>1. a \in Seq(RowsOf(Done))
      BY <2>1
    <3> HIDE DEF a
    <3>2. \A i \in DOMAIN a : a[i] \in RowsOf(Done)
      BY <3>1
    <3>3. \A i \in DOMAIN a : a[i].sha \in Done
      BY <3>2 DEF RowsOf
    <3>4. Shas(a) \subseteq Done
      BY <3>3 DEF Shas, ToSet
    <3> QED
      BY <3>4 DEF a
<1>14. NewCommits(Whole(at[p]), Public, FlattenSeq(shas))
  BY <1>10, <1>11, <1>12, <1>13 DEF NewCommits, Distinct
<1> QED
  BY <1>3, <1>4, <1>14

\* Which commits a log says no remote has, each once.
LEMMA UnpublishedIs ==
    ASSUME LogTyped, NEW h \in Halves, NEW s \in States, NEW r
    PROVE  /\ \A sha : sha \in ToSet(Unpublished(h, s, r)) <=>
                 /\ sha \in Shas(log[h][s].commit) /\ sha.repo = r
                 /\ sha \notin Shas(log[h][s].published)
           /\ (\A i, k \in DOMAIN log[h][s].commit :
                  log[h][s].commit[i].sha = log[h][s].commit[k].sha => i = k)
              => Distinct(Unpublished(h, s, r))
<1> DEFINE rows == log[h][s].commit
           Owed(sha) == /\ sha.repo = r
                        /\ \A q \in ToSet(log[h][s].published) : q.sha # sha
           each == [i \in DOMAIN rows |-> IF Owed(rows[i].sha) THEN << rows[i].sha >> ELSE <<>>]
<1>1. rows \in Seq(RowsOf(Done))
  BY DEF LogTyped
<1>2. \A sha : Owed(sha) <=> sha.repo = r /\ sha \notin Shas(log[h][s].published)
  BY DEF Shas
<1>3. Unpublished(h, s, r) = FlattenSeq(each)
  BY DEF Unpublished
<1>4. \A sha : sha \in Shas(rows) <=> \E i \in DOMAIN rows : rows[i].sha = sha
  BY DEF Shas, ToSet
<1> HIDE DEF rows, Owed
<1>5. /\ Len(rows) \in Nat /\ DOMAIN rows = 1..Len(rows)
      /\ \A i \in 1..Len(rows) : rows[i].sha \in Done
  <2>1. /\ Len(rows) \in Nat /\ DOMAIN rows = 1..Len(rows)
        /\ rows \in [1..Len(rows) -> RowsOf(Done)]
    BY <1>1, LenProperties
  <2> QED
    BY <2>1 DEF RowsOf
<1>6. each \in [1..Len(rows) -> Seq(Done)]
  BY <1>5
<1>7. \A i \in 1..Len(rows) : \A sha : sha \in ToSet(each[i]) <=> sha = rows[i].sha /\ Owed(sha)
  <2> SUFFICES ASSUME NEW i \in 1..Len(rows), NEW sha
               PROVE  sha \in ToSet(each[i]) <=> sha = rows[i].sha /\ Owed(sha)
    OBVIOUS
  <2>1. CASE Owed(rows[i].sha)
    <3>1. each[i] = << rows[i].sha >>
      BY <1>5, <2>1
    <3>2. ToSet(each[i]) = {rows[i].sha}
      BY <3>1 DEF ToSet
    <3> QED
      BY <2>1, <3>2
  <2>2. CASE ~Owed(rows[i].sha)
    <3>1. each[i] = <<>>
      BY <1>5, <2>2
    <3>2. ToSet(each[i]) = {}
      BY <3>1 DEF ToSet
    <3> QED
      BY <2>2, <3>2
  <2> QED
    BY <2>1, <2>2
<1>8. \A i \in 1..Len(rows) : Distinct(each[i])
  BY <1>5 DEF Distinct
<1> HIDE DEF each
<1>9. \A sha : sha \in ToSet(FlattenSeq(each)) <=> sha \in Shas(rows) /\ Owed(sha)
  <2>1. \A sha : sha \in ToSet(FlattenSeq(each)) <=> \E i \in 1..Len(rows) : sha \in ToSet(each[i])
    BY <1>5, <1>6, FlatIn
  <2> QED
    BY <1>4, <1>5, <1>7, <2>1
<1>10. ASSUME \A i, k \in DOMAIN rows : rows[i].sha = rows[k].sha => i = k
       PROVE  Distinct(FlattenSeq(each))
  <2>1. \A i, k \in 1..Len(rows) : i # k => ToSet(each[i]) \cap ToSet(each[k]) = {}
    <3> SUFFICES ASSUME NEW i \in 1..Len(rows), NEW k \in 1..Len(rows), NEW sha,
                        sha \in ToSet(each[i]), sha \in ToSet(each[k])
                 PROVE  i = k
      OBVIOUS
    <3>1. sha = rows[i].sha /\ sha = rows[k].sha
      BY <1>7
    <3> QED
      BY <1>5, <1>10, <3>1
  <2> QED
    BY <1>5, <1>6, <1>8, <2>1, FlatDistinct
<1> QED
  BY <1>2, <1>3, <1>9, <1>10 DEF rows

\* Once every pending log is merged, the whole logs are the folded ones.
LEMMA AllFolded ==
    ASSUME Typed, Logs = {}, NEW c, c \notin {"log_published", "unlink_log"},
           NEW s \in States, NEW table \in TableNames
    PROVE  Whole(c)[s][table] = log.folded[s][table] /\ log.pending[s][table] = <<>>
<1>1. log.pending[s][table] = <<>>
  BY DEF Logs, NoLog, TableNames
<1>2. log.folded[s][table] \in Seq(Row)
  BY Tables DEF Halves, TableNames
<1>3. log.folded[s][table] \o <<>> = log.folded[s][table]
  BY <1>2, ConcatEmptySeq
<1>4. Whole(c)[s][table] = WholeTable(c, s, table)
  BY DEF Whole, TableNames
<1> QED
  BY <1>1, <1>3, <1>4 DEF WholeTable, Merged

\* What a push records: the remembered commits it carried and that carry no
\* publication row, each once (_collect_publication_records).
LEMMA PublicationsAre ==
    ASSUME Typed, Logs = {}, NEW s \in States, Once(Whole("publish"), "commit")
    PROVE  /\ \A sha : sha \in ToSet(Publications(s)) <=>
                 /\ sha.repo \in Repos /\ made[sha.repo] > pushed[sha.repo]
                 /\ sha \in Shas(Whole("publish")[s].commit)
                 /\ sha \notin Shas(Whole("publish")[s].published)
           /\ Distinct(Publications(s))
<1> DEFINE Owing(r) == Unpublished("folded", s, r)
           each == [r \in Repos |->
                      IF made[r] > pushed[r]
                      THEN Unpublished("folded", s, r) \o Unpublished("pending", s, r)
                      ELSE <<>>]
<1>1. /\ Whole("publish")[s].commit = log.folded[s].commit
      /\ Whole("publish")[s].published = log.folded[s].published
      /\ log.pending[s].commit = <<>> /\ log.pending[s].published = <<>>
  BY AllFolded DEF TableNames
<1>2. \A r : Owing(r) \in Seq(Done) /\ Unpublished("pending", s, r) \in Seq(Done)
  BY UnpublishedTyped DEF Halves, Typed
<1>3. \A r : Unpublished("pending", s, r) = <<>>
  <2> SUFFICES ASSUME NEW r PROVE Unpublished("pending", s, r) = <<>>
    OBVIOUS
  <2>1. Shas(log.pending[s].commit) = {}
    BY <1>1 DEF Shas, ToSet
  <2>2. \A sha : sha \notin ToSet(Unpublished("pending", s, r))
    BY <2>1, UnpublishedIs DEF Halves, Typed
  <2> QED
    BY <1>2, <2>2, EmptyOrNot
<1>4. \A r : Owing(r) \o Unpublished("pending", s, r) = Owing(r)
  BY <1>2, <1>3, ConcatEmptySeq
<1>5. \A r, sha : sha \in ToSet(Owing(r)) <=>
         /\ sha \in Shas(log.folded[s].commit) /\ sha.repo = r
         /\ sha \notin Shas(log.folded[s].published)
  BY UnpublishedIs DEF Halves, Typed
<1>6. \A r : Distinct(Owing(r))
  <2>1. \A i, k \in DOMAIN log.folded[s].commit :
           log.folded[s].commit[i].sha = log.folded[s].commit[k].sha => i = k
    BY <1>1 DEF Once
  <2> QED
    BY <2>1, UnpublishedIs DEF Halves, Typed
<1>7. each = [r \in Repos |-> IF made[r] > pushed[r] THEN Owing(r) ELSE <<>>]
  BY <1>4
<1> HIDE DEF Owing
<1>8. each \in [1..NRepos -> Seq(Done)]
  BY <1>2, <1>7, EmptySeq DEF Repos
<1>9. Publications(s) = FlattenSeq(each)
  BY DEF Publications
<1>10. \A r \in 1..NRepos : \A sha : sha \in ToSet(each[r]) <=> made[r] > pushed[r] /\ sha \in ToSet(Owing(r))
  <2> SUFFICES ASSUME NEW r \in 1..NRepos
               PROVE  \A sha : sha \in ToSet(each[r]) <=> made[r] > pushed[r] /\ sha \in ToSet(Owing(r))
    OBVIOUS
  <2>1. CASE made[r] > pushed[r]
    <3>1. each[r] = Owing(r)
      BY <1>7, <2>1 DEF Repos
    <3> HIDE DEF each
    <3> QED
      BY <2>1, <3>1
  <2>2. CASE ~(made[r] > pushed[r])
    <3>1. each[r] = <<>>
      BY <1>7, <2>2 DEF Repos
    <3>2. ToSet(each[r]) = {}
      BY <3>1 DEF ToSet
    <3> HIDE DEF each
    <3> QED
      BY <2>2, <3>2
  <2> QED
    BY <2>1, <2>2
<1>11. \A r \in 1..NRepos : Distinct(each[r])
  <2>1. Distinct(<<>>)
    BY DEF Distinct
  <2> QED
    BY <1>6, <1>7, <2>1 DEF Repos
<1> HIDE DEF each
<1>12. \A sha : sha \in ToSet(FlattenSeq(each)) <=> \E r \in 1..NRepos : sha \in ToSet(each[r])
  BY <1>8, FlatIn, MemoryAssumption
<1>13. Distinct(FlattenSeq(each))
  <2>1. \A r, q \in 1..NRepos : r # q => ToSet(each[r]) \cap ToSet(each[q]) = {}
    BY <1>5, <1>10
  <2> QED
    BY <1>8, <1>11, <2>1, FlatDistinct, MemoryAssumption
<1>14. \A sha : sha \in ToSet(FlattenSeq(each)) <=>
          \E r \in Repos : /\ made[r] > pushed[r] /\ sha.repo = r
                           /\ sha \in Shas(log.folded[s].commit)
                           /\ sha \notin Shas(log.folded[s].published)
  BY <1>5, <1>10, <1>12 DEF Repos
<1> QED
  BY <1>1, <1>9, <1>13, <1>14

\* A push records all of them,
LEMMA PublishPub ==
    ASSUME NEW p \in Procs, Around(p), Publish(p), FoldGood(at[p], job[p], fold[p]),
           PubGood(Whole(at[p]), Public, at[p], job[p])
    PROVE  /\ at'[p] = "state"
           /\ PubGood(Whole(at[p]), Public', "state", job'[p])
<1> DEFINE w == Whole(at[p])
<1>0. Typed
  BY DEF Around
<1>1. at[p] = "publish" /\ at'[p] = "state" /\ pushed' = made
  BY <1>0, GoesTo DEF Publish
<1>2. job[p] = NoJob /\ Logs = {}
  BY <1>1 DEF FoldGood
<1>3. Public' = Done
  BY <1>1 DEF Public, Done
<1>4. job[p].pubs = NoPubs
  BY <1>2 DEF NoJob, Job
<1>5. job'[p].commits = <<>> /\ \A s \in States : job'[p].pubs[s] = Publications(s)
  <2>1. PICK s : job' = [job EXCEPT ![p] = Job(s, <<>>, [t \in States |-> Publications(t)])]
    BY Zenon DEF Publish
  <2>2. job'[p] = Job(s, <<>>, [t \in States |-> Publications(t)])
    BY <1>0, <2>1 DEF Typed, JobTyped
  <2> QED
    BY <2>2 DEF Job
<1>6. Once(w, "commit") /\ w = Whole("publish")
  BY <1>1 DEF PubGood
<1> HIDE DEF w
<1>7. \A s \in States :
         /\ \A sha : sha \in ToSet(Publications(s)) <=>
               /\ sha.repo \in Repos /\ made[sha.repo] > pushed[sha.repo]
               /\ sha \in Shas(w[s].commit) /\ sha \notin Shas(w[s].published)
         /\ Distinct(Publications(s))
  BY <1>0, <1>2, <1>6, PublicationsAre
<1>8. ASSUME NEW s \in States, NEW sha \in Shas(w[s].commit), sha \in Done,
             sha \notin Shas(w[s].published)
      PROVE  sha \in ToSet(Publications(s))
  <2>1. sha \notin Public
    <3>1. sha \notin ToSet(job[p].pubs[s])
      BY <1>4 DEF NoPubs, ToSet
    <3> QED
      BY <1>8, <3>1 DEF PubGood, w
  <2>2. sha.repo \in Repos /\ made[sha.repo] > pushed[sha.repo]
    <3>1. sha \in Sha /\ sha.nr \in Nat /\ sha.nr <= made[sha.repo] /\ sha.repo \in Repos
      BY <1>8, MemoryAssumption DEF Done, Sha
    <3>2. ~(sha.nr <= pushed[sha.repo])
      BY <2>1, <3>1 DEF Public
    <3>3. made[sha.repo] \in Nat /\ pushed[sha.repo] \in Nat
      BY <1>0, <3>1, MemoryAssumption DEF Typed, GitTyped
    <3> QED
      BY <3>1, <3>2, <3>3
  <2> QED
    BY <1>7, <1>8, <2>2
<1>9. \A i \in DOMAIN job'[p].commits : FALSE
  BY <1>5
<1>10. ToSet(job'[p].commits) = {}
  BY <1>9 DEF ToSet
<1>11. /\ Once(w, "commit") /\ Once(w, "published")
       /\ \A s \in States : Shas(w[s].published) \subseteq Shas(w[s].commit)
  BY DEF PubGood, w
<1>12. \A s \in States : \A sha \in Shas(w[s].commit) :
          sha \in Done => sha \in Shas(w[s].published) \/ sha \in ToSet(job'[p].pubs[s])
  BY <1>5, <1>8
<1>13. \A s \in States :
          /\ \A i, k \in DOMAIN job'[p].pubs[s] : job'[p].pubs[s][i] = job'[p].pubs[s][k] => i = k
          /\ \A sha \in ToSet(job'[p].pubs[s]) :
                sha \in Shas(w[s].commit) /\ sha \notin Shas(w[s].published)
  BY <1>5, <1>7 DEF Distinct
<1>14. PubGood(w, Done, "state", job'[p])
  BY <1>9, <1>10, <1>11, <1>12, <1>13 DEF PubGood
<1> QED
  BY <1>1, <1>3, <1>14 DEF w

\* v has the shas of w, and those of rows in one table of one State.
MoreShas(v, w, d, table, rows) ==
    \A s \in States, t \in TableNames :
        Shas(v[s][t]) = IF s = d /\ t = table THEN Shas(w[s][t]) \cup Shas(rows)
                        ELSE Shas(w[s][t])

\* (the commits after an append)
LEMMA AppendedShas ==
    ASSUME NEW w \in WholeLogs, NEW v, NEW d \in States, NEW table \in TableNames,
           NEW rows \in Seq(Row), Appended(v, w, d, table, rows)
    PROVE  MoreShas(v, w, d, table, rows)
<1> SUFFICES ASSUME NEW s \in States, NEW t \in TableNames
             PROVE  Shas(v[s][t]) = IF s = d /\ t = table THEN Shas(w[s][t]) \cup Shas(rows)
                                    ELSE Shas(w[s][t])
  BY DEF MoreShas
<1>1. w[s][t] \in Seq(Row)
  BY WholeTables
<1>2. Shas(w[s][t] \o rows) = Shas(w[s][t]) \cup Shas(rows)
  BY <1>1, ShasConcat
<1> QED
  BY <1>2 DEF Appended

\* (and the table that is not appended to)
LEMMA OnceSame ==
    ASSUME NEW w, NEW v, NEW d, NEW table \in TableNames, NEW other \in TableNames, NEW rows,
           Appended(v, w, d, table, rows), other # table, Once(w, other)
    PROVE  Once(v, other)
BY DEF Once, Appended

\* commit rows are written before their publication,
LEMMA CommitsPub ==
    ASSUME NEW p \in Procs, Around(p), WriteCommits(p), PubGood(Whole(at[p]), Public, at[p], job[p])
    PROVE  PubGood(Whole(at[p])', Public, at'[p], job'[p])
<1> DEFINE w == Whole(at[p])
           v == Whole(at[p])'
           rows == RowsFor(p, "commit", job[p].commits)
           d == job[p].state
<1>1. /\ at[p] = "commits" /\ at'[p] = "publications" /\ d \in States /\ rows \in Seq(Row)
      /\ Appended(v, w, d, "commit", rows) /\ job'[p].pubs = job[p].pubs
  BY WritesCommits
<1>2. w \in WholeLogs
  BY WholeTyped DEF Around
<1>3. /\ Shas(rows) = ToSet(job[p].commits) /\ DOMAIN rows = DOMAIN job[p].commits
      /\ \A i \in DOMAIN job[p].commits : rows[i].sha = job[p].commits[i]
  BY ShasFor
<1>4. /\ \A i, k \in DOMAIN job[p].commits : job[p].commits[i] = job[p].commits[k] => i = k
      /\ \A sha \in ToSet(job[p].commits) :
            sha \notin Public /\ \A s \in States : sha \notin Shas(w[s].commit)
  BY <1>1 DEF PubGood
<1>5. /\ Once(w, "commit") /\ Once(w, "published")
      /\ \A s \in States : Shas(w[s].published) \subseteq Shas(w[s].commit)
      /\ \A s \in States : \A sha \in Shas(w[s].commit) :
            sha \in Public => sha \in Shas(w[s].published) \/ sha \in ToSet(job[p].pubs[s])
      /\ \A s \in States :
            /\ \A i, k \in DOMAIN job[p].pubs[s] : job[p].pubs[s][i] = job[p].pubs[s][k] => i = k
            /\ \A sha \in ToSet(job[p].pubs[s]) :
                  sha \in Shas(w[s].commit) /\ sha \notin Shas(w[s].published)
  BY DEF PubGood
<1> HIDE DEF w, v, rows, d
<1>6. "commit" \in TableNames /\ "published" \in TableNames
  BY DEF TableNames
<1>7. \A s \in States, t \in TableNames :
         Shas(v[s][t]) = IF s = d /\ t = "commit" THEN Shas(w[s][t]) \cup Shas(rows) ELSE Shas(w[s][t])
  <2>1. MoreShas(v, w, d, "commit", rows)
    BY <1>1, <1>2, <1>6, AppendedShas
  <2> QED
    BY <2>1 DEF MoreShas
<1>8. \A s \in States :
         /\ Shas(v[s].commit) = IF s = d THEN Shas(w[s].commit) \cup Shas(rows) ELSE Shas(w[s].commit)
         /\ Shas(v[s].published) = Shas(w[s].published)
  BY <1>6, <1>7
<1>9. FreshShas(w, "commit", rows)
  BY <1>3, <1>4 DEF FreshShas
<1>10. Once(v, "commit")
  BY <1>1, <1>2, <1>5, <1>6, <1>9, OnceAppended
<1>11. Once(v, "published")
  BY <1>1, <1>5, <1>6, OnceSame
<1>12. \A s \in States : \A sha \in Shas(v[s].commit) :
          sha \in Public => sha \in Shas(v[s].published) \/ sha \in ToSet(job'[p].pubs[s])
  <2> SUFFICES ASSUME NEW s \in States, NEW sha \in Shas(v[s].commit), sha \in Public
               PROVE  sha \in Shas(v[s].published) \/ sha \in ToSet(job'[p].pubs[s])
    OBVIOUS
  <2>1. sha \notin Shas(rows)
    BY <1>3, <1>4
  <2>2. sha \in Shas(w[s].commit)
    BY <1>8, <2>1
  <2> QED
    BY <1>1, <1>5, <1>8, <2>2
<1>13. \A s \in States : Shas(v[s].published) \subseteq Shas(v[s].commit)
  BY <1>5, <1>8
<1>14. \A s \in States :
          /\ \A i, k \in DOMAIN job'[p].pubs[s] : job'[p].pubs[s][i] = job'[p].pubs[s][k] => i = k
          /\ \A sha \in ToSet(job'[p].pubs[s]) :
                sha \in Shas(v[s].commit) /\ sha \notin Shas(v[s].published)
  BY <1>1, <1>5, <1>8
<1>15. PubGood(v, Public, "publications", job'[p])
  BY <1>10, <1>11, <1>12, <1>13, <1>14 DEF PubGood
<1> QED
  BY <1>1, <1>15 DEF v

\* and publication rows once, in the log that remembers the commit.
LEMMA PublicationsPub ==
    ASSUME NEW p \in Procs, Around(p), WritePublications(p),
           PubGood(Whole(at[p]), Public, at[p], job[p])
    PROVE  PubGood(Whole(at[p])', Public, at'[p], job'[p])
<1> DEFINE w == Whole(at[p])
           v == Whole(at[p])'
<1>1. PICK d \in States :
         /\ at[p] = "publications" /\ at'[p] = "publications"
         /\ RowsFor(p, "published", job[p].pubs[d]) \in Seq(Row)
         /\ Appended(v, w, d, "published", RowsFor(p, "published", job[p].pubs[d]))
         /\ job'[p].pubs = [job[p].pubs EXCEPT ![d] = <<>>]
  BY WritesPublications
<1> DEFINE rows == RowsFor(p, "published", job[p].pubs[d])
<1>2. w \in WholeLogs
  BY WholeTyped DEF Around
<1>3. /\ Shas(rows) = ToSet(job[p].pubs[d]) /\ DOMAIN rows = DOMAIN job[p].pubs[d]
      /\ \A i \in DOMAIN job[p].pubs[d] : rows[i].sha = job[p].pubs[d][i]
  BY ShasFor
<1>4. rows \in Seq(Row) /\ Appended(v, w, d, "published", rows)
  BY <1>1
<1>5. /\ Once(w, "commit") /\ Once(w, "published")
      /\ \A s \in States : Shas(w[s].published) \subseteq Shas(w[s].commit)
      /\ \A s \in States : \A sha \in Shas(w[s].commit) :
            sha \in Public => sha \in Shas(w[s].published) \/ sha \in ToSet(job[p].pubs[s])
      /\ \A s \in States :
            /\ \A i, k \in DOMAIN job[p].pubs[s] : job[p].pubs[s][i] = job[p].pubs[s][k] => i = k
            /\ \A sha \in ToSet(job[p].pubs[s]) :
                  sha \in Shas(w[s].commit) /\ sha \notin Shas(w[s].published)
  BY DEF PubGood
<1>6. job[p].pubs \in [States -> Seq(Public)]
  BY DEF Around, Typed, JobTyped
<1>7. \A s \in States : job'[p].pubs[s] = IF s = d THEN <<>> ELSE job[p].pubs[s]
  BY <1>1, <1>6
<1> HIDE DEF w, v, rows
<1>8. "commit" \in TableNames /\ "published" \in TableNames
  BY DEF TableNames
<1>9. \A s \in States, t \in TableNames :
         Shas(v[s][t]) = IF s = d /\ t = "published" THEN Shas(w[s][t]) \cup Shas(rows)
                         ELSE Shas(w[s][t])
  <2>1. MoreShas(v, w, d, "published", rows)
    BY <1>2, <1>4, <1>8, AppendedShas
  <2> QED
    BY <2>1 DEF MoreShas
<1>10. \A s \in States :
          /\ Shas(v[s].published)
               = IF s = d THEN Shas(w[s].published) \cup Shas(rows) ELSE Shas(w[s].published)
          /\ Shas(v[s].commit) = Shas(w[s].commit)
  BY <1>8, <1>9
<1>11. FreshShas(w, "published", rows)
  <2>1. \A i, k \in DOMAIN rows : rows[i].sha = rows[k].sha => i = k
    BY <1>3, <1>5
  <2>2. ASSUME NEW sha \in Shas(rows), NEW s \in States, sha \in Shas(w[s].published) PROVE FALSE
    <3>1. sha \in Shas(w[d].commit) /\ sha \notin Shas(w[d].published)
      BY <1>3, <1>5, <2>2
    <3>2. sha \in Shas(w[s].commit) /\ s # d
      BY <1>5, <2>2, <3>1
    <3>3. w[s].commit \in Seq(Row) /\ w[d].commit \in Seq(Row)
      BY <1>2, WholeTables DEF TableNames
    <3>4. PICK i \in DOMAIN w[s].commit : w[s].commit[i].sha = sha
      BY <3>2, <3>3, ShasTable
    <3>5. PICK k \in DOMAIN w[d].commit : w[d].commit[k].sha = sha
      BY <3>1, <3>3, ShasTable
    <3> QED
      BY <1>5, <3>2, <3>4, <3>5 DEF Once
  <2> QED
    BY <2>1, <2>2 DEF FreshShas
<1>12. Once(v, "published")
  BY <1>2, <1>4, <1>5, <1>8, <1>11, OnceAppended
<1>13. Once(v, "commit")
  BY <1>4, <1>5, <1>8, OnceSame
<1>14. \A s \in States : Shas(v[s].published) \subseteq Shas(v[s].commit)
  <2> SUFFICES ASSUME NEW s \in States, NEW sha \in Shas(v[s].published)
               PROVE  sha \in Shas(v[s].commit)
    OBVIOUS
  <2>1. CASE sha \in Shas(w[s].published)
    BY <1>5, <1>10, <2>1
  <2>2. CASE sha \notin Shas(w[s].published)
    <3>1. s = d /\ sha \in ToSet(job[p].pubs[d])
      BY <1>3, <1>10, <2>2
    <3> QED
      BY <1>5, <1>10, <3>1
  <2> QED
    BY <2>1, <2>2
<1>15. \A s \in States : \A sha \in Shas(v[s].commit) :
          sha \in Public => sha \in Shas(v[s].published) \/ sha \in ToSet(job'[p].pubs[s])
  <2> SUFFICES ASSUME NEW s \in States, NEW sha \in Shas(v[s].commit), sha \in Public
               PROVE  sha \in Shas(v[s].published) \/ sha \in ToSet(job'[p].pubs[s])
    OBVIOUS
  <2>1. sha \in Shas(w[s].published) \/ sha \in ToSet(job[p].pubs[s])
    BY <1>5, <1>10
  <2>2. CASE s = d
    BY <1>3, <1>10, <2>1, <2>2
  <2>3. CASE s # d
    BY <1>7, <1>10, <2>1, <2>3
  <2> QED
    BY <2>2, <2>3
<1>16. \A s \in States :
          /\ \A i, k \in DOMAIN job'[p].pubs[s] : job'[p].pubs[s][i] = job'[p].pubs[s][k] => i = k
          /\ \A sha \in ToSet(job'[p].pubs[s]) :
                sha \in Shas(v[s].commit) /\ sha \notin Shas(v[s].published)
  <2> SUFFICES ASSUME NEW s \in States
               PROVE  /\ \A i, k \in DOMAIN job'[p].pubs[s] : job'[p].pubs[s][i] = job'[p].pubs[s][k] => i = k
                      /\ \A sha \in ToSet(job'[p].pubs[s]) :
                            sha \in Shas(v[s].commit) /\ sha \notin Shas(v[s].published)
    OBVIOUS
  <2>1. CASE s = d
    <3>1. job'[p].pubs[s] = <<>>
      BY <1>7, <2>1
    <3> QED
      BY <3>1 DEF ToSet
  <2>2. CASE s # d
    <3>1. job'[p].pubs[s] = job[p].pubs[s]
      BY <1>7, <2>2
    <3> QED
      BY <1>5, <1>10, <2>2, <3>1
  <2> QED
    BY <2>1, <2>2
<1>17. PubGood(v, Public, "publications", job'[p])
  BY <1>12, <1>13, <1>14, <1>15, <1>16 DEF PubGood
<1> QED
  BY <1>1, <1>17 DEF v

\* Every step keeps the publications.
LEMMA PubStep ==
    ASSUME NEW p \in Procs, Around(p), Copied,
           HeadGood(at[p], fold[p], last[p]), FoldGood(at[p], job[p], fold[p]),
           PubGood(Whole(at[p]), Public, at[p], job[p])
    PROVE  PubGood(Whole(at[p]), Public, at[p], job[p])'
<1>0. Typed /\ LedgerInv
  BY DEF Around
<1>1. CASE WriteCommits(p) \/ WritePublications(p)
  <2>1. PubGood(Whole(at[p])', Public, at'[p], job'[p])
    BY <1>1, CommitsPub, PublicationsPub
  <2>2. Public' = Public
    <3>1. pushed' = pushed
      BY <1>1, WritesCommits, WritesPublications
    <3> QED
      BY <3>1 DEF Public
  <2> QED
    BY <2>1, <2>2
<1>2. CASE ~(WriteCommits(p) \/ WritePublications(p))
  <2>1. Whole(at[p])' = Whole(at[p])
    BY <1>2, WholeKept
  <2>2. CASE Publish(p)
    BY <2>1, <2>2, PublishPub
  <2>3. CASE ~Publish(p)
    <3>1. Public' = Public
      <4>1. pushed' = pushed
        BY <1>2, <2>3 DEF Around, Works, Fold, Record, Commit, Snapshot, StartFold, Repair, MoveEntry,
           MoveHead, RemoveLgr, MoveState, RemoveStates, FoldCommits, FoldPublished, UnlinkLog, EndFold,
           FoldRaises, WriteState, AskSeq, RowsWritten, ReadFolded, ReadPending, Link, LinkCollides,
           WriteHead, git
      <4> QED
        BY <4>1 DEF Public
    <3>2. PubGood(Whole(at[p]), Public, at'[p], job'[p])
      <4>0. NoJob.pubs = NoPubs
        BY DEF NoJob, Job
      <4>1. CASE Commit(p)
        <5>1. job[p].pubs = NoPubs
          BY <4>0, <4>1 DEF Around, Commit, MayStart
        <5> QED
          BY <4>1, <5>1, CommitNew, PubStarts
      <4>2. CASE Snapshot(p)
        <5>1. at[p] = "idle" /\ at'[p] = "state"
          BY <1>0, <4>2, GoesTo DEF Snapshot, MayStart
        <5>2. job[p].pubs = NoPubs
          BY <4>0, <5>1 DEF Around
        <5>3. job'[p].pubs = NoPubs /\ job'[p].commits = <<>>
          <6>1. PICK s : job' = [job EXCEPT ![p] = Job(s, <<>>, NoPubs)]
            BY <4>2, Zenon DEF Snapshot
          <6>2. job'[p] = Job(s, <<>>, NoPubs)
            BY <1>0, <6>1 DEF Typed, JobTyped
          <6> QED
            BY <6>2 DEF Job
        <5>4. NewCommits(Whole(at[p]), Public, <<>>)
          BY DEF NewCommits, ToSet
        <5> QED
          BY <5>1, <5>2, <5>3, <5>4, PubStarts
      <4>3. CASE StartFold(p) \/ RemoveLgr(p) \/ RemoveStates(p) \/ FoldCommits(p) \/ FoldPublished(p) \/ UnlinkLog(p)
        <5>1. job' = job /\ at'[p] \in Folding
          BY <1>0, <4>3, GoesTo DEF StartFold, RemoveLgr, RemoveStates, FoldCommits, FoldPublished,
             UnlinkLog, Folding
        <5> QED
          BY <5>1, PubFrame DEF Folding
      <4>4. CASE Repair(p) \/ MoveEntry(p) \/ MoveHead(p) \/ MoveState(p)
        <5>1. job' = job /\ at' = at
          BY <4>4 DEF Repair, MoveEntry, MoveHead, MoveState
        <5> QED
          BY <5>1
      <4>5. CASE EndFold(p) \/ WriteHead(p)
        <5>1. at'[p] \in {"idle", "publish"} /\ job'[p].pubs = job[p].pubs
          <6>1. CASE EndFold(p) /\ push[p]
            BY <1>0, <6>1, GoesTo DEF EndFold
          <6>2. CASE EndFold(p) /\ ~push[p]
            <7>1. job[p] = NoJob
              BY <6>2 DEF EndFold, LogsMerged, FoldGood, Folding
            <7> QED
              BY <1>0, <6>2, <7>1, EndedIs DEF EndFold
          <6>3. CASE WriteHead(p)
            <7>1. job[p].pubs = NoPubs
              BY <6>3 DEF WriteHead, PubGood
            <7> QED
              BY <1>0, <4>0, <6>3, <7>1, EndedIs DEF WriteHead
          <6> QED
            BY <4>5, <6>1, <6>2, <6>3
        <5> QED
          BY <5>1, PubFrame
      <4>6. CASE WriteState(p)
        <5>1. at[p] = "state" /\ job' = job
          BY <4>6 DEF WriteState
        <5>2. at'[p] = (IF job[p].commits # <<>> \/ job[p].pubs # NoPubs THEN "seq" ELSE "read_folded")
          BY <1>0, <4>6, GoesTo DEF WriteState
        <5>3. CASE job[p].commits # <<>> \/ job[p].pubs # NoPubs
          BY <5>1, <5>2, <5>3, PubFrame
        <5>4. CASE ~(job[p].commits # <<>> \/ job[p].pubs # NoPubs)
          BY <5>1, <5>2, <5>4, PubFrame
        <5> QED
          BY <5>3, <5>4
      <4>7. CASE AskSeq(p)
        <5>1. /\ at[p] = "seq" /\ at'[p] = "commits"
              /\ job'[p].pubs = job[p].pubs /\ job'[p].commits = job[p].commits
          BY <1>0, <4>7, GoesTo DEF AskSeq, Typed, JobTyped
        <5> QED
          BY <5>1, PubFrame
      <4>8. CASE RowsWritten(p)
        <5>1. at[p] = "publications" /\ at'[p] = "read_folded" /\ job' = job /\ Due(p) = {}
          BY <1>0, <4>8, GoesTo DEF RowsWritten
        <5>2. job[p].pubs = NoPubs
          <6>1. job[p].pubs \in [States -> Seq(Public)]
            BY <1>0 DEF Typed, JobTyped
          <6> QED
            BY <5>1, <6>1 DEF Due, NoPubs
        <5> QED
          BY <5>1, <5>2, PubFrame
      <4>9. CASE ReadFolded(p) \/ ReadPending(p) \/ Link(p)
        <5>1. /\ at[p] \in {"read_folded", "read_pending", "link"}
              /\ at'[p] \in {"read_pending", "link", "head"} /\ job' = job
          BY <1>0, <4>9, GoesTo DEF ReadFolded, ReadPending, Link
        <5> QED
          BY <5>1, PubFrame
      <4>10. ~FoldRaises(p) /\ ~LinkCollides(p)
        BY <1>0, NeverRaises, LinkTop DEF LinkCollides
      <4> QED
        BY <1>2, <2>3, <4>1, <4>2, <4>3, <4>4, <4>5, <4>6, <4>7, <4>8, <4>9, <4>10
           DEF Around, Works, Fold, Record
    <3> QED
      BY <2>1, <3>1, <3>2
  <2> QED
    BY <2>2, <2>3
<1> QED
  BY <1>1, <1>2

-----------------------------------------------------------------------------
(* Every step keeps the invariant                                           *)

\* Nothing is recorded at first.
LEMMA RestInvInit == Init => RestInv
<1> SUFFICES ASSUME Init PROVE RestInv
  OBVIOUS
<1>1. Typed
  BY TypedInit
<1>2. /\ Entries = {} /\ lgr.pending = {} /\ lgr.folded = {} /\ head.pending = 0 /\ litter = {}
      /\ \A p \in Procs : at[p] = "idle" /\ job[p] = NoJob
  BY DEF Init, Entries, Halves
<1>3. \A s \in States, table \in TableNames :
         log.folded[s][table] = <<>> /\ log.pending[s][table] = <<>>
  BY DEF Init, Halves, NoLog, TableNames
<1>4. Logs = {}
  BY DEF Init, Halves, Logs
<1>5. \A s \in States, table \in TableNames : Whole("idle")[s][table] = <<>>
  BY <1>1, <1>3, <1>4, AllFolded
<1>6. HeadGood("idle", NoFold, NoEntry)
  BY <1>2 DEF HeadGood, HeadSettled
<1>7. FoldGood("idle", NoJob, NoFold)
  BY <1>2 DEF FoldGood, Folding
<1>8. StatesGood("idle", NoJob)
  BY <1>2 DEF StatesGood, StatesOnDisk, Recording
<1>9. SplitGood("idle")
  BY <1>3 DEF SplitGood, ToSet
<1>10. SignGood(Whole("idle"), Entries, Top, "idle", NoJob)
  BY <1>2 DEF SignGood, Recording
<1>11. PubGood(Whole("idle"), Public, "idle", NoJob)
  <2>1. \A s \in States : Whole("idle")[s].commit = <<>> /\ Whole("idle")[s].published = <<>>
    BY <1>5 DEF TableNames
  <2>2. Shas(<<>>) = {}
    BY DEF Shas, ToSet
  <2>3. \A s \in States : NoJob.pubs[s] = <<>>
    BY DEF NoJob, Job, NoPubs
  <2>4. ToSet(<<>>) = {}
    BY DEF ToSet
  <2>5. Once(Whole("idle"), "commit") /\ Once(Whole("idle"), "published")
    BY <2>1 DEF Once
  <2> QED
    BY <2>1, <2>2, <2>3, <2>4, <2>5 DEF PubGood
<1> QED
  BY <1>2, <1>6, <1>7, <1>8, <1>9, <1>10, <1>11 DEF RestInv, Good

\* A command that is not running is like any other.
LEMMA IdleGood ==
    ASSUME NEW p \in Procs, at[p] = "idle", job[p] = NoJob, Good("idle", NoJob, NoFold, NoEntry)
    PROVE  Good(at[p], job[p], fold[p], last[p])
<1>1. HeadGood(at[p], fold[p], last[p])
  BY DEF Good, HeadGood
<1>2. FoldGood(at[p], job[p], fold[p])
  BY DEF Good, FoldGood
<1>3. StatesGood(at[p], job[p]) /\ SplitGood(at[p])
  BY DEF Good
<1>4. SignGood(Whole(at[p]), Entries, Top, at[p], job[p]) /\ PubGood(Whole(at[p]), Public, at[p], job[p])
  BY DEF Good
<1> QED
  BY <1>1, <1>2, <1>3, <1>4 DEF Good

\* A command that ended leaves what the next one finds.
LEMMA GoodIdle ==
    ASSUME NEW p \in Procs, at'[p] = "idle", job'[p] = NoJob,
           Good(at[p], job[p], fold[p], last[p])'
    PROVE  Good("idle", NoJob, NoFold, NoEntry)'
<1>1. HeadGood("idle", NoFold, NoEntry)'
  BY DEF Good, HeadGood
<1>2. FoldGood("idle", NoJob, NoFold)'
  BY DEF Good, FoldGood
<1>3. StatesGood("idle", NoJob)'
  BY DEF Good, StatesGood
<1>4. SplitGood("idle")'
  BY DEF Good, SplitGood
<1>5. Whole("idle")' = Whole(at[p])'
  BY DEF Whole, WholeTable, Merged
<1>6. SignGood(Whole("idle"), Entries, Top, "idle", NoJob)'
  BY <1>5 DEF Good
<1>7. PubGood(Whole("idle"), Public, "idle", NoJob)'
  BY <1>5 DEF Good
<1> QED
  BY <1>1, <1>2, <1>3, <1>4, <1>6, <1>7 DEF Good

\* Nothing happens: nothing changes, between commands
LEMMA GoodSame ==
    ASSUME UNCHANGED vars, NEW c, NEW j, NEW f, NEW l, Good(c, j, f, l)
    PROVE  Good(c, j, f, l)'
<1>1. UNCHANGED <<lgr, head, states, log, litter, made, pushed, Entries, Logs>>
  BY DEF vars, Entries, Logs
<1>2. Top' = Top
  BY <1>1, SameTop
<1>3. HeadGood(c, f, l)'
  BY <1>1 DEF Good, HeadGood, HeadSettled
<1>4. FoldGood(c, j, f)'
  BY <1>1 DEF Good, FoldGood
<1>5. StatesGood(c, j)'
  BY <1>1 DEF Good, StatesGood, StatesOnDisk
<1>6. SplitGood(c)'
  BY <1>1, <1>2 DEF Good, SplitGood
<1>7. Whole(c)' = Whole(c) /\ Public' = Public
  BY <1>1 DEF Whole, WholeTable, Merged, Public
<1>8. SignGood(Whole(c), Entries, Top, c, j)' /\ PubGood(Whole(c), Public, c, j)'
  BY <1>1, <1>2, <1>7 DEF Good
<1> QED
  BY <1>3, <1>4, <1>5, <1>6, <1>8 DEF Good
\* and during one.
LEMMA RunningSame ==
    ASSUME UNCHANGED vars, NEW p \in Procs, Good(at[p], job[p], fold[p], last[p])
    PROVE  Good(at[p], job[p], fold[p], last[p])'
<1>1. UNCHANGED <<lgr, head, states, log, litter, made, pushed, at, job, fold, last, Entries, Logs>>
  BY DEF vars, Entries, Logs
<1>2. Top' = Top
  BY <1>1, SameTop
<1>3. HeadGood(at[p], fold[p], last[p])'
  BY <1>1 DEF Good, HeadGood, HeadSettled
<1>4. FoldGood(at[p], job[p], fold[p])'
  BY <1>1 DEF Good, FoldGood
<1>5. StatesGood(at[p], job[p])'
  BY <1>1 DEF Good, StatesGood, StatesOnDisk
<1>6. SplitGood(at[p])'
  BY <1>1, <1>2 DEF Good, SplitGood
<1>7. Whole(at[p])' = Whole(at[p]) /\ Public' = Public
  BY <1>1 DEF Whole, WholeTable, Merged, Public
<1>8. /\ SignGood(Whole(at[p]), Entries, Top, at[p], job[p])'
      /\ PubGood(Whole(at[p]), Public, at[p], job[p])'
  BY <1>1, <1>2, <1>7 DEF Good
<1> QED
  BY <1>3, <1>4, <1>5, <1>6, <1>8 DEF Good

\* Every step that is no fault keeps all of it.
LEMMA GoodStep ==
    ASSUME NEW p \in Procs, Around(p), Copied, Good(at[p], job[p], fold[p], last[p])
    PROVE  Good(at[p], job[p], fold[p], last[p])'
<1>1. /\ HeadGood(at[p], fold[p], last[p]) /\ FoldGood(at[p], job[p], fold[p])
      /\ StatesGood(at[p], job[p]) /\ SplitGood(at[p])
      /\ SignGood(Whole(at[p]), Entries, Top, at[p], job[p])
      /\ PubGood(Whole(at[p]), Public, at[p], job[p])
  BY DEF Good
<1>2. at[p] \in {"commits", "publications"} => job[p].seq = Top + 1
  BY <1>1 DEF SignGood
<1>3. HeadGood(at[p], fold[p], last[p])' /\ FoldGood(at[p], job[p], fold[p])'
  BY <1>1, HeadStep, FoldGoodStep
<1>4. StatesGood(at[p], job[p])' /\ SplitGood(at[p])'
  BY <1>1, <1>2, StatesGoodStep, SplitStep
<1>5. /\ SignGood(Whole(at[p]), Entries, Top, at[p], job[p])'
      /\ PubGood(Whole(at[p]), Public, at[p], job[p])'
  BY <1>1, SignStep, PubStep
<1> QED
  BY <1>3, <1>4, <1>5 DEF Good

\* A fault is never forgotten.
LEMMA FaultsGrow ==
    ASSUME Typed, NEW p \in Procs, Step(p), faults' = 0 PROVE faults = 0
<1>1. faults' = faults \/ faults' = faults + 1
  <2>1. CASE Start(p)
    BY <2>1 DEF Start, Commit, Snapshot, StartFold, RefuseFold, Repair, Fault
  <2>2. CASE Fold(p)
    BY <2>2 DEF Fold, MoveEntry, MoveHead, RemoveLgr, MoveState, RemoveStates, FoldCommits, FoldPublished,
                UnlinkLog, EndFold, FoldRaises
  <2>3. CASE Record(p)
    BY <2>3 DEF Record, WriteState, AskSeq, WriteCommits, WritePublications, RowsWritten, ReadFolded,
                ReadPending, Link, LinkCollides, WriteHead
  <2>4. CASE Publish(p) \/ PublishFails(p) \/ AppendFails(p) \/ Stop(p)
    BY <2>4 DEF Publish, PublishFails, AppendFails, Stop, Fault
  <2> QED
    BY <2>1, <2>2, <2>3, <2>4 DEF Step
<1> QED
  BY <1>1 DEF Typed, ControlTyped

\* The one command that steps keeps it; the others are idle.
LEMMA RestInvStep ==
    ASSUME Free = {}, RestInv, LedgerInv, LedgerInv', RowsInv, RowsInv', [Next]_vars
    PROVE  RestInv'
<1>1. CASE UNCHANGED vars
  <2>1. UNCHANGED <<faults, at, job>>
    BY <1>1 DEF vars
  <2> SUFFICES ASSUME faults' = 0
               PROVE  /\ \A p \in Procs : at'[p] = "idle" => job'[p] = NoJob
                      /\ AtRest' => Good("idle", NoJob, NoFold, NoEntry)'
                      /\ \A p \in Procs : at'[p] # "idle" => Good(at[p], job[p], fold[p], last[p])'
    BY DEF RestInv
  <2>2. faults = 0
    BY <2>1
  <2>3. \A p \in Procs : at'[p] = "idle" => job'[p] = NoJob
    BY <2>1, <2>2 DEF RestInv
  <2>4. ASSUME AtRest' PROVE Good("idle", NoJob, NoFold, NoEntry)'
    <3>1. AtRest
      BY <2>1, <2>4 DEF AtRest
    <3> QED
      BY <1>1, <2>2, <3>1, GoodSame DEF RestInv
  <2>5. ASSUME NEW p \in Procs, at'[p] # "idle" PROVE Good(at[p], job[p], fold[p], last[p])'
    <3>1. Good(at[p], job[p], fold[p], last[p])
      BY <2>1, <2>2, <2>5 DEF RestInv
    <3> QED
      BY <1>1, <3>1, RunningSame
  <2> QED
    BY <2>3, <2>4, <2>5
<1>2. CASE Next
  <2>1. PICK p \in Procs : Step(p)
    BY <1>2 DEF Next, Step
  <2> SUFFICES ASSUME faults' = 0
               PROVE  /\ \A q \in Procs : at'[q] = "idle" => job'[q] = NoJob
                      /\ AtRest' => Good("idle", NoJob, NoFold, NoEntry)'
                      /\ \A q \in Procs : at'[q] # "idle" => Good(at[q], job[q], fold[q], last[q])'
    BY DEF RestInv
  <2>2. faults = 0 /\ Works(p)
    BY <2>1, FaultsGrow, NoFault DEF RowsInv
  <2>3. OthersIdle(p)
    <3>1. CASE at[p] # "idle"
      BY <3>1, RunningAlone
    <3>2. CASE at[p] = "idle"
      BY <2>1, <3>2, Local, MayStartAlone DEF RowsInv
    <3> QED
      BY <3>1, <3>2
  <2>4. Around(p) /\ Copied
    BY <2>2, <2>3 DEF Around, RowsInv, RestInv
  <2>5. Good(at[p], job[p], fold[p], last[p])
    <3>1. CASE at[p] # "idle"
      BY <2>2, <3>1 DEF RestInv
    <3>2. CASE at[p] = "idle"
      <4>1. AtRest /\ job[p] = NoJob
        BY <2>2, <2>3, <3>2 DEF AtRest, OthersIdle, RestInv
      <4> QED
        BY <2>2, <3>2, <4>1, IdleGood DEF RestInv
    <3> QED
      BY <3>1, <3>2
  <2>6. Good(at[p], job[p], fold[p], last[p])'
    BY <2>4, <2>5, GoodStep
  <2>7. at'[p] = "idle" => job'[p] = NoJob
    <3>1. FoldGood(at[p], job[p], fold[p])'
      BY <2>6 DEF Good
    <3> QED
      BY <3>1 DEF FoldGood
  <2>8. \A q \in Procs : q # p => at'[q] = "idle" /\ job'[q] = NoJob
    BY <2>1, <2>2, <2>3, Local DEF RowsInv, OthersIdle, RestInv
  <2>9. ASSUME AtRest' PROVE Good("idle", NoJob, NoFold, NoEntry)'
    <3>1. at'[p] = "idle"
      BY <2>9 DEF AtRest
    <3> QED
      BY <2>6, <2>7, <3>1, GoodIdle
  <2>10. ASSUME NEW q \in Procs, at'[q] # "idle" PROVE Good(at[q], job[q], fold[q], last[q])'
    <3>1. q = p
      BY <2>8, <2>10
    <3> QED
      BY <2>6, <3>1
  <2> QED
    BY <2>7, <2>8, <2>9, <2>10
<1> QED
  BY <1>1, <1>2

\* As long as every State-writing command takes the lock.
LEMMA RestInvAlways ==
    ASSUME Free = {} PROVE Spec => []RestInv
<1>1. Spec => []LedgerInv /\ []RowsInv
  BY LedgerInvAlways, RowsInvAlways, PTL
<1>2. Init => RestInv
  BY RestInvInit
<1>3. LedgerInv /\ LedgerInv' /\ RowsInv /\ RowsInv' /\ RestInv /\ [Next]_vars => RestInv'
  BY RestInvStep
<1> QED
  BY <1>1, <1>2, <1>3, PTL DEF Spec

-----------------------------------------------------------------------------
(* What a reader finds between two commands                                 *)

\* Between commands, the whole of a table is its folded half and its pending half.
LEMMA IdleTable ==
    ASSUME NEW s \in States, NEW table \in TableNames
    PROVE  Whole("idle")[s][table] = log.folded[s][table] \o log.pending[s][table]
<1>1. Whole("idle")[s][table] = WholeTable("idle", s, table)
  BY DEF Whole, TableNames
<1> QED
  BY <1>1 DEF WholeTable, Merged

\* A settled head is the newest entry's hash.
LEMMA HeadIsFresh ==
    ASSUME Typed, LedgerInv, HeadGood("idle", NoFold, NoEntry) PROVE HeadFresh
<1>1. HeadSettled
  BY DEF HeadGood
<1>2. ASSUME NEW S, S # {}, S \subseteq Entries, NEW id, IsTip(id, S) PROVE id = Newest(S).id
  <2>1. PICK e \in S : id = e.id /\ \A f \in S : f.seq <= e.seq
    BY <1>2 DEF IsTip
  <2>2. built \in Nat /\ \A f \in S : f.seq \in 0..built
    BY <1>2 DEF Typed, LedgerTyped, Entries, Halves, Entry
  <2>3. Newest(S) \in S /\ \A f \in S : f.seq <= Newest(S).seq
    BY <1>2, <2>2, Greatest
  <2>4. e.seq = Newest(S).seq
    BY <2>1, <2>2, <2>3
  <2>5. e = Newest(S)
    BY <1>2, <2>3, <2>4 DEF LedgerInv, SeqsUnique
  <2> QED
    BY <2>1, <2>5
<1>3. CASE lgr.pending # {}
  <2>1. Active = "pending" /\ IsTip(head.pending, lgr.pending) /\ lgr.pending \subseteq Entries
    BY <1>1, <1>3 DEF Active, HeadSettled, Entries
  <2> QED
    BY <1>2, <1>3, <2>1 DEF HeadFresh
<1>4. CASE lgr.pending = {}
  <2>1. Active = "folded" /\ lgr.folded = Entries
    BY <1>4 DEF Active, Entries
  <2>2. Entries # {} => IsTip(head.folded, lgr.folded)
    BY <1>1, <1>4, <2>1 DEF HeadSettled
  <2> QED
    BY <1>2, <2>1, <2>2 DEF HeadFresh
<1> QED
  BY <1>3, <1>4

\* An entry's rows are in one half, where rows_by_entry finds them in the order they were signed.
LEMMA NamingIsSigned ==
    ASSUME Typed, SplitGood("idle"), NEW n
    PROVE  RowsNaming(n) = Signed(Whole("idle"), n)
<1> DEFINE F(table) == FlattenSeq([s \in States |-> Naming(log.folded[s][table], n)])
           P(table) == FlattenSeq([s \in States |-> Naming(log.pending[s][table], n)])
           W(table) == Named(Whole("idle"), table, n)
<1>1. RowsNaming(n) = F("commit") \o P("commit") \o F("published") \o P("published")
  BY DEF RowsNaming
<1>2. Signed(Whole("idle"), n) = W("commit") \o W("published")
  BY DEF Signed
<1>3. \A s \in States, table \in TableNames :
         log.folded[s][table] \in Seq(Row) /\ log.pending[s][table] \in Seq(Row)
  BY Tables DEF Halves, TableNames
<1>4. \A a \in Seq(Row) : a \o <<>> = a /\ <<>> \o a = a
  BY ConcatEmptySeq
<1>5. \A s \in States, table \in TableNames :
         Naming(Whole("idle")[s][table], n)
           = Naming(log.folded[s][table], n) \o Naming(log.pending[s][table], n)
  <2> SUFFICES ASSUME NEW s \in States, NEW table \in TableNames
               PROVE  Naming(Whole("idle")[s][table], n)
                        = Naming(log.folded[s][table], n) \o Naming(log.pending[s][table], n)
    OBVIOUS
  <2>1. Whole("idle")[s][table] = log.folded[s][table] \o log.pending[s][table]
    BY IdleTable
  <2>2. Naming(log.folded[s][table] \o log.pending[s][table], n)
          = Naming(log.folded[s][table], n) \o Naming(log.pending[s][table], n)
    BY <1>3, NamingConcat
  <2> QED
    BY <2>1, <2>2
<1>6. \A s \in States, table \in TableNames :
         Naming(log.folded[s][table], n) \in Seq(Row) /\ Naming(log.pending[s][table], n) \in Seq(Row)
  BY <1>3, NamingTyped
<1>7. ASSUME NEW table \in TableNames
      PROVE  F(table) \in Seq(Row) /\ P(table) \in Seq(Row)
  <2> DEFINE f == [s \in States |-> Naming(log.folded[s][table], n)]
             g == [s \in States |-> Naming(log.pending[s][table], n)]
  <2>1. f \in [1..NStates -> Seq(Row)] /\ g \in [1..NStates -> Seq(Row)]
    BY <1>6 DEF States
  <2> HIDE DEF f, g
  <2>2. FlattenSeq(f) \in Seq(Row) /\ FlattenSeq(g) \in Seq(Row)
    BY <2>1, FlatSeq, MemoryAssumption
  <2> QED
    BY <2>2 DEF f, g
<1>8. CASE Names(lgr.folded, n)
  <2>1. \A s \in States, table \in TableNames : Naming(log.pending[s][table], n) = <<>>
    <3>1. \A s \in States, table \in TableNames : \A row \in ToSet(log.pending[s][table]) : row.entry # n
      BY <1>8 DEF SplitGood, Folding
    <3> QED
      BY <1>3, <3>1, NamingNone
  <2>2. ASSUME NEW table \in TableNames PROVE P(table) = <<>> /\ W(table) = F(table)
    <3>1. P(table) = <<>>
      <4> DEFINE g == [s \in States |-> Naming(log.pending[s][table], n)]
      <4>1. g \in [1..NStates -> Seq(Row)] /\ \A s \in 1..NStates : g[s] = <<>>
        BY <1>6, <2>1 DEF States
      <4> HIDE DEF g
      <4>2. FlattenSeq(g) = <<>>
        BY <4>1, FlatNone, MemoryAssumption
      <4> QED
        BY <4>2 DEF g
    <3>2. \A s \in States : Naming(Whole("idle")[s][table], n) = Naming(log.folded[s][table], n)
      BY <1>4, <1>5, <1>6, <2>1
    <3> QED
      BY <3>1, <3>2 DEF Named
  <2>3. /\ P("commit") = <<>> /\ P("published") = <<>>
        /\ W("commit") = F("commit") /\ W("published") = F("published")
        /\ F("commit") \in Seq(Row) /\ F("published") \in Seq(Row)
    BY <1>7, <2>2 DEF TableNames
  <2> HIDE DEF F, P, W
  <2>4. F("commit") \o F("published") \in Seq(Row)
    BY <2>3, ConcatProperties
  <2> QED
    BY <1>1, <1>2, <1>4, <2>3, <2>4
<1>9. CASE ~Names(lgr.folded, n)
  <2>1. \A s \in States, table \in TableNames : Naming(log.folded[s][table], n) = <<>>
    <3>1. \A s \in States, table \in TableNames : \A row \in ToSet(log.folded[s][table]) : row.entry # n
      BY <1>9 DEF SplitGood, Names
    <3> QED
      BY <1>3, <3>1, NamingNone
  <2>2. ASSUME NEW table \in TableNames PROVE F(table) = <<>> /\ W(table) = P(table)
    <3>1. F(table) = <<>>
      <4> DEFINE g == [s \in States |-> Naming(log.folded[s][table], n)]
      <4>1. g \in [1..NStates -> Seq(Row)] /\ \A s \in 1..NStates : g[s] = <<>>
        BY <1>6, <2>1 DEF States
      <4> HIDE DEF g
      <4>2. FlattenSeq(g) = <<>>
        BY <4>1, FlatNone, MemoryAssumption
      <4> QED
        BY <4>2 DEF g
    <3>2. \A s \in States : Naming(Whole("idle")[s][table], n) = Naming(log.pending[s][table], n)
      BY <1>4, <1>5, <1>6, <2>1
    <3> QED
      BY <3>1, <3>2 DEF Named
  <2>3. /\ F("commit") = <<>> /\ F("published") = <<>>
        /\ W("commit") = P("commit") /\ W("published") = P("published")
        /\ P("commit") \in Seq(Row) /\ P("published") \in Seq(Row)
    BY <1>7, <2>2 DEF TableNames
  <2> HIDE DEF F, P, W
  <2> QED
    BY <1>1, <1>2, <1>4, <2>3
<1> QED
  BY <1>8, <1>9

\* No COMMIT_LOG_MISMATCH between two commands.
LEMMA LogsHoldAtRest ==
    ASSUME Typed, Good("idle", NoJob, NoFold, NoEntry) PROVE CommitLogsHold
<1>1. SplitGood("idle") /\ \A e \in Entries : Signed(Whole("idle"), e.seq) = e.vouches
  BY DEF Good, SignGood
<1>2. \A e \in Entries : RowsNaming(e.seq) = e.vouches
  BY <1>1, NamingIsSigned
<1>3. ASSUME NEW h \in Halves, NEW s \in States, NEW table \in {"commit", "published"},
             NEW row \in ToSet(log[h][s][table])
      PROVE  \E e \in Entries : e.seq = row.entry
  <2>1. Names(lgr.folded, row.entry) \/ Names(Entries, row.entry)
    BY <1>1, <1>3 DEF SplitGood, Halves, TableNames
  <2> QED
    BY <2>1 DEF Names, Entries
<1> QED
  BY <1>2, <1>3 DEF CommitLogsHold, RowsAreSigned, RowsHaveEntries

\* What the invariants say of `cgitsync verify`.
LEMMA VerifiedState ==
    ASSUME LedgerInv, RowsInv, RestInv PROVE VerifiedAtRest
<1> SUFFICES ASSUME AtRest, faults = 0 PROVE ChainHolds /\ HeadFresh /\ StatesOnDisk /\ CommitLogsHold
  BY DEF VerifiedAtRest
<1>1. Good("idle", NoJob, NoFold, NoEntry) /\ Typed
  BY DEF RestInv, RowsInv
<1>2. ChainHolds
  BY LedgerInvHolds
<1>3. HeadFresh
  BY <1>1, HeadIsFresh DEF Good
<1>4. StatesOnDisk
  BY <1>1 DEF Good, StatesGood
<1>5. CommitLogsHold
  BY <1>1, LogsHoldAtRest
<1> QED
  BY <1>2, <1>3, <1>4, <1>5

\* A copy is a place of a table.
LEMMA InCopies ==
    ASSUME NEW table, NEW sha, NEW a
    PROVE  a \in Copies(table, sha) <=>
             \E h \in Halves, s \in States : \E i \in DOMAIN log[h][s][table] :
                a = <<h, s, i>> /\ log[h][s][table][i].sha = sha
<1> DEFINE In(h, s) == {<<h, s, i>> : i \in {j \in DOMAIN log[h][s][table] : log[h][s][table][j].sha = sha}}
<1>1. Copies(table, sha) = UNION {In(h, s) : h \in Halves, s \in States}
  BY DEF Copies
<1>2. \A h, s : a \in In(h, s) <=>
         \E i \in DOMAIN log[h][s][table] : a = <<h, s, i>> /\ log[h][s][table][i].sha = sha
  OBVIOUS
<1> HIDE DEF In
<1>3. a \in Copies(table, sha) <=> \E h \in Halves, s \in States : a \in In(h, s)
  BY <1>1
<1> QED
  BY <1>2, <1>3

\* Each commit is at one place of the whole, so at one place of one half.
LEMMA OnceAtRest ==
    ASSUME Typed, NEW table \in TableNames, Once(Whole("idle"), table), NEW sha
    PROVE  \A a, b \in Copies(table, sha) : a = b
<1> DEFINE w == Whole("idle")
           Place(h, s, i) == IF h = "folded" THEN i ELSE Len(log.folded[s][table]) + i
<1>1. ASSUME NEW h \in Halves, NEW s \in States, NEW i \in DOMAIN log[h][s][table]
      PROVE  /\ Place(h, s, i) \in DOMAIN w[s][table]
             /\ w[s][table][Place(h, s, i)] = log[h][s][table][i]
             /\ i \in Nat /\ Len(log.folded[s][table]) \in Nat
             /\ h = "folded" <=> Place(h, s, i) <= Len(log.folded[s][table])
  <2> DEFINE f == log.folded[s][table]
             g == log.pending[s][table]
             c == w[s][table]
  <2>1. f \in Seq(Row) /\ g \in Seq(Row) /\ c = f \o g
    BY Tables, IdleTable DEF Halves, TableNames
  <2>2. (h = "folded" /\ log[h][s][table] = f) \/ (h = "pending" /\ log[h][s][table] = g)
    BY DEF Halves
  <2> HIDE DEF f, g, c
  <2>3. /\ c \in Seq(Row) /\ Len(c) = Len(f) + Len(g)
        /\ \A k \in 1..Len(f) + Len(g) : c[k] = IF k <= Len(f) THEN f[k] ELSE g[k - Len(f)]
    BY <2>1, ConcatProperties
  <2>4. /\ Len(f) \in Nat /\ Len(g) \in Nat /\ DOMAIN f = 1..Len(f) /\ DOMAIN g = 1..Len(g)
        /\ DOMAIN c = 1..Len(c)
    BY <2>1, <2>3, LenProperties
  <2>5. CASE h = "folded" /\ log[h][s][table] = f
    <3>1. i \in 1..Len(f) /\ Place(h, s, i) = i
      BY <1>1, <2>4, <2>5
    <3>2. i \in DOMAIN c /\ c[i] = f[i] /\ i <= Len(f) /\ i \in Nat
      BY <2>3, <2>4, <3>1
    <3> QED
      BY <2>4, <2>5, <3>1, <3>2 DEF c, f
  <2>6. CASE h = "pending" /\ log[h][s][table] = g
    <3>1. i \in 1..Len(g) /\ Place(h, s, i) = Len(f) + i
      BY <1>1, <2>4, <2>6 DEF f
    <3>2. Len(f) + i \in 1..Len(c) /\ ~(Len(f) + i <= Len(f)) /\ (Len(f) + i) - Len(f) = i /\ i \in Nat
      BY <2>3, <2>4, <3>1
    <3>3. c[Len(f) + i] = g[i]
      BY <2>3, <3>2
    <3> QED
      BY <2>4, <2>6, <3>1, <3>2, <3>3 DEF c, f
  <2> QED
    BY <2>2, <2>5, <2>6
<1> SUFFICES ASSUME NEW a \in Copies(table, sha), NEW b \in Copies(table, sha) PROVE a = b
  OBVIOUS
<1>2. PICK h \in Halves, s \in States : \E i \in DOMAIN log[h][s][table] :
         a = <<h, s, i>> /\ log[h][s][table][i].sha = sha
  BY InCopies
<1>3. PICK i \in DOMAIN log[h][s][table] : a = <<h, s, i>> /\ log[h][s][table][i].sha = sha
  BY <1>2
<1>4. PICK g \in Halves, u \in States : \E k \in DOMAIN log[g][u][table] :
         b = <<g, u, k>> /\ log[g][u][table][k].sha = sha
  BY InCopies
<1>5. PICK k \in DOMAIN log[g][u][table] : b = <<g, u, k>> /\ log[g][u][table][k].sha = sha
  BY <1>4
<1> HIDE DEF w, Place
<1>6. s = u /\ Place(h, s, i) = Place(g, u, k)
  BY <1>1, <1>3, <1>5 DEF Once, w
<1>7. h = "folded" <=> g = "folded"
  BY <1>1, <1>6
<1>8. h = g
  BY <1>7 DEF Halves
<1>9. i = k
  <2>1. i \in Nat /\ k \in Nat /\ Len(log.folded[s][table]) \in Nat
    BY <1>1
  <2>2. \/ i = k
        \/ Len(log.folded[s][table]) + i = Len(log.folded[s][table]) + k
    BY <1>6, <1>8 DEF Place
  <2> QED
    BY <2>1, <2>2
<1> QED
  BY <1>3, <1>5, <1>6, <1>8, <1>9

\* Once all is pushed, each remembered commit is marked as published.
LEMMA RecordedAtRest ==
    ASSUME Typed, Good("idle", NoJob, NoFold, NoEntry), pushed = made,
           NEW sha \in Sha, Copies("commit", sha) # {}
    PROVE  Copies("published", sha) # {}
<1> DEFINE w == Whole("idle")
<1>0. \A s \in States, table \in TableNames :
         /\ log.folded[s][table] \in Seq(Row) /\ log.pending[s][table] \in Seq(Row)
         /\ Shas(w[s][table]) = Shas(log.folded[s][table]) \cup Shas(log.pending[s][table])
  <2>1. \A s \in States, table \in TableNames :
           log.folded[s][table] \in Seq(Row) /\ log.pending[s][table] \in Seq(Row)
    BY Tables DEF Halves, TableNames
  <2> QED
    BY <2>1, IdleTable, ShasConcat
<1>1. PICK h \in Halves, s \in States : \E i \in DOMAIN log[h][s].commit : log[h][s].commit[i].sha = sha
  BY InCopies
<1>2. sha \in Shas(w[s].commit)
  <2>1. sha \in Shas(log[h][s].commit)
    BY <1>1 DEF Shas, ToSet
  <2> QED
    BY <1>0, <2>1 DEF Halves, TableNames
<1>3. sha \in Public
  <2>1. w[s].commit \in Seq(RowsOf(Done))
    BY WholeTyped DEF WholeLogs
  <2> DEFINE c == w[s].commit
  <2>2. c \in Seq(RowsOf(Done)) /\ sha \in Shas(c)
    BY <1>2, <2>1
  <2> HIDE DEF c
  <2>3. \A i \in DOMAIN c : c[i] \in RowsOf(Done)
    BY <2>2
  <2>4. sha \in Done
    BY <2>2, <2>3 DEF Shas, ToSet, RowsOf
  <2> QED
    BY <2>4 DEF Done, Public
<1>4. sha \in Shas(w[s].published)
  <2>1. NoJob.pubs[s] = <<>>
    BY DEF NoJob, Job, NoPubs
  <2>2. sha \notin ToSet(NoJob.pubs[s])
    BY <2>1 DEF ToSet
  <2> QED
    BY <1>2, <1>3, <2>2 DEF Good, PubGood
<1>5. sha \in Shas(log.folded[s].published) \/ sha \in Shas(log.pending[s].published)
  BY <1>0, <1>4 DEF TableNames
<1>6. \E g \in Halves : sha \in Shas(log[g][s].published)
  BY <1>5 DEF Halves
<1>7. PICK g \in Halves : \E k \in DOMAIN log[g][s].published : log[g][s].published[k].sha = sha
  BY <1>6 DEF Shas, ToSet
<1>8. PICK k \in DOMAIN log[g][s].published : log[g][s].published[k].sha = sha
  BY <1>7
<1>9. <<g, s, k>> \in Copies("published", sha)
  BY <1>8, InCopies
<1> QED
  BY <1>9

\* What the invariants say of publications.
LEMMA PublishedState ==
    ASSUME RowsInv, RestInv PROVE PublishedExactlyOnce
<1> SUFFICES ASSUME faults = 0, AtRest
             PROVE  /\ pushed = made => \A sha \in Sha : Copies("commit", sha) # {} => Copies("published", sha) # {}
                    /\ \A sha \in Sha : \A a, b \in Copies("published", sha) : a = b
  BY DEF PublishedExactlyOnce, PublishedIsRecorded, PublishedOnce
<1>1. Good("idle", NoJob, NoFold, NoEntry) /\ Typed
  BY DEF RestInv, RowsInv
<1>2. pushed = made => \A sha \in Sha : Copies("commit", sha) # {} => Copies("published", sha) # {}
  BY <1>1, RecordedAtRest
<1>3. \A sha \in Sha : \A a, b \in Copies("published", sha) : a = b
  BY <1>1, OnceAtRest DEF Good, PubGood, TableNames
<1> QED
  BY <1>2, <1>3

\* Between two commands, while nothing has failed, `cgitsync verify` finds nothing:
\* the chain, the cached head, the States and the rows each entry vouches for, in
\* whichever halves they are (ChainVerifier.verify, rows_by_entry).
THEOREM HistoryVerifies ==
    ASSUME Free = {} PROVE Spec => []VerifiedAtRest
<1>1. Spec => []LedgerInv /\ []RowsInv /\ []RestInv
  BY LedgerInvAlways, RowsInvAlways, RestInvAlways, PTL
<1>2. LedgerInv /\ RowsInv /\ RestInv => VerifiedAtRest
  BY VerifiedState
<1> QED
  BY <1>1, <1>2, PTL

\* While nothing has failed, a fold between a commit and its push, or the split of a
\* log over two halves, neither hides a commit from the push that publishes it nor
\* shows it to a second one (_collect_publication_records, unpublished_commits).
THEOREM PublicationsOnce ==
    ASSUME Free = {} PROVE Spec => []PublishedExactlyOnce
<1>1. Spec => []RowsInv /\ []RestInv
  BY RowsInvAlways, RestInvAlways, PTL
<1>2. RowsInv /\ RestInv => PublishedExactlyOnce
  BY PublishedState
<1> QED
  BY <1>1, <1>2, PTL
=============================================================================
