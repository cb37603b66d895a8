------------------------------ MODULE MergeProofs ------------------------------
(****************************************************************************)
(* What a merge keeps, for any tree, any number of failures, kills and      *)
(* reruns, and any work of its user beside it.                              *)
(*                                                                          *)
(* Typed is the type invariant with the step each command may be at.  Each  *)
(* property then has an invariant of its own beside it: DInv, how far the   *)
(* walk has come (ProjectIsDoneFirst); MInv, what is planned for the memory *)
(* (MemoryStaysWhole); SInv, that a commit carries the work its history     *)
(* holds and every pass merges one repository more (StopsAtUnfinished);     *)
(* CInv, that what was asked still answers the conflict check               *)
(* (NothingMergedBesideAConflict); EInv, that a repository's fate is what   *)
(* was found of it until the walk gets there (EndsWhereItSaid).             *)
(****************************************************************************)
EXTENDS Merge, FiniteSetTheorems, TLAPS

USE MergeAssumption

-----------------------------------------------------------------------------
(* The walk: every repository has one place *)

PlaceOf(r) == IF r \in Private THEN Cardinality(Repos \ Private) + Cardinality({q \in Private : q <= r})
              ELSE Cardinality({q \in Repos \ Private : q <= r})

\* How many of a set of repositories come no later than one of them.
LEMMA Counting ==
    ASSUME NEW S \in SUBSET Repos
    PROVE  /\ IsFiniteSet(S) /\ Cardinality(S) \in Nat
           /\ \A r \in S : Cardinality({q \in S : q <= r}) \in 1..Cardinality(S)
           /\ \A r, s \in S : r < s => Cardinality({q \in S : q <= r}) < Cardinality({q \in S : q <= s})
<1>1. /\ IsFiniteSet(Repos) /\ Repos \subseteq Nat
  BY FS_Interval DEF Repos
<1>2. \A T \in SUBSET Repos : IsFiniteSet(T) /\ Cardinality(T) \in Nat
  BY <1>1, FS_Subset, FS_CardinalityType
<1>3. ASSUME NEW r \in S PROVE Cardinality({q \in S : q <= r}) \in 1..Cardinality(S)
  <2> DEFINE T == {q \in S : q <= r}
  <2>1. r \in Nat
    BY <1>1
  <2>a. T \in SUBSET S /\ r \in T /\ T \in SUBSET Repos
    <3>1. r <= r
      BY <2>1
    <3>2. T \subseteq S
      OBVIOUS
    <3> QED
      BY <3>1, <3>2
  <2>2. Cardinality(T) <= Cardinality(S) /\ Cardinality(T) \in Nat /\ Cardinality(S) \in Nat
    BY <1>2, <2>a, FS_Subset
  <2>3. Cardinality(T) # 0
    BY <1>2, <2>a, FS_EmptySet
  <2> QED
    BY <2>2, <2>3
<1>4. ASSUME NEW r \in S, NEW s \in S, r < s
      PROVE  Cardinality({q \in S : q <= r}) < Cardinality({q \in S : q <= s})
  <2> DEFINE T == {q \in S : q <= r}
             U == {q \in S : q <= s}
  <2>a. r \in Nat /\ s \in Nat /\ \A q \in S : q \in Nat
    BY <1>1
  <2>b. s <= s /\ ~(s <= r) /\ \A q \in S : q <= r => q <= s
    BY <1>4, <2>a
  <2>c. U \subseteq S
    OBVIOUS
  <2>1. T \in SUBSET U /\ s \in U /\ s \notin T /\ U \in SUBSET Repos
    BY <2>b, <2>c
  <2>2. Cardinality(T) <= Cardinality(U) /\ T # U /\ Cardinality(T) \in Nat /\ Cardinality(U) \in Nat
    BY <1>2, <2>1, FS_Subset
  <2>3. Cardinality(U) # Cardinality(T)
    BY <1>2, <2>1, <2>2, FS_Subset
  <2> QED
    BY <2>2, <2>3
<1> QED
  BY <1>2, <1>3, <1>4

LEMMA Places ==
    /\ \A r \in Repos : PlaceOf(r) \in Repos /\ Place(PlaceOf(r)) = r
    /\ \A i \in Repos : Place(i) \in Repos /\ PlaceOf(Place(i)) = i
    /\ \A r, s \in Repos : r \notin Private /\ s \in Private => PlaceOf(r) < PlaceOf(s)
<1> DEFINE Public == Repos \ Private
<1>1. /\ Private \in SUBSET Repos /\ Public \in SUBSET Repos /\ Repos \subseteq Nat
      /\ IsFiniteSet(Repos) /\ Cardinality(Repos) = NRepos
  BY FS_Interval DEF Repos
<1>2. Cardinality(Public) \in Nat /\ Cardinality(Private) \in Nat /\ Cardinality(Public) + Cardinality(Private) = NRepos
  <2>1. Public \cup Private = Repos /\ Public \cap Private = {}
    BY <1>1
  <2>2. IsFiniteSet(Public) /\ IsFiniteSet(Private) /\ Cardinality(Public) \in Nat /\ Cardinality(Private) \in Nat
    BY <1>1, Counting
  <2>3. Cardinality(Public \cap Private) = 0
    BY <2>1, FS_EmptySet
  <2>4. Cardinality(Public \cup Private)
          = Cardinality(Public) + Cardinality(Private) - Cardinality(Public \cap Private)
    BY <2>2, FS_Union
  <2>5. \A a, b \in Nat : a + b - 0 = a + b
    OBVIOUS
  <2>6. Cardinality(Public \cup Private) = Cardinality(Public) + Cardinality(Private) - 0
    BY <2>3, <2>4, Zenon
  <2>7. Cardinality(Public \cup Private) = Cardinality(Public) + Cardinality(Private)
    BY <2>2, <2>5, <2>6, Zenon
  <2> QED
    BY <1>1, <2>1, <2>2, <2>7, Zenon
<1>3. \A r \in Repos : IF r \in Private THEN PlaceOf(r) \in (Cardinality(Public) + 1)..NRepos
                       ELSE PlaceOf(r) \in 1..Cardinality(Public)
  <2>1. ASSUME NEW r \in Private PROVE PlaceOf(r) \in (Cardinality(Public) + 1)..NRepos
    <3>1. Cardinality({q \in Private : q <= r}) \in 1..Cardinality(Private)
      BY <1>1, Counting
    <3> QED
      BY <1>2, <3>1 DEF PlaceOf
  <2>2. ASSUME NEW r \in Public PROVE PlaceOf(r) \in 1..Cardinality(Public)
    BY <1>1, Counting DEF PlaceOf
  <2> QED
    BY <2>1, <2>2
<1>4. \A r \in Repos : PlaceOf(r) \in Repos
  BY <1>2, <1>3 DEF Repos
<1>5. \A r, s \in Repos : r \notin Private /\ s \in Private => PlaceOf(r) < PlaceOf(s)
  BY <1>2, <1>3
<1>6. \A r, s \in Repos : r < s => PlaceOf(r) # PlaceOf(s)
  <2> SUFFICES ASSUME NEW r \in Repos, NEW s \in Repos, r < s PROVE PlaceOf(r) # PlaceOf(s)
    OBVIOUS
  <2>1. CASE r \in Private /\ s \in Private
    <3> DEFINE a == Cardinality({q \in Private : q <= r})
               b == Cardinality({q \in Private : q <= s})
    <3>1. a < b /\ a \in Nat /\ b \in Nat
      BY <1>1, <1>2, <2>1, Counting
    <3>2. PlaceOf(r) = Cardinality(Public) + a /\ PlaceOf(s) = Cardinality(Public) + b
      BY <2>1 DEF PlaceOf
    <3> HIDE DEF a, b
    <3> QED
      BY <1>2, <3>1, <3>2
  <2>2. CASE r \notin Private /\ s \notin Private
    <3> DEFINE a == Cardinality({q \in Public : q <= r})
               b == Cardinality({q \in Public : q <= s})
    <3>1. a < b /\ a \in Nat /\ b \in Nat
      BY <1>1, <1>2, <2>2, Counting
    <3>2. PlaceOf(r) = a /\ PlaceOf(s) = b
      BY <2>2 DEF PlaceOf
    <3> HIDE DEF a, b
    <3> QED
      BY <3>1, <3>2
  <2>3. PlaceOf(r) \in Nat /\ PlaceOf(s) \in Nat
    BY <1>1, <1>4
  <2>4. CASE r \in Private /\ s \notin Private
    <3>1. PlaceOf(s) < PlaceOf(r)
      BY <1>5, <2>4
    <3> QED
      BY <2>3, <3>1
  <2>5. CASE r \notin Private /\ s \in Private
    <3>1. PlaceOf(r) < PlaceOf(s)
      BY <1>5, <2>5
    <3> QED
      BY <2>3, <3>1
  <2> QED
    BY <2>1, <2>2, <2>4, <2>5
<1>7. \A r, s \in Repos : PlaceOf(r) = PlaceOf(s) => r = s
  BY <1>1, <1>6
<1>8. \A i \in Repos : \E r \in Repos : PlaceOf(r) = i
  <2> DEFINE f == [r \in Repos |-> PlaceOf(r)]
  <2>1. f \in Injection(Repos, Repos)
    BY <1>4, <1>7 DEF Injection, IsInjective
  <2>2. f \in Surjection(Repos, Repos)
    BY <1>1, <2>1, FS_Injection
  <2> QED
    BY <2>2 DEF Surjection
<1>9. ASSUME NEW i \in Repos PROVE Place(i) \in Repos /\ PlaceOf(Place(i)) = i
  <2>1. \E r \in Repos : i = PlaceOf(r)
    BY <1>8
  <2>2. Place(i) = CHOOSE r \in Repos : i = PlaceOf(r)
    BY DEF Place, PlaceOf
  <2> QED
    BY <2>1, <2>2
<1> QED
  BY <1>4, <1>5, <1>7, <1>9

\* A set of repositories that is not empty has a last.
LEMMA Last ==
    ASSUME NEW S \in SUBSET Repos, S # {}
    PROVE  \E i \in S : \A j \in S : j <= i
<1> DEFINE f == [r \in S |-> Cardinality({q \in S : q <= r})]
           N == Cardinality(S)
<1>1. Repos \subseteq Nat /\ IsFiniteSet(S) /\ N \in Nat
  BY Counting DEF Repos
<1>2. N # 0
  BY <1>1, FS_EmptySet
<1>3. \A r, s \in S : f[r] = f[s] => r = s
  <2>1. \A r, s \in S : r < s => f[r] < f[s]
    BY Counting
  <2>2. \A r \in S : f[r] \in 1..N
    BY Counting
  <2> HIDE DEF f, N
  <2> SUFFICES ASSUME NEW r \in S, NEW s \in S, f[r] = f[s], r # s PROVE FALSE
    OBVIOUS
  <2>3. f[r] \in Nat /\ ~(f[r] < f[s]) /\ ~(f[s] < f[r])
    BY <1>1, <2>2
  <2>4. r \in Nat /\ s \in Nat /\ (r < s \/ s < r)
    BY <1>1
  <2> QED
    BY <2>1, <2>3, <2>4
<1>4. f \in Injection(S, 1..N)
  <2>1. f \in [S -> 1..N]
    BY Counting
  <2> QED
    BY <1>3, <2>1 DEF Injection, IsInjective
<1>5. IsFiniteSet(1..N) /\ Cardinality(1..N) = N
  BY <1>1, FS_Interval
<1>6. f \in Surjection(S, 1..N)
  BY <1>1, <1>4, <1>5, FS_Injection
<1>7. PICK i \in S : f[i] = N
  <2>1. N \in 1..N
    BY <1>1, <1>2
  <2>2. \A n \in 1..N : \E i \in S : f[i] = n
    BY <1>6, Zenon DEF Surjection
  <2> QED
    BY <2>1, <2>2, Zenon
<1>8. {q \in S : q <= i} = S
  <2>1. {q \in S : q <= i} \in SUBSET S
    OBVIOUS
  <2>2. Cardinality({q \in S : q <= i}) = Cardinality(S)
    BY <1>7
  <2> QED
    BY <1>1, <2>1, <2>2, FS_Subset
<1> QED
  BY <1>8

-----------------------------------------------------------------------------
(* Commits, and the merge of one repository *)

\* A commit whose work its history holds.
Held == {c \in Commit : c.files \subseteq c.past}

Data == /\ tip \in [Repos -> [Branch -> Held]] /\ seen \in [Repos -> [Branch -> Held]]
        /\ on \in [Repos -> Branch] /\ built \in Nat

Told == [result : Result, merged : SUBSET Repos, stopped : 0..NRepos]

LEMMA JoinedFits ==
    ASSUME built \in Nat, NEW a \in Held, NEW b \in Held
    PROVE  /\ Joined(a, b) \in Held
           /\ Joined(a, b).past = a.past \cup b.past \cup {JoinNo(built)}
           /\ Joined(a, b).files = a.files \cup b.files
<1>1. JoinNo(built) \in Nat
  BY DEF JoinNo
<1> QED
  BY <1>1 DEF Joined, Held, Commit

LEMMA Copies ==
    ASSUME Data, NEW r \in Repos, NEW b \in Branch
    PROVE  /\ tip[r][b] \in Held /\ seen[r][b] \in Held /\ on[r] \in Branch
           /\ Ref(r, b) \in Held /\ Newest(r, b) \in Held
           /\ Newest(r, b) \in {tip[r][b], seen[r][b]}
  BY DEF Data, Ref, Newest

\* A copy that did not diverge from origin's: the newest of the two holds both.
LEMMA NewestHolds ==
    ASSUME Data, NEW r \in Repos, NEW b \in Branch, ~Torn(r, b)
    PROVE  /\ tip[r][b].past \subseteq Newest(r, b).past
           /\ Ref(r, b).past \subseteq Newest(r, b).past
<1>1. tip[r][b] \in Held /\ seen[r][b] \in Held
  BY Copies
<1>2. CASE Contains(tip[r][b], seen[r][b])
  BY <1>1, <1>2 DEF Newest, Contains, Ref
<1>3. CASE ~Contains(tip[r][b], seen[r][b])
  <2>1. CASE tip[r][b] = None
    BY <1>1, <1>3, <2>1 DEF Newest, Ref, None
  <2>2. CASE tip[r][b] # None /\ seen[r][b] = None
    BY <1>1, <1>3, <2>2 DEF Contains, None
  <2>3. CASE tip[r][b] # None /\ seen[r][b] # None
    <3>1. Contains(seen[r][b], tip[r][b])
      BY <1>3, <2>3 DEF Torn, Diverged
    <3> QED
      BY <1>1, <1>3, <2>3, <3>1 DEF Newest, Contains, Ref
  <2> QED
    BY <2>1, <2>2, <2>3
<1> QED
  BY <1>2, <1>3

\* What a merge that goes through leaves.
Leaves(r, how, new) ==
    LET t == tip[r][on[r]]
        c == Ref(r, "source") IN
    /\ new \in Held
    /\ tip' = [tip EXCEPT ![r][on[r]] = new]
    /\ t.past \subseteq new.past
    /\ how # "kept" \/ new # t => c.past \subseteq new.past
    /\ how # "kept" => new = t \/ new = c \/ new = Joined(t, c)
    /\ how = "kept" => new.files \in {t.files, seen[r][on[r]].files}
    /\ how = "kept" => new # t \/ Contains(Newest(r, on[r]), Newest(r, "source"))
    /\ how = "kept" => ~Torn(r, "source")
    /\ built' \in Nat
    /\ told' = IF new # t THEN [told EXCEPT !.merged = @ \cup {r}] ELSE told

LEMMA MergeOneDoes ==
    ASSUME Data, NEW r \in Repos, NEW how, MergeOne(r, how)
    PROVE  \E new \in Held : Leaves(r, how, new)
<1> DEFINE t == tip[r][on[r]]
           c == Ref(r, "source")
           new == IF how = "kept" THEN KeptTip(r) ELSE Merged(r, c)
<1>1. /\ t \in Held /\ c \in Held /\ on[r] \in Branch /\ "source" \in Branch /\ built \in Nat
      /\ Newest(r, on[r]) \in Held /\ Newest(r, "source") \in Held
      /\ Newest(r, on[r]) \in {t, seen[r][on[r]]}
  BY Copies DEF Data, Branch
<1>2. /\ tip' = [tip EXCEPT ![r][on[r]] = new]
      /\ told' = IF new # t THEN [told EXCEPT !.merged = @ \cup {r}] ELSE told
      /\ built' \in Nat
  <2>1. built' = IF JoinNo(built) \in new.past THEN built + 1 ELSE built
    BY DEF MergeOne
  <2> QED
    BY <1>1, <2>1 DEF MergeOne
<1>3. CASE how = "kept"
  <2> DEFINE k == Newest(r, on[r])
             s == Newest(r, "source")
  <2>1. ~Torn(r, "source") /\ ~Torn(r, on[r])
    BY <1>3 DEF MergeOne
  <2>2. t.past \subseteq k.past /\ c.past \subseteq s.past
    BY <1>1, <2>1, NewestHolds
  <2>3. CASE Contains(k, s)
    <3>1. new = t
      BY <1>3, <2>3 DEF KeptTip
    <3> QED
      BY <1>1, <1>2, <1>3, <2>1, <2>3, <3>1 DEF Leaves
  <2>4. CASE ~Contains(k, s)
    <3> DEFINE j == Joined(k, s)
    <3>1. j \in Held /\ j.past = k.past \cup s.past \cup {JoinNo(built)}
      BY <1>1, JoinedFits
    <3>2. new = [j EXCEPT !.files = k.files]
      BY <1>3, <2>4 DEF KeptTip
    <3>3. new \in Held /\ new.past = j.past /\ new.files = k.files
      BY <1>1, <3>1, <3>2 DEF Held, Commit
    <3>4. t.past \subseteq new.past /\ c.past \subseteq new.past
      BY <2>2, <3>1, <3>3
    <3>5. new # t
      <4>1. s.past \subseteq new.past /\ ~(s.past \subseteq k.past)
        BY <2>4, <3>1, <3>3 DEF Contains
      <4> QED
        BY <2>2, <4>1
    <3>6. new.files \in {t.files, seen[r][on[r]].files}
      BY <1>1, <3>3
    <3> HIDE DEF new, t, c, k, s
    <3> QED
      BY <1>2, <1>3, <2>1, <3>3, <3>4, <3>5, <3>6 DEF Leaves, t, c
  <2> QED
    BY <2>3, <2>4
<1>4. CASE how # "kept"
  <2>1. new = t \/ new = c \/ new = Joined(t, c)
    BY <1>4 DEF Merged
  <2>2. new = t => Contains(t, c)
    <3>1. JoinNo(built) \in Joined(t, c).past /\ c.past \subseteq Joined(t, c).past
      BY <1>1, JoinedFits
    <3> QED
      BY <1>4, <3>1 DEF Merged, Contains
  <2>3. new = c => t.past \subseteq c.past
    <3>1. t.past \subseteq Joined(t, c).past
      BY <1>1, JoinedFits
    <3> QED
      BY <1>4, <3>1 DEF Merged, Contains
  <2>4. /\ new \in Held /\ t.past \subseteq new.past /\ c.past \subseteq new.past
    <3>1. Joined(t, c) \in Held /\ t.past \subseteq Joined(t, c).past /\ c.past \subseteq Joined(t, c).past
      BY <1>1, JoinedFits
    <3> HIDE DEF new
    <3> QED
      BY <1>1, <2>1, <2>2, <2>3, <3>1 DEF Contains
  <2> HIDE DEF new
  <2> QED
    BY <1>2, <1>4, <2>1, <2>4 DEF Leaves
<1> QED
  BY <1>3, <1>4

-----------------------------------------------------------------------------
(* Typing *)

Present == \A r \in Repos : tip[r][on[r]].past # {} /\ seen[r]["target"].past # {}

Control ==
    /\ job \in Job /\ wanted \in Job
    /\ at \in {"idle", "ask", "act", "merge", "visit", "tool", "record"} /\ turn \in Repos
    /\ pass \in 0..NRepos
    /\ told \in Told

Bounded ==
    /\ worktree \in [Repos -> {"clean", "conflict"}]
    /\ plan \in [Repos -> Status]
    /\ work \in 0..MaxWork /\ faults \in 0..MaxFaults

\* Which command may be at which step, and what the step may count on.
AtFits ==
    /\ at = "idle" => job = NoJob /\ pass = 0
    /\ at = "ask" => told.merged = {}
    /\ at \in {"ask", "act", "merge"} => job.cmd \in {"merge", "into"}
    /\ at \in {"visit", "tool"} => job.cmd \notin {"merge", "into"}
    /\ at # "idle" => told.result = "nothing"
    /\ at = "merge" => /\ job.cmd = "into" /\ Place(turn) \in Scoped
                       /\ plan[Place(turn)] \in Acts \cup {"already-merged"}
                       /\ on[Place(turn)] = "target"
    /\ at = "tool" => /\ told.stopped = Place(turn) /\ Place(turn) \in Scoped \ {Memory}
                      /\ on[Place(turn)] = "target"
                      /\ job.mode # "ff-only" => worktree[Place(turn)] = "conflict"

Typed == Data /\ Control /\ Bounded /\ Present /\ AtFits

LEMMA TypedIsTypeOK == Typed => TypeOK
<1>1. Held \subseteq Commit
  BY DEF Held
<1>2. ASSUME NEW f \in [Repos -> [Branch -> Held]] PROVE f \in [Repos -> [Branch -> Commit]]
  <2>1. \A r \in Repos : f[r] \in [Branch -> Commit]
    BY <1>1
  <2> QED
    BY <2>1
<1> QED
  BY <1>2 DEF Typed, Data, Control, Bounded, Told, TypeOK

LEMMA FirstPlace == 1 \in Repos /\ Root \in Repos /\ 0 \in 0..NRepos
  BY DEF Repos, Root

\* A command that ends leaves an idle tree.
LEMMA OverFits ==
    ASSUME Control, NEW result \in Result, NEW merged \in SUBSET Repos, NEW stopped \in 0..NRepos,
           Over(result, merged, stopped)
    PROVE  Control' /\ AtFits' /\ at' = "idle"
<1>1. NoJob \in Job
  BY DEF NoJob, Job, Scopes
<1>2. told' \in Told /\ wanted' \in Job
  BY <1>1 DEF Over, Control, Told
<1>3. Control'
  BY <1>1, <1>2, FirstPlace DEF Over, Control
<1> QED
  BY <1>3 DEF Over, AtFits

LEMMA OnwardFits ==
    ASSUME turn \in Repos, NEW step, Onward(step)
    PROVE  /\ turn' \in Repos /\ job' = job /\ pass' = pass /\ wanted' = wanted
           /\ \/ at' = step /\ turn < NRepos /\ turn' = turn + 1
              \/ at' = "record" /\ turn = NRepos /\ turn' = turn
  BY DEF Onward, Repos

\* A branch that is checked out moves to a commit that holds its own.
Puts(r, new) ==
    /\ new \in Held
    /\ tip' = [tip EXCEPT ![r][on[r]] = new]
    /\ tip[r][on[r]].past \subseteq new.past
    /\ built' \in Nat
    /\ on' = on /\ seen' = seen

LEMMA PutsFits ==
    ASSUME Data, NEW r \in Repos, NEW new, Puts(r, new)
    PROVE  /\ Data'
           /\ tip'[r][on[r]] = new
           /\ \A q \in Repos, b \in Branch : q # r \/ b # on[r] => tip'[q][b] = tip[q][b]
           /\ \A q \in Repos : q # r => tip'[q] = tip[q]
           /\ Present => Present'
<1>1. tip \in [Repos -> [Branch -> Held]] /\ on \in [Repos -> Branch] /\ on[r] \in Branch
  BY DEF Data
<1>2. tip' = [tip EXCEPT ![r] = [tip[r] EXCEPT ![on[r]] = new]] /\ new \in Held
  BY DEF Puts
<1>3. /\ tip'[r][on[r]] = new
      /\ \A q \in Repos, b \in Branch : q # r \/ b # on[r] => tip'[q][b] = tip[q][b]
      /\ \A q \in Repos : q # r => tip'[q] = tip[q]
  BY <1>1, <1>2
<1>4. Data'
  <2>1. [tip[r] EXCEPT ![on[r]] = new] \in [Branch -> Held]
    BY <1>1, <1>2
  <2>2. tip' \in [Repos -> [Branch -> Held]]
    BY <1>1, <1>2, <2>1
  <2> QED
    BY <2>2 DEF Data, Puts
<1>5. ASSUME Present PROVE Present'
  <2> SUFFICES ASSUME NEW q \in Repos PROVE tip'[q][on[q]].past # {} /\ seen[q]["target"].past # {}
    BY DEF Present, Puts
  <2>1. on[q] \in Branch
    BY <1>1
  <2> QED
    BY <1>3, <1>5, <2>1 DEF Present, Puts
<1> QED
  BY <1>3, <1>4, <1>5

\* Both a merge and a repository left alone count as a visit.
LEMMA VisitFits ==
    ASSUME Typed, NEW r \in Repos, NEW how,
           MergeOne(r, how) \/ UNCHANGED <<tip, built, told>>, on' = on, seen' = seen
    PROVE  /\ Data' /\ Present' /\ told' \in Told
           /\ told'.result = told.result /\ told'.stopped = told.stopped
           /\ told.merged \subseteq told'.merged /\ told'.merged \subseteq told.merged \cup {r}
<1>1. CASE MergeOne(r, how)
  <2>1. PICK new \in Held : Leaves(r, how, new)
    BY <1>1, MergeOneDoes DEF Typed
  <2>2. Puts(r, new)
    BY <2>1 DEF Leaves, Puts
  <2>3. Data' /\ Present'
    BY <2>2, PutsFits DEF Typed
  <2>4. told' = told \/ told' = [told EXCEPT !.merged = @ \cup {r}]
    BY <2>1 DEF Leaves
  <2>5. told \in Told
    BY DEF Typed, Control
  <2> QED
    BY <2>3, <2>4, <2>5 DEF Told
<1>2. CASE UNCHANGED <<tip, built, told>>
  BY <1>2 DEF Typed, Data, Present, Control
<1> QED
  BY <1>1, <1>2

LEMMA FateFits == \A r : Fate(r) \in Status
<1>1. \A r, b : MemoryFate(r, b) \in Status
  BY DEF MemoryFate, Status
<1>2. \A r : MergeStatus(r) \in Status
  BY <1>1 DEF MergeStatus, Status
<1>3. \A r : IntoStatus(r) \in Status
  BY <1>1 DEF IntoStatus, Status
<1> QED
  BY <1>2, <1>3 DEF Fate

\* The plan a repository is handled by is one found for a repository in scope.
LEMMA PlanOfFits ==
    ASSUME NEW fate \in [Repos -> Status], NEW r \in Repos
    PROVE  /\ PlanOf(fate, r) \in Status
           /\ (job.cmd = "into" /\ OneName /\ r \in Scoped) \/ PlanOf(fate, r) = fate[r]
           /\ r \in Scoped => \E q \in Scoped : PlanOf(fate, r) = fate[q]
<1> DEFINE S == {i \in Repos : Place(i) \in Scoped}
           last == CHOOSE i \in Repos : Place(i) \in Scoped /\ \A j \in Repos : Place(j) \in Scoped => j <= i
<1>1. PlanOf(fate, r) = IF job.cmd = "into" /\ OneName /\ r \in Scoped THEN fate[Place(last)] ELSE fate[r]
  BY DEF PlanOf
<1>2. ASSUME r \in Scoped PROVE last \in Repos /\ Place(last) \in Scoped
  <2>1. S \in SUBSET Repos /\ S # {}
    BY <1>2, Places
  <2>2. \E i \in S : \A j \in S : j <= i
    BY <2>1, Last
  <2>3. \E i \in Repos : Place(i) \in Scoped /\ \A j \in Repos : Place(j) \in Scoped => j <= i
    BY <2>2
  <2> QED
    BY <2>3
<1>3. Scoped \subseteq Repos
  BY DEF Scoped
<1> HIDE DEF last
<1> QED
  BY <1>1, <1>2, <1>3

LEMMA StartTyped ==
    ASSUME Typed, NEW cmd \in Commands, NEW scope \in Scopes, NEW mode \in Modes, Start(cmd, scope, mode)
    PROVE  Typed'
<1>1. job' \in Job /\ job'.cmd = cmd
  BY DEF Start, Job
<1>2. Nothing \in Told
  BY DEF Nothing, Told, Result
<1>3. Control'
  BY <1>1, <1>2, FirstPlace DEF Start, Typed, Control
<1>4. Data' /\ Present'
  BY DEF Start, refs, Typed, Data, Present
<1>5. Bounded'
  BY DEF Start, refs, Typed, Bounded, Status
<1>6. at' = (IF cmd \in {"merge", "into"} THEN "ask" ELSE "visit") /\ told' = Nothing
  BY DEF Start
<1>7. AtFits'
  BY <1>1, <1>6 DEF AtFits, Nothing
<1> QED
  BY <1>3, <1>4, <1>5, <1>7 DEF Typed

LEMMA AskTyped == ASSUME Typed, Ask PROVE Typed'
<1> DEFINE fate == [r \in Repos |-> IF r \in Scoped THEN Fate(r) ELSE "up-to-date"]
<1>1. fate \in [Repos -> Status]
  BY FateFits DEF Status
<1>2. Data' /\ Present' /\ worktree' = worktree /\ work' = work /\ faults' = faults
  BY DEF Ask, refs, Typed, Data, Present
<1>3. CASE Refused(fate)
  <2>1. Over("refused", {}, 0) /\ plan' = plan
    BY <1>3 DEF Ask
  <2>2. Control' /\ AtFits'
    BY <2>1, OverFits, FirstPlace DEF Typed, Result
  <2> QED
    BY <1>2, <2>1, <2>2 DEF Typed, Bounded
<1>4. CASE ~Refused(fate)
  <2>1. /\ at = "ask" /\ at' = "act" /\ turn' = 1 /\ wanted' = job /\ job' = job /\ pass' = pass /\ told' = told
        /\ plan' = [r \in Repos |-> PlanOf(fate, r)]
    BY <1>4 DEF Ask
  <2>2. plan' \in [Repos -> Status]
    BY <1>1, <2>1, PlanOfFits
  <2>3. Control'
    BY <2>1, FirstPlace DEF Typed, Control
  <2>4. AtFits'
    BY <2>1 DEF Typed, AtFits
  <2> QED
    BY <1>2, <2>2, <2>3, <2>4 DEF Typed, Bounded
<1> QED
  BY <1>3, <1>4

\* A checkout makes the target from origin's copy, and moves no commit that is here.
LEMMA CheckoutMoves ==
    ASSUME Typed, Checkout
    PROVE  /\ Place(turn) \in Scoped /\ Scoped \subseteq Repos /\ Data' /\ Present'
           /\ on' = [on EXCEPT ![Place(turn)] = "target"]
           /\ \A q \in Repos, b \in Branch : tip'[q][b] =
                 IF q = Place(turn) /\ b = "target" /\ tip[q][b] = None THEN seen[q][b] ELSE tip[q][b]
<1> DEFINE r == Place(turn)
           new == IF tip[r]["target"] = None THEN seen[r]["target"] ELSE tip[r]["target"]
<1>1. /\ r \in Repos /\ r \in Scoped /\ Scoped \subseteq Repos /\ "target" \in Branch
      /\ on' = [on EXCEPT ![r] = "target"] /\ seen' = seen /\ built' = built
  BY DEF Checkout, Scoped, Branch
<1>2. tip' = [tip EXCEPT ![r]["target"] = new]
  BY DEF Checkout
<1>3. /\ tip \in [Repos -> [Branch -> Held]] /\ seen \in [Repos -> [Branch -> Held]]
      /\ on \in [Repos -> Branch] /\ built \in Nat
  BY DEF Typed, Data
<1>4. new \in Held
  BY <1>1, <1>3
<1>5. tip'[r]["target"] = new
  BY <1>1, <1>2, <1>3
<1>6. \A q \in Repos, b \in Branch : q # r \/ b # "target" => tip'[q][b] = tip[q][b]
  <2> HIDE DEF new, r
  <2>1. tip' = [tip EXCEPT ![r] = [tip[r] EXCEPT !["target"] = new]]
    BY <1>2
  <2> QED
    BY <1>1, <2>1, <1>3, <1>4
<1>7. Data'
  <2> HIDE DEF new, r
  <2>1. tip' = [tip EXCEPT ![r] = [tip[r] EXCEPT !["target"] = new]]
    BY <1>2
  <2>2. [tip[r] EXCEPT !["target"] = new] \in [Branch -> Held]
    BY <1>1, <1>3, <1>4
  <2>3. tip' \in [Repos -> [Branch -> Held]]
    BY <1>1, <1>3, <2>1, <2>2
  <2> QED
    BY <1>1, <1>3, <2>3 DEF Data
<1>8. Present'
  <2> SUFFICES ASSUME NEW q \in Repos PROVE tip'[q][on'[q]].past # {} /\ seen[q]["target"].past # {}
    BY <1>1 DEF Present
  <2>1. seen[q]["target"].past # {} /\ tip[q][on[q]].past # {} /\ on[q] \in Branch
    BY <1>3 DEF Typed, Present
  <2>2. CASE q # r
    BY <1>1, <1>3, <1>6, <2>1, <2>2
  <2>3. CASE q = r
    <3>1. tip'[q][on'[q]] = new
      BY <1>1, <1>3, <1>5, <2>3
    <3>2. tip[r]["target"] # None => tip[r]["target"].past # {}
      <4>1. tip[r]["target"] \in Held
        BY <1>1, <1>3
      <4>2. on[r] = "target" => tip[r]["target"].past # {}
        BY <2>1, <2>3
      <4> QED
        BY <4>1, <4>2 DEF None, Held, Commit
    <3> QED
      BY <2>1, <2>3, <3>1, <3>2
  <2> QED
    BY <2>2, <2>3
<1> QED
  BY <1>1, <1>5, <1>6, <1>7, <1>8

LEMMA ScopeFits == Scoped \subseteq Repos /\ (job' = job => Scoped' = Scoped)
  BY DEF Scoped, InScope

LEMMA CheckoutTyped == ASSUME Typed, Checkout PROVE Typed'
<1> DEFINE r == Place(turn)
<1>1. Data' /\ Present' /\ r \in Scoped /\ r \in Repos /\ on' = [on EXCEPT ![r] = "target"]
  BY CheckoutMoves
<1>2. /\ job' = job /\ turn' = turn /\ plan' = plan /\ at' = "merge" /\ told' = told /\ pass' = pass
      /\ wanted' = wanted /\ worktree' = worktree /\ work' = work /\ faults' = faults
      /\ at = "act" /\ job.cmd = "into" /\ plan[r] \in Acts \cup {"already-merged"}
  BY DEF Checkout
<1>3. on'[r] = "target"
  BY <1>1 DEF Typed, Data
<1>4. Control' /\ Bounded'
  BY <1>2 DEF Typed, Control, Bounded
<1>5. Scoped' = Scoped /\ Place(turn)' = Place(turn)
  BY <1>2, ScopeFits DEF Place
<1>6. AtFits'
  BY <1>1, <1>2, <1>3, <1>5 DEF Typed, AtFits
<1> QED
  BY <1>1, <1>4, <1>6 DEF Typed

\* A visit that keeps the command's kind keeps the step's facts.
LEMMA OnwardTyped ==
    ASSUME Typed, NEW step \in {"act", "visit"}, Onward(step), at # "idle",
           IF step = "act" THEN job.cmd \in {"merge", "into"} ELSE job.cmd \notin {"merge", "into"},
           Data', Present', told' \in Told, told'.result = told.result,
           worktree' = worktree, plan' = plan, work' = work, faults' = faults
    PROVE  Typed'
<1>1. /\ turn' \in Repos /\ job' = job /\ pass' = pass /\ wanted' = wanted
      /\ at' \in {step, "record"}
  BY OnwardFits DEF Typed, Control
<1>2. Control' /\ Bounded'
  BY <1>1 DEF Typed, Control, Bounded
<1>3. AtFits'
  BY <1>1 DEF Typed, AtFits
<1> QED
  BY <1>2, <1>3 DEF Typed

LEMMA ActTyped == ASSUME Typed, Act PROVE Typed'
<1> DEFINE r == Place(turn)
<1>1. r \in Repos
  BY Places DEF Typed, Control
<1>2. /\ MergeOne(r, plan[r]) \/ UNCHANGED <<tip, built, told>>
      /\ on' = on /\ seen' = seen
  BY DEF Act
<1>3. Data' /\ Present' /\ told' \in Told /\ told'.result = told.result
  BY <1>1, <1>2, VisitFits
<1>4. at \in {"act", "merge"} /\ Onward("act") /\ worktree' = worktree /\ plan' = plan /\ work' = work /\ faults' = faults
  BY DEF Act
<1>5. job.cmd \in {"merge", "into"}
  BY <1>4 DEF Typed, AtFits
<1> QED
  BY <1>3, <1>4, <1>5, OnwardTyped

LEMMA VisitTyped == ASSUME Typed, Visit PROVE Typed'
<1> DEFINE r == Place(turn)
           how == IF r \in Scoped THEN MergeStatus(r) ELSE "up-to-date"
<1>1. r \in Repos
  BY Places DEF Typed, Control
<1>2. /\ MergeOne(r, how) \/ UNCHANGED <<tip, built, told>>
      /\ on' = on /\ seen' = seen
  BY DEF Visit
<1>3. Data' /\ Present' /\ told' \in Told /\ told'.result = told.result
  <2> HIDE DEF how
  <2> QED
    BY <1>1, <1>2, VisitFits
<1>4. at = "visit" /\ Onward("visit") /\ worktree' = worktree /\ plan' = plan /\ work' = work /\ faults' = faults
  BY DEF Visit
<1>5. job.cmd \notin {"merge", "into"}
  BY <1>4 DEF Typed, AtFits
<1> QED
  BY <1>3, <1>4, <1>5, OnwardTyped

\* A command that ends, whatever it did to the worktrees.
LEMMA OverTyped ==
    ASSUME Typed, NEW result \in Result, NEW merged \in SUBSET Repos, NEW stopped \in 0..NRepos,
           Over(result, merged, stopped), Data', Present',
           worktree' \in [Repos -> {"clean", "conflict"}], plan' = plan, work' = work, faults' \in 0..MaxFaults
    PROVE  Typed'
<1>1. Control' /\ AtFits'
  BY OverFits DEF Typed
<1> QED
  BY <1>1 DEF Typed, Bounded

LEMMA Reports == ASSUME Typed PROVE told.merged \in SUBSET Repos /\ told.stopped \in 0..NRepos
  BY DEF Typed, Control, Told

LEMMA SameCommits ==
    ASSUME Typed, UNCHANGED <<tip, seen, on, built>>
    PROVE  Data' /\ Present'
  BY DEF Typed, Data, Present

LEMMA ActFailsTyped == ASSUME Typed, ActFails PROVE Typed'
<1>1. worktree' \in [Repos -> {"clean", "conflict"}]
  BY DEF ActFails, MergeFails, Marked, Typed, Bounded
<1>2. Over("failed", told.merged, 0) /\ UNCHANGED <<tip, seen, on, built, plan, work, faults>>
  BY DEF ActFails
<1>3. faults' \in 0..MaxFaults /\ "failed" \in Result
  BY <1>2 DEF Typed, Bounded, Result
<1> QED
  BY <1>1, <1>2, <1>3, Reports, SameCommits, OverTyped, FirstPlace

LEMMA EndTyped ==
    ASSUME Typed, NEW result \in Result, NEW stopped \in 0..NRepos, Over(result, told.merged, stopped),
           UNCHANGED <<refs, plan, work, built>>, faults' \in 0..MaxFaults
    PROVE  Typed'
<1>1. worktree' \in [Repos -> {"clean", "conflict"}] /\ UNCHANGED <<tip, seen, on, built, plan, work>>
  BY DEF refs, Typed, Bounded
<1> QED
  BY <1>1, Reports, SameCommits, OverTyped

LEMMA EndingsTyped == ASSUME Typed, Record \/ VisitFails \/ ToolLeaves \/ ToolFindsNothing \/ Fault PROVE Typed'
<1>1. {"done", "failed", "stopped"} \subseteq Result /\ faults \in 0..MaxFaults
  BY DEF Result, Typed, Bounded
<1>2. CASE Record
  BY <1>1, <1>2, EndTyped, FirstPlace DEF Record
<1>3. CASE VisitFails
  BY <1>1, <1>3, EndTyped, FirstPlace DEF VisitFails
<1>4. CASE ToolLeaves
  BY <1>1, <1>4, EndTyped, Reports DEF ToolLeaves
<1>6. CASE ToolFindsNothing
  BY <1>1, <1>6, EndTyped, FirstPlace DEF ToolFindsNothing
<1>5. CASE Fault
  <2>1. faults' \in 0..MaxFaults
    BY <1>1, <1>5 DEF Fault
  <2> QED
    BY <1>1, <1>5, <2>1, EndTyped, FirstPlace DEF Fault
<1> QED
  BY <1>2, <1>3, <1>4, <1>5, <1>6

LEMMA HaltTyped == ASSUME Typed, Halt PROVE Typed'
<1> DEFINE r == Place(turn)
           how == MergeStatus(r)
<1>1. r \in Repos /\ r \in Scoped /\ at = "visit" /\ how \in {"conflicts", "unrelated"}
  BY Places DEF Typed, Control, Halt
<1>2. /\ worktree' = IF how = "conflicts" THEN Marked(r) ELSE worktree
      /\ UNCHANGED <<tip, seen, on, plan, work, built, faults>>
      /\ \/ /\ how = "conflicts" /\ at' = "tool" /\ told' = [told EXCEPT !.stopped = r]
            /\ UNCHANGED <<turn, job, pass, wanted>>
         \/ Over("stopped", told.merged, r)
  BY DEF Halt
<1>3. worktree' \in [Repos -> {"clean", "conflict"}] /\ Data' /\ Present' /\ faults' \in 0..MaxFaults
  BY <1>2, SameCommits DEF Typed, Bounded, Marked
<1>4. r \in 0..NRepos /\ "stopped" \in Result
  BY <1>1 DEF Repos, Result
<1>5. CASE Over("stopped", told.merged, r)
  BY <1>2, <1>3, <1>4, <1>5, Reports, OverTyped
<1>6. CASE /\ how = "conflicts" /\ at' = "tool" /\ told' = [told EXCEPT !.stopped = r]
           /\ UNCHANGED <<turn, job, pass, wanted>>
  <2>1. on[r] = "target" /\ r # Memory
    <3>1. on[r] \in Branch
      BY <1>1 DEF Typed, Data
    <3> QED
      BY <1>6, <3>1 DEF MergeStatus, MemoryFate, Branch
  <2>2. told' \in Told /\ told'.stopped = r /\ told'.result = told.result
    BY <1>4, <1>6 DEF Typed, Control, Told
  <2>3. Control' /\ Bounded'
    BY <1>2, <1>3, <1>6, <2>2 DEF Typed, Control, Bounded
  <2>4. Scoped' = Scoped /\ Place(turn)' = Place(turn) /\ job' = job
    BY <1>6, ScopeFits DEF Place
  <2>5. (job.mode # "ff-only" => worktree'[r] = "conflict") /\ on'[r] = "target"
    BY <1>1, <1>2, <1>6, <2>1 DEF Typed, Bounded, Marked
  <2>6. job.cmd \notin {"merge", "into"} /\ told.result = "nothing"
    BY <1>1 DEF Typed, AtFits
  <2>7. AtFits'
    BY <1>1, <1>6, <2>1, <2>2, <2>4, <2>5, <2>6 DEF AtFits
  <2> QED
    BY <1>3, <2>3, <2>7 DEF Typed
<1> QED
  BY <1>2, <1>5, <1>6

\* What the merge tool, and the user who settles a conflict, put in the branch.
LEMMA ToolPuts ==
    ASSUME Data, NEW r \in Repos, built' = built + 1, on' = on, seen' = seen,
           tip' = [tip EXCEPT ![r][on[r]] = Joined(@, Ref(r, "source"))]
    PROVE  /\ Puts(r, Joined(tip[r][on[r]], Ref(r, "source")))
           /\ Ref(r, "source").past \subseteq Joined(tip[r][on[r]], Ref(r, "source")).past
<1> DEFINE t == tip[r][on[r]]
           new == Joined(t, Ref(r, "source"))
<1>1. on[r] \in Branch /\ "source" \in Branch /\ built \in Nat
  BY DEF Data, Branch
<1>2. t \in Held /\ Ref(r, "source") \in Held
  BY <1>1, Copies
<1>3. new \in Held /\ t.past \subseteq new.past /\ Ref(r, "source").past \subseteq new.past
  BY <1>1, <1>2, JoinedFits
<1>4. tip' = [tip EXCEPT ![r][on[r]] = new]
  BY <1>1 DEF Data
<1> QED
  BY <1>1, <1>3, <1>4 DEF Puts

LEMMA ToolTyped == ASSUME Typed, Tool PROVE Typed'
<1> DEFINE r == told.stopped
<1>1. at = "tool" /\ r = Place(turn) /\ r \in Repos
  BY ScopeFits DEF Tool, Typed, AtFits
<1>2. built' = built + 1 /\ on' = on /\ seen' = seen /\ plan' = plan /\ work' = work /\ faults' = faults
  BY DEF Tool
<1>3. Data' /\ Present'
  <2>1. Puts(r, Joined(tip[r][on[r]], Ref(r, "source")))
    BY <1>1, <1>2, ToolPuts DEF Typed, Tool
  <2> QED
    BY <1>1, <2>1, PutsFits DEF Typed
<1>4. worktree' \in [Repos -> {"clean", "conflict"}] /\ faults' \in 0..MaxFaults
  BY <1>1, <1>2 DEF Tool, Typed, Bounded
<1>5. CASE Over("stopped", told.merged \cup {r}, r)
  <2>1. told.merged \cup {r} \in SUBSET Repos /\ r \in 0..NRepos /\ "stopped" \in Result
    BY <1>1, Reports DEF Result
  <2> QED
    BY <1>2, <1>3, <1>4, <1>5, <2>1, OverTyped
<1>6. CASE /\ pass + 1 < MaxPasses /\ at' = "visit" /\ turn' = 1 /\ pass' = pass + 1
           /\ told' = [told EXCEPT !.merged = @ \cup {r}, !.stopped = 0]
           /\ UNCHANGED <<job, wanted>>
  <2>1. told' \in Told /\ told'.result = told.result
    BY <1>1, <1>6, FirstPlace DEF Typed, Control, Told
  <2>2. pass' \in 0..NRepos
    BY <1>6 DEF Typed, Control, MaxPasses
  <2>3. Control' /\ Bounded'
    BY <1>2, <1>4, <1>6, <2>1, <2>2, FirstPlace DEF Typed, Control, Bounded
  <2>4. AtFits'
    BY <1>1, <1>6, <2>1 DEF Typed, AtFits
  <2> QED
    BY <1>3, <2>3, <2>4 DEF Typed
<1> QED
  BY <1>5, <1>6 DEF Tool

\* What the user does leaves the command where it is; a conflict is not touched.
LEMMA BesideTyped ==
    ASSUME Typed, Data', Present', UNCHANGED <<on, job, at, turn, plan, pass, told, wanted, faults>>,
           worktree' \in [Repos -> {"clean", "conflict"}], work' \in 0..MaxWork,
           at = "tool" => worktree' = worktree
    PROVE  Typed'
<1>1. Control' /\ Bounded'
  BY DEF Typed, Control, Bounded
<1>2. Scoped' = Scoped /\ Place(turn)' = Place(turn)
  BY ScopeFits DEF Place
<1>3. AtFits'
  BY <1>2 DEF Typed, AtFits
<1> QED
  BY <1>1, <1>3 DEF Typed

LEMMA WorkPuts ==
    ASSUME Typed, NEW r \in Repos, Work(r)
    PROVE  /\ Puts(r, [past |-> tip[r][on[r]].past \cup {WorkNo(work)},
                       files |-> tip[r][on[r]].files \cup {WorkNo(work)}])
           /\ WorkNo(work) \in Nat
<1> DEFINE t == tip[r][on[r]]
           n == WorkNo(work)
           new == [past |-> t.past \cup {n}, files |-> t.files \cup {n}]
<1>1. on[r] \in Branch /\ t \in Held
  BY Copies DEF Typed, Data
<1>2. n \in Nat
  BY DEF WorkNo, Typed, Bounded
<1>3. new \in Held /\ t.past \subseteq new.past
  BY <1>1, <1>2 DEF Held, Commit
<1>4. tip' = [tip EXCEPT ![r][on[r]] = new]
  BY <1>1 DEF Work, Typed, Data
<1> QED
  BY <1>2, <1>3, <1>4 DEF Puts, Work, Typed, Data

LEMMA WorkTyped == ASSUME Typed, NEW r \in Repos, Work(r) PROVE Typed'
<1>1. Data' /\ Present'
  BY WorkPuts, PutsFits DEF Typed
<1>2. /\ UNCHANGED <<on, job, at, turn, plan, pass, told, wanted, faults, worktree>>
      /\ work < MaxWork /\ work' = work + 1
  BY DEF Work
<1>3. work' \in 0..MaxWork /\ worktree' \in [Repos -> {"clean", "conflict"}]
  BY <1>2 DEF Typed, Bounded
<1> QED
  BY <1>1, <1>2, <1>3, BesideTyped

LEMMA SettleTyped == ASSUME Typed, NEW r \in Repos, NEW finish, Settle(r, finish) PROVE Typed'
<1>1. /\ UNCHANGED <<on, seen, job, at, turn, plan, pass, told, wanted, work, faults>> /\ at = "idle"
      /\ worktree' = [worktree EXCEPT ![r] = "clean"]
  BY DEF Settle
<1>2. Data' /\ Present'
  <2>1. CASE UNCHANGED <<tip, built>>
    BY <1>1, <2>1, SameCommits
  <2>2. CASE built' = built + 1 /\ tip' = [tip EXCEPT ![r][on[r]] = Joined(@, Ref(r, "source"))]
    BY <1>1, <2>2, ToolPuts, PutsFits DEF Typed
  <2> QED
    BY <2>1, <2>2 DEF Settle
<1>3. worktree' \in [Repos -> {"clean", "conflict"}] /\ work' \in 0..MaxWork
  BY <1>1 DEF Typed, Bounded
<1> QED
  BY <1>1, <1>2, <1>3, BesideTyped

LEMMA InitTyped == Init => Typed
<1> SUFFICES ASSUME Init PROVE Typed
  OBVIOUS
<1>1. PICK how \in [Repos -> Sources], where \in [Repos -> Targets], far \in SUBSET Repos, start \in Branch :
        Stands(how, where, far, start)
  BY DEF Init
<1>9. /\ tip = [r \in Repos |-> [b \in Branch |->
              IF b = "source" THEN IF r \in far THEN None ELSE SourceStart(how[r])
              ELSE IF where[r] = "origin-only" THEN None ELSE C({0, 1})]]
      /\ seen = [r \in Repos |-> [b \in Branch |->
              IF b = "source" THEN IF r \in far THEN SourceStart(how[r]) ELSE None
              ELSE IF where[r] = "behind" THEN C({0, 1, 5}) ELSE C({0, 1})]]
      /\ on = [r \in Repos |-> IF start = "source" /\ how[r] # "absent" THEN "source" ELSE "target"]
      /\ \A r \in Repos : tip[r][on[r]] # None
  BY <1>1 DEF Stands
<1>2. None \in Held /\ \A ns \in SUBSET Nat : C(ns) \in Held
  BY DEF None, C, Held, Commit
<1>3. \A r \in Repos : SourceStart(how[r]) \in Held
  <2>1. \A r \in Repos : how[r] \in {"absent", "merged", "ahead", "forked", "unrelated"}
    OBVIOUS
  <2>2. C({0}) \in Held /\ C({0, 1, 2}) \in Held /\ C({0, 2}) \in Held /\ C({8}) \in Held
    BY <1>2
  <2> QED
    BY <1>2, <2>1, <2>2 DEF SourceStart
<1>4. C({0, 1}) \in Held /\ C({0, 1, 5}) \in Held
  BY <1>2
<1>5. Data
  <2>1. tip \in [Repos -> [Branch -> Held]]
    BY <1>9, <1>2, <1>3, <1>4
  <2>2. seen \in [Repos -> [Branch -> Held]]
    BY <1>9, <1>2, <1>3, <1>4
  <2>3. on \in [Repos -> Branch]
    BY <1>9 DEF Branch
  <2> QED
    BY <2>1, <2>2, <2>3 DEF Init, Data
<1>6. Present
  <2> SUFFICES ASSUME NEW r \in Repos PROVE tip[r][on[r]].past # {} /\ seen[r]["target"].past # {}
    BY DEF Present
  <2>1. tip[r][on[r]] \in Held /\ tip[r][on[r]] # None
    BY <1>9, <1>5, Copies DEF Data
  <2>2. seen[r]["target"] = C({0, 1, 5}) \/ seen[r]["target"] = C({0, 1})
    BY <1>9 DEF Branch
  <2>3. tip[r][on[r]].past # {}
    BY <2>1 DEF Held, Commit, None
  <2>4. 0 \in C({0, 1, 5}).past /\ 0 \in C({0, 1}).past
    BY DEF C
  <2> QED
    BY <2>2, <2>3, <2>4
<1>7. Control /\ Bounded
  BY FirstPlace DEF Init, NoJob, Nothing, Job, Scopes, Result, Told, Status, Control, Bounded
<1>8. AtFits
  BY DEF Init, AtFits
<1> QED
  BY <1>5, <1>6, <1>7, <1>8 DEF Typed

LEMMA TypedSteps == ASSUME Typed, [Next]_vars PROVE Typed'
<1>1. CASE Step
  BY <1>1, AskTyped, CheckoutTyped, ActTyped, ActFailsTyped, EndingsTyped, VisitTyped, HaltTyped, ToolTyped DEF Step
<1>2. CASE Fault
  BY <1>2, EndingsTyped
<1>3. CASE \E cmd \in Commands, scope \in Scopes, mode \in Modes : Start(cmd, scope, mode)
  BY <1>3, StartTyped
<1>4. CASE \E r \in Repos : Work(r) \/ Settle(r, TRUE) \/ Settle(r, FALSE)
  BY <1>4, WorkTyped, SettleTyped
<1>5. CASE UNCHANGED vars
  <2>1. Data' /\ Present'
    BY <1>5, SameCommits DEF vars, refs
  <2>2. work' \in 0..MaxWork /\ worktree' \in [Repos -> {"clean", "conflict"}] /\ worktree' = worktree
    BY <1>5 DEF vars, refs, Typed, Bounded
  <2>3. UNCHANGED <<on, job, at, turn, plan, pass, told, wanted, faults>>
    BY <1>5 DEF vars, refs
  <2> QED
    BY <2>1, <2>2, <2>3, BesideTyped
<1> QED
  BY <1>1, <1>2, <1>3, <1>4, <1>5 DEF Next

\* The commands keep every variable in its type (TypeOK of MergeTree): no repository
\* is left without a commit, no command is at a step that is not its own, and
\* `--resolve --all-conflicts` makes no more passes than it may.
THEOREM MergeTypeCorrect == Spec => []TypeOK
<1>1. Typed /\ [Next]_vars => Typed'
  BY TypedSteps
<1> QED
  BY <1>1, InitTyped, TypedIsTypeOK, PTL DEF Spec

-----------------------------------------------------------------------------
(* What no step but a checkout disturbs *)

\* A repository stays on its branch, which only gains commits; its other branch and
\* what is known of origin stay.
Keeps(q) ==
    /\ on'[q] = on[q] /\ seen'[q] = seen[q]
    /\ tip[q][on[q]].past \subseteq tip'[q][on[q]].past
    /\ \A b \in Branch : b # on[q] => tip'[q][b] = tip[q][b]

LEMMA PutsKeeps ==
    ASSUME Data, NEW r \in Repos, NEW new, Puts(r, new)
    PROVE  \A q \in Repos : Keeps(q)
<1> SUFFICES ASSUME NEW q \in Repos PROVE Keeps(q)
  OBVIOUS
<1>1. /\ tip'[r][on[r]] = new /\ tip[r][on[r]].past \subseteq new.past
      /\ \A b \in Branch : q # r \/ b # on[r] => tip'[q][b] = tip[q][b]
      /\ on' = on /\ seen' = seen /\ on[q] \in Branch
  BY PutsFits DEF Puts, Data
<1>2. tip[q][on[q]].past \subseteq tip'[q][on[q]].past
  BY <1>1
<1> QED
  BY <1>1, <1>2 DEF Keeps

LEMMA SameKeeps == ASSUME UNCHANGED <<tip, seen, on>> PROVE \A q \in Repos : Keeps(q)
  BY DEF Keeps

LEMMA MergeOneKeeps ==
    ASSUME Typed, NEW r \in Repos, NEW how,
           MergeOne(r, how) \/ UNCHANGED <<tip, built, told>>, on' = on, seen' = seen
    PROVE  \A q \in Repos : Keeps(q)
<1>1. CASE MergeOne(r, how)
  <2>1. PICK new \in Held : Leaves(r, how, new)
    BY <1>1, MergeOneDoes DEF Typed
  <2>2. Puts(r, new)
    BY <2>1 DEF Leaves, Puts
  <2> QED
    BY <2>2, PutsKeeps DEF Typed
<1>2. CASE UNCHANGED <<tip, built, told>>
  BY <1>2, SameKeeps
<1> QED
  BY <1>1, <1>2

LEMMA StepKeeps ==
    ASSUME Typed, [Next]_vars
    PROVE  Checkout \/ \A q \in Repos : Keeps(q)
<1>0. Place(turn) \in Repos
  BY Places DEF Typed, Control
<1>1. CASE Ask \/ ActFails \/ Record \/ Halt \/ VisitFails \/ ToolLeaves \/ ToolFindsNothing \/ Fault
  BY <1>1, SameKeeps DEF Ask, ActFails, Record, Halt, VisitFails, ToolLeaves, ToolFindsNothing, Fault, refs
<1>2. CASE Act
  BY <1>0, <1>2, MergeOneKeeps DEF Act
<1>3. CASE Visit
  <2> DEFINE how == IF Place(turn) \in Scoped THEN MergeStatus(Place(turn)) ELSE "up-to-date"
  <2>1. /\ MergeOne(Place(turn), how) \/ UNCHANGED <<tip, built, told>>
        /\ on' = on /\ seen' = seen
    BY <1>3 DEF Visit
  <2> HIDE DEF how
  <2> QED
    BY <1>0, <2>1, MergeOneKeeps
<1>4. CASE Tool
  <2>1. told.stopped \in Repos
    BY <1>0, <1>4 DEF Tool, Typed, AtFits
  <2> QED
    BY <1>4, <2>1, ToolPuts, PutsKeeps DEF Tool, Typed
<1>5. CASE \E cmd \in Commands, scope \in Scopes, mode \in Modes : Start(cmd, scope, mode)
  BY <1>5, SameKeeps DEF Start, refs
<1>6. ASSUME NEW r \in Repos, Work(r) PROVE \A q \in Repos : Keeps(q)
  BY <1>6, WorkPuts, PutsKeeps DEF Typed
<1>7. ASSUME NEW r \in Repos, NEW finish, Settle(r, finish) PROVE \A q \in Repos : Keeps(q)
  <2>1. on' = on /\ seen' = seen
    BY <1>7 DEF Settle
  <2>2. CASE UNCHANGED <<tip, built>>
    BY <2>1, <2>2, SameKeeps
  <2>3. CASE built' = built + 1 /\ tip' = [tip EXCEPT ![r][on[r]] = Joined(@, Ref(r, "source"))]
    BY <2>1, <2>3, ToolPuts, PutsKeeps DEF Typed
  <2> QED
    BY <1>7, <2>2, <2>3 DEF Settle
<1>8. CASE UNCHANGED vars
  BY <1>8, SameKeeps DEF vars, refs
<1> QED
  BY <1>1, <1>2, <1>3, <1>4, <1>5, <1>6, <1>7, <1>8 DEF Next, Step

\* A repository that has its source keeps it.
LEMMA HasStable ==
    ASSUME Data, NEW q \in Repos, Has(q), Keeps(q)
    PROVE  Has(q)'
<1>1. on[q] \in Branch /\ "source" \in Branch
  BY DEF Data, Branch
<1>2. CASE on[q] = "source"
  BY <1>2 DEF Has, Keeps
<1>3. CASE on[q] # "source"
  <2>1. Ref(q, "source")' = Ref(q, "source")
    BY <1>1, <1>3 DEF Ref, Keeps
  <2>2. Ref(q, "source").past \subseteq tip[q][on[q]].past
    BY <1>3 DEF Has, Contains
  <2>3. tip[q][on[q]].past \subseteq tip'[q][on'[q]].past
    BY DEF Keeps
  <2> QED
    BY <2>1, <2>2, <2>3 DEF Has, Contains
<1> QED
  BY <1>2, <1>3

\* A repository has its source once it was merged, unless it is the memory and its
\* target has it by origin's copy alone.
LEMMA MergedHas ==
    ASSUME Typed, NEW r \in Repos, on[r] = "target", NEW how, MergeOne(r, how), on' = on, seen' = seen
    PROVE  /\ how # "kept" => Has(r)'
           /\ told' # told => Has(r)'
<1>1. PICK new \in Held : Leaves(r, how, new)
  BY MergeOneDoes DEF Typed
<1>2. Puts(r, new)
  BY <1>1 DEF Leaves, Puts
<1>3. tip'[r]["target"] = new /\ tip'[r]["source"] = tip[r]["source"]
  BY <1>2, PutsFits DEF Typed, Branch
<1>4. Ref(r, "source")' = Ref(r, "source")
  BY <1>3 DEF Ref
<1>5. how # "kept" \/ told' # told => Ref(r, "source").past \subseteq new.past
  BY <1>1 DEF Leaves
<1> QED
  BY <1>3, <1>4, <1>5 DEF Has, Contains

-----------------------------------------------------------------------------
(* The project comes first *)

\* The walk is past a repository.
Passed(r) == at = "record" \/ PlaceOf(r) < turn

\* What `merge` plans for a repository is a merge of its target, or it needs none.
PlanSays ==
    at = "act" /\ job.cmd = "merge" => \A r \in Scoped :
        /\ plan[r] \in Acts => on[r] = "target"
        /\ r # Memory => plan[r] = "merge" \/ Has(r)

PassedHas ==
    at \in {"act", "visit", "tool", "record"} /\ job.cmd # "into" =>
        \A r \in Scoped \ {Memory} : Passed(r) => Has(r)

DInv == Typed /\ PlanSays /\ PassedHas /\ ProjectIsDoneFirst

LEMMA MergeStatusSays ==
    ASSUME Typed, NEW r \in Repos
    PROVE  /\ MergeStatus(r) \in {"merge", "kept", "conflicts", "unrelated", "diverged"} => on[r] = "target"
           /\ MergeStatus(r) \in {"already-on-it", "no-branch"} => Has(r)
           /\ r # Memory => MergeStatus(r) \in {"already-on-it", "no-branch", "merge", "conflicts", "unrelated"}
           /\ r = Memory => MergeStatus(r) \in {"already-on-it", "no-branch", "up-to-date", "kept", "diverged"}
<1>1. on[r] \in Branch
  BY DEF Typed, Data
<1>2. MergeStatus(r) = "already-on-it" => on[r] = "source"
  BY DEF MergeStatus, MemoryFate
<1>3. MergeStatus(r) = "no-branch" => ~Known(r, "source")
  BY DEF MergeStatus, MemoryFate
<1>4. ~Known(r, "source") => Has(r)
  BY DEF Known, Has, Contains, None
<1>5. MergeStatus(r) # "already-on-it" => on[r] # "source"
  BY DEF MergeStatus
<1>6. /\ r # Memory => MergeStatus(r) \in {"already-on-it", "no-branch", "merge", "conflicts", "unrelated"}
      /\ r = Memory => MergeStatus(r) \in {"already-on-it", "no-branch", "up-to-date", "kept", "diverged"}
  BY DEF MergeStatus, MemoryFate
<1> QED
  BY <1>1, <1>2, <1>3, <1>4, <1>5, <1>6 DEF Has, Branch

\* One step of the walk of a command that is not `--into`.
LEMMA WalkDone ==
    ASSUME DInv, at \in {"act", "visit"}, NEW step, Onward(step),
           \A q \in Repos : Keeps(q),
           NEW r \in Repos, r = Place(turn), r \in Scoped \ {Memory} => Has(r)',
           told'.merged \subseteq told.merged \cup (Scoped \cap {r}),
           job.cmd # "into", plan' = plan, step = at
    PROVE  (PlanSays /\ PassedHas /\ ProjectIsDoneFirst)'
<1>1. turn \in Repos /\ r \in Repos /\ PlaceOf(r) = turn /\ Scoped \subseteq Repos
  BY Places, ScopeFits DEF DInv, Typed, Control
<1>2. job' = job /\ Scoped' = Scoped /\ turn' \in Repos
      /\ \/ at' = step /\ turn < NRepos /\ turn' = turn + 1
         \/ at' = "record" /\ turn = NRepos /\ turn' = turn
  BY <1>1, OnwardFits, ScopeFits
<1>3. \A q \in Repos : Has(q) => Has(q)'
  BY HasStable DEF DInv, Typed
<1>4. \A q \in Scoped \ {Memory} : PlaceOf(q) < turn => Has(q)
  BY DEF DInv, PassedHas, Passed
<1>5. ASSUME NEW q \in Scoped \ {Memory}, Passed(q)' PROVE Has(q)'
  <2>1. q \in Repos /\ PlaceOf(q) \in Repos /\ Place(PlaceOf(q)) = q
    BY <1>1, Places
  <2>2. PlaceOf(q)' = PlaceOf(q)
    BY DEF PlaceOf
  <2>3. PlaceOf(q) <= turn
    BY <1>1, <1>2, <1>5, <2>1, <2>2 DEF Passed, Repos
  <2>4. CASE PlaceOf(q) = turn
    BY <1>5, <2>1, <2>4
  <2>5. CASE PlaceOf(q) # turn
    <3>1. PlaceOf(q) < turn
      BY <1>1, <2>1, <2>3, <2>5 DEF Repos
    <3> QED
      BY <1>3, <1>4, <2>1, <3>1
  <2> QED
    BY <2>4, <2>5
<1>6. PassedHas'
  BY <1>2, <1>5 DEF PassedHas
<1>7. PlanSays'
  <2> SUFFICES ASSUME at' = "act", job.cmd = "merge", NEW q \in Scoped
               PROVE  /\ plan[q] \in Acts => on'[q] = "target"
                      /\ q # Memory => plan[q] = "merge" \/ Has(q)'
    BY <1>2 DEF PlanSays, Acts
  <2>1. at = "act"
    BY <1>2
  <2>2. on'[q] = on[q]
    BY <1>1 DEF Keeps
  <2> QED
    BY <1>1, <1>3, <2>1, <2>2 DEF DInv, PlanSays
<1>8. ProjectIsDoneFirst'
  <2> SUFFICES ASSUME told'.merged \cap Private # {}, NEW q \in Scoped \ Private PROVE Has(q)'
    BY <1>2 DEF ProjectIsDoneFirst
  <2>1. q \in Repos
    BY <1>1
  <2>2. CASE told.merged \cap Private # {}
    BY <1>3, <2>1, <2>2 DEF DInv, ProjectIsDoneFirst
  <2>3. CASE told.merged \cap Private = {}
    <3>1. r \in Private
      BY <2>3
    <3>2. PlaceOf(q) < turn /\ q # Memory
      BY <1>1, <2>1, <3>1, Places DEF Repos
    <3> QED
      BY <1>3, <1>4, <2>1, <3>2
  <2> QED
    BY <2>2, <2>3
<1> QED
  BY <1>6, <1>7, <1>8

Firsts == PlanSays /\ PassedHas /\ ProjectIsDoneFirst

LEMMA IdleDone == ASSUME at' = "idle" PROVE Firsts'
  BY DEF Firsts, PlanSays, PassedHas, ProjectIsDoneFirst

LEMMA StartDone ==
    ASSUME Typed, NEW cmd \in Commands, NEW scope \in Scopes, NEW mode \in Modes, Start(cmd, scope, mode)
    PROVE  Firsts'
<1>1. /\ at' \in {"ask", "visit"} /\ turn' = 1 /\ told'.merged = {}
  BY DEF Start, Nothing
<1>2. \A r \in Scoped' : r \in Repos /\ ~Passed(r)'
  <2> SUFFICES ASSUME NEW r \in Scoped' PROVE r \in Repos /\ ~Passed(r)'
    OBVIOUS
  <2>1. r \in Repos
    BY DEF Scoped
  <2>2. PlaceOf(r)' = PlaceOf(r) /\ PlaceOf(r) \in Repos
    BY <2>1, Places DEF PlaceOf
  <2> QED
    BY <1>1, <2>1, <2>2 DEF Passed, Repos
<1> QED
  BY <1>1, <1>2 DEF Firsts, PlanSays, PassedHas, ProjectIsDoneFirst

LEMMA AskDone == ASSUME DInv, Ask PROVE Firsts'
<1> DEFINE fate == [r \in Repos |-> IF r \in Scoped THEN Fate(r) ELSE "up-to-date"]
<1>1. CASE Refused(fate)
  <2>1. at' = "idle"
    BY <1>1 DEF Ask, Over
  <2> QED
    BY <2>1, IdleDone
<1>2. CASE ~Refused(fate)
  <2>1. /\ at' = "act" /\ turn' = 1 /\ told' = told /\ job' = job /\ on' = on /\ tip' = tip /\ seen' = seen
        /\ plan' = [r \in Repos |-> PlanOf(fate, r)] /\ told.merged = {}
    BY <1>2 DEF Ask, refs, DInv, Typed, AtFits
  <2>2. Scoped' = Scoped /\ Scoped \subseteq Repos
    BY <2>1, ScopeFits
  <2>3. PlanSays'
    <3> SUFFICES ASSUME job.cmd = "merge", NEW r \in Scoped
                 PROVE  /\ plan'[r] \in Acts => on[r] = "target"
                        /\ r # Memory => plan'[r] = "merge" \/ Has(r)'
      BY <2>1, <2>2 DEF PlanSays, Acts
    <3>1. r \in Repos /\ fate \in [Repos -> Status]
      BY <2>2, FateFits DEF Status
    <3>2. plan'[r] = fate[r] /\ fate[r] = MergeStatus(r)
      BY <2>1, <3>1, PlanOfFits DEF Fate
    <3>3. fate[r] \notin Stays
      BY <1>2 DEF Refused
    <3>4. Has(r)' = Has(r)
      BY <2>1 DEF Has, Ref, Contains
    <3> QED
      BY <3>1, <3>2, <3>3, <3>4, MergeStatusSays DEF Stays, Acts, DInv
  <2>4. PassedHas'
    <3> SUFFICES ASSUME NEW r \in Scoped, Passed(r)' PROVE FALSE
      BY <2>2 DEF PassedHas
    <3>1. PlaceOf(r)' = PlaceOf(r) /\ PlaceOf(r) \in Repos
      BY <2>2, Places DEF PlaceOf
    <3> QED
      BY <2>1, <3>1 DEF Passed, Repos
  <2> QED
    BY <2>1, <2>3, <2>4 DEF Firsts, ProjectIsDoneFirst
<1> QED
  BY <1>1, <1>2

\* A merge reports the repository it merged and no other.
LEMMA ReportsItself ==
    ASSUME Typed, NEW r \in Repos, NEW how, MergeOne(r, how)
    PROVE  told'.merged \subseteq told.merged \cup {r} /\ (told' # told => told' = [told EXCEPT !.merged = @ \cup {r}])
<1>1. PICK new \in Held : Leaves(r, how, new)
  BY MergeOneDoes DEF Typed
<1> QED
  BY <1>1 DEF Leaves, Typed, Control, Told

LEMMA ActDone == ASSUME DInv, Act, \A q \in Repos : Keeps(q) PROVE Firsts'
<1>0. PICK r \in Repos : r = Place(turn)
  BY Places DEF DInv, Typed, Control
<1>1. /\ on' = on /\ seen' = seen /\ plan' = plan /\ Onward("act") /\ at \in {"act", "merge"}
      /\ IF r \in Scoped /\ plan[r] \in Acts THEN MergeOne(r, plan[r]) ELSE UNCHANGED <<tip, built, told>>
  BY <1>0 DEF Act
<1>2. job' = job
  BY <1>1, OnwardFits DEF DInv, Typed, Control
<1>3. CASE job.cmd = "into"
  BY <1>2, <1>3, <1>1, ScopeFits DEF Firsts, PlanSays, PassedHas, ProjectIsDoneFirst
<1>4. CASE job.cmd # "into"
  <2>1. at = "act" /\ job.cmd = "merge"
    BY <1>1, <1>4 DEF DInv, Typed, AtFits
  <2>2. r \in Scoped \ {Memory} => Has(r)'
    <3> SUFFICES ASSUME r \in Scoped \ {Memory} PROVE Has(r)'
      OBVIOUS
    <3>1. /\ plan[r] \in Acts => on[r] = "target"
          /\ plan[r] = "merge" \/ Has(r)
      BY <2>1 DEF DInv, PlanSays
    <3>2. CASE Has(r)
      BY <3>2, HasStable DEF DInv, Typed
    <3>3. CASE plan[r] = "merge"
      BY <1>1, <3>1, <3>3, MergedHas DEF DInv, Acts
    <3> QED
      BY <3>1, <3>2, <3>3
  <2>3. told'.merged \subseteq told.merged \cup (Scoped \cap {r})
    BY <1>1, ReportsItself DEF DInv
  <2> QED
    BY <1>0, <1>1, <2>1, <2>2, <2>3, WalkDone DEF Firsts
<1> QED
  BY <1>3, <1>4

LEMMA VisitDone == ASSUME DInv, Visit, \A q \in Repos : Keeps(q) PROVE Firsts'
<1>0. PICK r \in Repos : r = Place(turn)
  BY Places DEF DInv, Typed, Control
<1> DEFINE how == IF r \in Scoped THEN MergeStatus(r) ELSE "up-to-date"
<1>1. /\ on' = on /\ seen' = seen /\ plan' = plan /\ Onward("visit") /\ at = "visit"
      /\ IF how \in {"merge", "kept"} THEN MergeOne(r, how) ELSE UNCHANGED <<tip, built, told>>
      /\ how \notin {"conflicts", "unrelated", "diverged"}
  BY <1>0 DEF Visit
<1>2. job.cmd \notin {"merge", "into"}
  BY <1>1 DEF DInv, Typed, AtFits
<1>3. r \in Scoped \ {Memory} => Has(r)'
  <2> SUFFICES ASSUME r \in Scoped \ {Memory} PROVE Has(r)'
    OBVIOUS
  <2>1. how = MergeStatus(r)
    OBVIOUS
  <2> HIDE DEF how
  <2>2. (how = "merge" /\ on[r] = "target") \/ Has(r)
    BY <1>1, <2>1, MergeStatusSays DEF DInv
  <2>3. CASE Has(r)
    BY <2>3, HasStable DEF DInv, Typed
  <2>4. CASE how = "merge" /\ on[r] = "target"
    BY <1>1, <2>4, MergedHas DEF DInv
  <2> QED
    BY <2>2, <2>3, <2>4
<1>4. told'.merged \subseteq told.merged \cup (Scoped \cap {r})
  <2>1. r \notin Scoped => UNCHANGED <<tip, built, told>>
    BY <1>1
  <2> HIDE DEF how
  <2> QED
    BY <1>1, <2>1, ReportsItself DEF DInv
<1> QED
  BY <1>0, <1>1, <1>2, <1>3, <1>4, WalkDone DEF Firsts

LEMMA HaltDone == ASSUME DInv, Halt, \A q \in Repos : Keeps(q) PROVE Firsts'
<1>1. CASE at' = "idle"
  BY <1>1, IdleDone
<1>2. CASE at' # "idle"
  <2>1. at = "visit" /\ at' = "tool" /\ told' = [told EXCEPT !.stopped = Place(turn)] /\ turn' = turn /\ job' = job
    BY <1>2 DEF Halt, Over
  <2>2. told'.merged = told.merged /\ Scoped' = Scoped /\ Scoped \subseteq Repos
    BY <2>1, ScopeFits DEF DInv, Typed, Control, Told
  <2>3. \A q \in Repos : (Has(q) => Has(q)') /\ (Passed(q)' <=> Passed(q))
    BY <2>1, HasStable DEF DInv, Typed, Passed, PlaceOf
  <2> QED
    BY <2>1, <2>2, <2>3 DEF DInv, Firsts, PlanSays, PassedHas, ProjectIsDoneFirst
<1> QED
  BY <1>1, <1>2

LEMMA ToolDone == ASSUME DInv, Tool, \A q \in Repos : Keeps(q) PROVE Firsts'
<1>1. CASE at' = "idle"
  BY <1>1, IdleDone
<1>2. CASE at' # "idle"
  <2>1. PICK r \in Repos : r = Place(turn)
    BY Places DEF DInv, Typed, Control
  <2>2. /\ at = "tool" /\ at' = "visit" /\ turn' = 1 /\ job' = job /\ turn \in Repos
        /\ told' = [told EXCEPT !.merged = @ \cup {r}, !.stopped = 0]
        /\ job.cmd \notin {"merge", "into"}
    BY <1>2, <2>1 DEF Tool, Over, DInv, Typed, AtFits, Control
  <2>3. told'.merged = told.merged \cup {r} /\ Scoped' = Scoped /\ Scoped \subseteq Repos
    BY <2>2, ScopeFits DEF DInv, Typed, Control, Told
  <2>4. \A q \in Repos : (Has(q) => Has(q)') /\ ~Passed(q)'
    <3>1. \A q \in Repos : PlaceOf(q)' = PlaceOf(q) /\ PlaceOf(q) \in Repos
      BY Places DEF PlaceOf
    <3> QED
      BY <2>2, <3>1, HasStable DEF DInv, Typed, Passed, Repos
  <2>5. ASSUME told'.merged \cap Private # {}, NEW q \in Scoped \ Private PROVE Has(q)'
    <3>1. CASE told.merged \cap Private # {}
      BY <2>2, <2>3, <2>4, <3>1 DEF DInv, ProjectIsDoneFirst
    <3>2. CASE told.merged \cap Private = {}
      <4>1. r \in Private
        BY <2>3, <2>5, <3>2
      <4>2. q \in Repos /\ q # Memory
        BY <2>3 DEF Repos
      <4>3. PlaceOf(q) < turn
        BY <2>1, <2>2, <4>1, <4>2, Places
      <4> QED
        BY <2>2, <2>4, <4>2, <4>3 DEF DInv, PassedHas, Passed
    <3> QED
      BY <3>1, <3>2
  <2> QED
    BY <2>2, <2>3, <2>4, <2>5 DEF Firsts, PlanSays, PassedHas, ProjectIsDoneFirst
<1> QED
  BY <1>1, <1>2

LEMMA BesideDone ==
    ASSUME DInv, UNCHANGED <<job, at, turn, plan, told>>, \A q \in Repos : Keeps(q)
    PROVE  Firsts'
<1>1. Scoped' = Scoped /\ Scoped \subseteq Repos
  BY ScopeFits
<1>2. \A q \in Repos : (Has(q) => Has(q)') /\ (Passed(q)' <=> Passed(q)) /\ on'[q] = on[q]
  BY HasStable DEF DInv, Typed, Passed, PlaceOf, Keeps
<1>3. PlanSays'
  BY <1>1, <1>2 DEF DInv, PlanSays, Acts
<1> QED
  BY <1>1, <1>2, <1>3 DEF DInv, Firsts, PassedHas, ProjectIsDoneFirst

LEMMA DoneSteps == ASSUME DInv, [Next]_vars PROVE DInv'
<1>1. Typed'
  BY TypedSteps DEF DInv
<1>2. CASE Checkout
  <2>1. job' = job /\ job.cmd = "into"
    BY <1>2 DEF Checkout
  <2> QED
    BY <1>1, <2>1 DEF DInv, PlanSays, PassedHas, ProjectIsDoneFirst
<1>3. CASE ~Checkout
  <2> SUFFICES Firsts'
    BY <1>1 DEF DInv, Firsts
  <2>0. \A q \in Repos : Keeps(q)
    BY <1>3, StepKeeps DEF DInv
  <2>1. CASE Ask
    BY <2>1, AskDone
  <2>2. CASE Act
    BY <2>0, <2>2, ActDone
  <2>3. CASE Visit
    BY <2>0, <2>3, VisitDone
  <2>4. CASE Halt
    BY <2>0, <2>4, HaltDone
  <2>5. CASE Tool
    BY <2>0, <2>5, ToolDone
  <2>6. CASE ActFails \/ Record \/ VisitFails \/ ToolLeaves \/ ToolFindsNothing \/ Fault
    <3>1. at' = "idle"
      BY <2>6 DEF ActFails, Record, VisitFails, ToolLeaves, ToolFindsNothing, Fault, Over
    <3> QED
      BY <3>1, IdleDone
  <2>7. CASE \E cmd \in Commands, scope \in Scopes, mode \in Modes : Start(cmd, scope, mode)
    BY <2>7, StartDone DEF DInv
  <2>8. CASE \E r \in Repos : Work(r) \/ Settle(r, TRUE) \/ Settle(r, FALSE)
    <3>1. UNCHANGED <<job, at, turn, plan, told>>
      BY <2>8 DEF Work, Settle
    <3> QED
      BY <2>0, <3>1, BesideDone
  <2>9. CASE UNCHANGED vars
    <3>1. UNCHANGED <<job, at, turn, plan, told>>
      BY <2>9 DEF vars
    <3> QED
      BY <2>0, <3>1, BesideDone
  <2> QED
    BY <1>3, <2>1, <2>2, <2>3, <2>4, <2>5, <2>6, <2>7, <2>8, <2>9 DEF Next, Step
<1> QED
  BY <1>2, <1>3

LEMMA InitDone == Init => DInv
  BY InitTyped DEF Init, DInv, PlanSays, PassedHas, ProjectIsDoneFirst

\* Once a command has merged a configuration repository, no repository of the project in
\* its scope still lacks its source, whatever was cut short, settled by hand or
\* committed beside it (ProjectIsDoneFirst of MergeTree; project_first of
\* tree/operations/merge.py).
THEOREM ProjectComesFirst == Spec => []ProjectIsDoneFirst
<1>1. DInv /\ [Next]_vars => DInv'
  BY DoneSteps
<1>2. DInv => ProjectIsDoneFirst
  BY DEF DInv
<1> QED
  BY <1>1, <1>2, InitDone, PTL DEF Spec

-----------------------------------------------------------------------------
(* The memory keeps its own files *)

\* The memory is planned to keep its files, and no other repository is.
KindOfPlan ==
    at \in {"act", "merge"} => \A r \in Repos :
        /\ plan[r] = "kept" => r = Memory
        /\ r = Memory => plan[r] \notin {"merge", "fast-forward"}

MemoryWhole ==
    Memory # 0 => /\ {2, 8} \cap tip[Memory]["target"].files = {}
                  /\ {2, 8} \cap seen[Memory]["target"].files = {}
                  /\ worktree[Memory] = "clean"

MInv == Typed /\ KindOfPlan /\ MemoryWhole

LEMMA FateKinds ==
    ASSUME NEW r \in Repos
    PROVE  /\ Fate(r) = "kept" => r = Memory
           /\ r = Memory => Fate(r) \notin {"merge", "fast-forward", "conflicts", "unrelated"}
<1>1. MergeStatus(r) = "kept" => r = Memory
  BY DEF MergeStatus
<1>2. IntoStatus(r) = "kept" => r = Memory
  BY DEF IntoStatus
<1>3. r = Memory => MergeStatus(r) \notin {"merge", "fast-forward", "conflicts", "unrelated"}
  BY DEF MergeStatus, MemoryFate
<1>4. r = Memory => IntoStatus(r) \notin {"merge", "fast-forward", "conflicts", "unrelated"}
  BY DEF IntoStatus, MemoryFate
<1> QED
  BY <1>1, <1>2, <1>3, <1>4 DEF Fate

LEMMA MemoryIsARepository == Memory # 0 => Memory \in Repos
  BY DEF Repos

LEMMA KindSteps ==
    ASSUME OneName = FALSE, Typed, KindOfPlan, [Next]_vars
    PROVE  KindOfPlan'
<1>1. CASE Ask
  <2> DEFINE fate == [r \in Repos |-> IF r \in Scoped THEN Fate(r) ELSE "up-to-date"]
  <2>1. CASE Refused(fate)
    <3>1. at' = "idle"
      BY <1>1, <2>1 DEF Ask, Over
    <3> QED
      BY <3>1 DEF KindOfPlan
  <2>2. CASE ~Refused(fate)
    <3>1. plan' = [r \in Repos |-> PlanOf(fate, r)]
      BY <1>1, <2>2 DEF Ask
    <3>2. fate \in [Repos -> Status]
      BY FateFits DEF Status
    <3>3. \A r \in Repos : plan'[r] = fate[r]
      BY <3>1, <3>2, PlanOfFits
    <3>4. \A r \in Repos : (fate[r] = "kept" => r = Memory) /\ (r = Memory => fate[r] \notin {"merge", "fast-forward"})
      BY FateKinds
    <3> QED
      BY <3>3, <3>4 DEF KindOfPlan
  <2> QED
    BY <2>1, <2>2
<1>2. CASE Checkout \/ Act
  BY <1>2 DEF Checkout, Act, KindOfPlan
<1>3. CASE Visit
  <2>1. at' \notin {"act", "merge"}
    BY <1>3, OnwardFits DEF Visit, Typed, Control
  <2> QED
    BY <2>1 DEF KindOfPlan
<1>4. CASE ActFails \/ Record \/ Halt \/ VisitFails \/ Tool \/ ToolLeaves \/ ToolFindsNothing \/ Fault
  <2>1. at' \notin {"act", "merge"}
    BY <1>4 DEF ActFails, Record, Halt, VisitFails, Tool, ToolLeaves, ToolFindsNothing, Fault, Over
  <2> QED
    BY <2>1 DEF KindOfPlan
<1>5. CASE \E cmd \in Commands, scope \in Scopes, mode \in Modes : Start(cmd, scope, mode)
  <2>1. at' \notin {"act", "merge"}
    BY <1>5 DEF Start
  <2> QED
    BY <2>1 DEF KindOfPlan
<1>6. CASE \E r \in Repos : Work(r) \/ Settle(r, TRUE) \/ Settle(r, FALSE)
  <2>1. UNCHANGED <<at, plan>>
    BY <1>6 DEF Work, Settle
  <2> QED
    BY <2>1 DEF KindOfPlan
<1>7. CASE UNCHANGED vars
  BY <1>7 DEF vars, KindOfPlan
<1> QED
  BY <1>1, <1>2, <1>3, <1>4, <1>5, <1>6, <1>7 DEF Next, Step

\* The memory is left alone by what happens to another repository.
LEMMA OtherPuts ==
    ASSUME MInv, NEW r \in Repos, NEW new, Puts(r, new), r # Memory
    PROVE  Memory # 0 => tip'[Memory] = tip[Memory] /\ seen' = seen
  BY MemoryIsARepository, PutsFits DEF MInv, Typed, Puts

LEMMA MemoryMerges ==
    ASSUME MInv, NEW r \in Repos, NEW how, MergeOne(r, how), r = Memory => how = "kept",
           on' = on, seen' = seen, worktree' = worktree
    PROVE  MemoryWhole'
<1>1. PICK new \in Held : Leaves(r, how, new)
  BY MergeOneDoes DEF MInv, Typed
<1>2. Puts(r, new)
  BY <1>1 DEF Leaves, Puts
<1>3. CASE r # Memory
  BY <1>2, <1>3, OtherPuts DEF MInv, MemoryWhole
<1>4. CASE r = Memory
  <2>1. new.files \in {tip[r][on[r]].files, seen[r][on[r]].files}
    BY <1>1, <1>4 DEF Leaves
  <2>2. /\ tip'[r][on[r]] = new /\ on[r] \in Branch
        /\ "target" # on[r] => tip'[r]["target"] = tip[r]["target"]
    BY <1>2, PutsFits DEF MInv, Typed, Data, Branch
  <2>3. Memory # 0
    BY <1>4 DEF Repos
  <2>4. CASE on[r] = "target"
    BY <1>4, <2>1, <2>2, <2>3, <2>4 DEF MInv, MemoryWhole
  <2>5. CASE on[r] # "target"
    BY <1>4, <2>2, <2>3, <2>5 DEF MInv, MemoryWhole
  <2> QED
    BY <2>4, <2>5
<1> QED
  BY <1>3, <1>4

LEMMA MemorySteps == ASSUME MInv, [Next]_vars PROVE MemoryWhole'
<1>0. PICK p \in Repos : p = Place(turn)
  BY Places DEF MInv, Typed, Control
<1>1. ASSUME UNCHANGED <<tip, seen, worktree>> PROVE MemoryWhole'
  BY <1>1 DEF MInv, MemoryWhole
<1>2. CASE Ask \/ Record \/ VisitFails \/ ToolLeaves \/ ToolFindsNothing \/ Fault
  BY <1>1, <1>2 DEF Ask, Record, VisitFails, ToolLeaves, ToolFindsNothing, Fault, refs
<1>3. CASE Checkout
  <2>1. \A q \in Repos : tip'[q]["target"] \in {tip[q]["target"], seen[q]["target"]}
    BY <1>3, CheckoutMoves DEF MInv, Branch
  <2>2. seen' = seen /\ worktree' = worktree
    BY <1>3 DEF Checkout
  <2> QED
    BY <2>1, <2>2, MemoryIsARepository DEF MInv, MemoryWhole
<1>4. CASE Act
  <2>1. /\ on' = on /\ seen' = seen /\ worktree' = worktree /\ at \in {"act", "merge"}
        /\ IF p \in Scoped /\ plan[p] \in Acts THEN MergeOne(p, plan[p]) ELSE UNCHANGED <<tip, built, told>>
    BY <1>0, <1>4 DEF Act
  <2>2. p = Memory /\ plan[p] \in Acts => plan[p] = "kept"
    BY <2>1 DEF MInv, KindOfPlan, Acts
  <2> QED
    BY <1>1, <2>1, <2>2, MemoryMerges
<1>5. CASE Visit
  <2> DEFINE how == IF p \in Scoped THEN MergeStatus(p) ELSE "up-to-date"
  <2>1. /\ on' = on /\ seen' = seen /\ worktree' = worktree
        /\ IF how \in {"merge", "kept"} THEN MergeOne(p, how) ELSE UNCHANGED <<tip, built, told>>
    BY <1>0, <1>5 DEF Visit
  <2>2. p = Memory => how # "merge"
    BY MergeStatusSays DEF MInv
  <2> HIDE DEF how
  <2> QED
    BY <1>1, <2>1, <2>2, MemoryMerges
<1>6. CASE ActFails
  <2>1. plan[p] # "kept" /\ plan[p] \in Acts /\ at \in {"act", "merge"}
    BY <1>0, <1>6 DEF ActFails, MergeFails
  <2>2. p # Memory
    BY <2>1 DEF MInv, KindOfPlan, Acts
  <2>3. /\ worktree' = [worktree EXCEPT ![p] = "conflict"] \/ worktree' = worktree
        /\ UNCHANGED <<tip, seen>>
    BY <1>0, <1>6 DEF ActFails, MergeFails, Marked
  <2> QED
    BY <2>2, <2>3, MemoryIsARepository DEF MInv, MemoryWhole, Typed, Bounded
<1>7. CASE Halt
  <2>1. p # Memory
    BY <1>0, <1>7, MergeStatusSays DEF Halt, MInv
  <2>2. /\ worktree' = [worktree EXCEPT ![p] = "conflict"] \/ worktree' = worktree
        /\ UNCHANGED <<tip, seen>>
    BY <1>0, <1>7 DEF Halt, Marked
  <2> QED
    BY <2>1, <2>2, MemoryIsARepository DEF MInv, MemoryWhole, Typed, Bounded
<1>8. CASE Tool
  <2>1. p = told.stopped /\ p # Memory
    BY <1>0, <1>8 DEF Tool, MInv, Typed, AtFits
  <2>2. Puts(p, Joined(tip[p][on[p]], Ref(p, "source"))) /\ worktree' = [worktree EXCEPT ![p] = "clean"]
    BY <1>8, <2>1, ToolPuts DEF Tool, MInv, Typed
  <2> QED
    BY <2>1, <2>2, OtherPuts, MemoryIsARepository DEF MInv, MemoryWhole, Typed, Bounded
<1>9. CASE \E cmd \in Commands, scope \in Scopes, mode \in Modes : Start(cmd, scope, mode)
  BY <1>1, <1>9 DEF Start, refs
<1>10. ASSUME NEW r \in Repos, Work(r) PROVE MemoryWhole'
  <2> DEFINE new == [past |-> tip[r][on[r]].past \cup {WorkNo(work)}, files |-> tip[r][on[r]].files \cup {WorkNo(work)}]
  <2>1. Puts(r, new) /\ worktree' = worktree
    BY <1>10, WorkPuts DEF MInv, Work
  <2>2. WorkNo(work) \notin {2, 8}
    BY DEF WorkNo, MInv, Typed, Bounded
  <2>3. new.files = tip[r][on[r]].files \cup {WorkNo(work)}
    OBVIOUS
  <2> HIDE DEF new
  <2>4. CASE r # Memory
    BY <2>1, <2>4, OtherPuts DEF MInv, MemoryWhole
  <2>5. CASE r = Memory
    <3>1. /\ tip'[r][on[r]] = new /\ on[r] \in Branch /\ seen' = seen
          /\ "target" # on[r] => tip'[r]["target"] = tip[r]["target"]
      BY <2>1, PutsFits DEF MInv, Typed, Data, Branch, Puts
    <3>2. Memory # 0
      BY <2>5 DEF Repos
    <3>3. {2, 8} \cap tip'[Memory]["target"].files = {}
      BY <2>2, <2>3, <2>5, <3>1, <3>2 DEF MInv, MemoryWhole
    <3> QED
      BY <2>1, <3>1, <3>3 DEF MInv, MemoryWhole
  <2> QED
    BY <2>4, <2>5
<1>11. ASSUME NEW r \in Repos, NEW finish, Settle(r, finish) PROVE MemoryWhole'
  <2>1. r # Memory
    BY <1>11 DEF Settle, MInv, MemoryWhole, Repos
  <2>2. on' = on /\ seen' = seen /\ worktree' = [worktree EXCEPT ![r] = "clean"]
    BY <1>11 DEF Settle
  <2>3. Memory # 0 => tip'[Memory] = tip[Memory]
    <3>1. CASE UNCHANGED <<tip, built>>
      BY <3>1
    <3>2. CASE built' = built + 1 /\ tip' = [tip EXCEPT ![r][on[r]] = Joined(@, Ref(r, "source"))]
      BY <2>1, <2>2, <3>2, ToolPuts, OtherPuts DEF MInv, Typed
    <3> QED
      BY <1>11, <3>1, <3>2 DEF Settle
  <2> QED
    BY <2>1, <2>2, <2>3, MemoryIsARepository DEF MInv, MemoryWhole, Typed, Bounded
<1>12. CASE UNCHANGED vars
  BY <1>1, <1>12 DEF vars, refs
<1> QED
  BY <1>2, <1>3, <1>4, <1>5, <1>6, <1>7, <1>8, <1>9, <1>10, <1>11, <1>12 DEF Next, Step

LEMMA InitMemory == Init => MInv
<1> SUFFICES ASSUME Init PROVE MInv
  OBVIOUS
<1>1. Typed /\ KindOfPlan
  BY InitTyped DEF Init, KindOfPlan
<1>2. PICK how \in [Repos -> Sources], where \in [Repos -> Targets], far \in SUBSET Repos, start \in Branch :
        Stands(how, where, far, start)
  BY DEF Init
<1>3. \A r \in Repos : /\ tip[r]["target"] \in {None, C({0, 1})}
                       /\ seen[r]["target"] \in {C({0, 1, 5}), C({0, 1})}
  BY <1>2 DEF Stands, Branch
<1>4. \A c \in {None, C({0, 1}), C({0, 1, 5})} : {2, 8} \cap c.files = {}
  BY DEF None, C
<1>5. Memory # 0 => worktree[Memory] = "clean"
  BY MemoryIsARepository DEF Init
<1> QED
  BY <1>1, <1>3, <1>4, <1>5, MemoryIsARepository DEF MInv, MemoryWhole

\* Where every repository has a name of its own, the memory's target never carries a
\* file of its source's ledger, however many merges are cut short or made beside each
\* other (MemoryStaysWhole of MergeTree; MemoryMergeOperation.apply).
THEOREM MemoryKeepsItsOwn == ASSUME OneName = FALSE PROVE Spec => []MemoryStaysWhole
<1>1. MInv /\ [Next]_vars => MInv'
  BY TypedSteps, KindSteps, MemorySteps DEF MInv
<1>2. MInv => MemoryStaysWhole
  BY DEF MInv, MemoryWhole, MemoryStaysWhole
<1> QED
  BY <1>1, <1>2, InitMemory, PTL DEF Spec

-----------------------------------------------------------------------------
(* A commit carries the work its history holds *)

Joins == {JoinNo(n) : n \in Nat}
Faithful(c) == c.files = c.past \ Joins

AllFaithful ==
    \A r \in Repos \ {Memory}, b \in Branch : Faithful(tip[r][b]) /\ Faithful(seen[r][b])

LEMMA JoinedFaithful ==
    ASSUME built \in Nat, NEW a \in Held, NEW b \in Held, Faithful(a), Faithful(b)
    PROVE  Faithful(Joined(a, b))
<1>1. JoinNo(built) \in Joins
  BY DEF Joins
<1>2. /\ Joined(a, b).past = a.past \cup b.past \cup {JoinNo(built)}
      /\ Joined(a, b).files = a.files \cup b.files
  BY JoinedFits
<1> QED
  BY <1>1, <1>2 DEF Faithful

\* Two sides of which one holds the other's history cannot collide.
LEMMA HeldDoNotCollide ==
    ASSUME NEW r, NEW a \in Held, NEW b \in Held, Faithful(a), Faithful(b), a.past \subseteq b.past
    PROVE  ~Collide(r, a, b) /\ ~Collide(r, b, a)
  BY DEF Collide, Faithful

LEMMA PutsFaithful ==
    ASSUME Data, AllFaithful, NEW r \in Repos, NEW new, Puts(r, new), r # Memory => Faithful(new)
    PROVE  AllFaithful'
<1>1. /\ tip'[r][on[r]] = new /\ seen' = seen
      /\ \A q \in Repos, b \in Branch : q # r \/ b # on[r] => tip'[q][b] = tip[q][b]
  BY PutsFits DEF Puts
<1> QED
  BY <1>1 DEF AllFaithful

LEMMA RefFaithful ==
    ASSUME AllFaithful, NEW r \in Repos \ {Memory}, NEW b \in Branch
    PROVE  Faithful(Ref(r, b))
  BY DEF AllFaithful, Ref

LEMMA MergesFaithful ==
    ASSUME Typed, AllFaithful, NEW r \in Repos, NEW how, MergeOne(r, how), how = "kept" => r = Memory,
           on' = on, seen' = seen
    PROVE  AllFaithful'
<1>1. PICK new \in Held : Leaves(r, how, new)
  BY MergeOneDoes DEF Typed
<1>2. Puts(r, new)
  BY <1>1 DEF Leaves, Puts
<1>3. ASSUME r # Memory PROVE Faithful(new)
  <2>1. on[r] \in Branch /\ "source" \in Branch /\ built \in Nat
    BY DEF Typed, Data, Branch
  <2>2. Faithful(tip[r][on[r]]) /\ Faithful(Ref(r, "source")) /\ tip[r][on[r]] \in Held /\ Ref(r, "source") \in Held
    BY <1>3, <2>1, RefFaithful, Copies DEF AllFaithful, Typed
  <2>3. Faithful(Joined(tip[r][on[r]], Ref(r, "source")))
    BY <2>1, <2>2, JoinedFaithful
  <2> QED
    BY <1>1, <1>3, <2>2, <2>3 DEF Leaves
<1> QED
  BY <1>2, <1>3, PutsFaithful DEF Typed

LEMMA FaithfulSteps == ASSUME Typed, KindOfPlan, AllFaithful, [Next]_vars PROVE AllFaithful'
<1>0. PICK p \in Repos : p = Place(turn)
  BY Places DEF Typed, Control
<1>1. ASSUME UNCHANGED <<tip, seen>> PROVE AllFaithful'
  BY <1>1 DEF AllFaithful
<1>2. CASE Ask \/ Record \/ VisitFails \/ ToolLeaves \/ ToolFindsNothing \/ Fault \/ ActFails \/ Halt
  BY <1>1, <1>2 DEF Ask, Record, VisitFails, ToolLeaves, ToolFindsNothing, Fault, ActFails, Halt, refs
<1>3. CASE Checkout
  <2>1. \A q \in Repos, b \in Branch : tip'[q][b] \in {tip[q][b], seen[q][b]}
    BY <1>3, CheckoutMoves
  <2>2. seen' = seen
    BY <1>3 DEF Checkout
  <2> QED
    BY <2>1, <2>2 DEF AllFaithful
<1>4. CASE Act
  <2>1. /\ on' = on /\ seen' = seen /\ at \in {"act", "merge"}
        /\ IF p \in Scoped /\ plan[p] \in Acts THEN MergeOne(p, plan[p]) ELSE UNCHANGED <<tip, built, told>>
    BY <1>0, <1>4 DEF Act
  <2>2. plan[p] = "kept" => p = Memory
    BY <2>1 DEF KindOfPlan
  <2> QED
    BY <1>1, <2>1, <2>2, MergesFaithful
<1>5. CASE Visit
  <2> DEFINE how == IF p \in Scoped THEN MergeStatus(p) ELSE "up-to-date"
  <2>1. /\ on' = on /\ seen' = seen
        /\ IF how \in {"merge", "kept"} THEN MergeOne(p, how) ELSE UNCHANGED <<tip, built, told>>
    BY <1>0, <1>5 DEF Visit
  <2>2. how = "kept" => p = Memory
    BY MergeStatusSays
  <2> HIDE DEF how
  <2> QED
    BY <1>1, <2>1, <2>2, MergesFaithful
<1>6. ASSUME NEW r \in Repos, built' = built + 1, on' = on, seen' = seen,
             tip' = [tip EXCEPT ![r][on[r]] = Joined(@, Ref(r, "source"))]
      PROVE  AllFaithful'
  <2>1. Puts(r, Joined(tip[r][on[r]], Ref(r, "source")))
    BY <1>6, ToolPuts DEF Typed
  <2>2. ASSUME r # Memory PROVE Faithful(Joined(tip[r][on[r]], Ref(r, "source")))
    <3>1. on[r] \in Branch /\ "source" \in Branch /\ built \in Nat
      BY DEF Typed, Data, Branch
    <3>2. Faithful(tip[r][on[r]]) /\ Faithful(Ref(r, "source")) /\ tip[r][on[r]] \in Held /\ Ref(r, "source") \in Held
      BY <2>2, <3>1, RefFaithful, Copies DEF AllFaithful, Typed
    <3> QED
      BY <3>1, <3>2, JoinedFaithful
  <2> QED
    BY <2>1, <2>2, PutsFaithful DEF Typed
<1>7. CASE Tool
  <2>1. p = told.stopped
    BY <1>0, <1>7 DEF Tool, Typed, AtFits
  <2> QED
    BY <1>6, <1>7, <2>1 DEF Tool
<1>8. CASE \E cmd \in Commands, scope \in Scopes, mode \in Modes : Start(cmd, scope, mode)
  BY <1>1, <1>8 DEF Start, refs
<1>9. ASSUME NEW r \in Repos, Work(r) PROVE AllFaithful'
  <2> DEFINE n == WorkNo(work)
             t == tip[r][on[r]]
             new == [past |-> t.past \cup {n}, files |-> t.files \cup {n}]
  <2>1. Puts(r, new) /\ n \in Nat
    BY <1>9, WorkPuts
  <2>2. n \notin Joins
    <3>1. \A w, m \in Nat : 11 + 2 * w # 10 + 2 * m
      OBVIOUS
    <3> QED
      BY <3>1 DEF Joins, JoinNo, WorkNo, Typed, Bounded
  <2>3. ASSUME r # Memory PROVE Faithful(new)
    <3>1. Faithful(t)
      BY <2>3 DEF AllFaithful, Typed, Data
    <3> HIDE DEF n, t
    <3> QED
      BY <2>2, <3>1 DEF Faithful
  <2> HIDE DEF new
  <2> QED
    BY <2>1, <2>3, PutsFaithful DEF Typed
<1>10. ASSUME NEW r \in Repos, NEW finish, Settle(r, finish) PROVE AllFaithful'
  BY <1>1, <1>6, <1>10 DEF Settle
<1>11. CASE UNCHANGED vars
  BY <1>1, <1>11 DEF vars, refs
<1> QED
  BY <1>2, <1>3, <1>4, <1>5, <1>7, <1>8, <1>9, <1>10, <1>11 DEF Next, Step

LEMMA InitFaithful == Init => AllFaithful
<1> SUFFICES ASSUME Init PROVE AllFaithful
  OBVIOUS
<1>1. PICK how \in [Repos -> Sources], where \in [Repos -> Targets], far \in SUBSET Repos, start \in Branch :
        Stands(how, where, far, start)
  BY DEF Init
<1>2. \A r \in Repos : SourceStart(how[r]) \in {None, C({0}), C({0, 1, 2}), C({0, 2}), C({8})}
  <2>1. \A r \in Repos : how[r] \in {"absent", "merged", "ahead", "forked", "unrelated"}
    OBVIOUS
  <2> QED
    BY <2>1 DEF SourceStart
<1>3. \A r \in Repos, b \in Branch :
        /\ tip[r][b] \in {None, C({0}), C({0, 1, 2}), C({0, 2}), C({8}), C({0, 1})}
        /\ seen[r][b] \in {None, C({0}), C({0, 1, 2}), C({0, 2}), C({8}), C({0, 1}), C({0, 1, 5})}
  BY <1>1, <1>2 DEF Stands, Branch
<1>4. \A n \in Joins : n > 8
  BY DEF Joins, JoinNo
<1>5. 0 \notin Joins /\ 1 \notin Joins /\ 2 \notin Joins /\ 5 \notin Joins /\ 8 \notin Joins
  BY <1>4
<1>6. \A ns \in SUBSET {0, 1, 2, 5, 8} : Faithful(C(ns))
  <2> SUFFICES ASSUME NEW ns \in SUBSET {0, 1, 2, 5, 8} PROVE ns = ns \ Joins
    BY DEF Faithful, C
  <2>1. \A n \in ns : n \notin Joins
    BY <1>5
  <2> QED
    BY <2>1
<1>7. Faithful(None) /\ Faithful(C({0})) /\ Faithful(C({0, 1, 2})) /\ Faithful(C({0, 2})) /\ Faithful(C({8}))
      /\ Faithful(C({0, 1})) /\ Faithful(C({0, 1, 5}))
  BY <1>6 DEF Faithful, None
<1> QED
  BY <1>3, <1>7 DEF AllFaithful

-----------------------------------------------------------------------------
(* A commit the user has not made is nowhere *)

Dated(c) == \A m \in Nat : m >= work => WorkNo(m) \notin c.past

AllDated == \A r \in Repos \ {Memory}, b \in Branch : Dated(tip[r][b]) /\ Dated(seen[r][b])

LEMMA SidesDated ==
    ASSUME Typed, AllDated, NEW r \in Repos \ {Memory}
    PROVE  LET t == tip[r][on[r]]
               c == Ref(r, "source") IN Dated(t) /\ Dated(c) /\ Dated(Joined(t, c))
<1> DEFINE t == tip[r][on[r]]
           c == Ref(r, "source")
<1>1. Dated(t) /\ Dated(c)
  BY DEF AllDated, Typed, Data, Ref, Branch
<1>2. t \in Held /\ c \in Held /\ built \in Nat
  BY Copies DEF Typed, Data, Branch
<1>3. Joined(t, c).past = t.past \cup c.past \cup {JoinNo(built)}
  BY <1>2, JoinedFits
<1>4. \A m \in Nat : WorkNo(m) # JoinNo(built)
  <2>1. \A m, n \in Nat : 11 + 2 * m # 10 + 2 * n
    OBVIOUS
  <2> QED
    BY <1>2, <2>1 DEF WorkNo, JoinNo
<1> HIDE DEF t, c
<1>5. Dated(Joined(t, c))
  BY <1>1, <1>3, <1>4 DEF Dated
<1> QED
  BY <1>1, <1>5 DEF t, c

LEMMA PutsDated ==
    ASSUME Typed, AllDated, NEW r \in Repos, NEW new, Puts(r, new), work' = work, r # Memory => Dated(new)
    PROVE  AllDated'
<1>1. /\ tip'[r][on[r]] = new /\ seen' = seen
      /\ \A q \in Repos, b \in Branch : q # r \/ b # on[r] => tip'[q][b] = tip[q][b]
  BY PutsFits DEF Puts, Typed
<1> QED
  BY <1>1 DEF AllDated, Dated

LEMMA MergesDated ==
    ASSUME Typed, AllDated, NEW r \in Repos, NEW how, MergeOne(r, how), how = "kept" => r = Memory,
           on' = on, seen' = seen, work' = work
    PROVE  AllDated'
<1>1. PICK new \in Held : Leaves(r, how, new)
  BY MergeOneDoes DEF Typed
<1>2. Puts(r, new)
  BY <1>1 DEF Leaves, Puts
<1>3. r # Memory => Dated(new)
  BY <1>1, SidesDated DEF Leaves
<1> QED
  BY <1>2, <1>3, PutsDated

LEMMA WorkDated == ASSUME Typed, AllDated, NEW r \in Repos, Work(r) PROVE AllDated'
<1> DEFINE t == tip[r][on[r]]
           new == [past |-> t.past \cup {WorkNo(work)}, files |-> t.files \cup {WorkNo(work)}]
<1>1. Puts(r, new) /\ work' = work + 1 /\ work \in Nat
  <2>1. Puts(r, new)
    BY WorkPuts
  <2> HIDE DEF new
  <2> QED
    BY <2>1 DEF Work, Typed, Bounded
<1>2. \A m \in Nat : m >= work' => m >= work /\ WorkNo(m) # WorkNo(work)
  BY <1>1 DEF WorkNo
<1>3. /\ tip'[r][on[r]] = new /\ seen' = seen /\ new.past = t.past \cup {WorkNo(work)}
      /\ \A q \in Repos, b \in Branch : q # r \/ b # on[r] => tip'[q][b] = tip[q][b]
  BY <1>1, PutsFits DEF Puts, Typed
<1>4. on[r] \in Branch
  BY DEF Typed, Data
<1> HIDE DEF new, t
<1>5. ASSUME NEW q \in Repos \ {Memory}, NEW b \in Branch, NEW m \in Nat, m >= work'
      PROVE  WorkNo(m) \notin tip'[q][b].past /\ WorkNo(m) \notin seen'[q][b].past
  <2>1. WorkNo(m) \notin tip[q][b].past /\ WorkNo(m) \notin seen[q][b].past
    BY <1>2, <1>5 DEF AllDated, Dated
  <2>2. CASE q = r /\ b = on[r]
    BY <1>2, <1>3, <1>5, <2>1, <2>2 DEF t
  <2>3. CASE q # r \/ b # on[r]
    BY <1>3, <2>1, <2>3
  <2> QED
    BY <1>3, <2>1, <2>2, <2>3
<1> QED
  BY <1>5 DEF AllDated, Dated

LEMMA DatedSteps == ASSUME Typed, KindOfPlan, AllDated, [Next]_vars PROVE AllDated'
<1>0. PICK p \in Repos : p = Place(turn)
  BY Places DEF Typed, Control
<1>1. ASSUME UNCHANGED <<tip, seen, work>> PROVE AllDated'
  BY <1>1 DEF AllDated, Dated
<1>2. CASE Ask \/ Record \/ VisitFails \/ ToolLeaves \/ ToolFindsNothing \/ Fault \/ ActFails \/ Halt
  BY <1>1, <1>2 DEF Ask, Record, VisitFails, ToolLeaves, ToolFindsNothing, Fault, ActFails, Halt, refs
<1>3. CASE Checkout
  <2>1. \A q \in Repos, b \in Branch : tip'[q][b] \in {tip[q][b], seen[q][b]}
    BY <1>3, CheckoutMoves
  <2>2. seen' = seen /\ work' = work
    BY <1>3 DEF Checkout
  <2> QED
    BY <2>1, <2>2 DEF AllDated, Dated
<1>4. CASE Act
  <2>1. /\ on' = on /\ seen' = seen /\ work' = work /\ at \in {"act", "merge"}
        /\ IF p \in Scoped /\ plan[p] \in Acts THEN MergeOne(p, plan[p]) ELSE UNCHANGED <<tip, built, told>>
    BY <1>0, <1>4 DEF Act
  <2>2. plan[p] = "kept" => p = Memory
    BY <2>1 DEF KindOfPlan
  <2> QED
    BY <1>1, <2>1, <2>2, MergesDated
<1>5. CASE Visit
  <2> DEFINE how == IF p \in Scoped THEN MergeStatus(p) ELSE "up-to-date"
  <2>1. /\ on' = on /\ seen' = seen /\ work' = work
        /\ IF how \in {"merge", "kept"} THEN MergeOne(p, how) ELSE UNCHANGED <<tip, built, told>>
    BY <1>0, <1>5 DEF Visit
  <2>2. how = "kept" => p = Memory
    BY MergeStatusSays
  <2> HIDE DEF how
  <2> QED
    BY <1>1, <2>1, <2>2, MergesDated
<1>6. ASSUME NEW r \in Repos, built' = built + 1, on' = on, seen' = seen, work' = work,
             tip' = [tip EXCEPT ![r][on[r]] = Joined(@, Ref(r, "source"))]
      PROVE  AllDated'
  <2>1. Puts(r, Joined(tip[r][on[r]], Ref(r, "source")))
    BY <1>6, ToolPuts DEF Typed
  <2> QED
    BY <1>6, <2>1, SidesDated, PutsDated
<1>7. CASE Tool
  <2>1. p = told.stopped
    BY <1>0, <1>7 DEF Tool, Typed, AtFits
  <2> QED
    BY <1>6, <1>7, <2>1 DEF Tool
<1>8. CASE \E cmd \in Commands, scope \in Scopes, mode \in Modes : Start(cmd, scope, mode)
  BY <1>1, <1>8 DEF Start, refs
<1>9. ASSUME NEW r \in Repos, NEW finish, Settle(r, finish) PROVE AllDated'
  BY <1>1, <1>6, <1>9 DEF Settle
<1>10. CASE UNCHANGED vars
  BY <1>1, <1>10 DEF vars, refs
<1> QED
  BY <1>2, <1>3, <1>4, <1>5, <1>7, <1>8, <1>9, <1>10, WorkDated DEF Next, Step

LEMMA InitDated == Init => AllDated
<1> SUFFICES ASSUME Init PROVE AllDated
  OBVIOUS
<1>1. PICK how \in [Repos -> Sources], where \in [Repos -> Targets], far \in SUBSET Repos, start \in Branch :
        Stands(how, where, far, start)
  BY DEF Init
<1>2. \A r \in Repos : SourceStart(how[r]).past \subseteq 0..8
  <2>1. \A r \in Repos : how[r] \in {"absent", "merged", "ahead", "forked", "unrelated"}
    OBVIOUS
  <2> QED
    BY <2>1 DEF SourceStart, C, None
<1>3. \A r \in Repos, b \in Branch : tip[r][b].past \subseteq 0..8 /\ seen[r][b].past \subseteq 0..8
  BY <1>1, <1>2 DEF Stands, Branch, C, None
<1>4. \A m \in Nat : WorkNo(m) \notin 0..8
  BY DEF WorkNo
<1> QED
  BY <1>3, <1>4 DEF AllDated, Dated

-----------------------------------------------------------------------------
(* `--resolve` stops where something is left to do *)

\* What it merged has its source, every pass merged one repository more, and the one
\* the merge tool is at lacks its source.
ResolveFits ==
    /\ at \in {"visit", "tool"} => \A r \in told.merged : Has(r)
    /\ at \in {"visit", "tool"} => pass <= Cardinality(told.merged)
    /\ at = "tool" => ~Has(told.stopped)

SInv == Typed /\ KindOfPlan /\ AllFaithful /\ AllDated /\ ResolveFits

LEMMA RepoCount ==
    ASSUME NEW S \in SUBSET Repos, NEW r \in Repos, NEW n \in Nat, n <= Cardinality(S)
    PROVE  /\ n <= Cardinality(S \cup {r})
           /\ r \notin S => n + 1 <= Cardinality(S \cup {r}) /\ n < NRepos
<1>1. IsFiniteSet(Repos) /\ Cardinality(Repos) = NRepos
  BY FS_Interval DEF Repos
<1>2. \A T \in SUBSET Repos : IsFiniteSet(T) /\ Cardinality(T) \in Nat /\ Cardinality(T) <= NRepos
  BY <1>1, FS_Subset, FS_CardinalityType
<1> DEFINE c == Cardinality(S)
           d == Cardinality(S \cup {r})
<1>3. IsFiniteSet(S) /\ c \in Nat /\ d \in Nat /\ d <= NRepos
  BY <1>2
<1>4. d = IF r \in S THEN c ELSE c + 1
  BY <1>3, FS_AddElement
<1>5. n <= c
  OBVIOUS
<1> HIDE DEF c, d
<1>6. n <= d /\ (r \notin S => n + 1 <= d /\ n < NRepos)
  BY <1>3, <1>4, <1>5
<1> QED
  BY <1>6 DEF d

\* A repository that conflicts, or shares nothing with its source, lacks it.
LEMMA HaltsAtUnfinished ==
    ASSUME Typed, AllFaithful, NEW r \in Repos, MergeStatus(r) \in {"conflicts", "unrelated"}
    PROVE  ~Has(r)
<1> DEFINE t == tip[r][on[r]]
           c == Ref(r, "source")
<1>1. /\ on[r] = "target" /\ r # Memory /\ c # None
      /\ ShareNothing(r, on[r]) \/ Collide(r, t, c)
  <2>1. on[r] = "target" /\ r # Memory
    BY MergeStatusSays
  <2> QED
    BY <2>1 DEF MergeStatus, Known
<1>2. t \in Held /\ c \in Held /\ Faithful(t) /\ Faithful(c)
  BY <1>1, Copies, RefFaithful DEF Typed, AllFaithful, Branch
<1>3. CASE Collide(r, t, c)
  <2>1. ~(c.past \subseteq t.past)
    BY <1>2, <1>3, HeldDoNotCollide
  <2> QED
    BY <1>1, <2>1 DEF Has, Contains
<1>4. CASE ShareNothing(r, on[r])
  <2>1. c.past # {}
    BY <1>1, <1>2 DEF Held, Commit, None
  <2>2. t.past \cap c.past = {}
    BY <1>4 DEF ShareNothing
  <2> QED
    BY <1>1, <2>1, <2>2 DEF Has, Contains
<1> QED
  BY <1>1, <1>3, <1>4

LEMMA ToolGoesOn ==
    ASSUME SInv, Tool
    PROVE  at' = "visit" /\ pass' = pass + 1 /\ told' = [told EXCEPT !.merged = @ \cup {told.stopped}, !.stopped = 0]
           /\ told.stopped \in Repos \ told.merged
<1>1. told.stopped \in Repos /\ at = "tool"
  BY ScopeFits DEF Tool, SInv, Typed, AtFits
<1>2. told.stopped \notin told.merged
  BY <1>1 DEF SInv, ResolveFits
<1>3. pass <= Cardinality(told.merged) /\ pass \in Nat /\ told.merged \in SUBSET Repos
  BY <1>1, Reports DEF SInv, ResolveFits, Typed, Control
<1>4. pass < NRepos
  BY <1>1, <1>2, <1>3, RepoCount
<1>5. pass + 1 < MaxPasses
  BY <1>3, <1>4 DEF MaxPasses
<1> QED
  BY <1>1, <1>2, <1>5 DEF Tool

LEMMA ResolveSteps == ASSUME SInv, [Next]_vars PROVE ResolveFits'
<1>0. PICK p \in Repos : p = Place(turn)
  BY Places DEF SInv, Typed, Control
<1>1. ASSUME at' \notin {"visit", "tool"} PROVE ResolveFits'
  BY <1>1 DEF ResolveFits
<1>2. CASE Checkout
  BY <1>1, <1>2 DEF Checkout
<1>3. CASE ~Checkout
  <2> SUFFICES ResolveFits'
    OBVIOUS
  <2>0. (\A q \in Repos : Keeps(q)) /\ \A q \in Repos : Has(q) => Has(q)'
    BY <1>3, StepKeeps, HasStable DEF SInv, Typed
  <2>1. CASE Ask
    BY <1>1, <2>1 DEF Ask, Over
  <2>2. CASE Act
    <3>1. at' \notin {"visit", "tool"}
      BY <2>2, OnwardFits DEF Act, SInv, Typed, Control
    <3> QED
      BY <1>1, <3>1
  <2>3. CASE Visit
    <3> DEFINE how == IF p \in Scoped THEN MergeStatus(p) ELSE "up-to-date"
    <3>1. /\ at = "visit" /\ on' = on /\ seen' = seen /\ Onward("visit")
          /\ IF how \in {"merge", "kept"} THEN MergeOne(p, how) ELSE UNCHANGED <<tip, built, told>>
      BY <1>0, <2>3 DEF Visit
    <3>2. how \in {"merge", "kept"} => on[p] = "target"
      BY MergeStatusSays DEF SInv
    <3>3. at' \in {"visit", "record"} /\ pass' = pass
      BY <3>1, OnwardFits DEF SInv, Typed, Control
    <3> HIDE DEF how
    <3>4. CASE told' = told
      <4>1. \A r \in told.merged : Has(r)'
        BY <2>0, <3>1, Reports DEF SInv, ResolveFits
      <4> QED
        BY <3>1, <3>3, <3>4, <4>1 DEF SInv, ResolveFits
    <3>5. CASE told' # told
      <4>1. MergeOne(p, how) /\ how \in {"merge", "kept"}
        BY <3>1, <3>5
      <4>2. Has(p)'
        BY <3>1, <3>2, <3>5, <4>1, MergedHas DEF SInv
      <4>3. told' = [told EXCEPT !.merged = @ \cup {p}]
        BY <3>5, <4>1, ReportsItself DEF SInv
      <4>4. told'.merged = told.merged \cup {p}
        BY <4>3 DEF SInv, Typed, Control, Told
      <4>5. \A r \in told'.merged : Has(r)'
        BY <2>0, <3>1, <4>2, <4>4, Reports DEF SInv, ResolveFits
      <4>6. pass <= Cardinality(told.merged \cup {p})
        <5>1. pass <= Cardinality(told.merged) /\ pass \in Nat /\ told.merged \in SUBSET Repos
          BY <3>1, Reports DEF SInv, ResolveFits, Typed, Control
        <5> QED
          BY <5>1, RepoCount
      <4> QED
        BY <3>3, <4>4, <4>5, <4>6 DEF ResolveFits
    <3> QED
      BY <3>4, <3>5
  <2>4. CASE Halt
    <3>1. CASE at' = "idle"
      BY <1>1, <3>1
    <3>2. CASE at' # "idle"
      <4>1. /\ at = "visit" /\ at' = "tool" /\ told' = [told EXCEPT !.stopped = p] /\ pass' = pass
            /\ MergeStatus(p) \in {"conflicts", "unrelated"} /\ UNCHANGED <<tip, seen, on>>
        BY <1>0, <2>4, <3>2 DEF Halt, Over
      <4>2. told'.merged = told.merged /\ told'.stopped = p
        BY <1>0, <4>1 DEF SInv, Typed, Control, Told
      <4>3. ~Has(p)'
        <5>1. ~Has(p)
          BY <4>1, HaltsAtUnfinished DEF SInv
        <5> QED
          BY <4>1, <5>1 DEF Has, Ref, Contains
      <4> QED
        BY <2>0, <4>1, <4>2, <4>3, Reports DEF SInv, ResolveFits
    <3> QED
      BY <3>1, <3>2
  <2>5. CASE Tool
    <3>1. /\ at = "tool" /\ at' = "visit" /\ pass' = pass + 1 /\ told.stopped \in Repos \ told.merged
          /\ told' = [told EXCEPT !.merged = @ \cup {told.stopped}, !.stopped = 0]
      BY <2>5, ToolGoesOn DEF Tool
    <3>2. told'.merged = told.merged \cup {told.stopped}
      BY <3>1 DEF SInv, Typed, Control, Told
    <3>3. p = told.stopped /\ on[p] = "target" /\ on[p] \in Branch
      BY <1>0, <3>1 DEF SInv, Typed, AtFits, Data
    <3>4. Has(p)'
      <4> DEFINE new == Joined(tip[p][on[p]], Ref(p, "source"))
      <4>1. tip' = [tip EXCEPT ![p][on[p]] = Joined(@, Ref(p, "source"))] /\ built' = built + 1 /\ on' = on /\ seen' = seen
        BY <2>5, <3>3 DEF Tool
      <4>2. Puts(p, new) /\ Ref(p, "source").past \subseteq new.past
        BY <4>1, ToolPuts DEF SInv, Typed
      <4> HIDE DEF new
      <4>3. tip'[p]["target"] = new /\ tip'[p]["source"] = tip[p]["source"]
        BY <3>3, <4>2, PutsFits DEF SInv, Typed, Branch
      <4>4. Ref(p, "source")' = Ref(p, "source")
        BY <4>1, <4>3 DEF Ref
      <4> QED
        BY <3>3, <4>1, <4>2, <4>3, <4>4 DEF Has, Contains
    <3>5. \A r \in told'.merged : Has(r)'
      BY <2>0, <3>1, <3>2, <3>3, <3>4, Reports DEF SInv, ResolveFits
    <3>6. pass' <= Cardinality(told'.merged)
      <4>1. pass <= Cardinality(told.merged) /\ pass \in Nat /\ told.merged \in SUBSET Repos
        BY <3>1, Reports DEF SInv, ResolveFits, Typed, Control
      <4>2. pass + 1 <= Cardinality(told.merged \cup {p})
        BY <3>1, <3>3, <4>1, RepoCount
      <4>3. told'.merged = told.merged \cup {p}
        BY <3>2, <3>3
      <4> QED
        BY <3>1, <4>2, <4>3
    <3> QED
      BY <3>1, <3>5, <3>6 DEF ResolveFits
  <2>6. CASE ActFails \/ Record \/ VisitFails \/ ToolLeaves \/ ToolFindsNothing \/ Fault
    BY <1>1, <2>6 DEF ActFails, Record, VisitFails, ToolLeaves, ToolFindsNothing, Fault, Over
  <2>7. CASE \E cmd \in Commands, scope \in Scopes, mode \in Modes : Start(cmd, scope, mode)
    <3>1. at = "idle" /\ at' \in {"ask", "visit"} /\ told'.merged = {} /\ pass' = pass
      BY <2>7 DEF Start, Nothing
    <3>2. pass = 0 /\ Cardinality({}) = 0
      BY <3>1, FS_EmptySet DEF SInv, Typed, AtFits
    <3>3. pass' <= Cardinality(told'.merged)
      BY <3>1, <3>2
    <3> QED
      BY <3>1, <3>3 DEF ResolveFits
  <2>8. ASSUME UNCHANGED <<at, pass, told>>, at = "tool" => UNCHANGED <<tip[p], seen, on>>
        PROVE  ResolveFits'
    <3>1. at = "tool" => told.stopped = p
      BY <1>0 DEF SInv, Typed, AtFits
    <3>2. at = "tool" => Has(p)' = Has(p)
      BY <2>8 DEF Has, Ref, Contains
    <3>3. at = "tool" => ~Has(told.stopped)'
      BY <2>8, <3>1, <3>2 DEF SInv, ResolveFits
    <3>4. at \in {"visit", "tool"} => \A r \in told.merged : Has(r)'
      BY <2>0, Reports DEF SInv, ResolveFits
    <3> QED
      BY <2>8, <3>3, <3>4 DEF SInv, ResolveFits
  <2>9. ASSUME NEW r \in Repos, Work(r) PROVE ResolveFits'
    <3>1. UNCHANGED <<at, pass, told, seen, on>>
      BY <2>9 DEF Work
    <3>2. CASE r = p /\ at = "tool"
      <4> DEFINE c == Ref(p, "source")
                 t == tip[p][on[p]]
      <4>1. told.stopped = p /\ p # Memory /\ on[p] = "target" /\ ~Has(p)
        BY <1>0, <3>2 DEF SInv, Typed, AtFits, ResolveFits
      <4>2. tip'[p][on[p]].past = t.past \cup {WorkNo(work)} /\ tip'[p]["source"] = tip[p]["source"]
        <5> DEFINE new == [past |-> t.past \cup {WorkNo(work)}, files |-> t.files \cup {WorkNo(work)}]
        <5>1. Puts(p, new) /\ new.past = t.past \cup {WorkNo(work)}
          BY <2>9, <3>2, WorkPuts DEF SInv
        <5> HIDE DEF new
        <5>2. tip'[p][on[p]] = new /\ tip'[p]["source"] = tip[p]["source"]
          BY <4>1, <5>1, PutsFits DEF SInv, Typed, Branch
        <5> QED
          BY <5>1, <5>2
      <4>3. Ref(p, "source")' = c
        BY <3>1, <4>2 DEF Ref
      <4>4. WorkNo(work) \notin c.past
        BY <4>1, SidesDated DEF SInv, Typed, Bounded, Dated
      <4>5. ~(c.past \subseteq t.past)
        BY <4>1 DEF Has, Contains
      <4>6. ~Has(p)'
        BY <3>1, <4>1, <4>2, <4>3, <4>4, <4>5 DEF Has, Contains
      <4> QED
        BY <2>0, <3>1, <4>1, <4>6, Reports DEF SInv, ResolveFits
    <3>3. CASE ~(r = p /\ at = "tool")
      <4>1. at = "tool" => tip'[p] = tip[p]
        BY <2>9, <3>3, WorkPuts, PutsFits DEF SInv, Typed
      <4> QED
        BY <2>8, <3>1, <4>1
    <3> QED
      BY <3>2, <3>3
  <2>10. CASE \E r \in Repos : Settle(r, TRUE) \/ Settle(r, FALSE)
    <3>1. UNCHANGED <<at, pass, told>> /\ at = "idle"
      BY <2>10 DEF Settle
    <3> QED
      BY <2>8, <3>1
  <2>11. CASE UNCHANGED vars
    BY <2>8, <2>11 DEF vars, refs
  <2> QED
    BY <1>3, <2>1, <2>2, <2>3, <2>4, <2>5, <2>6, <2>7, <2>9, <2>10, <2>11 DEF Next, Step
<1> QED
  BY <1>2, <1>3

LEMMA InitResolve == Init => SInv
  BY InitTyped, InitFaithful, InitDated DEF Init, SInv, KindOfPlan, ResolveFits

LEMMA ResolveInvariant ==
    ASSUME OneName = FALSE
    PROVE  SInv /\ [Next]_vars => SInv'
  BY TypedSteps, KindSteps, FaithfulSteps, DatedSteps, ResolveSteps DEF SInv

\* Where every repository has a name of its own, `merge --resolve` and its
\* `--all-conflicts` say they stopped only while a repository in their scope still lacks
\* its source: the passes never run out before the conflicts do (StopsAtUnfinished of
\* MergeTree; merge_resolve_all's limit of passes).
THEOREM StopsWhereUnfinished == ASSUME OneName = FALSE PROVE Spec => StopsAtUnfinished
<1>1. SInv /\ [Next]_vars => (at # "idle" /\ told'.result = "stopped" => \E r \in Scoped : ~Has(r)')
  <2> SUFFICES ASSUME SInv, [Next]_vars, at # "idle", told'.result = "stopped"
               PROVE  \E r \in Scoped : ~Has(r)'
    OBVIOUS
  <2>0. PICK p \in Repos : p = Place(turn)
    BY Places DEF SInv, Typed, Control
  <2>1. told.result = "nothing" /\ told \in Told
    BY DEF SInv, Typed, AtFits, Control
  <2>2. ASSUME p \in Scoped, ~Has(p), UNCHANGED <<tip, seen, on>> PROVE \E r \in Scoped : ~Has(r)'
    <3>1. ~Has(p)'
      BY <2>2 DEF Has, Ref, Contains
    <3> QED
      BY <2>2, <3>1
  <2>3. CASE Halt
    <3>1. /\ p \in Scoped /\ MergeStatus(p) \in {"conflicts", "unrelated"} /\ UNCHANGED <<tip, seen, on>>
      BY <2>0, <2>3 DEF Halt
    <3> QED
      BY <2>2, <3>1, HaltsAtUnfinished DEF SInv
  <2>4. CASE ToolLeaves
    <3>1. at = "tool" /\ UNCHANGED <<tip, seen, on>>
      BY <2>4 DEF ToolLeaves, refs
    <3>2. p \in Scoped /\ ~Has(p)
      BY <2>0, <3>1 DEF SInv, Typed, AtFits, ResolveFits
    <3> QED
      BY <2>2, <3>1, <3>2
  <2>5. ASSUME told'.result = told.result PROVE FALSE
    BY <2>1, <2>5
  <2>6. CASE Tool
    <3>1. told'.result = told.result
      BY <2>1, <2>6, ToolGoesOn DEF Told
    <3> QED
      BY <2>5, <3>1
  <2>7. CASE Act
    <3>1. told' = told \/ \E how : MergeOne(p, how)
      BY <2>0, <2>7 DEF Act
    <3>2. told' = told \/ told' = [told EXCEPT !.merged = @ \cup {p}]
      BY <3>1, ReportsItself DEF SInv
    <3> QED
      BY <2>1, <2>5, <3>2 DEF Told
  <2>8. CASE Visit
    <3>1. told' = told \/ \E how : MergeOne(p, how)
      BY <2>0, <2>8 DEF Visit
    <3>2. told' = told \/ told' = [told EXCEPT !.merged = @ \cup {p}]
      BY <3>1, ReportsItself DEF SInv
    <3> QED
      BY <2>1, <2>5, <3>2 DEF Told
  <2>9. CASE Ask
    <3>1. told' = told \/ told'.result = "refused"
      BY <2>9 DEF Ask, Over
    <3> QED
      BY <2>5, <3>1
  <2>10. CASE Checkout \/ UNCHANGED vars \/ \E r \in Repos : Work(r) \/ Settle(r, TRUE) \/ Settle(r, FALSE)
    <3>1. told' = told
      BY <2>10 DEF Checkout, vars, Work, Settle
    <3> QED
      BY <2>5, <3>1
  <2>11. CASE ActFails \/ Record \/ VisitFails \/ ToolFindsNothing \/ Fault
    <3>1. told'.result \in {"failed", "done"}
      BY <2>11 DEF ActFails, Record, VisitFails, ToolFindsNothing, Fault, Over
    <3> QED
      BY <3>1
  <2>12. CASE \E cmd \in Commands, scope \in Scopes, mode \in Modes : Start(cmd, scope, mode)
    BY <2>12 DEF Start
  <2> QED
    BY <2>3, <2>4, <2>6, <2>7, <2>8, <2>9, <2>10, <2>11, <2>12 DEF Next, Step
<1>2. SInv /\ [Next]_vars => [at # "idle" /\ told'.result = "stopped" => \E r \in Scoped : ~Has(r)']_vars
  BY <1>1
<1>3. SInv /\ [Next]_vars => SInv'
  BY ResolveInvariant
<1> QED
  BY <1>2, <1>3, InitResolve, PTL DEF Spec, StopsAtUnfinished

-----------------------------------------------------------------------------
(* Nothing is merged beside a conflict *)

NoConflict == at \in {"act", "merge"} => \A r \in Scoped : ~Conflicts(r)

CInv == DInv /\ KindOfPlan /\ AllFaithful /\ NoConflict

\* What was found of a repository says whether it conflicts.
LEMMA FateConflicts ==
    ASSUME Typed, AllFaithful, job.cmd \in {"merge", "into"}, NEW r \in Repos, Fate(r) \notin Stays
    PROVE  ~Conflicts(r)
<1> SUFFICES ASSUME r # Memory, Known(r, "source") PROVE ~Conflicts(r)
  BY DEF Conflicts
<1> DEFINE c == Ref(r, "source")
<1>1. /\ "source" \in Branch /\ "target" \in Branch /\ on[r] \in Branch
      /\ \A b \in Branch : /\ Ref(r, b) \in Held /\ Faithful(Ref(r, b))
                          /\ tip[r][b] \in Held /\ Faithful(tip[r][b])
      /\ \A b \in Branch : tip[r][b] # None => Ref(r, b) = tip[r][b]
  BY Copies, RefFaithful DEF AllFaithful, Typed, Branch, Data, Ref
<1>2. \A b \in Branch : tip[r][b].past # {} => tip[r][b] # None
  BY DEF None
<1>3. CASE job.cmd = "merge"
  <2>1. Fate(r) = MergeStatus(r)
    BY <1>3 DEF Fate
  <2>2. CASE on[r] = "source"
    <3>1. c = tip[r][on[r]]
      BY <1>1, <1>2, <2>2 DEF Typed, Present
    <3> QED
      BY <1>1, <1>3, <3>1, HeldDoNotCollide DEF Conflicts
  <2>3. CASE on[r] # "source"
    <3>1. ~Collide(r, tip[r][on[r]], c)
      BY <2>1, <2>3 DEF MergeStatus, Stays
    <3> QED
      BY <1>3, <3>1 DEF Conflicts
  <2> QED
    BY <2>2, <2>3
<1>4. CASE job.cmd = "into"
  <2>1. Fate(r) = IntoStatus(r)
    BY <1>4 DEF Fate
  <2>2. ~ShareNothing(r, "target")
    BY <2>1 DEF IntoStatus, Stays
  <2>3. tip[r]["target"] # None /\ Ref(r, "target") = tip[r]["target"]
    BY <1>1, <2>2 DEF ShareNothing, None
  <2>4. CASE Contains(tip[r]["target"], tip[r]["source"]) /\ tip[r]["source"] # None
    <3>1. c = tip[r]["source"] /\ c.past \subseteq tip[r]["target"].past
      BY <1>1, <2>4 DEF Contains
    <3> QED
      BY <1>1, <1>4, <2>3, <3>1, HeldDoNotCollide DEF Conflicts
  <2>5. CASE Contains(tip[r]["source"], tip[r]["target"])
    <3>1. tip[r]["source"] # None
      <4>1. tip[r]["target"].past # {}
        BY <1>1, <2>3 DEF Held, Commit, None
      <4> QED
        BY <2>5, <4>1 DEF Contains, None
    <3>2. c = tip[r]["source"] /\ tip[r]["target"].past \subseteq c.past
      BY <1>1, <2>5, <3>1 DEF Contains
    <3> QED
      BY <1>1, <1>4, <2>3, <3>2, HeldDoNotCollide DEF Conflicts
  <2>6. CASE ~Collide(r, tip[r]["target"], c)
    BY <1>4, <2>3, <2>6 DEF Conflicts
  <2> QED
    BY <2>1, <2>2, <2>4, <2>5, <2>6 DEF IntoStatus, Stays
<1> QED
  BY <1>3, <1>4

LEMMA ConflictsFrame ==
    ASSUME NEW r \in Repos, tip'[r] = tip[r], UNCHANGED <<seen, on, clash, job>>
    PROVE  Conflicts(r)' = Conflicts(r)
  BY DEF Conflicts, Known, Collide, Ref

LEMMA OthersSame ==
    ASSUME Typed, NEW r \in Repos, NEW how,
           MergeOne(r, how) \/ UNCHANGED <<tip, built, told>>, on' = on, seen' = seen
    PROVE  \A q \in Repos : q # r => tip'[q] = tip[q]
<1>1. CASE MergeOne(r, how)
  <2>1. PICK new \in Held : Leaves(r, how, new)
    BY <1>1, MergeOneDoes DEF Typed
  <2>2. Puts(r, new)
    BY <2>1 DEF Leaves, Puts
  <2> QED
    BY <2>2, PutsFits DEF Typed
<1> QED
  BY <1>1

LEMMA ConflictSteps ==
    ASSUME OneName = FALSE, Own = FALSE, CInv, [Next]_vars
    PROVE  NoConflict'
<1>0. PICK p \in Repos : p = Place(turn)
  BY Places DEF CInv, DInv, Typed, Control
<1>1. ASSUME at' \notin {"act", "merge"} PROVE NoConflict'
  BY <1>1 DEF NoConflict
<1>2. ASSUME UNCHANGED <<tip, seen, on, clash, job>>, at' = at PROVE NoConflict'
  <2>1. Scoped' = Scoped /\ Scoped \subseteq Repos
    BY <1>2, ScopeFits
  <2>2. \A r \in Scoped : Conflicts(r)' = Conflicts(r)
    BY <1>2, <2>1, ConflictsFrame
  <2> QED
    BY <1>2, <2>1, <2>2 DEF CInv, NoConflict
<1>3. CASE Ask
  <2> DEFINE fate == [r \in Repos |-> IF r \in Scoped THEN Fate(r) ELSE "up-to-date"]
  <2>1. CASE Refused(fate)
    BY <1>1, <1>3, <2>1 DEF Ask, Over
  <2>2. CASE ~Refused(fate)
    <3>1. UNCHANGED <<tip, seen, on, clash, job>> /\ at = "ask"
      BY <1>3, <2>2 DEF Ask, refs
    <3>2. Scoped' = Scoped /\ Scoped \subseteq Repos
      BY <3>1, ScopeFits
    <3>3. job.cmd \in {"merge", "into"}
      BY <3>1 DEF CInv, DInv, Typed, AtFits
    <3>4. \A r \in Scoped : Fate(r) \notin Stays
      BY <2>2, <3>2 DEF Refused
    <3>5. \A r \in Scoped : ~Conflicts(r)'
      BY <3>1, <3>2, <3>3, <3>4, FateConflicts, ConflictsFrame DEF CInv, DInv
    <3> QED
      BY <3>2, <3>5 DEF NoConflict
  <2> QED
    BY <2>1, <2>2
<1>4. CASE Checkout
  <2>1. /\ UNCHANGED <<seen, clash, job>> /\ job.cmd = "into" /\ at = "act"
    BY <1>4 DEF Checkout
  <2>2. Scoped' = Scoped /\ Scoped \subseteq Repos
    BY <2>1, ScopeFits
  <2>3. \A q \in Repos, b \in Branch : Ref(q, b)' = Ref(q, b)
    BY <1>4, <2>1, CheckoutMoves DEF Ref, CInv, DInv
  <2>4. \A r \in Scoped : Conflicts(r)' = Conflicts(r)
    <3> SUFFICES ASSUME NEW r \in Scoped PROVE Conflicts(r)' = Conflicts(r)
      OBVIOUS
    <3>1. Ref(r, "source")' = Ref(r, "source") /\ Ref(r, "target")' = Ref(r, "target")
      BY <2>2, <2>3 DEF Branch
    <3> QED
      BY <2>1, <3>1 DEF Conflicts, Known, Collide
  <2> QED
    BY <2>1, <2>2, <2>4 DEF CInv, NoConflict
<1>5. CASE Act
  <2>1. /\ on' = on /\ seen' = seen /\ clash' = clash /\ at \in {"act", "merge"} /\ Onward("act")
        /\ IF p \in Scoped /\ plan[p] \in Acts THEN MergeOne(p, plan[p]) ELSE UNCHANGED <<tip, built, told>>
        /\ (p \in Scoped /\ plan[p] \in Acts) => at = "merge" \/ job.cmd = "merge"
    BY <1>0, <1>5 DEF Act
  <2>2. job' = job /\ Scoped' = Scoped /\ Scoped \subseteq Repos
    BY <2>1, OnwardFits, ScopeFits DEF CInv, DInv, Typed, Control
  <2>3. \A q \in Scoped : q # p => ~Conflicts(q)'
    <3>1. \A q \in Repos : q # p => tip'[q] = tip[q]
      BY <2>1, OthersSame DEF CInv, DInv
    <3> QED
      BY <2>1, <2>2, <3>1, ConflictsFrame DEF CInv, NoConflict
  <2>4. p \in Scoped => ~Conflicts(p)'
    <3>1. CASE UNCHANGED <<tip, built, told>>
      BY <2>1, <2>2, <3>1, ConflictsFrame DEF CInv, NoConflict
    <3>2. CASE p \in Scoped /\ plan[p] \in Acts /\ p # Memory
      <4>1. on[p] = "target" /\ plan[p] # "kept" /\ MergeOne(p, plan[p])
        BY <1>0, <2>1, <3>2 DEF CInv, DInv, PlanSays, Typed, AtFits, KindOfPlan
      <4>2. Has(p)'
        BY <2>1, <4>1, MergedHas DEF CInv, DInv
      <4>3. AllFaithful' /\ Typed'
        BY TypedSteps, FaithfulSteps DEF CInv, DInv
      <4> DEFINE t == tip'[p]["target"]
                 c == Ref(p, "source")'
      <4>4. t \in Held /\ c \in Held /\ Faithful(t) /\ Faithful(c) /\ t.past # {}
        <5>1. tip'[p]["target"] \in Held /\ tip'[p]["source"] \in Held /\ seen'[p]["source"] \in Held
          BY <4>3 DEF Typed, Data, Branch
        <5>2. t.past # {}
          BY <2>1, <4>1, <4>3 DEF Typed, Present
        <5>3. c \in {tip'[p]["source"], seen'[p]["source"]}
          BY DEF Ref
        <5> QED
          BY <3>2, <4>3, <5>1, <5>2, <5>3 DEF AllFaithful, Branch
      <4>5. c.past \subseteq t.past
        BY <2>1, <4>1, <4>2 DEF Has, Contains
      <4>6. c.files \ t.files = {}
        BY <4>4, <4>5 DEF Faithful
      <4>7. Ref(p, "target")' = t
        BY <4>4 DEF Ref, None
      <4> HIDE DEF t, c
      <4>8. Conflicts(p)' => c.files \ t.files # {}
        BY <2>1, <4>1, <4>7 DEF Conflicts, Collide, t, c
      <4> QED
        BY <4>6, <4>8
    <3>3. CASE p = Memory
      BY <3>3 DEF Conflicts
    <3> QED
      BY <2>1, <3>1, <3>2, <3>3
  <2> QED
    BY <2>2, <2>3, <2>4 DEF NoConflict
<1>6. CASE Visit
  <2>1. at' \notin {"act", "merge"}
    BY <1>6, OnwardFits DEF Visit, CInv, DInv, Typed, Control
  <2> QED
    BY <1>1, <2>1
<1>7. CASE ActFails \/ Record \/ Halt \/ VisitFails \/ Tool \/ ToolLeaves \/ ToolFindsNothing \/ Fault
  <2>1. at' \notin {"act", "merge"}
    BY <1>7 DEF ActFails, Record, Halt, VisitFails, Tool, ToolLeaves, ToolFindsNothing, Fault, Over
  <2> QED
    BY <1>1, <2>1
<1>8. CASE \E cmd \in Commands, scope \in Scopes, mode \in Modes : Start(cmd, scope, mode)
  BY <1>1, <1>8 DEF Start
<1>9. CASE \E r \in Repos : Work(r) \/ Settle(r, TRUE) \/ Settle(r, FALSE)
  <2>1. at' = "idle"
    BY <1>9 DEF Work, Settle
  <2> QED
    BY <1>1, <2>1
<1>10. CASE UNCHANGED vars
  BY <1>2, <1>10 DEF vars, refs
<1> QED
  BY <1>3, <1>4, <1>5, <1>6, <1>7, <1>8, <1>9, <1>10 DEF Next, Step

LEMMA InitConflicts == Init => CInv
  BY InitDone, InitFaithful DEF Init, CInv, KindOfPlan, NoConflict

\* Where every repository has a name of its own and no one commits while a command
\* runs, `merge` and `merge --into` merge nothing while a repository of their scope
\* conflicts, wherever in the walk it comes (NothingMergedBesideAConflict of MergeTree;
\* the conflict check of merge_tree and merge_into_tree).
THEOREM ConflictsStopEverything ==
    ASSUME OneName = FALSE, Own = FALSE
    PROVE  Spec => NothingMergedBesideAConflict
<1>1. CInv /\ [Next]_vars =>
        (job.cmd \in {"merge", "into"} /\ told'.merged # told.merged /\ at' # "idle" => \A r \in Scoped : ~Conflicts(r))
  <2> SUFFICES ASSUME CInv, [Next]_vars, job.cmd \in {"merge", "into"}, told'.merged # told.merged, at' # "idle"
               PROVE  at \in {"act", "merge"}
    BY DEF CInv, NoConflict
  <2>1. at \notin {"idle", "visit", "tool"}
    BY DEF CInv, DInv, Typed, AtFits, NoJob
  <2>2. at # "ask"
    <3>1. told' = told \/ at' = "idle" \/ at # "ask"
      BY DEF Next, Step, Ask, Checkout, Act, ActFails, Record, Visit, Halt, VisitFails, Tool, ToolLeaves, ToolFindsNothing,
             Fault, Start, Work, Settle, vars, Over
    <3> QED
      BY <3>1
  <2>3. at # "record"
    <3>1. told' = told \/ at' = "idle" \/ at # "record"
      BY DEF Next, Step, Ask, Checkout, Act, ActFails, Record, Visit, Halt, VisitFails, Tool, ToolLeaves, ToolFindsNothing,
             Fault, Start, Work, Settle, vars, Over
    <3> QED
      BY <3>1
  <2> QED
    BY <2>1, <2>2, <2>3 DEF CInv, DInv, Typed, Control
<1>2. CInv /\ [Next]_vars =>
        [job.cmd \in {"merge", "into"} /\ told'.merged # told.merged /\ at' # "idle" => \A r \in Scoped : ~Conflicts(r)]_vars
  BY <1>1
<1>3. CInv /\ [Next]_vars => CInv'
  BY DoneSteps, KindSteps, FaithfulSteps, ConflictSteps DEF CInv, DInv
<1> QED
  BY <1>2, <1>3, InitConflicts, PTL DEF Spec, NothingMergedBesideAConflict

-----------------------------------------------------------------------------
(* A merge that ends did what it said *)

\* A target that is here holds what is known of origin's.
Level ==
    \A r \in Repos : tip[r]["target"] # None => seen[r]["target"].past \subseteq tip[r]["target"].past

\* A repository's fate is what was found of it, until the walk gets there.
PlanHolds ==
    /\ at = "act" => \A r \in Scoped : PlaceOf(r) >= turn => plan[r] = Fate(r) /\ plan[r] \notin Stays
    /\ at = "merge" => /\ \A r \in Scoped : PlaceOf(r) > turn => plan[r] = Fate(r) /\ plan[r] \notin Stays
                       /\ \A r \in Repos : r = Place(turn) /\ plan[r] = "already-merged" => Has(r)

Finished(r) ==
    /\ Has(r)
    /\ job.cmd = "into" /\ Known(r, "source") => on[r] = "target"

PassedFinished ==
    at \in {"act", "merge", "visit", "tool", "record"} => \A r \in Scoped : Passed(r) => Finished(r)

EInv == Typed /\ Level /\ PlanHolds /\ PassedFinished

LEMMA LevelSteps == ASSUME Typed, Level, [Next]_vars PROVE Level'
<1>1. CASE Checkout
  <2>1. seen' = seen
    BY <1>1 DEF Checkout
  <2>2. \A r \in Repos : tip'[r]["target"] \in {tip[r]["target"], seen[r]["target"]}
                       /\ (tip[r]["target"] # None => tip'[r]["target"] = tip[r]["target"])
    BY <1>1, CheckoutMoves DEF Branch
  <2> QED
    BY <2>1, <2>2 DEF Level
<1>2. CASE \A q \in Repos : Keeps(q)
  <2> SUFFICES ASSUME NEW r \in Repos, tip'[r]["target"] # None
               PROVE  seen'[r]["target"].past \subseteq tip'[r]["target"].past
    BY DEF Level
  <2>1. Keeps(r) /\ on[r] \in Branch
    BY <1>2 DEF Typed, Data
  <2>2. CASE on[r] = "target"
    <3>1. tip[r]["target"] # None
      BY <2>2 DEF Typed, Present, None
    <3> QED
      BY <2>1, <2>2, <3>1 DEF Level, Keeps
  <2>3. CASE on[r] # "target"
    BY <2>1, <2>3 DEF Level, Keeps, Branch
  <2> QED
    BY <2>2, <2>3
<1> QED
  BY <1>1, <1>2, StepKeeps

LEMMA FateFrame ==
    ASSUME NEW r \in Repos, tip'[r] = tip[r], on'[r] = on[r], UNCHANGED <<seen, clash, job>>
    PROVE  Fate(r)' = Fate(r) /\ Finished(r)' = Finished(r) /\ Has(r)' = Has(r)
<1>1. /\ \A b : Ref(r, b)' = Ref(r, b) /\ Newest(r, b)' = Newest(r, b) /\ Known(r, b)' = Known(r, b)
                /\ Torn(r, b)' = Torn(r, b)
  BY DEF Ref, Newest, Known, Torn, Contains, Diverged
<1>2. \A b : MemoryFate(r, b)' = MemoryFate(r, b) /\ ShareNothing(r, b)' = ShareNothing(r, b)
  BY <1>1 DEF MemoryFate, ShareNothing, Contains
<1>3. \A a, b : Collide(r, a, b)' = Collide(r, a, b)
  BY DEF Collide
<1>4. MergeStatus(r)' = MergeStatus(r)
  BY <1>1, <1>2, <1>3 DEF MergeStatus
<1>5. IntoStatus(r)' = IntoStatus(r)
  BY <1>1, <1>2, <1>3 DEF IntoStatus, Contains
<1>6. Has(r)' = Has(r)
  BY <1>1 DEF Has, Contains
<1> QED
  BY <1>1, <1>4, <1>5, <1>6 DEF Fate, Finished

\* The newest copy of a level branch is the local one, where there is one.
LEMMA NewestOfLevel ==
    ASSUME Typed, Level, NEW r \in Repos
    PROVE  Newest(r, "target") = Ref(r, "target")
<1>1. tip[r]["target"] \in Held /\ seen[r]["target"] \in Held /\ seen[r]["target"].past # {}
  BY DEF Typed, Data, Present, Branch
<1>2. CASE tip[r]["target"] = None
  BY <1>1, <1>2 DEF Newest, Contains, Ref, None
<1>3. CASE tip[r]["target"] # None
  BY <1>1, <1>3 DEF Newest, Contains, Ref, Level
<1> QED
  BY <1>2, <1>3

LEMMA TargetIsHere ==
    ASSUME Typed, NEW r \in Repos, on[r] = "target"
    PROVE  tip[r]["target"] # None /\ Ref(r, "target") = tip[r]["target"]
  BY DEF Typed, Present, None, Ref

\* After its merge, a repository has its source.
LEMMA MergedEnds ==
    ASSUME Typed, Level, NEW r \in Repos, on[r] = "target", NEW how, MergeOne(r, how), on' = on, seen' = seen
    PROVE  Has(r)'
<1>1. PICK new \in Held : Leaves(r, how, new)
  BY MergeOneDoes DEF Typed
<1>2. Puts(r, new)
  BY <1>1 DEF Leaves, Puts
<1>3. tip'[r]["target"] = new /\ tip'[r]["source"] = tip[r]["source"]
  BY <1>2, PutsFits DEF Typed, Branch
<1>4. Ref(r, "source")' = Ref(r, "source")
  BY <1>3 DEF Ref
<1>5. Ref(r, "source").past \subseteq new.past
  <2>1. CASE how # "kept" \/ new # tip[r][on[r]]
    BY <1>1, <2>1 DEF Leaves
  <2>2. CASE how = "kept" /\ new = tip[r][on[r]]
    <3>1. ~Torn(r, "source") /\ Contains(Newest(r, "target"), Newest(r, "source"))
      BY <1>1, <2>2 DEF Leaves
    <3>2. Newest(r, "target") = tip[r]["target"]
      BY NewestOfLevel, TargetIsHere
    <3>3. Ref(r, "source").past \subseteq Newest(r, "source").past
      BY <3>1, NewestHolds DEF Typed, Branch
    <3> QED
      BY <2>2, <3>1, <3>2, <3>3 DEF Contains
  <2> QED
    BY <2>1, <2>2
<1> QED
  BY <1>3, <1>4, <1>5 DEF Has, Contains

\* The memory is up to date when its target has its source.
LEMMA UpToDateHas ==
    ASSUME Typed, Level, NEW r \in Repos, MemoryFate(r, "target") = "up-to-date"
    PROVE  Ref(r, "source").past \subseteq Ref(r, "target").past
<1>1. ~Torn(r, "source") /\ Contains(Newest(r, "target"), Newest(r, "source"))
  BY DEF MemoryFate
<1>2. Ref(r, "source").past \subseteq Newest(r, "source").past
  BY <1>1, NewestHolds DEF Typed, Branch
<1> QED
  BY <1>1, <1>2, NewestOfLevel DEF Contains

LEMMA LeftAloneHas ==
    ASSUME Typed, Level, NEW r \in Repos,
           MergeStatus(r) \notin {"merge", "kept", "conflicts", "unrelated", "diverged"}
    PROVE  Has(r)
<1>1. CASE MergeStatus(r) \in {"already-on-it", "no-branch"}
  BY <1>1, MergeStatusSays
<1>2. CASE MergeStatus(r) = "up-to-date"
  <2>1. on[r] = "target" /\ MemoryFate(r, "target") = "up-to-date"
    BY <1>2 DEF MergeStatus, Typed, Data, Branch
  <2>2. Ref(r, "source").past \subseteq tip[r]["target"].past
    BY <2>1, UpToDateHas, TargetIsHere
  <2> QED
    BY <2>1, <2>2 DEF Has, Contains
<1> QED
  BY <1>1, <1>2, MergeStatusSays

\* `--into` says a repository is merged already when its target has its source.
LEMMA AlreadyMergedHas ==
    ASSUME Typed, Level, NEW r \in Repos, IntoStatus(r) = "already-merged"
    PROVE  Ref(r, "source").past \subseteq Ref(r, "target").past
<1>1. CASE r = Memory
  <2>1. MemoryFate(r, "target") = "up-to-date"
    BY <1>1 DEF IntoStatus, MemoryFate
  <2> QED
    BY <2>1, UpToDateHas
<1>2. CASE r # Memory
  <2>1. ~ShareNothing(r, "target") /\ Contains(tip[r]["target"], tip[r]["source"]) /\ tip[r]["source"] # None
    BY <1>2 DEF IntoStatus, MemoryFate
  <2>2. tip[r]["target"] # None
    BY <2>1 DEF ShareNothing, None
  <2> QED
    BY <2>1, <2>2 DEF Ref, Contains
<1> QED
  BY <1>1, <1>2

LEMMA IntoLeftAlone ==
    ASSUME NEW r \in Repos, IntoStatus(r) \notin Stays, IntoStatus(r) \notin Acts \cup {"already-merged"}
    PROVE  ~Known(r, "source")
  BY DEF IntoStatus, MemoryFate, Stays, Acts

\* One step of a walk: the repository visited is finished, the others are as they were.
LEMMA WalkEnds ==
    ASSUME EInv, at \in {"act", "merge", "visit"}, NEW step \in {"act", "visit"}, Onward(step),
           NEW p \in Repos, p = Place(turn), p \in Scoped => Finished(p)',
           \A q \in Repos : q # p => tip'[q] = tip[q], UNCHANGED <<seen, on, clash, plan>>,
           step = "act" => at # "visit"
    PROVE  (PlanHolds /\ PassedFinished)'
<1>1. turn \in Repos /\ PlaceOf(p) = turn /\ Scoped \subseteq Repos
  BY Places, ScopeFits DEF EInv, Typed, Control
<1>2. job' = job /\ Scoped' = Scoped /\ turn' \in Repos
      /\ \/ at' = step /\ turn < NRepos /\ turn' = turn + 1
         \/ at' = "record" /\ turn = NRepos /\ turn' = turn
  BY <1>1, OnwardFits, ScopeFits
<1>3. \A q \in Repos : q # p => Fate(q)' = Fate(q) /\ Finished(q)' = Finished(q)
  BY <1>2, FateFrame
<1>4. \A q \in Repos : PlaceOf(q)' = PlaceOf(q) /\ PlaceOf(q) \in Repos /\ (q # p => PlaceOf(q) # turn)
  BY Places DEF PlaceOf
<1>5. ASSUME NEW q \in Scoped, Passed(q)' PROVE Finished(q)'
  <2>1. PlaceOf(q) <= turn
    BY <1>1, <1>2, <1>4, <1>5 DEF Passed, Repos
  <2>2. CASE q = p
    BY <1>5, <2>2
  <2>3. CASE q # p
    <3>1. PlaceOf(q) < turn
      BY <1>1, <1>4, <2>1, <2>3 DEF Repos
    <3> QED
      BY <1>1, <1>3, <2>3, <3>1 DEF EInv, PassedFinished, Passed
  <2> QED
    BY <2>2, <2>3
<1>6. PlanHolds'
  <2>1. ASSUME at' = "act", NEW q \in Scoped, PlaceOf(q) >= turn' PROVE plan[q] = Fate(q)' /\ plan[q] \notin Stays
    <3>1. at \in {"act", "merge"} /\ turn' = turn + 1
      BY <1>2, <2>1
    <3>2. PlaceOf(q) > turn /\ PlaceOf(q) >= turn
      BY <1>1, <1>4, <2>1, <3>1 DEF Repos
    <3>3. q # p
      BY <1>1, <3>2 DEF Repos
    <3> QED
      BY <1>1, <1>3, <3>1, <3>2, <3>3 DEF EInv, PlanHolds
  <2>2. at' # "merge"
    BY <1>2
  <2> QED
    BY <1>1, <1>2, <1>4, <2>1, <2>2 DEF PlanHolds, Stays
<1> QED
  BY <1>2, <1>5, <1>6 DEF PassedFinished

LEMMA AskEnds == ASSUME OneName = FALSE, EInv, Ask PROVE (PlanHolds /\ PassedFinished)'
<1> DEFINE fate == [r \in Repos |-> IF r \in Scoped THEN Fate(r) ELSE "up-to-date"]
<1>1. CASE Refused(fate)
  <2>1. at' = "idle"
    BY <1>1 DEF Ask, Over
  <2> QED
    BY <2>1 DEF PlanHolds, PassedFinished
<1>2. CASE ~Refused(fate)
  <2>1. /\ at' = "act" /\ turn' = 1 /\ UNCHANGED <<tip, seen, on, clash, job>>
        /\ plan' = [r \in Repos |-> PlanOf(fate, r)]
    BY <1>2 DEF Ask, refs
  <2>2. Scoped' = Scoped /\ Scoped \subseteq Repos
    BY <2>1, ScopeFits
  <2>3. \A r \in Scoped : plan'[r] = Fate(r) /\ plan'[r] \notin Stays
    <3>1. fate \in [Repos -> Status]
      BY FateFits DEF Status
    <3>2. \A r \in Repos : plan'[r] = fate[r]
      BY <2>1, <3>1, PlanOfFits
    <3>3. \A r \in Scoped : fate[r] = Fate(r) /\ fate[r] \notin Stays
      BY <1>2, <2>2 DEF Refused
    <3> QED
      BY <2>2, <3>2, <3>3
  <2>4. \A r \in Repos : Fate(r)' = Fate(r)
    BY <2>1, FateFrame
  <2>5. \A r \in Repos : ~Passed(r)'
    <3>1. \A r \in Repos : PlaceOf(r)' = PlaceOf(r) /\ PlaceOf(r) \in Repos
      BY Places DEF PlaceOf
    <3> QED
      BY <2>1, <3>1 DEF Passed, Repos
  <2> QED
    BY <2>1, <2>2, <2>3, <2>4, <2>5 DEF PlanHolds, PassedFinished, Stays
<1> QED
  BY <1>1, <1>2

LEMMA CheckoutEnds == ASSUME EInv, Checkout PROVE (PlanHolds /\ PassedFinished)'
<1>0. PICK p \in Repos : p = Place(turn)
  BY Places DEF EInv, Typed, Control
<1>1. /\ at = "act" /\ at' = "merge" /\ UNCHANGED <<seen, clash, job, turn, plan>> /\ job.cmd = "into"
      /\ p \in Scoped /\ plan[p] \in Acts \cup {"already-merged"}
      /\ on' = [on EXCEPT ![p] = "target"]
  BY <1>0 DEF Checkout
<1>2. Scoped' = Scoped /\ Scoped \subseteq Repos /\ turn \in Repos /\ PlaceOf(p) = turn /\ p = Place(turn)'
  BY <1>0, <1>1, ScopeFits, Places DEF Place, EInv, Typed, Control
<1>3. \A q \in Repos : q # p => Fate(q)' = Fate(q) /\ Finished(q)' = Finished(q)
  <2> SUFFICES ASSUME NEW q \in Repos, q # p PROVE tip'[q] = tip[q] /\ on'[q] = on[q]
    BY <1>1, FateFrame
  <2>1. \A b \in Branch : tip'[q][b] = tip[q][b]
    BY <1>0, CheckoutMoves DEF EInv
  <2>2. tip'[q] \in [Branch -> Held] /\ tip[q] \in [Branch -> Held]
    BY CheckoutMoves DEF EInv, Typed, Data
  <2> QED
    BY <1>1, <2>1, <2>2 DEF EInv, Typed, Data
<1>4. ASSUME plan[p] = "already-merged" PROVE Has(p)'
  <2>1. Fate(p) = "already-merged"
    BY <1>1, <1>2, <1>4 DEF EInv, PlanHolds, Repos
  <2>2. Ref(p, "source").past \subseteq Ref(p, "target").past
    BY <1>1, <2>1, AlreadyMergedHas DEF Fate, EInv
  <2>3. tip'[p]["target"] = Ref(p, "target") /\ tip'[p]["source"] = tip[p]["source"]
    BY <1>0, CheckoutMoves DEF Ref, EInv, Branch
  <2>4. Ref(p, "source")' = Ref(p, "source") /\ on'[p] = "target"
    BY <1>1, <2>3 DEF Ref, EInv, Typed, Data
  <2> QED
    BY <2>2, <2>3, <2>4 DEF Has, Contains
<1>5. \A q \in Repos : PlaceOf(q)' = PlaceOf(q) /\ PlaceOf(q) \in Repos
  BY Places DEF PlaceOf
<1>6. ASSUME NEW q \in Scoped, PlaceOf(q) > turn PROVE plan[q] = Fate(q)' /\ plan[q] \notin Stays
  <2>1. q # p /\ PlaceOf(q) >= turn
    BY <1>2, <1>5, <1>6 DEF Repos
  <2> QED
    BY <1>1, <1>2, <1>3, <2>1 DEF EInv, PlanHolds
<1>7. ASSUME NEW q \in Scoped, Passed(q)' PROVE Finished(q)'
  <2>1. PlaceOf(q) < turn
    BY <1>1, <1>2, <1>5, <1>7 DEF Passed
  <2>2. q # p
    BY <1>2, <2>1 DEF Repos
  <2> QED
    BY <1>1, <1>2, <1>3, <2>1, <2>2 DEF EInv, PassedFinished, Passed
<1>8. \A q \in Repos : q = Place(turn)' /\ plan'[q] = "already-merged" => Has(q)'
  BY <1>1, <1>2, <1>4
<1>9. PlanHolds'
  BY <1>1, <1>2, <1>5, <1>6, <1>8 DEF PlanHolds, Stays
<1> QED
  BY <1>1, <1>2, <1>7, <1>9 DEF PassedFinished

LEMMA ActEnds == ASSUME EInv, Act PROVE (PlanHolds /\ PassedFinished)'
<1>0. PICK p \in Repos : p = Place(turn)
  BY Places DEF EInv, Typed, Control
<1>1. /\ on' = on /\ UNCHANGED <<seen, clash, plan>> /\ at \in {"act", "merge"} /\ Onward("act")
      /\ IF p \in Scoped /\ plan[p] \in Acts THEN MergeOne(p, plan[p]) ELSE UNCHANGED <<tip, built, told>>
      /\ at = "act" /\ p \in Scoped /\ plan[p] \in Acts \cup {"already-merged"} => job.cmd = "merge"
  BY <1>0 DEF Act
<1>2. \A q \in Repos : q # p => tip'[q] = tip[q]
  BY <1>1, OthersSame DEF EInv
<1>3. job' = job /\ job.cmd \in {"merge", "into"} /\ turn \in Repos /\ PlaceOf(p) = turn
  BY <1>0, <1>1, OnwardFits, Places DEF EInv, Typed, Control, AtFits
<1>4. ASSUME p \in Scoped PROVE Finished(p)'
  <2>1. CASE at = "merge"
    <3>1. on[p] = "target" /\ (plan[p] \in Acts \/ (plan[p] = "already-merged" /\ Has(p)))
      <4>1. on[p] = "target" /\ plan[p] \in Acts \cup {"already-merged"}
        BY <1>0, <2>1 DEF EInv, Typed, AtFits
      <4>2. plan[p] = "already-merged" => Has(p)
        BY <1>0, <2>1 DEF EInv, PlanHolds
      <4> QED
        BY <4>1, <4>2
    <3>2. CASE plan[p] \in Acts
      <4>1. Has(p)'
        BY <1>1, <1>4, <3>1, <3>2, MergedEnds DEF EInv
      <4> QED
        BY <1>1, <3>1, <4>1 DEF Finished
    <3>3. CASE plan[p] \notin Acts
      <4>1. Has(p)'
        BY <1>1, <1>3, <3>1, <3>3, FateFrame
      <4> QED
        BY <1>1, <3>1, <4>1 DEF Finished
    <3> QED
      BY <3>2, <3>3
  <2>2. CASE at = "act"
    <3>1. plan[p] = Fate(p) /\ plan[p] \notin Stays
      BY <1>3, <1>4, <2>2 DEF EInv, PlanHolds, Repos
    <3>2. CASE job.cmd = "merge"
      <4>1. plan[p] = MergeStatus(p)
        BY <3>1, <3>2 DEF Fate
      <4>2. CASE plan[p] \in Acts
        <5>1. MergeStatus(p) # "fast-forward"
          BY DEF MergeStatus, MemoryFate
        <5>2. on[p] = "target"
          BY <4>1, <4>2, <5>1, MergeStatusSays DEF Acts, EInv
        <5>3. Has(p)'
          BY <1>1, <1>4, <4>2, <5>2, MergedEnds DEF EInv
        <5> QED
          BY <1>3, <3>2, <5>3 DEF Finished
      <4>3. CASE plan[p] \notin Acts
        <5>1. Has(p)
          BY <3>1, <4>1, <4>3, LeftAloneHas DEF Acts, Stays, EInv
        <5>2. Has(p)'
          BY <1>1, <1>3, <4>3, <5>1, FateFrame
        <5> QED
          BY <1>3, <3>2, <5>2 DEF Finished
      <4> QED
        BY <4>2, <4>3
    <3>3. CASE job.cmd = "into"
      <4>1. plan[p] \notin Acts \cup {"already-merged"} /\ plan[p] = IntoStatus(p)
        BY <1>1, <1>4, <2>2, <3>1, <3>3 DEF Fate
      <4>2. ~Known(p, "source")
        BY <3>1, <4>1, IntoLeftAlone
      <4>3. Finished(p)
        BY <4>2 DEF Finished, Has, Known, Contains, None
      <4> QED
        BY <1>1, <1>3, <4>1, <4>3, FateFrame
    <3> QED
      BY <1>3, <3>2, <3>3
  <2> QED
    BY <1>1, <2>1, <2>2
<1> QED
  BY <1>0, <1>1, <1>2, <1>4, WalkEnds

LEMMA VisitEnds == ASSUME EInv, Visit PROVE (PlanHolds /\ PassedFinished)'
<1>0. PICK p \in Repos : p = Place(turn)
  BY Places DEF EInv, Typed, Control
<1> DEFINE how == IF p \in Scoped THEN MergeStatus(p) ELSE "up-to-date"
<1>1. /\ on' = on /\ UNCHANGED <<seen, clash, plan>> /\ at = "visit" /\ Onward("visit")
      /\ IF how \in {"merge", "kept"} THEN MergeOne(p, how) ELSE UNCHANGED <<tip, built, told>>
      /\ how \notin {"conflicts", "unrelated", "diverged"}
  BY <1>0 DEF Visit
<1>2. p \in Scoped => how = MergeStatus(p)
  OBVIOUS
<1> HIDE DEF how
<1>3. \A q \in Repos : q # p => tip'[q] = tip[q]
  BY <1>1, OthersSame DEF EInv
<1>4. job' = job /\ job.cmd \notin {"merge", "into"}
  BY <1>1, OnwardFits DEF EInv, Typed, Control, AtFits
<1>5. ASSUME p \in Scoped PROVE Finished(p)'
  <2>1. CASE how \in {"merge", "kept"}
    <3>1. on[p] = "target"
      BY <1>2, <1>5, <2>1, MergeStatusSays DEF EInv
    <3> QED
      BY <1>1, <1>4, <2>1, <3>1, MergedEnds DEF EInv, Finished
  <2>2. CASE how \notin {"merge", "kept"}
    <3>1. Has(p)
      BY <1>1, <1>2, <1>5, <2>2, LeftAloneHas DEF EInv
    <3>2. Has(p)'
      BY <1>1, <1>4, <2>2, <3>1, FateFrame
    <3> QED
      BY <1>4, <3>2 DEF Finished
  <2> QED
    BY <2>1, <2>2
<1> QED
  BY <1>0, <1>1, <1>3, <1>5, WalkEnds

LEMMA EndSteps ==
    ASSUME OneName = FALSE, Own = FALSE, EInv, [Next]_vars
    PROVE  (PlanHolds /\ PassedFinished)'
<1>1. ASSUME at' = "idle" PROVE (PlanHolds /\ PassedFinished)'
  BY <1>1 DEF PlanHolds, PassedFinished
<1>2. CASE Ask
  BY <1>2, AskEnds
<1>3. CASE Checkout
  BY <1>3, CheckoutEnds
<1>4. CASE Act
  BY <1>4, ActEnds
<1>5. CASE Visit
  BY <1>5, VisitEnds
<1>6. CASE ActFails \/ Record \/ VisitFails \/ ToolLeaves \/ ToolFindsNothing \/ Fault
  BY <1>1, <1>6 DEF ActFails, Record, VisitFails, ToolLeaves, ToolFindsNothing, Fault, Over
<1>7. CASE Halt
  <2>1. CASE at' = "idle"
    BY <1>1, <2>1
  <2>2. CASE at' # "idle"
    <3>1. UNCHANGED <<tip, seen, on, clash, job, turn>> /\ at = "visit" /\ at' = "tool"
      BY <1>7, <2>2 DEF Halt, Over
    <3>2. Scoped' = Scoped /\ Scoped \subseteq Repos /\ \A q \in Repos : PlaceOf(q)' = PlaceOf(q)
      BY <3>1, ScopeFits DEF PlaceOf
    <3>3. \A q \in Repos : Finished(q)' = Finished(q) /\ (Passed(q)' <=> Passed(q))
      BY <3>1, <3>2, FateFrame DEF Passed
    <3> QED
      BY <3>1, <3>2, <3>3 DEF EInv, PlanHolds, PassedFinished
  <2> QED
    BY <2>1, <2>2
<1>8. CASE Tool
  <2>1. at' = "idle" \/ (at' = "visit" /\ turn' = 1)
    BY <1>8 DEF Tool, Over
  <2>2. \A q \in Repos : PlaceOf(q)' = PlaceOf(q) /\ PlaceOf(q) \in Repos
    BY Places DEF PlaceOf
  <2>3. Scoped' \subseteq Repos
    BY DEF Scoped
  <2> QED
    BY <1>1, <2>1, <2>2, <2>3 DEF PlanHolds, PassedFinished, Passed, Repos
<1>9. CASE \E cmd \in Commands, scope \in Scopes, mode \in Modes : Start(cmd, scope, mode)
  <2>1. at' \in {"ask", "visit"} /\ turn' = 1
    BY <1>9 DEF Start
  <2>2. \A q \in Repos : PlaceOf(q)' = PlaceOf(q) /\ PlaceOf(q) \in Repos
    BY Places DEF PlaceOf
  <2>3. Scoped' \subseteq Repos
    BY DEF Scoped
  <2> QED
    BY <2>1, <2>2, <2>3 DEF PlanHolds, PassedFinished, Passed, Repos
<1>10. CASE \E r \in Repos : Work(r) \/ Settle(r, TRUE) \/ Settle(r, FALSE)
  <2>1. at' = "idle"
    BY <1>10 DEF Work, Settle
  <2> QED
    BY <1>1, <2>1
<1>11. CASE UNCHANGED vars
  <2>1. UNCHANGED <<tip, seen, on, clash, job, turn, at, plan>>
    BY <1>11 DEF vars, refs
  <2>2. /\ Scoped' = Scoped /\ Scoped \subseteq Repos /\ Place(turn)' = Place(turn) /\ Place(turn) \in Repos
        /\ \A q \in Repos : PlaceOf(q)' = PlaceOf(q)
    BY <2>1, ScopeFits, Places DEF PlaceOf, Place, EInv, Typed, Control
  <2>3. \A q \in Repos : /\ Finished(q)' = Finished(q) /\ (Passed(q)' <=> Passed(q)) /\ Fate(q)' = Fate(q)
                        /\ Has(q)' = Has(q)
    BY <2>1, <2>2, FateFrame DEF Passed
  <2>4. PlanHolds'
    <3>1. at = "merge" => \A q \in Repos : q = Place(turn)' /\ plan'[q] = "already-merged" => Has(q)'
      BY <2>1, <2>2, <2>3 DEF EInv, PlanHolds
    <3> QED
      BY <2>1, <2>2, <2>3, <3>1 DEF EInv, PlanHolds, Stays
  <2> QED
    BY <2>1, <2>2, <2>3, <2>4 DEF EInv, PassedFinished
<1> QED
  BY <1>2, <1>3, <1>4, <1>5, <1>6, <1>7, <1>8, <1>9, <1>10, <1>11 DEF Next, Step

LEMMA InitEnds ==
    ASSUME "behind" \notin Targets
    PROVE  Init => EInv
<1> SUFFICES ASSUME Init PROVE EInv
  OBVIOUS
<1>1. PICK how \in [Repos -> Sources], where \in [Repos -> Targets], far \in SUBSET Repos, start \in Branch :
        Stands(how, where, far, start)
  BY DEF Init
<1>2. \A r \in Repos : tip[r]["target"] \in {None, C({0, 1})} /\ seen[r]["target"] = C({0, 1})
  <2>1. \A r \in Repos : where[r] # "behind"
    OBVIOUS
  <2> QED
    BY <1>1, <2>1 DEF Stands, Branch
<1>3. Level
  BY <1>2 DEF Level
<1> QED
  BY <1>3, InitTyped DEF Init, EInv, PlanHolds, PassedFinished

\* Where every repository has a name of its own, no one commits while a command runs and
\* no target is behind its upstream, a merge that ends has given every repository of its
\* scope its source, and `--into` left on the target each that has one (EndsWhereItSaid
\* of MergeTree).
THEOREM EndsAsSaid ==
    ASSUME OneName = FALSE, Own = FALSE, "behind" \notin Targets
    PROVE  Spec => []EndsWhereItSaid
<1>1. EInv /\ [Next]_vars => EInv'
  BY TypedSteps, LevelSteps, EndSteps DEF EInv
<1>2. EInv => EndsWhereItSaid
  BY DEF EInv, PassedFinished, Passed, Finished, EndsWhereItSaid
<1> QED
  BY <1>1, <1>2, InitEnds, PTL DEF Spec
=============================================================================
