--------------------------- MODULE WorkspaceProofs ---------------------------
(****************************************************************************)
(* Proofs about an install (Install.tla), for every tree of repositories:   *)
(* what is cleared, what a refusal leaves, and what a tree that is saved is *)
(* on disk; and about a workspace that is moved (Resync.tla): what becomes  *)
(* of the user's work, and what a refusal or a State that is saved says.    *)
(* The models' instances are checked in MCWorkspace.tla.                    *)
(****************************************************************************)
EXTENDS MCWorkspace, FiniteSetTheorems, TLAPS

-----------------------------------------------------------------------------
(* The tree of repositories *)

\* A subset of 1..n that holds 1 and climbs holds n.
LEMMA Climb ==
    ASSUME NEW n \in Nat, NEW S \in SUBSET (1..n), 1 \in S, \A m \in S : m < n => m + 1 \in S
    PROVE  n \in S
<1> SUFFICES ASSUME n \notin S PROVE FALSE
  OBVIOUS
<1> DEFINE up == [m \in S |-> m + 1]
<1>1. IsFiniteSet(S)
  <2>1. IsFiniteSet(1..n)
    BY FS_Interval
  <2> QED
    BY <2>1, FS_Subset
<1>2. \A m \in S : m \in Nat /\ m < n /\ m >= 1
  OBVIOUS
<1>3. up \in Injection(S, S)
  BY <1>2 DEF Injection, IsInjective
<1>4. up \in Surjection(S, S)
  BY <1>1, <1>3, FS_Injection
<1>5. \E m \in S : up[m] = 1
  BY <1>4 DEF Surjection
<1> QED
  BY <1>2, <1>5

\* Some places have a first one.
LEMMA Least ==
    ASSUME NEW n \in Nat, NEW S \in SUBSET (1..n), S # {}
    PROVE  \E m \in S : \A k \in S : m <= k
<1> SUFFICES ASSUME ~\E m \in S : \A k \in S : m <= k PROVE FALSE
  OBVIOUS
<1> DEFINE U == {m \in 1..n : \A k \in S : m <= k}
<1>1. n \in Nat /\ n >= 1 /\ 1 \in U
  <2>1. PICK k \in S : k \in 1..n
    OBVIOUS
  <2> QED
    BY <2>1
<1>2. \A m \in U : m < n => m + 1 \in U
  <2> SUFFICES ASSUME NEW m \in U, m < n PROVE m + 1 \in U
    OBVIOUS
  <2>1. m \notin S
    OBVIOUS
  <2>2. \A k \in S : m < k
    BY <2>1
  <2> QED
    BY <2>2
<1>3. n \in U
  <2>1. U \in SUBSET (1..n)
    OBVIOUS
  <2> HIDE DEF U
  <2> QED
    BY <1>1, <1>2, <2>1, Climb
<1>4. \A k \in S : n <= k /\ k <= n
  BY <1>3
<1>5. PICK k \in S : k = n
  <2>1. PICK k \in S : k \in 1..n
    OBVIOUS
  <2> QED
    BY <1>4, <2>1
<1> QED
  BY <1>4, <1>5

LEMMA Tree ==
    /\ Root \in Repo /\ Memory \in Repo /\ Memory # Root
    /\ \A r \in Repo : Place[r] \in 1..Len(Repos) /\ Repos[Place[r]] = r
    /\ \A r \in Repo : Parent[r] \in Repo
    /\ \A r \in Repo \ {Root} : Place[Parent[r]] < Place[r]
<1>1. Len(Repos) \in Nat /\ Len(Repos) >= 1 /\ DOMAIN Repos = 1..Len(Repos)
  BY InstallAssumption
<1>2. Root \in Repo
  BY <1>1 DEF Root, Repo, ToSet
<1>3. ASSUME NEW r \in Repo PROVE Place[r] \in 1..Len(Repos) /\ Repos[Place[r]] = r
  <2>1. \E i \in DOMAIN Repos : Repos[i] = r
    BY DEF Repo, ToSet
  <2>2. Place[r] = CHOOSE i \in DOMAIN Repos : Repos[i] = r
    BY DEF Place
  <2> QED
    BY <1>1, <2>1, <2>2
<1>4. Memory \in Repo /\ Memory # Root /\ \A r \in Repo : Parent[r] \in Repo
  BY InstallAssumption
<1>5. \A r \in Repo \ {Root} : Place[Parent[r]] < Place[r]
  BY InstallAssumption
<1> QED
  BY <1>2, <1>3, <1>4, <1>5

\* The first of some repositories is one of them, and before the others.
LEMMA FirstIs ==
    ASSUME NEW S \in SUBSET Repo, S # {}
    PROVE  First(S) \in S /\ \A k \in S : Place[First(S)] <= Place[k]
<1> DEFINE at0 == {Place[r] : r \in S}
<1>1. at0 \in SUBSET (1..Len(Repos)) /\ at0 # {} /\ Len(Repos) \in Nat
  BY Tree, InstallAssumption
<1>2. PICK m \in at0 : \A k \in at0 : m <= k
  <2> HIDE DEF at0
  <2> QED
    BY <1>1, Least
<1>3. PICK r \in S : m = Place[r]
  BY <1>2
<1>4. \A k \in S : Place[r] <= Place[k]
  BY <1>2, <1>3
<1>5. \E x \in S : \A k \in S : Place[x] <= Place[k]
  BY <1>3, <1>4
<1> QED
  BY <1>5 DEF First

\* What is in a repository: itself, what is in what is in it, and nothing else.
LEMMA BeneathIs ==
    ASSUME NEW r \in Repo
    PROVE  /\ Beneath[r] \in SUBSET Repo /\ r \in Beneath[r]
           /\ \A k \in Repo \ {Root} : Parent[k] \in Beneath[r] => k \in Beneath[r]
           /\ \A S \in SUBSET Repo : r \in S /\ Closed(S) => Beneath[r] \subseteq S
<1>1. Beneath[r] = {k \in Repo : \A S \in SUBSET Repo : r \in S /\ Closed(S) => k \in S}
  BY DEF Beneath
<1>2. ASSUME NEW k \in Repo \ {Root}, Parent[k] \in Beneath[r] PROVE k \in Beneath[r]
  <2>1. \A S \in SUBSET Repo : r \in S /\ Closed(S) => Parent[k] \in S
    BY <1>1, <1>2
  <2>2. \A S \in SUBSET Repo : r \in S /\ Closed(S) => k \in S
    BY <2>1 DEF Closed
  <2> QED
    BY <1>1, <2>2
<1> QED
  BY <1>1, <1>2

\* The root is in no other repository.
LEMMA RootApart == ASSUME NEW r \in Repo \ {Root} PROVE Root \notin Beneath[r]
<1>1. Repo \ {Root} \in SUBSET Repo /\ Closed(Repo \ {Root})
  BY DEF Closed
<1> QED
  BY <1>1, BeneathIs

\* All is in the root.
LEMMA RootHoldsAll == ASSUME NEW S \in SUBSET Repo, Root \in S, Closed(S) PROVE S = Repo
<1> SUFFICES ASSUME Repo \ S # {} PROVE FALSE
  OBVIOUS
<1> DEFINE f == First(Repo \ S)
<1>1. f \in Repo \ S /\ \A k \in Repo \ S : Place[f] <= Place[k]
  BY FirstIs
<1>2. f # Root /\ Parent[f] \in Repo /\ Place[Parent[f]] < Place[f]
  BY <1>1, Tree
<1> HIDE DEF f
<1>3. Parent[f] \in S
  <2>1. Parent[f] \notin Repo \ S
    BY <1>1, <1>2, Tree
  <2> QED
    BY <1>2, <2>1
<1>4. f \in S
  BY <1>1, <1>2, <1>3 DEF Closed
<1> QED
  BY <1>1, <1>4

LEMMA KidsAre ==
    ASSUME NEW r \in Repo
    PROVE  \A k \in Kids(r) : k \in Repo /\ k # Root /\ Parent[k] = r /\ k # r
BY Tree DEF Kids

-----------------------------------------------------------------------------
(* The inductive invariant *)

\* What has been cloned.
Present == {"ready", "fallback"}

\* Nothing is in a directory that is not there, and work is in a whole checkout.
Nested == \A r \in Repo \ {Root} : disk[Parent[r]] = "absent" => disk[r] = "absent"
Kept == \A r \in Repo : disk[r] # "whole" => unsaved[r] = {}

\* A repository is named after the one it sits in, and cloned after it.
Upward == \A r \in Repo \ {Root} :
    /\ entry[r] # "unknown" => entry[Parent[r]] # "unknown"
    /\ entry[r] \in Present => entry[Parent[r]] \in Present

\* What is cloned is there, where the registry says or where it is pinned.
Whole == \A r \in Repo : entry[r] \in Present => disk[r] = "whole" /\ (on[r] = landed[r] \/ r \in pins)

\* A run clones around nothing, or inside what it has just cloned: there it finds
\* no directory, except around the root it was started in.
Fresh ==
    /\ entry[Root] \notin Present => disk[Root] = "absent"
    /\ \A r \in Repo \ {Root} :
         entry[r] \notin Present /\ Parent[r] # Root /\ entry[Parent[r]] \in Present => disk[r] = "absent"

\* What the registry says of a branch and of a pin, from the clone on.
Pinning(r) == at = "pin" /\ r = First(batch)
Landed == \A r \in Repo : entry[r] \in Present =>
    /\ r \notin pins => (entry[r] = "ready" <=> on[r] = Target(r))
    /\ r \in pins /\ ~Pinning(r) => pinned[r] /\ entry[r] = "ready"
    /\ Standalone /\ r \notin pins => ~pinned[r]
    /\ Standalone /\ r = Memory => on[r] # "target"

\* The pins are those of the run's command, and their commits are there; a nested
\* .cgs that is resolved left no repository out.
Agreed ==
    /\ pins = IF job.cmd = "restore" THEN Pins(job) ELSE {}
    /\ \A r \in pins : held[r]
    /\ job.cmd = "restore" => \A r \in Repo : found[r] = "resolved"
    /\ \A r \in Repo : found[r] = "resolved" => \A k \in Kids(r) : entry[k] # "unknown"

\* What each step finds of the batch and of the registry.
Batches ==
    /\ at = "batch" => batch = {} /\ (cleared = {} \/ \A r \in Pending : disk[r] = "absent")
    /\ at \in {"clear", "clone"} => batch = Pending /\ batch # {}
    /\ at = "clone" => Select(First(batch)) # "none" /\ \A k \in Beneath[First(batch)] : disk[k] = "absent"
    /\ at = "pin" => /\ batch # {} /\ batch \subseteq Repo /\ Pending = batch \ {First(batch)}
                     /\ First(batch) \in pins /\ entry[First(batch)] \in Present
    /\ at \in {"discover", "complete", "ignore", "save"} => batch = {} /\ Pending = {}
    /\ at \in {"complete", "ignore", "save"} => \A r \in Asked : ~Finds(r)
    /\ at \in {"ignore", "save"} => told = {r \in Repo : Waits(r)} /\ Asked \subseteq told

Named == \A r \in Document \cup {Root} : entry[r] # "unknown"

\* ... while a run goes on.
Running == at # "idle" =>
    /\ result = "nothing" /\ Named
    /\ Upward /\ Whole /\ Fresh /\ Landed /\ Agreed /\ Batches

InstallInv ==
    /\ TypeOK
    /\ has[Root] = Usual /\ on[Root] = "target" /\ Nested /\ Kept
    /\ RefusalDeletesNothing
    /\ at = "idle" => pins = {}
    /\ Running

-----------------------------------------------------------------------------
(* What the invariant says at a step *)

\* The values a registry entry has.
LEMMA Entries ==
    ASSUME TypeOK, NEW r \in Repo
    PROVE  /\ entry[r] \in Present <=> entry[r] \notin {"unknown", "declared"}
           /\ r \in Pending <=> entry[r] = "declared"
BY DEF TypeOK, Present, Pending

\* The first of a batch sits in what is cloned already.
LEMMA ParentPresent ==
    ASSUME TypeOK, Upward, Pending # {}, First(Pending) # Root
    PROVE  entry[Parent[First(Pending)]] \in Present
<1> DEFINE r == First(Pending)
<1>1. Pending \in SUBSET Repo
  BY DEF Pending
<1>2. r \in Pending /\ \A k \in Pending : Place[r] <= Place[k]
  BY <1>1, FirstIs
<1>3. r \in Repo /\ r # Root /\ entry[r] = "declared" /\ Parent[r] \in Repo /\ Place[Parent[r]] < Place[r]
  BY <1>1, <1>2, Tree DEF Pending
<1>4. Parent[r] \notin Pending
  BY <1>2, <1>3, Tree
<1>5. entry[Parent[r]] # "unknown"
  BY <1>3 DEF Upward
<1> QED
  BY <1>3, <1>4, <1>5, Entries

\* Nothing in a repository that is not cloned is cloned, ...
LEMMA BeneathWaits ==
    ASSUME TypeOK, Upward, NEW r \in Repo, entry[r] \notin Present
    PROVE  \A k \in Beneath[r] : entry[k] \notin Present
<1> DEFINE S == {k \in Repo : entry[k] \notin Present}
<1>1. r \in S /\ Closed(S)
  BY Tree DEF Closed, Upward
<1> QED
  BY <1>1, BeneathIs

\* ... and nothing is there in one that is absent.
LEMMA BeneathAbsent ==
    ASSUME Nested, NEW r \in Repo, disk[r] = "absent"
    PROVE  \A k \in Beneath[r] : disk[k] = "absent"
<1> DEFINE S == {k \in Repo : disk[k] = "absent"}
<1>1. r \in S /\ Closed(S)
  BY Tree DEF Closed, Nested
<1> QED
  BY <1>1, BeneathIs

\* The branch that is chosen is one of Git's.
LEMMA SelectIs ==
    ASSUME TypeOK, NEW r \in Repo
    PROVE  /\ Target(r) \in Branch /\ (r # Memory => Target(r) = "target")
           /\ Select(r) # "none" => Select(r) \in Branch
           /\ Standalone /\ r = Memory => Target(r) = "twin" /\ Select(r) # "target"
BY DEF Select, Target, Branch

\* The root's branch is always there.
LEMMA RootSelects == ASSUME has[Root] = Usual PROVE Select(Root) = "target"
BY Tree DEF Select, Target, Usual

\* A step that ends a run leaves the registry empty.
LEMMA EndTypes ==
    ASSUME NEW res \in Result, End(res)
    PROVE  /\ entry' \in [Repo -> {"unknown", "declared", "ready", "fallback"}]
           /\ landed' \in [Repo -> Branch] /\ found' \in [Repo -> {"pending", "missing", "resolved"}]
           /\ job' \in Job /\ batch' \subseteq Repo /\ at' = "idle" /\ pins' = {} /\ told' \subseteq Repo
           /\ result' = res /\ result' \in Result /\ Running'
BY DEF End, Branch, NoJob, Job, Running

-----------------------------------------------------------------------------
(* The first state *)

LEMMA InitInv == Init => InstallInv
<1> SUFFICES ASSUME Init PROVE InstallInv
  OBVIOUS
<1> USE DEF Init
<1>1. TypeOK
  <2>1. has \in [Repo -> SUBSET Branch]
    BY DEF Usual, Branch
  <2>2. config \in [Repo -> SUBSET Branch] /\ shares \in [Repo -> BOOLEAN] /\ held \in [Repo -> BOOLEAN]
    BY DEF Branch
  <2>3. disk \in [Repo -> {"absent", "debris", "half", "whole"}]
    OBVIOUS
  <2>4. job \in Job /\ result \in Result
    BY DEF NoJob, Job, Result
  <2>5. /\ on \in [Repo -> Branch] /\ pinned \in [Repo -> BOOLEAN] /\ landed \in [Repo -> Branch]
        /\ ignore \in [Repo -> {"none", "listed", "written"}]
        /\ unsaved \in [Repo -> SUBSET Work] /\ found \in [Repo -> {"pending", "missing", "resolved"}]
        /\ entry \in [Repo -> {"unknown", "declared", "ready", "fallback"}]
    BY DEF Branch
  <2>6. work \in 0..MaxWork /\ faults \in 0..MaxFaults /\ runs \in 0..MaxRuns
    BY InstallAssumption
  <2> QED
    BY <2>1, <2>2, <2>3, <2>4, <2>5, <2>6 DEF TypeOK
<1>2. has[Root] = Usual /\ on[Root] = "target"
  BY Tree
<1>3. Nested /\ Kept
  BY Tree DEF Nested, Kept
<1>4. RefusalDeletesNothing /\ pins = {} /\ Running
  BY DEF RefusalDeletesNothing, Running
<1> QED
  BY <1>1, <1>2, <1>3, <1>4 DEF InstallInv

-----------------------------------------------------------------------------
(* Types *)

LEMMA StartTypes == ASSUME TypeOK, NEW j \in Job, Start(j) PROVE TypeOK'
<1> USE DEF TypeOK
<1>1. runs' \in 0..MaxRuns
  BY InstallAssumption DEF Start
<1>2. UNCHANGED <<has, config, shares, held, disk, on, pinned, ignore, unsaved, lost, work, faults>> /\ cleared' = {}
  BY DEF Start, remotes, disks
<1>3. CASE Refused(j)
  <2>1. End("refused")
    BY <1>3 DEF Start
  <2>2. "refused" \in Result
    BY DEF Result
  <2> QED
    BY <1>1, <1>2, <2>1, <2>2, EndTypes
<1>4. CASE ~Refused(j)
  <2>1. /\ at' = "batch" /\ result' = "nothing" /\ job' = j /\ batch' = {} /\ told' = {}
        /\ pins' \subseteq Repo
    BY <1>4 DEF Start, Pins
  <2>2. entry' \in [Repo -> {"unknown", "declared", "ready", "fallback"}]
    BY <1>4 DEF Start
  <2>3. landed' = [r \in Repo |-> "target"] /\ found' = [r \in Repo |-> IF j.cmd = "restore" THEN "resolved" ELSE "pending"]
    BY <1>4 DEF Start
  <2>4. landed' \in [Repo -> Branch] /\ found' \in [Repo -> {"pending", "missing", "resolved"}]
    BY <2>3 DEF Branch
  <2> QED
    BY <1>1, <1>2, <2>1, <2>2, <2>4 DEF Result
<1> QED
  BY <1>3, <1>4

LEMMA NextBatchTypes == ASSUME TypeOK, NextBatch PROVE TypeOK'
<1> USE DEF TypeOK
<1>1. UNCHANGED <<has, config, shares, held, disk, on, pinned, ignore, unsaved, cleared, lost, work, faults, runs>>
  BY DEF NextBatch, Still, remotes, disks
<1>2. CASE Blocked(Pending) # {}
  BY <1>1, <1>2, EndTypes DEF NextBatch, Result
<1>3. CASE Blocked(Pending) = {}
  BY <1>1, <1>3 DEF NextBatch, Go, registry, Pending
<1> QED
  BY <1>2, <1>3

LEMMA ClearTypes == ASSUME TypeOK, Clear, First(batch) \in Repo PROVE TypeOK'
<1> USE DEF TypeOK
<1> DEFINE r == First(batch)
<1> DEFINE gone == IF r # Root /\ Populated(r) THEN {k \in Beneath[r] : Populated(k)} ELSE {}
<1>1. UNCHANGED <<has, config, shares, held, work, faults, runs>>
  BY DEF Clear, remotes
<1>2. CASE Select(r) = "none"
  BY <1>1, <1>2, EndTypes DEF Clear, disks, Result
<1>3. CASE Select(r) # "none"
  <2>1. /\ Go("clone") /\ UNCHANGED <<registry, batch, told>> /\ UNCHANGED <<on, pinned, ignore>>
        /\ cleared' = cleared \cup gone
        /\ lost' = lost \cup {x \in gone \X Work : x[2] \in unsaved[x[1]]}
        /\ disk' = [k \in Repo |-> IF k \in gone THEN "absent" ELSE disk[k]]
        /\ unsaved' = [k \in Repo |-> IF k \in gone THEN {} ELSE unsaved[k]]
    BY <1>3 DEF Clear
  <2>2. gone \subseteq Repo
    BY BeneathIs
  <2> HIDE DEF gone
  <2>3. lost' \subseteq Repo \X Work /\ cleared' \subseteq Repo
    BY <2>1, <2>2
  <2>4. disk' \in [Repo -> {"absent", "debris", "half", "whole"}] /\ unsaved' \in [Repo -> SUBSET Work]
    BY <2>1
  <2> QED
    BY <1>1, <2>1, <2>3, <2>4 DEF Go, registry
<1> QED
  BY <1>2, <1>3

LEMMA OnwardTypes == ASSUME TypeOK, Onward
    PROVE batch' \subseteq Repo /\ at' \in {"clear", "batch", "discover"} /\ UNCHANGED <<result, job, pins>>
BY DEF Onward, Go, TypeOK

LEMMA CloneTypes == ASSUME TypeOK, Clone, Select(First(batch)) # "none", First(batch) \in Repo PROVE TypeOK'
<1> USE DEF TypeOK
<1> DEFINE r == First(batch)
<1>1. UNCHANGED <<has, config, shares, held, unsaved, found, told, cleared, lost, work, faults, runs>>
  BY DEF Clone, Still, remotes
<1>2. Select(r) \in Branch
  BY SelectIs
<1> HIDE DEF r
<1>3. /\ disk' \in [Repo -> {"absent", "debris", "half", "whole"}] /\ on' \in [Repo -> Branch]
      /\ pinned' \in [Repo -> BOOLEAN] /\ ignore' \in [Repo -> {"none", "listed", "written"}]
  BY <1>2 DEF Clone, Cloned, r
<1>4. /\ entry' \in [Repo -> {"unknown", "declared", "ready", "fallback"}]
      /\ landed' \in [Repo -> Branch]
  BY <1>2 DEF Clone, r
<1>5. batch' \subseteq Repo /\ at' \in {"pin", "clear", "batch", "discover"} /\ UNCHANGED <<result, job, pins>>
  BY OnwardTypes DEF Clone, Go
<1> QED
  BY <1>1, <1>3, <1>4, <1>5

LEMMA PinTypes == ASSUME TypeOK, Pin, First(batch) \in Repo PROVE TypeOK'
<1> USE DEF TypeOK
<1> DEFINE r == First(batch)
<1>1. UNCHANGED <<has, config, shares, held, disk, on, ignore, unsaved, cleared, lost, work, faults, runs>>
  BY DEF Pin, Still, remotes
<1>2. pinned' \in [Repo -> BOOLEAN]
  BY DEF Pin
<1>3. CASE held[r]
  <2>1. Target(r) \in Branch
    BY SelectIs
  <2>2. entry' \in [Repo -> {"unknown", "declared", "ready", "fallback"}] /\ landed' \in [Repo -> Branch]
    BY <1>3, <2>1 DEF Pin
  <2>3. UNCHANGED <<found, told>> /\ Onward
    BY <1>3 DEF Pin
  <2> QED
    BY <1>1, <1>2, <2>2, <2>3, OnwardTypes
<1>4. CASE ~held[r]
  BY <1>1, <1>2, <1>4, EndTypes DEF Pin, Result
<1> QED
  BY <1>3, <1>4

LEMMA DiscoverTypes == ASSUME TypeOK, Discover PROVE TypeOK'
<1> USE DEF TypeOK
<1>1. UNCHANGED <<has, config, shares, held, disk, on, pinned, ignore, unsaved, landed, batch, told, cleared, lost,
                  work, faults, runs>>
  BY DEF Discover, Still, remotes, disks
<1>2. found' \in [Repo -> {"pending", "missing", "resolved"}]
  BY DEF Discover
<1>3. entry' \in [Repo -> {"unknown", "declared", "ready", "fallback"}]
  BY DEF Discover
<1>4. at' \in {"batch", "complete"} /\ UNCHANGED <<result, job, pins>>
  BY DEF Discover, Go
<1> QED
  BY <1>1, <1>2, <1>3, <1>4

LEMMA CompleteTypes == ASSUME TypeOK, Complete PROVE TypeOK'
<1> USE DEF TypeOK
<1>1. UNCHANGED <<has, config, shares, held, disk, on, pinned, ignore, unsaved, cleared, lost, work, faults, runs>>
  BY DEF Complete, Still, remotes, disks
<1>2. CASE \E r \in Asked : ~(Waits(r) /\ found[r] = "missing")
  BY <1>1, <1>2, EndTypes DEF Complete, Result
<1>3. CASE ~\E r \in Asked : ~(Waits(r) /\ found[r] = "missing")
  BY <1>1, <1>3 DEF Complete, Go, registry
<1> QED
  BY <1>2, <1>3

LEMMA SyncIgnoreTypes == ASSUME TypeOK, SyncIgnore PROVE TypeOK'
<1> USE DEF TypeOK
<1>1. UNCHANGED <<has, config, shares, held, disk, on, pinned, cleared, lost, work, runs>>
  BY DEF SyncIgnore, Still, remotes
<1>2. PICK done \in SUBSET Unlisted :
          LET stops == job.commit /\ done # Unlisted
          IN  /\ stops => faults < MaxFaults
              /\ faults' = IF stops THEN faults + 1 ELSE faults
              /\ ignore' = [r \in Repo |-> IF r \in Unlisted \ done THEN "written"
                                           ELSE IF r \in done THEN "listed" ELSE ignore[r]]
              /\ \/ UNCHANGED unsaved
                 \/ \E last \in done : unsaved' = [unsaved EXCEPT ![last] = @ \cup {"head"}]
              /\ IF stops THEN End("failed") ELSE Go("save") /\ UNCHANGED <<registry, batch, told>>
  BY DEF SyncIgnore
<1>3. faults' \in 0..MaxFaults
  BY <1>2, InstallAssumption
<1>4. ignore' \in [Repo -> {"none", "listed", "written"}]
  BY <1>2
<1>5. unsaved' \in [Repo -> SUBSET Work]
  <2>1. Unlisted \subseteq Repo /\ "head" \in Work
    BY DEF Unlisted, Work
  <2> QED
    BY <1>2, <2>1
<1>6. CASE job.commit /\ done # Unlisted
  BY <1>1, <1>2, <1>3, <1>4, <1>5, <1>6, EndTypes DEF Result
<1>7. CASE ~(job.commit /\ done # Unlisted)
  BY <1>1, <1>2, <1>3, <1>4, <1>5, <1>7 DEF Go, registry
<1> QED
  BY <1>6, <1>7

LEMMA SaveTypes == ASSUME TypeOK, Save PROVE TypeOK'
<1>1. UNCHANGED <<has, config, shares, held, disk, on, pinned, ignore, unsaved, cleared, lost, work, faults, runs>>
  BY DEF Save, Still, remotes, disks
<1>2. End("ready") \/ End("failed")
  BY DEF Save
<1> QED
  BY <1>1, <1>2, EndTypes DEF TypeOK, Result

LEMMA FailTypes == ASSUME TypeOK, Fail PROVE TypeOK'
<1>1. UNCHANGED <<has, config, shares, held, disk, on, pinned, ignore, unsaved, cleared, lost, work, runs>>
  BY DEF Fail, Still, remotes, disks
<1>2. faults' \in 0..MaxFaults /\ End("failed")
  BY InstallAssumption DEF Fail, TypeOK
<1> QED
  BY <1>1, <1>2, EndTypes DEF TypeOK, Result

LEMMA KillTypes == ASSUME TypeOK, Kill PROVE TypeOK'
<1>1. UNCHANGED <<has, config, shares, held, on, pinned, ignore, unsaved, cleared, lost, work, runs>>
  BY DEF Kill, remotes
<1>2. faults' \in 0..MaxFaults /\ End("killed")
  BY InstallAssumption DEF Kill, TypeOK
<1>3. disk' \in [Repo -> {"absent", "debris", "half", "whole"}]
  BY DEF Kill, TypeOK
<1> QED
  BY <1>1, <1>2, <1>3, EndTypes DEF TypeOK, Result

\* What the user's own steps leave alone.
LEMMA EditStill ==
    ASSUME NEW r \in Repo, NEW w \in Work, Edit(r, w)
    PROVE  UNCHANGED <<has, config, shares, held, disk, on, pinned, ignore, entry, landed, found, job, at, batch,
                       pins, told, result, cleared, lost, faults, runs>>
BY DEF Edit, remotes, registry, run

LEMMA PublishStill ==
    ASSUME NEW r \in Repo, Publish(r)
    PROVE  UNCHANGED <<has, config, shares, held, disk, on, pinned, entry, landed, found, job, at, batch,
                       pins, told, result, cleared, lost, work, faults, runs>>
BY DEF Publish, remotes, registry, run

LEMMA MoveAsideStill ==
    ASSUME NEW r \in Repo, MoveAside(r)
    PROVE  UNCHANGED <<has, config, shares, held, on, pinned, ignore, entry, landed, found, job, at, batch,
                       pins, told, result, cleared, lost, work, faults, runs>>
BY DEF MoveAside, remotes, registry, run

LEMMA UserTypes ==
    ASSUME TypeOK, NEW r \in Repo, (\E w \in Work : Edit(r, w)) \/ Publish(r) \/ MoveAside(r)
    PROVE  TypeOK'
<1>1. ASSUME NEW w \in Work, Edit(r, w) PROVE TypeOK'
  <2>1. unsaved' \in [Repo -> SUBSET Work] /\ work' \in 0..MaxWork
    BY <1>1, InstallAssumption DEF Edit, TypeOK
  <2> QED
    BY <1>1, <2>1, EditStill DEF TypeOK
<1>2. ASSUME Publish(r) PROVE TypeOK'
  <2>1. unsaved' \in [Repo -> SUBSET Work] /\ ignore' \in [Repo -> {"none", "listed", "written"}]
    BY <1>2 DEF Publish, TypeOK
  <2> QED
    BY <1>2, <2>1, PublishStill DEF TypeOK
<1>3. ASSUME MoveAside(r) PROVE TypeOK'
  <2>1. disk' \in [Repo -> {"absent", "debris", "half", "whole"}] /\ unsaved' \in [Repo -> SUBSET Work]
    BY <1>3 DEF MoveAside, TypeOK
  <2> QED
    BY <1>3, <2>1, MoveAsideStill DEF TypeOK
<1> QED
  BY <1>1, <1>2, <1>3

-----------------------------------------------------------------------------
(* What each step keeps *)

\* What a batch is of, and its first.
LEMMA BatchIs ==
    ASSUME InstallInv, at \in {"clear", "clone"}
    PROVE  /\ batch = Pending /\ First(batch) \in Repo
           /\ entry[First(batch)] = "declared" /\ entry[First(batch)] \notin Present
           /\ First(batch) # Root => entry[Parent[First(batch)]] \in Present
           /\ \A k \in Beneath[First(batch)] : entry[k] \notin Present
<1>1. TypeOK /\ Upward /\ batch = Pending /\ Pending # {} /\ Pending \in SUBSET Repo
  BY DEF InstallInv, Running, Batches, Pending
<1>2. First(batch) \in Pending
  BY <1>1, FirstIs
<1>3. First(batch) \in Repo /\ entry[First(batch)] = "declared"
  BY <1>2 DEF Pending
<1>4. entry[First(batch)] \notin Present
  BY <1>3 DEF Present
<1> QED
  BY <1>1, <1>3, <1>4, ParentPresent, BeneathWaits

LEMMA StartKeeps == ASSUME InstallInv, NEW j \in Job, Start(j) PROVE InstallInv'
<1>1. TypeOK'
  BY StartTypes DEF InstallInv
<1>2. UNCHANGED <<has, held, disk, on, unsaved>> /\ cleared' = {} /\ TypeOK
  BY DEF Start, remotes, disks, InstallInv
<1>3. (has[Root] = Usual)' /\ (on[Root] = "target")' /\ Nested' /\ Kept' /\ RefusalDeletesNothing'
  BY <1>2 DEF InstallInv, Nested, Kept, RefusalDeletesNothing
<1>4. CASE Refused(j)
  <2>1. Running' /\ pins' = {}
    BY <1>4, EndTypes DEF Start, Result
  <2> QED
    BY <1>1, <1>3, <2>1 DEF InstallInv
<1>5. CASE ~Refused(j)
  <2> DEFINE new == [r \in Repo |->
                  IF j.cmd = "initialise" /\ r = Root THEN "ready"
                  ELSE IF j.cmd = "restore" \/ r \in Document \cup {Root} THEN "declared" ELSE "unknown"]
  <2>1. /\ at' = "batch" /\ result' = "nothing" /\ job' = j /\ batch' = {} /\ told' = {}
        /\ pins' = IF j.cmd = "restore" THEN Pins(j) ELSE {}
        /\ entry' = new
        /\ landed' = [r \in Repo |-> "target"]
        /\ found' = [r \in Repo |-> IF j.cmd = "restore" THEN "resolved" ELSE "pending"]
    BY <1>5 DEF Start
  <2>2. j.cmd \in {"initialise", "bootstrap", "restore"}
    BY DEF Job
  <2>3. /\ j.cmd = "initialise" => disk[Root] = "whole"
        /\ j.cmd # "initialise" => disk[Root] = "absent"
        /\ j.cmd = "restore" => \A r \in Pins(j) : held[r]
    BY <1>5 DEF Refused, NotNested, NotFresh, Populated, CommitsGone
  <2>4. \A r \in Repo : new[r] \in Present <=> j.cmd = "initialise" /\ r = Root
    BY DEF Present
  <2>5. \A r \in Repo : new[r] # "unknown" <=> j.cmd = "restore" \/ r \in Document \cup {Root}
    OBVIOUS
  <2> HIDE DEF new
  <2>6. Named'
    <3>1. Document \cup {Root} \subseteq Repo
      BY Tree, InstallAssumption
    <3> QED
      BY <2>1, <2>5, <3>1 DEF Named
  <2>7. Upward'
    <3>1. ASSUME NEW r \in Repo \ {Root} PROVE new[r] # "unknown" => new[Parent[r]] # "unknown"
      <4>1. r \in Document => Parent[r] \in Document \cup {Root}
        BY InstallAssumption
      <4> QED
        BY <2>5, <4>1, Tree
    <3>2. ASSUME NEW r \in Repo \ {Root} PROVE new[r] \notin Present
      BY <2>4
    <3> QED
      BY <2>1, <3>1, <3>2 DEF Upward
  <2>8. Whole'
    <3>1. on[Root] = "target" /\ Root \in Repo
      BY Tree DEF InstallInv
    <3>2. ASSUME NEW r \in Repo, new[r] \in Present PROVE disk'[r] = "whole" /\ on'[r] = landed'[r]
      BY <1>2, <2>1, <2>3, <2>4, <3>1, <3>2
    <3> QED
      BY <2>1, <3>2 DEF Whole
  <2>9. Fresh'
    <3>1. new[Root] \notin Present => disk'[Root] = "absent"
      BY <1>2, <2>3, <2>4, Tree
    <3>2. \A r \in Repo \ {Root} : Parent[r] # Root => new[Parent[r]] \notin Present
      BY <2>4, Tree
    <3> QED
      BY <2>1, <3>1, <3>2 DEF Fresh
  <2>10. Landed'
    <3> SUFFICES ASSUME NEW r \in Repo, new[r] \in Present
                 PROVE  (/\ r \notin pins => (entry[r] = "ready" <=> on[r] = Target(r))
                         /\ r \in pins /\ ~Pinning(r) => pinned[r] /\ entry[r] = "ready"
                         /\ Standalone /\ r \notin pins => ~pinned[r]
                         /\ Standalone /\ r = Memory => on[r] # "target")'
      BY <2>1 DEF Landed
    <3>1. j.cmd = "initialise" /\ r = Root /\ r # Memory
      BY <2>4, Tree
    <3>2. ~Standalone' /\ pins' = {}
      BY <2>1, <3>1 DEF Standalone
    <3>3. entry'[r] = "ready"
      BY <2>1, <3>1 DEF new
    <3>4. Target(r)' = "target" /\ on'[r] = "target"
      BY <1>2, <3>1 DEF Target, InstallInv
    <3> QED
      BY <3>2, <3>3, <3>4
  <2>11. Agreed'
    <3>1. (pins = IF job.cmd = "restore" THEN Pins(job) ELSE {})' /\ \A r \in pins' : held'[r]
      BY <1>2, <2>1, <2>3 DEF Pins
    <3>2. ASSUME NEW r \in Repo, found'[r] = "resolved" PROVE \A k \in Kids(r) : entry'[k] # "unknown"
      <4>1. j.cmd = "restore"
        BY <2>1, <3>2
      <4> QED
        BY <2>1, <2>5, <4>1, KidsAre
    <3>3. j.cmd = "restore" => \A r \in Repo : found'[r] = "resolved"
      BY <2>1
    <3> QED
      BY <2>1, <3>1, <3>2, <3>3 DEF Agreed, Kids
  <2>12. Batches'
    BY <1>2, <2>1 DEF Batches
  <2>13. Running'
    BY <2>1, <2>6, <2>7, <2>8, <2>9, <2>10, <2>11, <2>12 DEF Running
  <2> QED
    BY <1>1, <1>3, <2>1, <2>13 DEF InstallInv
<1> QED
  BY <1>4, <1>5

\* A step that ends the run.
LEMMA EndKeeps ==
    ASSUME InstallInv, TypeOK', NEW res \in Result \ {"refused"}, End(res), UNCHANGED <<has, on>>, Nested', Kept'
    PROVE  InstallInv'
<1>1. result' # "refused" /\ pins' = {} /\ Running'
  BY EndTypes
<1>2. RefusalDeletesNothing'
  BY <1>1 DEF RefusalDeletesNothing
<1> QED
  BY <1>1, <1>2 DEF InstallInv


\* What the invariant says of a run.
LEMMA RunIs ==
    ASSUME InstallInv, at # "idle"
    PROVE  TypeOK /\ result = "nothing" /\ Named /\ Upward /\ Whole /\ Fresh /\ Landed /\ Agreed /\ Batches
BY DEF InstallInv, Running

\* A run that goes on, if its registry and its batch stay right.
LEMMA GoesOn ==
    ASSUME InstallInv, TypeOK', UNCHANGED <<has, result>>, at # "idle", at' # "idle", (on[Root] = "target")', Nested', Kept',
           Named', Upward', Whole', Fresh', Landed', Agreed', Batches'
    PROVE  InstallInv'
BY RunIs DEF InstallInv, Running, RefusalDeletesNothing

\* What a step that changes neither the disks nor the registry keeps.
LEMMA StillHolds ==
    ASSUME InstallInv, UNCHANGED <<has, config, held, disk, on, pinned, entry, landed, found, job, pins>>
    PROVE  /\ (on[Root] = "target")' /\ Nested'
           /\ (Named => Named') /\ (Upward => Upward') /\ (Whole => Whole') /\ (Fresh => Fresh') /\ (Agreed => Agreed')
           /\ Pending' = Pending /\ Asked' = Asked
           /\ at # "pin" /\ at' # "pin" /\ Landed => Landed'
<1>1. (on[Root] = "target")' /\ Nested'
  BY DEF InstallInv, Nested
<1>2. /\ (Named => Named') /\ (Upward => Upward') /\ (Whole => Whole') /\ (Fresh => Fresh') /\ (Agreed => Agreed')
      /\ Pending' = Pending /\ Asked' = Asked
  BY DEF Named, Upward, Whole, Fresh, Agreed, Pending, Asked, Pins
<1>3. at # "pin" /\ at' # "pin" /\ Landed => Landed'
  BY DEF Landed, Pinning, Target, Standalone
<1> QED
  BY <1>1, <1>2, <1>3

LEMMA NextBatchKeeps == ASSUME InstallInv, NextBatch PROVE InstallInv'
<1>1. TypeOK' /\ TypeOK
  BY NextBatchTypes DEF InstallInv
<1>2. UNCHANGED <<has, config, held, disk, on, pinned, unsaved, cleared>> /\ at = "batch"
  BY DEF NextBatch, Still, remotes, disks
<1>3. (has[Root] = Usual)' /\ (on[Root] = "target")' /\ Nested' /\ Kept'
  BY <1>2 DEF InstallInv, Nested, Kept
<1>4. Named /\ Upward /\ Whole /\ Fresh /\ Landed /\ Agreed /\ Batches
  BY <1>2, RunIs
<1>5. CASE Blocked(Pending) # {}
  <2>1. PICK r \in Pending : disk[r] # "absent"
    BY <1>5 DEF Blocked, Populated
  <2>2. cleared = {}
    BY <1>2, <1>4, <2>1 DEF Batches
  <2>3. Running' /\ pins' = {}
    BY <1>5, EndTypes DEF NextBatch, Result
  <2> QED
    BY <1>1, <1>2, <1>3, <2>2, <2>3 DEF InstallInv, RefusalDeletesNothing
<1>6. CASE Blocked(Pending) = {}
  <2>1. /\ UNCHANGED <<entry, landed, found, told, result, job, pins>> /\ batch' = Pending
        /\ at' = IF Pending # {} THEN "clear" ELSE IF job.cmd = "restore" THEN "complete" ELSE "discover"
    BY <1>6 DEF NextBatch, Go, registry
  <2>2. /\ Named' /\ Upward' /\ Whole' /\ Fresh' /\ Agreed' /\ Landed' /\ Pending' = Pending /\ Asked' = Asked
    <3>1. UNCHANGED <<has, config, held, disk, on, pinned, entry, landed, found, job, pins>>
      BY <1>2, <2>1
    <3>2. at # "pin" /\ at' # "pin"
      BY <1>2, <2>1
    <3> QED
      BY <1>4, <3>1, <3>2, StillHolds
  <2>3. job.cmd = "restore" => Asked = {}
    BY <1>4 DEF Agreed, Asked
  <2>4. Batches'
    BY <1>2, <2>1, <2>2, <2>3 DEF Batches
  <2> QED
    BY <1>1, <1>2, <1>3, <2>1, <2>2, <2>4, GoesOn
<1> QED
  BY <1>5, <1>6

LEMMA ClearKeeps == ASSUME InstallInv, Clear PROVE InstallInv'
<1> DEFINE r == First(batch)
<1> DEFINE gone == IF r # Root /\ Populated(r) THEN {k \in Beneath[r] : Populated(k)} ELSE {}
<1>1. at = "clear" /\ UNCHANGED <<has, config, held>> /\ TypeOK
  BY DEF Clear, remotes, InstallInv
<1>2. batch = Pending /\ r \in Repo /\ (\A k \in Beneath[r] : entry[k] \notin Present)
  BY <1>1, BatchIs
<1>3. TypeOK'
  BY <1>1, <1>2, ClearTypes
<1>4. Named /\ Upward /\ Whole /\ Fresh /\ Landed /\ Agreed /\ Batches /\ Nested /\ Kept
  BY <1>1, RunIs DEF InstallInv
<1>5. CASE Select(r) = "none"
  <2>1. End("failed") /\ UNCHANGED <<disk, on, unsaved>>
    BY <1>5 DEF Clear, disks
  <2>2. Nested' /\ Kept'
    BY <1>4, <2>1 DEF Nested, Kept
  <2> QED
    BY <1>1, <1>3, <2>1, <2>2, EndKeeps DEF Result
<1>6. CASE Select(r) # "none"
  <2>1. /\ at' = "clone" /\ UNCHANGED <<entry, landed, found, batch, told, on, pinned, ignore, result, job, pins>>
        /\ cleared' = cleared \cup gone
        /\ disk' = [k \in Repo |-> IF k \in gone THEN "absent" ELSE disk[k]]
        /\ unsaved' = [k \in Repo |-> IF k \in gone THEN {} ELSE unsaved[k]]
    BY <1>6 DEF Clear, Go, registry
  <2>2. gone \subseteq Beneath[r] /\ Beneath[r] \subseteq Repo /\ (\A k \in Beneath[r] \ gone : gone # {} => disk[k] = "absent")
    <3>1. Beneath[r] \subseteq Repo
      BY <1>2, BeneathIs
    <3> QED
      BY <3>1 DEF Populated
  <2>3. \A k \in Beneath[r] : disk'[k] = "absent"
    <3>1. CASE gone # {}
      BY <2>1, <2>2, <3>1
    <3>2. CASE gone = {}
      <4>1. disk[r] = "absent"
        <5>1. CASE r = Root
          BY <1>2, <1>4, <5>1, BeneathIs DEF Fresh
        <5>2. CASE r # Root
          <6>1. r \in Beneath[r]
            BY <1>2, BeneathIs
          <6> QED
            BY <3>2, <5>2, <6>1 DEF Populated
        <5> QED
          BY <5>1, <5>2
      <4> QED
        BY <1>2, <1>4, <2>1, <2>2, <3>2, <4>1, BeneathAbsent
    <3> QED
      BY <3>1, <3>2
  <2>4. Nested' /\ Kept'
    <3>1. ASSUME NEW k \in Repo \ {Root}, disk'[Parent[k]] = "absent" PROVE disk'[k] = "absent"
      <4>1. CASE Parent[k] \in gone
        BY <1>2, <2>2, <2>3, <3>1, <4>1, BeneathIs
      <4>2. CASE Parent[k] \notin gone
        BY <1>4, <2>1, <3>1, <4>2, Tree DEF Nested
      <4> QED
        BY <4>1, <4>2
    <3> HIDE DEF gone
    <3>2. Kept'
      BY <1>4, <2>1 DEF Kept
    <3> QED
      BY <3>1, <3>2 DEF Nested
  <2>5. \A k \in Repo : entry[k] \in Present => disk'[k] = disk[k]
    <3> HIDE DEF gone
    <3> QED
      BY <1>2, <2>1, <2>2
  <2>6. \A k \in Repo : disk[k] = "absent" => disk'[k] = "absent"
    <3> HIDE DEF gone
    <3> QED
      BY <2>1
  <2> HIDE DEF gone, r
  <2>7. Named' /\ Upward' /\ (on[Root] = "target")'
    BY <1>4, <2>1 DEF Named, Upward, InstallInv
  <2>8. Whole' /\ Fresh'
    BY <1>4, <2>1, <2>5, <2>6, Tree DEF Whole, Fresh
  <2>9. Landed' /\ Agreed'
    BY <1>1, <1>4, <2>1 DEF Landed, Agreed, Target, Standalone, Pinning, Pins
  <2>10. Batches'
    <3>1. Pending' = Pending /\ batch # {}
      BY <1>1, <1>4, <2>1 DEF Pending, Batches
    <3>2. (Select(First(batch)) # "none")'
      BY <1>1, <1>6, <2>1 DEF r, Select, Target, Standalone
    <3>3. (\A k \in Beneath[First(batch)] : disk[k] = "absent")'
      BY <2>1, <2>3 DEF r
    <3> QED
      BY <1>2, <2>1, <3>1, <3>2, <3>3 DEF Batches
  <2> QED
    BY <1>1, <1>3, <2>1, <2>4, <2>7, <2>8, <2>9, <2>10, GoesOn
<1> QED
  BY <1>5, <1>6

LEMMA CloneKeeps == ASSUME InstallInv, Clone PROVE InstallInv'
<1> DEFINE r == First(batch)
<1> DEFINE b == Select(r)
<1>1. at = "clone" /\ UNCHANGED <<has, config, shares, held, unsaved, found, told, cleared>> /\ TypeOK
  BY DEF Clone, Still, remotes, InstallInv
<1>2. Named /\ Upward /\ Whole /\ Fresh /\ Landed /\ Agreed /\ Batches /\ Nested /\ Kept
  BY <1>1, RunIs DEF InstallInv
<1>3. /\ batch = Pending /\ r \in Repo /\ entry[r] = "declared" /\ batch # {} /\ b # "none"
      /\ r # Root => entry[Parent[r]] \in Present
      /\ \A k \in Beneath[r] : entry[k] \notin Present /\ disk[k] = "absent"
  BY <1>1, <1>2, BatchIs DEF Batches
<1>4. TypeOK'
  BY <1>1, <1>3, CloneTypes
<1>5. b \in Branch /\ (r = Root => b = "target") /\ (Standalone /\ r = Memory => b # "target")
  BY <1>1, <1>3, SelectIs, RootSelects DEF InstallInv
<1>6. /\ disk' = [disk EXCEPT ![r] = "whole"] /\ on' = [on EXCEPT ![r] = b]
      /\ pinned' = [pinned EXCEPT ![r] = FALSE]
      /\ entry' = [entry EXCEPT ![r] = IF b = Target(r) THEN "ready" ELSE "fallback"]
      /\ landed' = [landed EXCEPT ![r] = b]
      /\ UNCHANGED <<result, job, pins>>
  BY DEF Clone, Cloned, Onward, Go
<1>7. \/ r \in pins /\ at' = "pin" /\ batch' = batch
      \/ /\ r \notin pins /\ batch' = batch \ {r}
         /\ at' = IF batch' # {} THEN "clear" ELSE IF job.cmd = "restore" THEN "batch" ELSE "discover"
  BY DEF Clone, Onward, Go
<1>8. \A k \in Kids(r) : k \in Repo /\ k # r /\ entry[k] \notin Present /\ disk[k] = "absent"
  <2>1. \A k \in Kids(r) : k \in Beneath[r]
    BY <1>3, BeneathIs, KidsAre
  <2> QED
    BY <1>3, <2>1, KidsAre
<1>9. /\ entry'[r] \in Present /\ disk'[r] = "whole" /\ on'[r] = b /\ landed'[r] = b /\ ~pinned'[r]
      /\ entry'[r] = "ready" <=> b = Target(r)
  BY <1>1, <1>3, <1>6 DEF Present, TypeOK
<1>10. \A k \in Repo \ {r} : /\ entry'[k] = entry[k] /\ disk'[k] = disk[k] /\ on'[k] = on[k]
                             /\ landed'[k] = landed[k] /\ pinned'[k] = pinned[k]
  BY <1>1, <1>3, <1>6 DEF TypeOK
<1>11. \A k \in Repo : entry'[k] # "unknown" <=> entry[k] # "unknown"
  BY <1>3, <1>9, <1>10 DEF Present
<1>12. \A k \in Repo \ {Root} : Parent[k] = r => k \in Kids(r)
  BY DEF Kids
<1>13. at' # "idle"
  BY <1>7
<1>14. Pending' = Pending \ {r}
  BY <1>3, <1>9, <1>10 DEF Pending, Present
<1>15. ASSUME NEW k \in Repo PROVE Target(k)' = Target(k) /\ (Standalone' <=> Standalone)
  BY <1>6 DEF Target, Standalone
<1>16. at' = "pin" => First(batch)' = r
  BY <1>7
<1> HIDE DEF r, b
<1>17. (on[Root] = "target")' /\ Named'
  <2>1. Document \subseteq Repo /\ Root \in Repo
    BY InstallAssumption, Tree
  <2> QED
    BY <1>2, <1>5, <1>9, <1>10, <1>11, <2>1 DEF InstallInv, Named
<1>18. Nested' /\ Kept'
  <2>1. ASSUME NEW k \in Repo \ {Root}, disk'[Parent[k]] = "absent" PROVE disk'[k] = "absent"
    <3>1. Parent[k] # r /\ Parent[k] \in Repo /\ disk[Parent[k]] = "absent"
      BY <1>9, <1>10, <2>1, Tree
    <3>2. k # r
      BY <1>2, <1>3, <3>1 DEF Whole
    <3> QED
      BY <1>2, <1>10, <3>1, <3>2 DEF Nested
  <2>2. Kept'
    BY <1>1, <1>2, <1>9, <1>10 DEF Kept
  <2> QED
    BY <2>1, <2>2 DEF Nested
<1>19. Upward'
  <2> SUFFICES ASSUME NEW k \in Repo \ {Root}
               PROVE  /\ entry'[k] # "unknown" => entry'[Parent[k]] # "unknown"
                      /\ entry'[k] \in Present => entry'[Parent[k]] \in Present
    BY DEF Upward
  <2>1. entry'[k] # "unknown" => entry'[Parent[k]] # "unknown"
    BY <1>2, <1>11, Tree DEF Upward
  <2>2. CASE Parent[k] = r
    BY <1>9, <2>1, <2>2
  <2>3. CASE Parent[k] # r
    BY <1>2, <1>3, <1>10, <2>1, <2>3, Tree DEF Upward
  <2> QED
    BY <2>2, <2>3
<1>20. Whole'
  BY <1>2, <1>6, <1>9, <1>10 DEF Whole
<1>21. Fresh'
  <2>1. entry'[Root] \notin Present => disk'[Root] = "absent"
    BY <1>2, <1>9, <1>10, Tree DEF Fresh
  <2>2. ASSUME NEW k \in Repo \ {Root}, entry'[k] \notin Present, Parent[k] # Root, entry'[Parent[k]] \in Present
        PROVE  disk'[k] = "absent"
    <3>1. k # r
      BY <1>9, <2>2
    <3>2. CASE Parent[k] = r
      BY <1>8, <1>10, <1>12, <3>1, <3>2
    <3>3. CASE Parent[k] # r
      BY <1>2, <1>10, <2>2, <3>1, <3>3, Tree DEF Fresh
    <3> QED
      BY <3>2, <3>3
  <2> QED
    BY <2>1, <2>2 DEF Fresh
<1>22. Landed'
  <2> SUFFICES ASSUME NEW k \in Repo, entry'[k] \in Present
               PROVE  (/\ k \notin pins => (entry[k] = "ready" <=> on[k] = Target(k))
                       /\ k \in pins /\ ~Pinning(k) => pinned[k] /\ entry[k] = "ready"
                       /\ Standalone /\ k \notin pins => ~pinned[k]
                       /\ Standalone /\ k = Memory => on[k] # "target")'
    BY DEF Landed
  <2>1. CASE k = r
    <3>1. k \in pins => Pinning(k)'
      BY <1>7, <1>16, <2>1 DEF Pinning
    <3>2. (k \notin pins => (entry[k] = "ready" <=> on[k] = Target(k)))'
      BY <1>6, <1>9, <1>15, <2>1
    <3> QED
      BY <1>5, <1>6, <1>9, <1>15, <2>1, <3>1, <3>2
  <2>2. CASE k # r
    <3>1. entry[k] \in Present /\ ~Pinning(k)
      BY <1>1, <1>10, <2>2 DEF Pinning
    <3>2. /\ k \notin pins => (entry[k] = "ready" <=> on[k] = Target(k))
          /\ k \in pins => pinned[k] /\ entry[k] = "ready"
          /\ Standalone /\ k \notin pins => ~pinned[k]
          /\ Standalone /\ k = Memory => on[k] # "target"
      BY <1>2, <3>1 DEF Landed
    <3> QED
      BY <1>6, <1>10, <1>15, <2>2, <3>1, <3>2
  <2> QED
    BY <2>1, <2>2
<1>23. Agreed'
  <2>1. ASSUME NEW q \in Repo, found[q] = "resolved" PROVE \A k \in Kids(q) : entry'[k] # "unknown"
    BY <1>2, <1>11, <2>1, KidsAre DEF Agreed
  <2> QED
    BY <1>1, <1>2, <1>6, <2>1 DEF Agreed, Pins, Kids
<1>24. Batches'
  <2>1. CASE r \in pins /\ at' = "pin" /\ batch' = batch
    BY <1>3, <1>4, <1>6, <1>9, <1>14, <1>16, <2>1 DEF Batches, TypeOK
  <2>2. CASE /\ r \notin pins /\ batch' = batch \ {r}
             /\ at' = IF batch' # {} THEN "clear" ELSE IF job.cmd = "restore" THEN "batch" ELSE "discover"
    BY <1>3, <1>14, <2>2 DEF Batches
  <2> QED
    BY <1>7, <2>1, <2>2 DEF r
<1> QED
  BY <1>1, <1>4, <1>6, <1>13, <1>17, <1>18, <1>19, <1>20, <1>21, <1>22, <1>23, <1>24, GoesOn

LEMMA PinKeeps == ASSUME InstallInv, Pin PROVE InstallInv'
<1> DEFINE r == First(batch)
<1>1. at = "pin" /\ UNCHANGED <<has, config, held, disk, on, unsaved, cleared>> /\ TypeOK
  BY DEF Pin, Still, remotes, InstallInv
<1>2. Named /\ Upward /\ Whole /\ Fresh /\ Landed /\ Agreed /\ Batches
  BY <1>1, RunIs
<1>3. /\ batch \subseteq Repo /\ batch # {} /\ Pending = batch \ {r}
      /\ r \in pins /\ entry[r] \in Present
  BY <1>1, <1>2 DEF Batches
<1>4. r \in batch /\ r \in Repo /\ held[r]
  BY <1>2, <1>3, FirstIs DEF Agreed
<1>5. TypeOK'
  BY <1>1, <1>4, PinTypes
<1>6. /\ pinned' = [pinned EXCEPT ![r] = TRUE] /\ entry' = [entry EXCEPT ![r] = "ready"]
      /\ landed' = [landed EXCEPT ![r] = Target(r)] /\ batch' = batch \ {r}
      /\ at' = IF batch' # {} THEN "clear" ELSE IF job.cmd = "restore" THEN "batch" ELSE "discover"
      /\ UNCHANGED <<found, told, result, job, pins>>
  BY <1>4 DEF Pin, Onward, Go
<1>7. entry'[r] = "ready" /\ pinned'[r] /\ "ready" \in Present
  BY <1>1, <1>4, <1>6 DEF TypeOK, Present
<1>8. \A k \in Repo \ {r} : entry'[k] = entry[k] /\ landed'[k] = landed[k] /\ pinned'[k] = pinned[k]
  BY <1>1, <1>4, <1>6 DEF TypeOK
<1>9. \A k \in Repo : /\ entry'[k] \in Present <=> entry[k] \in Present
                      /\ entry'[k] # "unknown" <=> entry[k] # "unknown"
  BY <1>3, <1>7, <1>8 DEF Present
<1>10. at' \notin {"idle", "pin"}
  BY <1>6
<1>11. Pending' = Pending
  BY <1>3, <1>4, <1>7, <1>8 DEF Pending, Present
<1> HIDE DEF r
<1>12. (on[Root] = "target")' /\ Nested' /\ Kept'
  BY <1>1 DEF InstallInv, Nested, Kept
<1>13. Named' /\ Upward'
  <2>1. Document \subseteq Repo /\ Root \in Repo
    BY InstallAssumption, Tree
  <2> QED
    BY <1>2, <1>9, <2>1, Tree DEF Named, Upward
<1>14. Whole'
  BY <1>1, <1>2, <1>3, <1>6, <1>8, <1>9 DEF Whole
<1>15. Fresh'
  BY <1>1, <1>2, <1>9, Tree DEF Fresh
<1>16. Landed'
  <2> SUFFICES ASSUME NEW k \in Repo, entry'[k] \in Present
               PROVE  (/\ k \notin pins => (entry[k] = "ready" <=> on[k] = Target(k))
                       /\ k \in pins /\ ~Pinning(k) => pinned[k] /\ entry[k] = "ready"
                       /\ Standalone /\ k \notin pins => ~pinned[k]
                       /\ Standalone /\ k = Memory => on[k] # "target")'
    BY DEF Landed
  <2>1. Target(k)' = Target(k) /\ (Standalone' <=> Standalone)
    BY <1>6 DEF Target, Standalone
  <2>2. /\ k \notin pins => (entry[k] = "ready" <=> on[k] = Target(k))
        /\ k \in pins /\ ~Pinning(k) => pinned[k] /\ entry[k] = "ready"
        /\ Standalone /\ k \notin pins => ~pinned[k]
        /\ Standalone /\ k = Memory => on[k] # "target"
    BY <1>2, <1>9 DEF Landed
  <2>3. Pinning(k) => k = r
    BY DEF Pinning, r
  <2> QED
    BY <1>1, <1>3, <1>6, <1>7, <1>8, <2>1, <2>2, <2>3
<1>17. Agreed'
  <2>1. ASSUME NEW q \in Repo, found[q] = "resolved" PROVE \A k \in Kids(q) : entry'[k] # "unknown"
    BY <1>2, <1>9, <2>1, KidsAre DEF Agreed
  <2> QED
    BY <1>1, <1>2, <1>6, <2>1 DEF Agreed, Pins, Kids
<1>18. Batches'
  BY <1>3, <1>6, <1>11 DEF Batches
<1> QED
  BY <1>1, <1>5, <1>6, <1>10, <1>12, <1>13, <1>14, <1>15, <1>16, <1>17, <1>18, GoesOn

LEMMA DiscoverKeeps == ASSUME InstallInv, Discover PROVE InstallInv'
<1> DEFINE read == {r \in Asked : Finds(r)}
<1> DEFINE news == UNION {{k \in Kids(r) : entry[k] = "unknown"} : r \in read}
<1>1. /\ at = "discover" /\ UNCHANGED <<has, config, held, disk, on, pinned, unsaved, landed, batch, told, cleared>>
      /\ TypeOK /\ UNCHANGED <<result, job, pins>>
  BY DEF Discover, Still, remotes, disks, Go, InstallInv
<1>2. Named /\ Upward /\ Whole /\ Fresh /\ Landed /\ Agreed /\ batch = {} /\ Pending = {}
  BY <1>1, RunIs DEF Batches
<1>3. TypeOK'
  BY <1>1, DiscoverTypes
<1>4. /\ found' = [r \in Repo |-> IF r \in read THEN "resolved" ELSE IF r \in Asked THEN "missing" ELSE found[r]]
      /\ entry' = [r \in Repo |-> IF r \in news THEN "declared" ELSE entry[r]]
      /\ at' = IF news # {} THEN "batch" ELSE "complete"
  BY DEF Discover, Go, Changed
<1>5. \A r \in read : r \in Repo \ {Root} /\ Kids(r) # {} /\ entry[r] \in Present /\ found[r] # "resolved" /\ Finds(r)
  BY <1>1, <1>2, Entries DEF Asked
<1>6. \A k \in news : k \in Repo \ {Root} /\ entry[k] = "unknown" /\ Parent[k] # Root /\ entry[Parent[k]] \in Present
  <2>1. ASSUME NEW q \in read, NEW k \in Kids(q), entry[k] = "unknown"
        PROVE  k \in Repo \ {Root} /\ Parent[k] # Root /\ entry[Parent[k]] \in Present
    BY <1>5, KidsAre
  <2> QED
    BY <2>1
<1>7. \A q \in read : \A k \in Kids(q) : entry[k] # "unknown" \/ k \in news
  OBVIOUS
<1> HIDE DEF news
<1>8. \A k \in Repo : /\ entry'[k] \in Present <=> entry[k] \in Present
                      /\ entry[k] # "unknown" => entry'[k] = entry[k]
                      /\ k \in news => entry'[k] = "declared"
                      /\ k \notin news => entry'[k] = entry[k]
                      /\ entry[k] # "unknown" => entry'[k] # "unknown"
                      /\ entry'[k] = "ready" <=> entry[k] = "ready"
  BY <1>4, <1>6 DEF Present
<1>9. at' \notin {"idle", "pin"}
  BY <1>4
<1>10. (on[Root] = "target")' /\ Nested' /\ Kept'
  BY <1>1 DEF InstallInv, Nested, Kept
<1>11. Named'
  <2>1. Document \subseteq Repo /\ Root \in Repo
    BY InstallAssumption, Tree
  <2> QED
    BY <1>2, <1>8, <2>1 DEF Named
<1>12. Upward'
  <2> SUFFICES ASSUME NEW k \in Repo \ {Root}
               PROVE  /\ entry'[k] # "unknown" => entry'[Parent[k]] # "unknown"
                      /\ entry'[k] \in Present => entry'[Parent[k]] \in Present
    BY DEF Upward
  <2>1. Parent[k] \in Repo
    BY Tree
  <2>2. CASE k \in news
    <3>1. entry[Parent[k]] # "unknown"
      BY <1>6, <2>2 DEF Present
    <3> QED
      BY <1>6, <1>8, <2>1, <2>2, <3>1
  <2>3. CASE k \notin news
    BY <1>2, <1>8, <2>1, <2>3 DEF Upward
  <2> QED
    BY <2>2, <2>3
<1>13. Whole' /\ Fresh'
  BY <1>1, <1>2, <1>8, Tree DEF Whole, Fresh
<1>14. Landed'
  <2> SUFFICES ASSUME NEW k \in Repo, entry'[k] \in Present
               PROVE  (/\ k \notin pins => (entry[k] = "ready" <=> on[k] = Target(k))
                       /\ k \in pins /\ ~Pinning(k) => pinned[k] /\ entry[k] = "ready"
                       /\ Standalone /\ k \notin pins => ~pinned[k]
                       /\ Standalone /\ k = Memory => on[k] # "target")'
    BY DEF Landed
  <2>1. Target(k)' = Target(k) /\ (Standalone' <=> Standalone) /\ ~Pinning(k)
    BY <1>1 DEF Target, Standalone, Pinning
  <2>2. /\ k \notin pins => (entry[k] = "ready" <=> on[k] = Target(k))
        /\ k \in pins /\ ~Pinning(k) => pinned[k] /\ entry[k] = "ready"
        /\ Standalone /\ k \notin pins => ~pinned[k]
        /\ Standalone /\ k = Memory => on[k] # "target"
    BY <1>2, <1>8 DEF Landed
  <2> QED
    BY <1>1, <1>8, <2>1, <2>2
<1>15. Agreed'
  <2>1. ASSUME NEW q \in Repo, found'[q] = "resolved" PROVE \A k \in Kids(q) : entry'[k] # "unknown"
    <3>1. CASE q \in read
      BY <1>7, <1>8, <3>1, KidsAre
    <3>2. CASE q \notin read
      <4>1. found[q] = "resolved"
        BY <1>4, <2>1, <3>2
      <4> QED
        BY <1>2, <1>8, <4>1, KidsAre DEF Agreed
    <3> QED
      BY <3>1, <3>2
  <2>2. job.cmd = "restore" => \A q \in Repo : found'[q] = "resolved"
    BY <1>2, <1>4 DEF Agreed, Asked
  <2> HIDE DEF read
  <2>3. (pins = IF job.cmd = "restore" THEN Pins(job) ELSE {})' /\ (\A q \in pins : held[q])'
    BY <1>1, <1>2 DEF Agreed, Pins
  <2> QED
    BY <1>1, <2>1, <2>2, <2>3 DEF Agreed, Kids
<1>16. Batches'
  <2>1. Pending' = news
    BY <1>2, <1>6, <1>8 DEF Pending
  <2>2. \A k \in news : disk'[k] = "absent"
    <3>1. \A k \in news : entry[k] \notin Present
      BY <1>6 DEF Present
    <3> QED
      BY <1>1, <1>2, <1>6, <3>1 DEF Fresh
  <2>3. CASE news # {}
    BY <1>1, <1>2, <1>4, <2>1, <2>2, <2>3 DEF Batches
  <2>4. CASE news = {}
    <3>1. ASSUME NEW q \in Repo, (q \in Asked)' PROVE ~Finds(q)'
      <4>1. q \in Asked
        BY <1>4, <1>8, <2>4, <3>1 DEF Asked
      <4>2. q \notin read
        BY <1>4, <3>1 DEF Asked
      <4>3. ~Finds(q)
        BY <4>1, <4>2
      <4> QED
        BY <1>1, <4>3 DEF Finds
    <3>2. (\A q \in Asked : ~Finds(q))'
      BY <3>1 DEF Asked
    <3> QED
      BY <1>1, <1>2, <1>4, <2>1, <2>4, <3>2 DEF Batches
  <2> QED
    BY <2>3, <2>4
<1> QED
  BY <1>1, <1>3, <1>9, <1>10, <1>11, <1>12, <1>13, <1>14, <1>15, <1>16, GoesOn

LEMMA CompleteKeeps == ASSUME InstallInv, Complete PROVE InstallInv'
<1>1. at = "complete" /\ UNCHANGED <<has, config, held, disk, on, pinned, unsaved, cleared>> /\ TypeOK
  BY DEF Complete, Still, remotes, disks, InstallInv
<1>2. TypeOK' /\ Kept' /\ Nested'
  BY <1>1, CompleteTypes DEF InstallInv, Kept, Nested
<1>3. CASE \E r \in Asked : ~(Waits(r) /\ found[r] = "missing")
  <2>1. End("failed")
    BY <1>3 DEF Complete
  <2> QED
    BY <1>1, <1>2, <2>1, EndKeeps DEF Result
<1>4. CASE ~\E r \in Asked : ~(Waits(r) /\ found[r] = "missing")
  <2>1. /\ at' = "ignore" /\ told' = {r \in Repo : Waits(r)}
        /\ UNCHANGED <<entry, landed, found, batch, result, job, pins>>
    BY <1>4 DEF Complete, Go, registry
  <2>2. UNCHANGED <<has, config, held, disk, on, pinned, entry, landed, found, job, pins>>
    BY <1>1, <2>1
  <2>3. Named /\ Upward /\ Whole /\ Fresh /\ Landed /\ Agreed /\ Batches
    BY <1>1, RunIs
  <2>4. at # "pin" /\ at' # "pin" /\ at # "idle" /\ at' # "idle"
    BY <1>1, <2>1
  <2>5. /\ (on[Root] = "target")' /\ Named' /\ Upward' /\ Whole' /\ Fresh' /\ Landed' /\ Agreed'
        /\ Pending' = Pending /\ Asked' = Asked
    BY <2>2, <2>3, <2>4, StillHolds
  <2>6. Batches'
    <3>1. (\A r \in Asked : ~Finds(r))'
      BY <1>1, <2>2, <2>3, <2>5 DEF Batches, Finds
    <3>2. told' = {r \in Repo : Waits(r)'}
      BY <2>1, <2>2 DEF Waits
    <3>3. Asked \subseteq told'
      BY <1>4, <2>1 DEF Asked
    <3> QED
      BY <1>1, <2>1, <2>3, <2>5, <3>1, <3>2, <3>3 DEF Batches
  <2> QED
    BY <1>1, <1>2, <2>1, <2>4, <2>5, <2>6, GoesOn
<1> QED
  BY <1>3, <1>4

LEMMA SyncIgnoreKeeps == ASSUME InstallInv, SyncIgnore PROVE InstallInv'
<1>1. at = "ignore" /\ UNCHANGED <<has, config, held, disk, on, pinned, cleared>> /\ TypeOK
  BY DEF SyncIgnore, Still, remotes, InstallInv
<1>2. Named /\ Upward /\ Whole /\ Fresh /\ Landed /\ Agreed /\ Batches /\ Kept /\ Nested
  BY <1>1, RunIs DEF InstallInv
<1>3. TypeOK' /\ Nested'
  BY <1>1, <1>2, SyncIgnoreTypes DEF Nested
<1>4. \A u \in Unlisted : u \in Repo /\ disk[u] = "whole"
  <2> SUFFICES ASSUME NEW u \in Unlisted PROVE disk[u] = "whole"
    BY DEF Unlisted
  <2>1. PICK k \in Kids(u) : entry[k] # "unknown"
    BY DEF Unlisted
  <2>2. u \in Repo /\ k \in Repo \ {Root} /\ Parent[k] = u
    BY KidsAre DEF Unlisted
  <2>3. entry[u] # "unknown" /\ entry[u] # "declared"
    BY <1>1, <1>2, <2>1, <2>2 DEF Upward, Batches, Pending
  <2>4. entry[u] \in Present
    BY <1>1, <2>2, <2>3, Entries
  <2> QED
    BY <1>2, <2>2, <2>4 DEF Whole
<1>5. PICK done \in SUBSET Unlisted :
              /\ \/ UNCHANGED unsaved
                 \/ \E last \in done : unsaved' = [unsaved EXCEPT ![last] = @ \cup {"head"}]
              /\ \/ End("failed")
                 \/ Go("save") /\ UNCHANGED <<registry, batch, told>>
  BY DEF SyncIgnore
<1>6. Kept'
  BY <1>1, <1>2, <1>4, <1>5 DEF Kept, TypeOK
<1>7. CASE End("failed")
  BY <1>1, <1>3, <1>6, <1>7, EndKeeps DEF Result
<1>8. CASE Go("save") /\ UNCHANGED <<registry, batch, told>>
  <2>1. /\ UNCHANGED <<has, config, held, disk, on, pinned, entry, landed, found, job, pins>>
        /\ at' = "save" /\ UNCHANGED <<batch, told, result>>
    BY <1>1, <1>8 DEF Go, registry
  <2>2. at # "pin" /\ at' # "pin" /\ at # "idle" /\ at' # "idle"
    BY <1>1, <2>1
  <2>3. /\ (on[Root] = "target")' /\ Named' /\ Upward' /\ Whole' /\ Fresh' /\ Landed' /\ Agreed'
        /\ Pending' = Pending /\ Asked' = Asked
    BY <1>2, <2>1, <2>2, StillHolds
  <2>4. Batches'
    <3>1. (\A r \in Asked : ~Finds(r))'
      BY <1>1, <1>2, <2>1, <2>3 DEF Batches, Finds
    <3>2. told' = {r \in Repo : Waits(r)'}
      BY <1>1, <1>2, <2>1 DEF Waits, Batches
    <3> QED
      BY <1>1, <1>2, <2>1, <2>3, <3>1, <3>2 DEF Batches
  <2> QED
    BY <1>1, <1>3, <1>6, <2>1, <2>2, <2>3, <2>4, GoesOn
<1> QED
  BY <1>5, <1>7, <1>8

LEMMA StopKeeps == ASSUME InstallInv, Save \/ Fail \/ Kill PROVE InstallInv'
<1>1. ASSUME Save PROVE InstallInv'
  <2>1. UNCHANGED <<has, disk, on, unsaved>> /\ (End("ready") \/ End("failed"))
    BY <1>1 DEF Save, Still, remotes, disks
  <2>2. TypeOK' /\ Nested' /\ Kept'
    BY <1>1, <2>1, SaveTypes DEF InstallInv, Nested, Kept
  <2> QED
    BY <2>1, <2>2, EndKeeps DEF Result
<1>2. ASSUME Fail PROVE InstallInv'
  <2>1. UNCHANGED <<has, disk, on, unsaved>> /\ End("failed")
    BY <1>2 DEF Fail, Still, remotes, disks
  <2>2. TypeOK' /\ Nested' /\ Kept'
    BY <1>2, <2>1, FailTypes DEF InstallInv, Nested, Kept
  <2> QED
    BY <2>1, <2>2, EndKeeps DEF Result
<1>3. ASSUME Kill PROVE InstallInv'
  <2>1. UNCHANGED <<has, on, unsaved>> /\ End("killed") /\ TypeOK /\ Nested /\ Kept
    BY <1>3 DEF Kill, remotes, InstallInv
  <2>2. TypeOK'
    BY <1>3, <2>1, KillTypes
  <2>3. CASE UNCHANGED disk
    <3>1. Nested' /\ Kept'
      BY <2>1, <2>3 DEF Nested, Kept
    <3> QED
      BY <2>1, <2>2, <3>1, EndKeeps DEF Result
  <2>4. CASE at = "clone" /\ \E left \in {"debris", "half"} : disk' = [disk EXCEPT ![First(batch)] = left]
    <3> DEFINE r == First(batch)
    <3>1. Batches /\ Whole
      BY <2>4, RunIs
    <3>2. /\ r \in Repo /\ (r # Root => entry[Parent[r]] \in Present)
          /\ \A k \in Beneath[r] : disk[k] = "absent"
      BY <2>4, <3>1, BatchIs DEF Batches
    <3>3. disk[r] = "absent" /\ unsaved[r] = {}
      BY <2>1, <3>2, BeneathIs DEF Kept
    <3>4. disk'[r] # "absent" /\ \A k \in Repo \ {r} : disk'[k] = disk[k]
      BY <2>1, <2>4, <3>2 DEF TypeOK
    <3> HIDE DEF r
    <3>5. Kept'
      BY <2>1, <3>3, <3>4 DEF Kept
    <3>6. Nested'
      <4>1. r # Root => disk[Parent[r]] = "whole" /\ Parent[r] # r
        BY <3>1, <3>2, Tree DEF Whole
      <4>2. ASSUME NEW k \in Repo \ {Root}, disk'[Parent[k]] = "absent" PROVE disk'[k] = "absent"
        BY <2>1, <3>4, <4>1, <4>2, Tree DEF Nested
      <4> QED
        BY <4>2 DEF Nested
    <3> QED
      BY <2>1, <2>2, <3>5, <3>6, EndKeeps DEF Result
  <2> QED
    BY <1>3, <2>3, <2>4 DEF Kill
<1> QED
  BY <1>1, <1>2, <1>3

LEMMA UserKeeps ==
    ASSUME InstallInv, NEW r \in Repo, (\E w \in Work : Edit(r, w)) \/ Publish(r) \/ MoveAside(r)
    PROVE  InstallInv'
<1>1. TypeOK' /\ TypeOK
  BY UserTypes DEF InstallInv
<1>2. ASSUME NEW w \in Work, Edit(r, w) PROVE InstallInv'
  <2>1. UNCHANGED <<has, config, held, disk, on, pinned, entry, landed, found, job, at, batch, pins, told, result, cleared>>
    BY <1>2, EditStill
  <2>2. Kept'
    BY <1>1, <1>2, <2>1 DEF InstallInv, Kept, Edit, TypeOK
  <2>3. RefusalDeletesNothing'
    BY <2>1 DEF RefusalDeletesNothing, InstallInv
  <2>4. CASE at = "idle"
    BY <1>1, <2>1, <2>2, <2>3, <2>4 DEF InstallInv, Nested, Running
  <2>5. CASE at # "idle"
    <3>1. Named /\ Upward /\ Whole /\ Fresh /\ Landed /\ Agreed /\ Batches
      BY <2>5, RunIs
    <3>2. (on[Root] = "target")' /\ Nested' /\ Named' /\ Upward' /\ Whole' /\ Fresh' /\ Agreed'
          /\ Pending' = Pending /\ Asked' = Asked
      BY <2>1, <3>1, StillHolds
    <3>3. Landed'
      BY <2>1, <3>1 DEF Landed, Pinning, Target, Standalone
    <3>4. Batches'
      BY <2>1, <3>1, <3>2 DEF Batches, Select, Target, Standalone, Finds, Waits
    <3> QED
      BY <1>1, <2>1, <2>2, <2>5, <3>2, <3>3, <3>4, GoesOn
  <2> QED
    BY <2>4, <2>5
<1>3. ASSUME Publish(r) PROVE InstallInv'
  <2>1. UNCHANGED <<has, disk, on, at, pins, result, cleared>> /\ at = "idle"
    BY <1>3, PublishStill DEF Publish
  <2>2. Kept'
    BY <1>1, <1>3, <2>1 DEF InstallInv, Kept, Publish, TypeOK
  <2> QED
    BY <1>1, <2>1, <2>2 DEF InstallInv, Nested, Running, RefusalDeletesNothing
<1>4. ASSUME MoveAside(r) PROVE InstallInv'
  <2>1. /\ UNCHANGED <<has, on, at, pins, result, cleared>> /\ at = "idle"
        /\ disk' = [k \in Repo |-> IF k \in Beneath[r] \/ r = Root THEN "absent" ELSE disk[k]]
        /\ unsaved' = [k \in Repo |-> IF k \in Beneath[r] \/ r = Root THEN {} ELSE unsaved[k]]
    BY <1>4, MoveAsideStill DEF MoveAside
  <2>2. Kept'
    BY <2>1 DEF InstallInv, Kept
  <2>3. Nested'
    <3>1. ASSUME NEW k \in Repo \ {Root}, disk'[Parent[k]] = "absent" PROVE disk'[k] = "absent"
      <4>1. CASE Parent[k] \in Beneath[r]
        BY <2>1, <4>1, BeneathIs
      <4>2. CASE Parent[k] \notin Beneath[r]
        BY <2>1, <3>1, <4>2, Tree DEF InstallInv, Nested
      <4> QED
        BY <4>1, <4>2
    <3> QED
      BY <3>1 DEF Nested
  <2> QED
    BY <1>1, <2>1, <2>2, <2>3 DEF InstallInv, Running, RefusalDeletesNothing
<1> QED
  BY <1>2, <1>3, <1>4

LEMMA StepInv == ASSUME InstallInv, [Next]_vars PROVE InstallInv'
<1>1. CASE UNCHANGED vars
  <2>1. UNCHANGED <<has, config, shares, held, disk, on, pinned, ignore, unsaved, entry, landed, found, job, at, batch,
                    pins, told, result, cleared, lost, work, faults, runs>>
    BY <1>1 DEF vars, remotes, disks, registry, run
  <2>2. TypeOK'
    BY <2>1 DEF InstallInv, TypeOK
  <2>3. Kept' /\ Nested' /\ RefusalDeletesNothing'
    BY <2>1 DEF InstallInv, Kept, Nested, RefusalDeletesNothing
  <2>4. CASE at = "idle"
    BY <2>1, <2>2, <2>3, <2>4 DEF InstallInv, Running
  <2>5. CASE at # "idle"
    <3>1. Named /\ Upward /\ Whole /\ Fresh /\ Landed /\ Agreed /\ Batches
      BY <2>5, RunIs
    <3>2. (on[Root] = "target")' /\ Nested' /\ Named' /\ Upward' /\ Whole' /\ Fresh' /\ Agreed'
          /\ Pending' = Pending /\ Asked' = Asked
      BY <2>1, <3>1, StillHolds
    <3>3. Landed'
      BY <2>1, <3>1 DEF Landed, Pinning, Target, Standalone
    <3>4. Batches'
      BY <2>1, <3>1, <3>2 DEF Batches, Select, Target, Standalone, Finds, Waits
    <3> QED
      BY <2>1, <2>2, <2>3, <2>5, <3>2, <3>3, <3>4, GoesOn
  <2> QED
    BY <2>4, <2>5
<1>2. CASE Next
  BY <1>2, StartKeeps, NextBatchKeeps, ClearKeeps, CloneKeeps, PinKeeps, DiscoverKeeps, CompleteKeeps,
     SyncIgnoreKeeps, StopKeeps, UserKeeps DEF Next, Step
<1> QED
  BY <1>1, <1>2

-----------------------------------------------------------------------------
(* What it comes to *)

\* Whichever component runs, an install's states satisfy the invariant.
LEMMA InstallHolds == Workspaces => [](which = "install" => InstallInv)
<1>1. InitOne => (which = "install" => InstallInv)
  BY InitInv DEF InitOne
<1>2. (which = "install" => InstallInv) /\ [OneRuns]_all => (which = "install" => InstallInv)'
  <2> SUFFICES ASSUME which = "install" => InstallInv, [OneRuns]_all, which' = "install" PROVE InstallInv'
    OBVIOUS
  <2>1. CASE UNCHANGED all
    <3>1. UNCHANGED vars /\ which = "install"
      BY <2>1 DEF all, shared, installOnly, vars, remotes, disks, registry, run
    <3> QED
      BY <3>1, StepInv
  <2>2. CASE OneRuns
    <3>1. which = "install" /\ Next
      BY <2>2 DEF OneRuns, Installing, Resyncing
    <3> QED
      BY <3>1, StepInv
  <2> QED
    BY <2>1, <2>2
<1> QED
  BY <1>1, <1>2, PTL DEF Workspaces

\* Every variable of an install holds a value the code can produce.
THEOREM InstallTyped == Workspaces => [](which = "install" => TypeOK)
<1>1. InstallInv => TypeOK
  BY DEF InstallInv
<1> QED
  BY <1>1, InstallHolds, PTL

\* A run that refuses deleted nothing, for every tree: what a later batch asks about
\* is inside what the run itself has cloned, so it is never there to be asked about.
THEOREM RefusalsDeleteNothing == Workspaces => [](which = "install" => RefusalDeletesNothing)
<1>1. InstallInv => RefusalDeletesNothing
  BY DEF InstallInv
<1> QED
  BY <1>1, InstallHolds, PTL

LEMMA SavedIs ==
    ASSUME InstallInv, at = "save"
    PROVE  /\ Named /\ Upward /\ Whole /\ Landed /\ Agreed
           /\ \A r \in Repo : entry[r] # "unknown" => entry[r] \in Present
           /\ (\A r \in Asked : ~Finds(r)) /\ told = {r \in Repo : Waits(r)} /\ Asked \subseteq told
           /\ \A r \in Repo : ~Pinning(r)
<1>1. TypeOK /\ Named /\ Upward /\ Whole /\ Landed /\ Agreed /\ Batches
  BY RunIs
<1>2. \A r \in Repo : entry[r] # "unknown" => entry[r] \in Present
  BY <1>1, Entries DEF Batches
<1> QED
  BY <1>1, <1>2 DEF Batches, Pinning

LEMMA ReadyWhole == InstallInv => ReadyIsThere
<1> SUFFICES ASSUME InstallInv, at = "save", NEW r \in Repo
             PROVE  /\ entry[r] # "unknown" => disk[r] = "whole" /\ (on[r] = landed[r] \/ r \in pins)
                    /\ r \in pins => pinned[r]
                    /\ r # Root /\ job.cmd # "restore" /\ entry[r] # "unknown" /\ Finds(r) =>
                          \A k \in Kids(r) : entry[k] # "unknown"
  BY DEF ReadyIsThere
<1>1. entry[r] # "unknown" => disk[r] = "whole" /\ (on[r] = landed[r] \/ r \in pins)
  BY SavedIs DEF Whole
<1>2. ASSUME r \in pins PROVE pinned[r]
  <2>1. job.cmd = "restore"
    BY <1>2, SavedIs DEF Agreed
  <2>2. entry[r] # "unknown"
    <3>1. CASE r = Root
      BY <3>1, SavedIs DEF Named
    <3>2. CASE r # Root
      <4>1. Parent[r] \in Repo /\ r \in Kids(Parent[r])
        BY <3>2, Tree DEF Kids
      <4> QED
        BY <2>1, <4>1, SavedIs DEF Agreed
    <3> QED
      BY <3>1, <3>2
  <2> QED
    BY <1>2, <2>2, SavedIs DEF Landed
<1>3. ASSUME r # Root, entry[r] # "unknown", Finds(r), NEW k \in Kids(r) PROVE entry[k] # "unknown"
  <2>1. r \notin Asked
    BY <1>3, SavedIs
  <2>2. found[r] = "resolved"
    BY <1>3, <2>1 DEF Asked
  <2> QED
    BY <1>3, <2>2, SavedIs DEF Agreed
<1> QED
  BY <1>1, <1>2, <1>3

LEMMA WaitingTold == InstallInv => WaitingIsTold
<1> SUFFICES ASSUME InstallInv, at = "save", NEW r \in Repo
             PROVE  /\ r \in Private \ pins /\ entry[r] # "unknown" /\ on[r] # Target(r) => r \in told
                    /\ entry[r] # "unknown" /\ r # Root /\ Kids(r) # {} /\ (\A k \in Kids(r) : entry[k] = "unknown")
                          => r \in told
  BY DEF WaitingIsTold
<1>1. ASSUME r \in Private \ pins, entry[r] # "unknown", on[r] # Target(r) PROVE r \in told
  <2>1. entry[r] \in Present /\ entry[r] # "ready"
    BY <1>1, SavedIs DEF Landed
  <2> QED
    BY <1>1, <2>1, SavedIs DEF Waits, Present
<1>2. ASSUME entry[r] # "unknown", r # Root, Kids(r) # {}, \A k \in Kids(r) : entry[k] = "unknown" PROVE r \in told
  <2>1. found[r] # "resolved"
    BY <1>2, SavedIs DEF Agreed
  <2> QED
    BY <1>2, <2>1, SavedIs DEF Asked
<1> QED
  BY <1>1, <1>2

LEMMA TwinApart == InstallInv => TwinStandsApart
<1> SUFFICES ASSUME InstallInv, at = "save", Standalone, NEW r \in Beneath[Memory], entry[r] # "unknown"
             PROVE  (r = Memory => on[r] # "target") /\ (pinned[r] => job.twin)
  BY DEF TwinStandsApart
<1>1. r \in Repo /\ entry[r] \in Present
  BY Tree, BeneathIs, SavedIs
<1>2. r = Memory => on[r] # "target"
  BY <1>1, SavedIs DEF Landed
<1>3. pinned[r] => r \in pins
  BY <1>1, SavedIs DEF Landed
<1>4. r \in pins => job.twin
  BY SavedIs DEF Agreed, Pins
<1> QED
  BY <1>2, <1>3, <1>4

LEMMA RestoreWhole == InstallInv => RestoreIsWhole
<1> SUFFICES ASSUME InstallInv, pins # {} PROVE \A r \in pins : held[r]
  BY DEF RestoreIsWhole
<1> QED
  BY RunIs DEF InstallInv, Agreed

\* A tree that is saved as READY is on disk as its registry says, whoever waits for a
\* branch was told, a standalone memory keeps to its own branch, and a snapshot is
\* restored whole: whatever the tree, its faults, and what the user does meanwhile.
THEOREM SavedTreesAreSound == Workspaces => []SavedTreeIsSound
<1>1. (which = "install" => InstallInv) => SavedTreeIsSound
  BY ReadyWhole, WaitingTold, TwinApart, RestoreWhole DEF SavedTreeIsSound
<1> QED
  BY <1>1, InstallHolds, PTL

-----------------------------------------------------------------------------
(* Work that is cleared *)

\* What the guard let through is still without work of its kind when it is cleared.
Guarded == at \in {"clear", "clone", "pin"} => \A r \in Pending : unsaved[r] \subseteq {"elsewhere"}
GuardInv == InstallInv /\ Guarded /\ GuardKeepsWork

\* A step that ends the run, or that asks for nothing to be guarded.
LEMMA Unguarded == at' \notin {"clear", "clone", "pin"} => Guarded'
BY DEF Guarded

LEMMA LostSame == GuardKeepsWork /\ UNCHANGED lost => GuardKeepsWork'
BY DEF GuardKeepsWork

\* The guard is asked of all that is declared.
LEMMA NextBatchGuards == ASSUME GuardInv, NextBatch PROVE Guarded' /\ GuardKeepsWork'
<1>1. at = "batch" /\ UNCHANGED <<disk, unsaved, ignore, lost>> /\ TypeOK /\ Fresh /\ Kept
  BY RunIs DEF NextBatch, Still, disks, GuardInv, InstallInv
<1>2. GuardKeepsWork'
  BY <1>1, LostSame DEF GuardInv
<1>3. CASE Blocked(Pending) # {}
  BY <1>2, <1>3, Unguarded DEF NextBatch, End
<1>4. CASE Blocked(Pending) = {}
  <2>1. UNCHANGED entry
    BY <1>4 DEF NextBatch, registry
  <2>2. ASSUME NEW r \in Pending PROVE unsaved[r] \subseteq {"elsewhere"}
    <3>1. r \in Repo /\ entry[r] \notin Present
      BY DEF Pending, Present
    <3>2. CASE disk[r] # "whole"
      BY <1>1, <3>1, <3>2 DEF Kept
    <3>3. CASE disk[r] = "whole"
      <4>1. r # Root
        BY <1>1, <3>1, <3>3 DEF Fresh
      <4>2. ~BlockReason(r)
        BY <1>4, <3>3, <4>1 DEF Blocked, Populated
      <4>3. "uncommitted" \notin unsaved[r] /\ "head" \notin unsaved[r]
        BY <3>3, <4>2 DEF BlockReason, Checkout, Dirty, LocalOnly
      <4> QED
        BY <1>1, <3>1, <4>3 DEF TypeOK, Work
    <3> QED
      BY <3>2, <3>3
  <2>3. Pending' = Pending
    BY <2>1 DEF Pending
  <2>4. Guarded'
    BY <1>1, <2>2, <2>3 DEF Guarded
  <2> QED
    BY <1>2, <2>4
<1> QED
  BY <1>3, <1>4

\* What goes with a destination and is of the document was asked about.
LEMMA ClearGuards == ASSUME GuardInv, Clear PROVE Guarded' /\ GuardKeepsWork'
<1> DEFINE r == First(batch)
<1> DEFINE gone == IF r # Root /\ Populated(r) THEN {k \in Beneath[r] : Populated(k)} ELSE {}
<1>1. at = "clear" /\ InstallInv /\ TypeOK /\ Named /\ Guarded /\ GuardKeepsWork
  BY RunIs DEF Clear, GuardInv
<1>2. r \in Repo /\ (\A k \in Beneath[r] : entry[k] \notin Present)
  BY <1>1, BatchIs
<1>3. CASE Select(r) = "none"
  BY <1>1, <1>3, Unguarded, LostSame DEF Clear, End
<1>4. CASE Select(r) # "none"
  <2>1. /\ UNCHANGED entry
        /\ lost' = lost \cup {x \in gone \X Work : x[2] \in unsaved[x[1]]}
        /\ unsaved' = [k \in Repo |-> IF k \in gone THEN {} ELSE unsaved[k]]
    BY <1>4 DEF Clear, registry
  <2>2. \A k \in gone : k \in Repo /\ entry[k] \notin Present
    BY <1>2, BeneathIs
  <2> HIDE DEF gone
  <2>3. \A k \in gone : k \in Document => k \in Pending
    BY <1>1, <2>2, Entries DEF Named
  <2>4. ASSUME NEW x \in lost', x[1] \in Document PROVE x[2] = "elsewhere"
    <3>1. CASE x \in lost
      BY <1>1, <2>4, <3>1 DEF GuardKeepsWork
    <3>2. CASE x \in gone \X Work /\ x[2] \in unsaved[x[1]]
      BY <1>1, <2>3, <2>4, <3>2 DEF Guarded
    <3> QED
      BY <2>1, <3>1, <3>2
  <2>5. GuardKeepsWork'
    BY <2>4 DEF GuardKeepsWork
  <2>6. Guarded'
    BY <1>1, <2>1 DEF Guarded, Pending
  <2> QED
    BY <2>5, <2>6
<1> QED
  BY <1>3, <1>4

LEMMA CloneGuards == ASSUME GuardInv, Clone \/ Pin PROVE Guarded' /\ GuardKeepsWork'
<1>1. at \in {"clone", "pin"} /\ UNCHANGED <<unsaved, lost>> /\ TypeOK /\ InstallInv
  BY DEF Clone, Pin, Still, GuardInv, InstallInv
<1>2. First(batch) \in Repo /\ (Clone => Select(First(batch)) # "none")
  <2>1. Batches
    BY <1>1, RunIs
  <2>2. batch \in SUBSET Repo /\ batch # {}
    BY <1>1, <2>1 DEF Batches, TypeOK
  <2> QED
    BY <1>1, <2>1, <2>2, FirstIs DEF Batches, Clone
<1>3. at' \in {"clear", "clone", "pin"} => Pending' \subseteq Pending
  <2>1. CASE Clone
    BY <1>1, <1>2, <2>1 DEF Clone, Pending, TypeOK
  <2>2. CASE Pin
    BY <1>1, <1>2, <2>2 DEF Pin, Pending, TypeOK, End
  <2> QED
    BY <2>1, <2>2
<1>4. Guarded'
  BY <1>1, <1>3 DEF Guarded, GuardInv
<1> QED
  BY <1>1, <1>4, LostSame DEF GuardInv

\* While nobody works beside a run, no step of it can lose what the guard asks about.
LEMMA GuardStep == ASSUME ~During, GuardInv, [Next]_vars PROVE GuardInv'
<1>1. InstallInv'
  BY StepInv DEF GuardInv
<1>2. CASE UNCHANGED vars
  <2>1. UNCHANGED <<at, entry, unsaved, lost>>
    BY <1>2 DEF vars, registry, run, disks
  <2> QED
    BY <1>1, <2>1 DEF GuardInv, Guarded, GuardKeepsWork, Pending
<1>3. CASE \E j \in Job : Start(j)
  <2>1. at' \in {"idle", "batch"} /\ UNCHANGED lost
    BY <1>3 DEF Start, End
  <2> QED
    BY <1>1, <2>1, Unguarded, LostSame DEF GuardInv
<1>4. CASE Discover \/ Complete \/ SyncIgnore \/ Save \/ Fail \/ Kill
  <2>1. at' \notin {"clear", "clone", "pin"} /\ UNCHANGED lost
    BY <1>4 DEF Discover, Complete, SyncIgnore, Save, Fail, Kill, Still, Go, End
  <2> QED
    BY <1>1, <2>1, Unguarded, LostSame DEF GuardInv
<1>5. CASE \E r \in Repo : (\E w \in Work : Edit(r, w)) \/ Publish(r) \/ MoveAside(r)
  <2>1. at = "idle" /\ UNCHANGED at /\ UNCHANGED lost
    BY <1>5 DEF Edit, Publish, MoveAside, MayAct, run
  <2> QED
    BY <1>1, <2>1, Unguarded, LostSame DEF GuardInv
<1> QED
  BY <1>1, <1>2, <1>3, <1>4, <1>5, NextBatchGuards, ClearGuards, CloneGuards DEF Next, Step, GuardInv

\* The work that Git's status and HEAD show is never cleared with a repository the
\* document names, in any tree and after any number of runs, faults and kills: as
\* long as nobody works while a run goes on, the guard's one look is enough.
THEOREM GuardedWorkIsKept == ASSUME ~During PROVE Workspaces => []GuardedWorkKept
<1>1. InitOne => (which = "install" => GuardInv)
  <2>1. Init => Guarded /\ GuardKeepsWork
    BY DEF Init, Guarded, GuardKeepsWork
  <2> QED
    BY <2>1, InitInv DEF GuardInv, InitOne
<1>2. (which = "install" => GuardInv) /\ [OneRuns]_all => (which = "install" => GuardInv)'
  <2> SUFFICES ASSUME which = "install" => GuardInv, [OneRuns]_all, which' = "install" PROVE GuardInv'
    OBVIOUS
  <2>1. CASE UNCHANGED all
    <3>1. UNCHANGED vars /\ which = "install"
      BY <2>1 DEF all, shared, installOnly, vars, remotes, disks, registry, run
    <3> QED
      BY <3>1, GuardStep
  <2>2. CASE OneRuns
    <3>1. which = "install" /\ Next
      BY <2>2 DEF OneRuns, Installing, Resyncing
    <3> QED
      BY <3>1, GuardStep
  <2> QED
    BY <2>1, <2>2
<1>3. (which = "install" => GuardInv) => GuardedWorkKept
  BY DEF GuardInv, InstallInv, GuardedWorkKept
<1> QED
  BY <1>1, <1>2, <1>3, PTL DEF Workspaces

-----------------------------------------------------------------------------
(* The repositories of a command, and their branches *)

LEMMA ResyncTree ==
    /\ Resyncs!Root \in Resyncs!Repo /\ Memory \in Hidden /\ Memory # Resyncs!Root /\ Hidden \subseteq Resyncs!Repo
    /\ Resyncs!Recorded \subseteq Resyncs!Repo /\ Resyncs!Root \in Resyncs!Recorded /\ Memory \notin Resyncs!Recorded /\ Memory \in Resyncs!Repo
    /\ \A r \in Resyncs!Repo : Resyncs!Place[r] \in 1..Len(Few) /\ Few[Resyncs!Place[r]] = r
    /\ \A c \in Resyncs!Commands : Resyncs!InScope(c) \subseteq Resyncs!Repo /\ Resyncs!InScope(c) # {}
<1>1. Len(Few) \in Nat /\ Len(Few) >= 1 /\ DOMAIN Few = 1..Len(Few)
  BY ResyncAssumption DEF Resyncs!Fitting
<1>2. Resyncs!Root \in Resyncs!Repo
  BY <1>1 DEF Resyncs!Root, Resyncs!Repo, Resyncs!ToSet
<1>3. ASSUME NEW r \in Resyncs!Repo PROVE Resyncs!Place[r] \in 1..Len(Few) /\ Few[Resyncs!Place[r]] = r
  <2>1. \E i \in DOMAIN Few : Few[i] = r
    BY DEF Resyncs!Repo, Resyncs!ToSet
  <2>2. Resyncs!Place[r] = CHOOSE i \in DOMAIN Few : Few[i] = r
    BY DEF Resyncs!Place
  <2> QED
    BY <1>1, <2>1, <2>2
<1> QED
  BY <1>2, <1>3, ResyncAssumption DEF Resyncs!Fitting, Resyncs!Recorded, Resyncs!InScope

\* Some of them have a first and a last one.
LEMMA OneIsFirst ==
    ASSUME NEW S \in SUBSET Resyncs!Repo, S # {}
    PROVE  Resyncs!First(S) \in S /\ Resyncs!First(S) \in Resyncs!Repo
<1> DEFINE spots == {Resyncs!Place[r] : r \in S}
<1>1. spots \in SUBSET (1..Len(Few)) /\ spots # {} /\ Len(Few) \in Nat
  BY ResyncTree, ResyncAssumption DEF Resyncs!Fitting
<1>2. PICK m \in spots : \A k \in spots : m <= k
  <2> HIDE DEF spots
  <2> QED
    BY <1>1, Least
<1>3. \E r \in S : \A k \in S : Resyncs!Place[r] <= Resyncs!Place[k]
  BY <1>2
<1> QED
  BY <1>3 DEF Resyncs!First

LEMMA OneIsDeepest ==
    ASSUME NEW S \in SUBSET Resyncs!Repo, S # {}
    PROVE  Resyncs!Deepest(S) \in S /\ Resyncs!Deepest(S) \in Resyncs!Repo
<1> DEFINE n == Len(Few)
<1> DEFINE spots == {n + 1 - Resyncs!Place[r] : r \in S}
<1>1. n \in Nat /\ \A r \in S : Resyncs!Place[r] \in 1..n
  BY ResyncTree, ResyncAssumption DEF Resyncs!Fitting
<1>2. spots \in SUBSET (1..n) /\ spots # {}
  <2> HIDE DEF n
  <2> QED
    BY <1>1
<1>3. PICK m \in spots : \A k \in spots : m <= k
  <2> HIDE DEF spots
  <2> QED
    BY <1>1, <1>2, Least
<1>4. PICK r \in S : m = n + 1 - Resyncs!Place[r]
  BY <1>3
<1>5. \A k \in S : m <= n + 1 - Resyncs!Place[k]
  BY <1>3
<1>6. \A k \in S : Resyncs!Place[k] <= Resyncs!Place[r]
  <2> HIDE DEF n
  <2> QED
    BY <1>1, <1>4, <1>5
<1> QED
  BY <1>6 DEF Resyncs!Deepest

\* The changes that are in a commit, and the branches of a repository.
Commits == {"release", "own", "mate"} \X Nat
Refs == UNION {[B -> SUBSET Commits] : B \in SUBSET Resyncs!Branch}
TipOf(refs, b) == IF b \in DOMAIN refs THEN refs[b] ELSE {}

LEMMA RefsAre ==
    ASSUME NEW f \in Refs
    PROVE  /\ DOMAIN f \subseteq Resyncs!Branch /\ f \in [DOMAIN f -> SUBSET Commits]
           /\ \A b \in DOMAIN f : f[b] \subseteq Commits
           /\ \A b : TipOf(f, b) \subseteq Commits
BY DEF Refs, TipOf

LEMMA RefsOf ==
    ASSUME NEW B \in SUBSET Resyncs!Branch, NEW f \in [B -> SUBSET Commits]
    PROVE  f \in Refs /\ DOMAIN f = B
BY DEF Refs

\* What a set of branches holds.
LEMMA RangeHolds == ASSUME NEW f, NEW c PROVE c \in UNION Resyncs!Range(f) <=> \E b \in DOMAIN f : c \in f[b]
BY DEF Resyncs!Range

LEMMA RangeTips == ASSUME NEW f, NEW c PROVE c \in UNION Resyncs!Range(f) <=> \E b \in DOMAIN f : c \in TipOf(f, b)
BY DEF Resyncs!Range, TipOf

LEMMA WithIs ==
    ASSUME NEW f \in Refs, NEW b \in Resyncs!Branch, NEW c \in SUBSET Commits
    PROVE  /\ Resyncs!With(f, b, c) \in Refs /\ DOMAIN Resyncs!With(f, b, c) = DOMAIN f \cup {b}
           /\ Resyncs!With(f, b, c)[b] = c /\ \A x \in DOMAIN f \ {b} : Resyncs!With(f, b, c)[x] = f[x]
           /\ \A x : TipOf(Resyncs!With(f, b, c), x) = IF x = b THEN c ELSE TipOf(f, x)
<1> DEFINE B == DOMAIN f \cup {b}
<1>1. B \subseteq Resyncs!Branch /\ Resyncs!With(f, b, c) \in [B -> SUBSET Commits]
  BY RefsAre DEF Resyncs!With
<1>2. Resyncs!With(f, b, c) \in Refs /\ DOMAIN Resyncs!With(f, b, c) = B
  BY <1>1, RefsOf
<1>3. Resyncs!With(f, b, c)[b] = c /\ \A x \in DOMAIN f \ {b} : Resyncs!With(f, b, c)[x] = f[x]
  BY DEF Resyncs!With
<1> QED
  BY <1>2, <1>3 DEF TipOf

\* ... and what a branch that is made at a ref already there adds.
LEMMA Gets ==
    ASSUME NEW m \in Refs, NEW s \in Refs, NEW b \in Resyncs!Branch, b \notin DOMAIN m, b \in DOMAIN s,
           NEW g, g = Resyncs!With(m, b, s[b])
    PROVE  g \in Refs /\ DOMAIN g = DOMAIN m \cup {b} /\ g[b] = s[b] /\ \A x \in DOMAIN m : g[x] = m[x]
<1>1. s[b] \in SUBSET Commits
  BY RefsAre
<1>2. DOMAIN g = DOMAIN m \cup {b} /\ g \in Refs
  BY <1>1, WithIs
<1>3. g[b] = s[b] /\ \A x \in DOMAIN m \ {b} : g[x] = m[x]
  BY DEF Resyncs!With
<1> QED
  BY <1>2, <1>3

LEMMA WithTips == \A f \in Refs, b \in Resyncs!Branch, c \in SUBSET Commits : \A x : TipOf(Resyncs!With(f, b, c), x) = IF x = b THEN c ELSE TipOf(f, x)
  BY DEF Resyncs!With, TipOf

LEMMA WithHas == \A f \in Refs, b \in Resyncs!Branch, c \in SUBSET Commits : b \in DOMAIN Resyncs!With(f, b, c) /\ Resyncs!With(f, b, c)[b] = c
<1> TAKE f \in Refs, b \in Resyncs!Branch, c \in SUBSET Commits
<1>1. DOMAIN Resyncs!With(f, b, c) = DOMAIN f \cup {b}
  BY WithIs
<1>2. Resyncs!With(f, b, c)[b] = c
  BY DEF Resyncs!With
<1> QED
  BY <1>1, <1>2

LEMMA OverIs ==
    ASSUME NEW f \in Refs, NEW g \in Refs
    PROVE  /\ Resyncs!Over(f, g) \in Refs /\ DOMAIN Resyncs!Over(f, g) = DOMAIN f \cup DOMAIN g
           /\ \A x \in DOMAIN f : Resyncs!Over(f, g)[x] = f[x]
           /\ \A x \in DOMAIN g \ DOMAIN f : Resyncs!Over(f, g)[x] = g[x]
           /\ \A x : TipOf(Resyncs!Over(f, g), x) = IF x \in DOMAIN f THEN f[x] ELSE TipOf(g, x)
<1> DEFINE B == DOMAIN f \cup DOMAIN g
<1>1. B \subseteq Resyncs!Branch /\ Resyncs!Over(f, g) \in [B -> SUBSET Commits]
  BY RefsAre DEF Resyncs!Over
<1>2. Resyncs!Over(f, g) \in Refs /\ DOMAIN Resyncs!Over(f, g) = B
  BY <1>1, RefsOf
<1>3. (\A x \in DOMAIN f : Resyncs!Over(f, g)[x] = f[x]) /\ \A x \in DOMAIN g \ DOMAIN f : Resyncs!Over(f, g)[x] = g[x]
  BY DEF Resyncs!Over
<1> QED
  BY <1>2, <1>3 DEF TipOf

\* A branch that moves.
LEMMA ExceptIs ==
    ASSUME NEW f \in Refs, NEW b \in DOMAIN f, NEW c \in SUBSET Commits
    PROVE  /\ [f EXCEPT ![b] = c] \in Refs /\ DOMAIN [f EXCEPT ![b] = c] = DOMAIN f
           /\ [f EXCEPT ![b] = c][b] = c /\ \A x \in DOMAIN f \ {b} : [f EXCEPT ![b] = c][x] = f[x]
           /\ \A x : TipOf([f EXCEPT ![b] = c], x) = IF x = b THEN c ELSE TipOf(f, x)
<1>1. DOMAIN f \subseteq Resyncs!Branch /\ [f EXCEPT ![b] = c] \in [DOMAIN f -> SUBSET Commits]
  BY RefsAre
<1>2. [f EXCEPT ![b] = c] \in Refs /\ DOMAIN [f EXCEPT ![b] = c] = DOMAIN f
  BY <1>1, RefsOf
<1>3. [f EXCEPT ![b] = c][b] = c /\ \A x \in DOMAIN f \ {b} : [f EXCEPT ![b] = c][x] = f[x]
  BY <1>1
<1> QED
  BY <1>2, <1>3 DEF TipOf

LEMMA CutIs ==
    ASSUME NEW f \in Refs, NEW B \in SUBSET DOMAIN f
    PROVE  /\ [x \in B |-> f[x]] \in Refs /\ DOMAIN [x \in B |-> f[x]] = B
           /\ \A x : TipOf([y \in B |-> f[y]], x) = IF x \in B THEN f[x] ELSE {}
<1>1. B \subseteq Resyncs!Branch /\ [x \in B |-> f[x]] \in [B -> SUBSET Commits]
  BY RefsAre
<1> QED
  BY <1>1, RefsOf DEF TipOf

-----------------------------------------------------------------------------
(* What the variables hold, and where a command is *)

Spots   == Resyncs!Branch \cup {Resyncs!None}
Landing == {"branch", "tag", "commit"} \X (Resyncs!Branch \cup {"tag", "commit"})
Walks   == {"pull", "restart", "force", "force private"}
Walking == {"visit", "pull", "judge", "stash", "reset"}
Shifted == {m[1] : m \in moved}

RefsTyped == origin \in [Resyncs!Repo -> Refs] /\ track \in [Resyncs!Repo -> Refs] /\ local \in [Resyncs!Repo -> Refs]
HeadsTyped ==
    /\ tagged \in [Resyncs!Repo -> BOOLEAN] /\ disk \in [Resyncs!Repo -> BOOLEAN]
    /\ on \in [Resyncs!Repo -> Spots] /\ loose \in [Resyncs!Repo -> SUBSET Commits]
    /\ dirt \in [Resyncs!Repo -> SUBSET Resyncs!Dirt] /\ stash \in [Resyncs!Repo -> SUBSET Resyncs!Dirt]
StatesTyped == saved \in [Resyncs!Repo -> Landing] /\ entry \in [Resyncs!Repo -> Landing]
RunTyped ==
    /\ cmd \in Resyncs!Commands /\ todo \in SUBSET Resyncs!Repo /\ fetched \in SUBSET Commits
    /\ at \in Walking \cup {"idle", "save", "restore", "clone", "move", "back", "plan", "merge", "fetch"}
    /\ moved \in SUBSET (Resyncs!Repo \X Spots \X (SUBSET Commits)) /\ plan \in SUBSET (Resyncs!Repo \X BOOLEAN)
    /\ start \in [Resyncs!Repo -> Spots \X (SUBSET Commits) \X BOOLEAN]
CountsTyped == work \in Nat /\ mates \in Nat /\ faults \in Nat /\ runs \in Nat

\* The branch a repository is on is one it has.
CheckedOut == \A r \in Resyncs!Repo : on[r] # Resyncs!None => on[r] \in DOMAIN local[r]

ResyncTypes == RefsTyped /\ HeadsTyped /\ StatesTyped /\ RunTyped /\ CountsTyped /\ CheckedOut

\* What each step of a command finds.
WalkPhase ==
    /\ at \in Walking => cmd \in Walks /\ todo \subseteq Resyncs!InScope(cmd)
    /\ at \in {"pull", "judge", "stash", "reset"} => disk[Resyncs!First(todo)]
    /\ at \in {"judge", "stash", "reset"} => cmd \in {"force", "force private"}
    /\ at \in {"stash", "reset"} => Resyncs!Target \in Resyncs!Branch
RestPhase ==
    /\ at = "idle" => todo = {}
    /\ at = "save" => todo = {} /\ result = "nothing" /\ cmd \in Walks \cup {"load", "restore"}
    /\ at \notin {"idle", "save"} => todo # {} /\ result = "nothing"
    /\ at = "restore" => cmd = "restore"
    /\ at \in {"plan", "merge"} => cmd = "refresh" /\ todo \subseteq Hidden /\ \A r \in Hidden : disk[r]
PlanPhase ==
    /\ at \in {"plan", "merge"} => \A m \in plan : m[1] \in Hidden /\ "main" \in DOMAIN track[m[1]]
    /\ at = "merge" => todo \subseteq {m[1] : m \in plan}
LoadPhase ==
    /\ at \in {"clone", "move", "back"} => cmd = "load" /\ todo \subseteq Resyncs!Recorded
    /\ at \notin {"move", "back", "save"} => moved = {}
    /\ at = "clone" => \A r \in todo : ~disk[r]
    /\ \A m \in moved : m[1] \in Resyncs!Recorded /\ (m[2] # Resyncs!None => m[2] \in DOMAIN local[m[1]])
    /\ at = "move" => todo \cap Shifted = {}
    /\ at = "back" => todo \subseteq Shifted
ResyncPhases == WalkPhase /\ RestPhase /\ PlanPhase /\ LoadPhase

ResyncBase == ResyncTypes /\ ResyncPhases

\* A repository that is visited is one of the tree.
LEMMA TheFirst == ASSUME ResyncBase, todo # {} PROVE Resyncs!First(todo) \in todo /\ Resyncs!First(todo) \in Resyncs!Repo
BY OneIsFirst DEF ResyncBase, ResyncTypes, RunTyped

LEMMA TheLast == ASSUME ResyncBase, todo # {} PROVE Resyncs!Deepest(todo) \in todo /\ Resyncs!Deepest(todo) \in Resyncs!Repo
BY OneIsDeepest DEF ResyncBase, ResyncTypes, RunTyped

LEMMA TargetIs == ASSUME ResyncTypes PROVE Resyncs!Target \in Resyncs!Branch \cup {"tag", "commit"} /\ Resyncs!Target # Resyncs!None
<1>1. Resyncs!Root \in Resyncs!Repo
  BY ResyncTree
<1> QED
  BY <1>1 DEF ResyncTypes, HeadsTyped, StatesTyped, Resyncs!Target, Resyncs!RootBranch, Spots, Landing, Resyncs!Branch, Resyncs!None

LEMMA TipIs ==
    ASSUME ResyncTypes, NEW r \in Resyncs!Repo
    PROVE  /\ Resyncs!Tip(r) \in SUBSET Commits
           /\ on[r] # Resyncs!None => on[r] \in Resyncs!Branch /\ on[r] \in DOMAIN local[r] /\ Resyncs!Tip(r) = local[r][on[r]]
           /\ on[r] = Resyncs!None => Resyncs!Tip(r) = loose[r]
<1>1. local[r] \in Refs /\ on[r] \in Spots /\ loose[r] \in SUBSET Commits /\ (on[r] # Resyncs!None => on[r] \in DOMAIN local[r])
  BY DEF ResyncTypes, RefsTyped, HeadsTyped, CheckedOut
<1> QED
  BY <1>1, RefsAre DEF Resyncs!Tip, Spots

\* The end of a command.
LEMMA EndIs ==
    ASSUME ResyncTypes, NEW res, Resyncs!End(res)
    PROVE  /\ StatesTyped' /\ RunTyped' /\ ResyncPhases'
<1>1. StatesTyped' /\ RunTyped'
  BY DEF ResyncTypes, StatesTyped, RunTyped, Resyncs!End, Resyncs!Commands
<1>2. at' = "idle" /\ todo' = {} /\ moved' = {}
  BY DEF Resyncs!End
<1> QED
  BY <1>1, <1>2 DEF ResyncPhases, WalkPhase, RestPhase, PlanPhase, LoadPhase, Walking, Shifted

-----------------------------------------------------------------------------
(* Every step keeps the types and the phases *)

LEMMA InitBase == ASSUME Resyncs!Init PROVE ResyncBase
<1> DEFINE empty == [b \in {"main"} |-> {}]
<1>1. PICK odd \in Resyncs!Repo, kind \in {"", "untagged", "away", "unknown", "tracked", "untracked", "gone", "loose"}, rel \in {"main", "dev", Resyncs!None} :
          LET fresh == [b \in Resyncs!Branch |-> IF b = rel THEN Resyncs!Released ELSE {}]
          IN  /\ kind = "gone" => odd # Resyncs!Root
              /\ tagged = [r \in Resyncs!Repo |-> ~(kind = "untagged" /\ r = odd)]
              /\ origin = [r \in Resyncs!Repo |-> IF kind = "unknown" /\ r = odd THEN fresh ELSE [b \in Resyncs!Branch |-> Resyncs!Released]]
              /\ local = [r \in Resyncs!Repo |-> IF kind = "unknown" /\ r = odd THEN [b \in {"main"} |-> {}]
                                         ELSE [b \in {"main", "dev"} |-> Resyncs!Released]]
              /\ track = [r \in Resyncs!Repo |-> IF kind = "unknown" /\ r = odd THEN [b \in Resyncs!Branch |-> {}] ELSE local[r]]
              /\ on = [r \in Resyncs!Repo |-> CASE kind = "away" /\ r = odd -> "dev" [] kind = "loose" /\ r # Memory -> Resyncs!None [] OTHER -> "main"]
              /\ loose = [r \in Resyncs!Repo |-> IF on[r] = Resyncs!None THEN Resyncs!Released ELSE {}]
              /\ saved = [r \in Resyncs!Repo |-> IF on[r] = Resyncs!None THEN Resyncs!Ref(r) ELSE <<"branch", "main">>]
              /\ dirt = [r \in Resyncs!Repo |-> IF kind \in Resyncs!Dirt /\ r = odd THEN {kind} ELSE {}]
              /\ disk = [r \in Resyncs!Repo |-> ~(kind = "gone" /\ r = odd)]
              /\ (kind # "unknown") => rel = Resyncs!None
  BY ZenonT(30) DEF Resyncs!Init
<1>2. Resyncs!Released \in SUBSET Commits
  <2>1. <<"release", 0>> \in {"release", "own", "mate"} \X Nat
    OBVIOUS
  <2> QED
    BY <2>1 DEF Resyncs!Released, Commits
<1>3. /\ [b \in Resyncs!Branch |-> IF b = rel THEN Resyncs!Released ELSE {}] \in Refs
      /\ [b \in Resyncs!Branch |-> Resyncs!Released] \in Refs /\ [b \in {"main"} |-> {}] \in Refs
      /\ [b \in {"main", "dev"} |-> Resyncs!Released] \in Refs /\ [b \in Resyncs!Branch |-> {}] \in Refs
  BY <1>2, RefsOf DEF Resyncs!Branch
<1>4. RefsTyped
  BY <1>1, <1>3 DEF RefsTyped
<1>5. \A r \in Resyncs!Repo : Resyncs!Ref(r) \in Landing /\ <<"branch", "main">> \in Landing
  BY DEF Resyncs!Ref, Landing, Resyncs!Branch
<1>6. on \in [Resyncs!Repo -> Spots]
  BY <1>1 DEF Spots, Resyncs!Branch, Resyncs!None
<1>7. loose \in [Resyncs!Repo -> SUBSET Commits]
  BY <1>1, <1>2
<1>8. HeadsTyped /\ StatesTyped
  BY <1>1, <1>5, <1>6, <1>7 DEF HeadsTyped, StatesTyped, Resyncs!Dirt, Resyncs!Init
<1>9. \A r \in Resyncs!Repo : on[r] # Resyncs!None => on[r] \in DOMAIN local[r]
  BY <1>1
<1>10. \A r \in Resyncs!Repo : Resyncs!Where(r) \in Spots \X (SUBSET Commits) \X BOOLEAN
  <2> SUFFICES ASSUME NEW r \in Resyncs!Repo PROVE Resyncs!Where(r) \in Spots \X (SUBSET Commits) \X BOOLEAN
    OBVIOUS
  <2>1. on[r] \in Spots /\ loose[r] \in SUBSET Commits /\ disk[r] \in BOOLEAN /\ local[r] \in Refs
    BY <1>4, <1>8 DEF RefsTyped, HeadsTyped
  <2>2. Resyncs!Tip(r) \in SUBSET Commits
    BY <2>1, <1>9, RefsAre DEF Resyncs!Tip
  <2> QED
    BY <2>1, <2>2 DEF Resyncs!Where
<1>11. RunTyped /\ CountsTyped
  BY <1>10 DEF RunTyped, CountsTyped, Resyncs!Init, Resyncs!Commands
<1> QED
  BY <1>4, <1>8, <1>9, <1>11
  DEF Resyncs!Init, ResyncBase, ResyncTypes, CheckedOut, ResyncPhases, WalkPhase, RestPhase, PlanPhase, LoadPhase, Walking, Shifted

LEMMA WhereIs == ASSUME ResyncTypes, NEW r \in Resyncs!Repo PROVE Resyncs!Where(r) \in Spots \X (SUBSET Commits) \X BOOLEAN
<1>1. on[r] \in Spots /\ disk[r] \in BOOLEAN
  BY DEF ResyncTypes, HeadsTyped
<1> QED
  BY <1>1, TipIs DEF Resyncs!Where

LEMMA BeginBase == ASSUME ResyncBase, NEW c \in Resyncs!Commands, Resyncs!Begin(c) PROVE ResyncBase'
<1>1. UNCHANGED <<Resyncs!remotes, Resyncs!repos, saved, work, mates, faults>> /\ runs' = runs + 1 /\ moved' = {} /\ plan' = {} /\ fetched' = {}
  BY DEF Resyncs!Begin
<1>2. RefsTyped' /\ HeadsTyped' /\ CountsTyped' /\ CheckedOut' /\ StatesTyped'
  BY <1>1 DEF ResyncBase, ResyncTypes, RefsTyped, HeadsTyped, CountsTyped, CheckedOut, StatesTyped, Resyncs!remotes, Resyncs!repos, Resyncs!Begin
<1>3. start' \in [Resyncs!Repo -> Spots \X (SUBSET Commits) \X BOOLEAN]
  BY WhereIs DEF Resyncs!Begin, ResyncBase
<1>4. /\ at' \in Walking \cup {"idle", "restore", "clone", "move", "plan", "fetch"}
      /\ todo' \in SUBSET Resyncs!Repo /\ cmd' \in Resyncs!Commands
      /\ at' = "idle" => todo' = {}
      /\ at' # "idle" => todo' # {} /\ result' = "nothing" /\ cmd' = c
      /\ at' \in Walking => at' = "visit" /\ c \in Walks /\ todo' = Resyncs!InScope(c)
      /\ at' = "restore" => c = "restore"
      /\ at' = "plan" => c = "refresh" /\ todo' \subseteq Hidden /\ \A r \in Hidden : disk'[r]
      /\ at' \in {"clone", "move"} => c = "load" /\ todo' \subseteq Resyncs!Recorded
      /\ at' = "clone" => \A r \in todo' : ~disk[r]
  <2>1. CASE Resyncs!Refused(c)
    BY <2>1 DEF Resyncs!Begin, Resyncs!Commands, Walking, Resyncs!repos
  <2>2. CASE ~Resyncs!Refused(c) /\ c = "load"
    BY <2>2, ResyncTree DEF Resyncs!Begin, Resyncs!Commands, Walking, Resyncs!Missing
  <2>3. CASE ~Resyncs!Refused(c) /\ c \in {"refresh", "fetch", "restore"}
    BY <2>3, ResyncTree DEF Resyncs!Begin, Resyncs!Commands, Walking, Resyncs!repos
  <2>4. CASE ~Resyncs!Refused(c) /\ c \in Walks
    BY <2>4, ResyncTree DEF Resyncs!Begin, Resyncs!Commands, Walking, Walks
  <2> QED
    BY <2>1, <2>2, <2>3, <2>4 DEF Resyncs!Commands, Walks
<1>5. RunTyped'
  BY <1>1, <1>3, <1>4 DEF RunTyped
<1>6. ResyncPhases'
  BY <1>1, <1>4 DEF ResyncPhases, WalkPhase, RestPhase, PlanPhase, LoadPhase, Walking, Shifted, Resyncs!InScope, Resyncs!remotes, Resyncs!repos
<1> QED
  BY <1>2, <1>5, <1>6 DEF ResyncBase, ResyncTypes

\* The end of a visit.
LEMMA SettleBase ==
    ASSUME ResyncBase, at \in Walking, RefsTyped', HeadsTyped', CheckedOut', CountsTyped', Resyncs!Settle(Resyncs!First(todo))
    PROVE  ResyncBase'
<1> DEFINE r == Resyncs!First(todo)
<1>1. r \in todo /\ r \in Resyncs!Repo /\ todo # {} /\ result = "nothing" /\ cmd \in Walks /\ todo \subseteq Resyncs!InScope(cmd) /\ moved = {}
  BY TheFirst DEF ResyncBase, ResyncPhases, RestPhase, WalkPhase, LoadPhase, Walking
<1>2. /\ todo' = todo \ {r} /\ UNCHANGED <<cmd, start, result, saved, moved, plan>> /\ fetched' = {}
      /\ at' = IF todo # {r} THEN "visit" ELSE "save"
      /\ entry' = [entry EXCEPT ![r] = <<"branch", IF on'[r] = Resyncs!None THEN Resyncs!Target ELSE on'[r]>>]
  BY DEF Resyncs!Settle, Resyncs!Onward, Resyncs!Go
<1>3. StatesTyped'
  <2>1. (IF on'[r] = Resyncs!None THEN Resyncs!Target ELSE on'[r]) \in Resyncs!Branch \cup {"tag", "commit"}
    BY <1>1, TargetIs DEF ResyncBase, HeadsTyped, Spots
  <2>2. <<"branch", IF on'[r] = Resyncs!None THEN Resyncs!Target ELSE on'[r]>> \in Landing
    BY <2>1 DEF Landing
  <2> QED
    BY <1>1, <1>2, <2>2 DEF ResyncBase, ResyncTypes, StatesTyped
<1>4. RunTyped'
  BY <1>1, <1>2 DEF RunTyped, ResyncBase, ResyncTypes, Walking
<1>5. ResyncPhases'
  BY <1>1, <1>2 DEF ResyncPhases, WalkPhase, RestPhase, PlanPhase, LoadPhase, Walking, Shifted, Resyncs!InScope
<1> QED
  BY <1>3, <1>4, <1>5 DEF ResyncBase, ResyncTypes

\* What a visit fetches.
LEMMA VisitDoes ==
    ASSUME ResyncBase, Resyncs!Visit
    PROVE  LET r == Resyncs!First(todo)
           IN  /\ at = "visit" /\ r \in todo /\ r \in Resyncs!Repo
               /\ UNCHANGED <<Resyncs!remotes, local, on, loose, dirt, stash, disk, Resyncs!counts>>
               /\ faults' \in Nat /\ RefsTyped'
               /\ \A k \in Resyncs!Repo \ {r} : track'[k] = track[k]
               /\ track'[r] = track[r] \/ (disk[r] /\ track'[r] = Resyncs!Over(origin[r], track[r]))
               /\ \/ ~disk[r] /\ Resyncs!End("failed") /\ UNCHANGED track
                  \/ /\ disk[r] /\ Resyncs!Target \in DOMAIN track'[r] /\ UNCHANGED <<entry, moved, plan, fetched>>
                     /\ Resyncs!Go(IF cmd \in {"force", "force private"} THEN "judge" ELSE "pull", todo)
                  \/ disk[r] /\ Resyncs!Target \notin DOMAIN track'[r] /\ Resyncs!Settle(r)
<1> DEFINE r == Resyncs!First(todo)
<1>1. at = "visit" /\ r \in todo /\ r \in Resyncs!Repo
  BY TheFirst DEF Resyncs!Visit, ResyncBase, ResyncPhases, RestPhase
<1>2. origin[r] \in Refs /\ track[r] \in Refs
  BY <1>1 DEF ResyncBase, ResyncTypes, RefsTyped
<1>3. Resyncs!Over(origin[r], track[r]) \in Refs
  BY <1>2, OverIs
<1>4. faults' \in Nat
  <2>1. faults' = faults \/ faults' = faults + 1
    BY DEF Resyncs!Visit
  <2> QED
    BY <2>1 DEF ResyncBase, ResyncTypes, CountsTyped
<1>5. track' = track \/ (disk[r] /\ track' = [track EXCEPT ![r] = Resyncs!Over(origin[r], @)])
  BY DEF Resyncs!Visit
<1>6. RefsTyped'
  BY <1>1, <1>3, <1>5 DEF Resyncs!Visit, ResyncBase, ResyncTypes, RefsTyped, Resyncs!remotes
<1>7. /\ \A k \in Resyncs!Repo \ {r} : track'[k] = track[k]
      /\ track'[r] = track[r] \/ (disk[r] /\ track'[r] = Resyncs!Over(origin[r], track[r]))
  BY <1>1, <1>5 DEF ResyncBase, ResyncTypes, RefsTyped
<1> QED
  BY <1>1, <1>4, <1>6, <1>7 DEF Resyncs!Visit

LEMMA VisitBase == ASSUME ResyncBase, Resyncs!Visit PROVE ResyncBase'
<1> DEFINE r == Resyncs!First(todo)
<1>1. RefsTyped' /\ HeadsTyped' /\ CheckedOut' /\ CountsTyped'
  BY VisitDoes DEF ResyncBase, ResyncTypes, HeadsTyped, CheckedOut, CountsTyped, Resyncs!remotes, Resyncs!counts
<1>2. CASE Resyncs!End("failed")
  BY <1>1, <1>2, EndIs DEF ResyncBase, ResyncTypes
<1>3. CASE Resyncs!Settle(r)
  BY <1>1, <1>3, VisitDoes, SettleBase DEF Walking
<1>4. CASE /\ disk[r] /\ Resyncs!Target \in DOMAIN track'[r] /\ UNCHANGED <<entry, moved, plan, fetched>>
           /\ Resyncs!Go(IF cmd \in {"force", "force private"} THEN "judge" ELSE "pull", todo)
  <2>1. /\ UNCHANGED <<cmd, todo, start, result, saved, entry, moved, plan, fetched, disk>>
        /\ at' = IF cmd \in {"force", "force private"} THEN "judge" ELSE "pull"
    BY <1>4, VisitDoes DEF Resyncs!Go
  <2>2. StatesTyped' /\ RunTyped'
    BY <2>1 DEF ResyncBase, ResyncTypes, StatesTyped, RunTyped, Walking
  <2>3. ResyncPhases'
    BY <1>4, <2>1, VisitDoes DEF ResyncBase, ResyncPhases, WalkPhase, RestPhase, PlanPhase, LoadPhase, Walking, Shifted, Resyncs!InScope
  <2> QED
    BY <1>1, <2>2, <2>3 DEF ResyncBase, ResyncTypes
<1> QED
  BY <1>2, <1>3, <1>4, VisitDoes

\* A commit, a merge or a fast-forward moves the branch it is on, or HEAD.
LEMMA AdvanceIs ==
    ASSUME ResyncTypes, NEW r \in Resyncs!Repo, NEW c \in SUBSET Commits, Resyncs!Advance(r, c), on' = on
    PROVE  /\ local' \in [Resyncs!Repo -> Refs] /\ loose' \in [Resyncs!Repo -> SUBSET Commits] /\ CheckedOut'
           /\ Resyncs!Tip(r)' = c
           /\ \A k \in Resyncs!Repo \ {r} : local'[k] = local[k] /\ loose'[k] = loose[k]
           /\ \A k \in Resyncs!Repo : DOMAIN local'[k] = DOMAIN local[k]
           /\ \A b : TipOf(local'[r], b) = IF on[r] # Resyncs!None /\ b = on[r] THEN c ELSE TipOf(local[r], b)
           /\ on[r] = Resyncs!None => local' = local /\ loose'[r] = c
           /\ on[r] # Resyncs!None => loose' = loose
<1>1. local \in [Resyncs!Repo -> Refs] /\ loose \in [Resyncs!Repo -> SUBSET Commits] /\ (on[r] # Resyncs!None => on[r] \in DOMAIN local[r])
  BY DEF ResyncTypes, RefsTyped, HeadsTyped, CheckedOut
<1>2. CASE on[r] = Resyncs!None
  BY <1>1, <1>2 DEF Resyncs!Advance, Resyncs!Tip, ResyncTypes, CheckedOut
<1>3. CASE on[r] # Resyncs!None
  <2> DEFINE new == [local[r] EXCEPT ![on[r]] = c]
  <2>1. local' = [local EXCEPT ![r] = new] /\ loose' = loose
    BY <1>3 DEF Resyncs!Advance
  <2>2. new \in Refs /\ DOMAIN new = DOMAIN local[r] /\ new[on[r]] = c /\ \A b : TipOf(new, b) = IF b = on[r] THEN c ELSE TipOf(local[r], b)
    <3>1. local[r] \in Refs /\ on[r] \in DOMAIN local[r]
      BY <1>1, <1>3
    <3> QED
      BY <3>1, ExceptIs
  <2> HIDE DEF new
  <2>3. local' \in [Resyncs!Repo -> Refs] /\ local'[r] = new /\ \A k \in Resyncs!Repo \ {r} : local'[k] = local[k]
    BY <1>1, <2>1, <2>2
  <2> QED
    BY <1>1, <1>3, <2>1, <2>2, <2>3 DEF Resyncs!Tip, ResyncTypes, CheckedOut
<1> QED
  BY <1>2, <1>3

LEMMA PullDoes ==
    ASSUME ResyncBase, Resyncs!Pull
    PROVE  LET r == Resyncs!First(todo)
               new == origin[r][Resyncs!Target]
           IN  /\ at = "pull" /\ r \in todo /\ r \in Resyncs!Repo /\ disk[r] /\ cmd \in Walks
               /\ UNCHANGED <<Resyncs!remotes, on, dirt, stash, disk, Resyncs!counts, faults>>
               /\ \/ Resyncs!End("failed") /\ UNCHANGED <<track, local, loose>>
                  \/ /\ Resyncs!Target \in DOMAIN origin[r] /\ Resyncs!Target \in Resyncs!Branch /\ new \in SUBSET Commits
                     /\ new \subseteq Resyncs!Tip(r) \/ Resyncs!Tip(r) \subseteq new
                     /\ track' = [track EXCEPT ![r] = Resyncs!With(@, Resyncs!Target, new)]
                     /\ Resyncs!TakeIn(r, new) \in SUBSET Commits /\ Resyncs!Advance(r, Resyncs!TakeIn(r, new)) /\ Resyncs!Settle(r)
<1> DEFINE r == Resyncs!First(todo)
<1> DEFINE new == origin[r][Resyncs!Target]
<1>1. at = "pull" /\ r \in todo /\ r \in Resyncs!Repo /\ disk[r] /\ cmd \in Walks
  BY TheFirst DEF Resyncs!Pull, ResyncBase, ResyncPhases, RestPhase, WalkPhase, Walking
<1>2. origin[r] \in Refs /\ Resyncs!Tip(r) \in SUBSET Commits
  BY <1>1, TipIs DEF ResyncBase, ResyncTypes, RefsTyped
<1>3. ASSUME Resyncs!Target \in DOMAIN origin[r] PROVE Resyncs!Target \in Resyncs!Branch /\ new \in SUBSET Commits /\ Resyncs!TakeIn(r, new) \in SUBSET Commits
  BY <1>2, <1>3, RefsAre DEF Resyncs!TakeIn
<1> QED
  BY <1>1, <1>3 DEF Resyncs!Pull

LEMMA PullBase == ASSUME ResyncBase, Resyncs!Pull PROVE ResyncBase'
<1> DEFINE r == Resyncs!First(todo)
<1> DEFINE new == origin[r][Resyncs!Target]
<1>1. CASE Resyncs!End("failed") /\ UNCHANGED <<track, local, loose>>
  <2>1. RefsTyped' /\ HeadsTyped' /\ CountsTyped' /\ CheckedOut'
    BY <1>1, PullDoes DEF ResyncBase, ResyncTypes, RefsTyped, HeadsTyped, CountsTyped, CheckedOut, Resyncs!remotes, Resyncs!counts
  <2> QED
    BY <1>1, <2>1, EndIs DEF ResyncBase, ResyncTypes
<1>2. CASE /\ Resyncs!Target \in DOMAIN origin[r] /\ Resyncs!Target \in Resyncs!Branch /\ new \in SUBSET Commits
           /\ track' = [track EXCEPT ![r] = Resyncs!With(@, Resyncs!Target, new)]
           /\ Resyncs!TakeIn(r, new) \in SUBSET Commits /\ Resyncs!Advance(r, Resyncs!TakeIn(r, new)) /\ Resyncs!Settle(r)
  <2>1. r \in Resyncs!Repo /\ on' = on /\ local' \in [Resyncs!Repo -> Refs] /\ loose' \in [Resyncs!Repo -> SUBSET Commits] /\ CheckedOut'
    BY <1>2, PullDoes, AdvanceIs DEF ResyncBase
  <2>2. Resyncs!With(track[r], Resyncs!Target, new) \in Refs
    BY <1>2, <2>1, WithIs DEF ResyncBase, ResyncTypes, RefsTyped
  <2>3. RefsTyped' /\ HeadsTyped' /\ CountsTyped'
    BY <1>2, <2>1, <2>2, PullDoes DEF ResyncBase, ResyncTypes, RefsTyped, HeadsTyped, CountsTyped, Resyncs!remotes, Resyncs!counts
  <2> QED
    BY <1>2, <2>1, <2>3, SettleBase, PullDoes DEF Walking
<1> QED
  BY <1>1, <1>2, PullDoes

LEMMA JudgeDoes ==
    ASSUME ResyncBase, Resyncs!Judge
    PROVE  LET r == Resyncs!First(todo)
           IN  /\ at = "judge" /\ r \in todo /\ r \in Resyncs!Repo /\ disk[r] /\ cmd \in {"force", "force private"}
               /\ UNCHANGED <<Resyncs!remotes, local, on, loose, dirt, stash, disk, Resyncs!counts, faults>>
               /\ \/ Resyncs!End("failed") /\ UNCHANGED track
                  \/ /\ Resyncs!Target \in DOMAIN origin[r] /\ Resyncs!Target \in Resyncs!Branch /\ origin[r][Resyncs!Target] \in SUBSET Commits
                     /\ track' = [track EXCEPT ![r] = Resyncs!With(@, Resyncs!Target, origin[r][Resyncs!Target])]
                     /\ \A k \in Resyncs!Repo \ {r} : track'[k] = track[k]
                     /\ track'[r] = Resyncs!With(track[r], Resyncs!Target, origin[r][Resyncs!Target]) /\ RefsTyped'
                     /\ \/ Resyncs!WouldDrop(r, Resyncs!Target, track'[r]) /\ Resyncs!End("refused")
                        \/ /\ ~Resyncs!WouldDrop(r, Resyncs!Target, track'[r]) /\ at' = "stash" /\ fetched' = origin[r][Resyncs!Target]
                           /\ UNCHANGED <<todo, cmd, start, result, saved, entry, moved, plan>>
<1> DEFINE r == Resyncs!First(todo)
<1>1. at = "judge" /\ r \in todo /\ r \in Resyncs!Repo /\ disk[r] /\ cmd \in {"force", "force private"}
  BY TheFirst DEF Resyncs!Judge, ResyncBase, ResyncPhases, RestPhase, WalkPhase, Walking
<1>2. origin[r] \in Refs /\ track[r] \in Refs /\ track \in [Resyncs!Repo -> Refs]
  BY <1>1 DEF ResyncBase, ResyncTypes, RefsTyped
<1>3. ASSUME Resyncs!Target \in DOMAIN origin[r], track' = [track EXCEPT ![r] = Resyncs!With(@, Resyncs!Target, origin[r][Resyncs!Target])],
             UNCHANGED <<Resyncs!remotes, local>>
      PROVE  /\ Resyncs!Target \in Resyncs!Branch /\ origin[r][Resyncs!Target] \in SUBSET Commits /\ RefsTyped'
             /\ \A k \in Resyncs!Repo \ {r} : track'[k] = track[k]
             /\ track'[r] = Resyncs!With(track[r], Resyncs!Target, origin[r][Resyncs!Target])
  <2>1. Resyncs!Target \in Resyncs!Branch /\ origin[r][Resyncs!Target] \in SUBSET Commits
    BY <1>2, <1>3, RefsAre
  <2>2. Resyncs!With(track[r], Resyncs!Target, origin[r][Resyncs!Target]) \in Refs
    BY <1>2, <2>1, WithIs
  <2> QED
    BY <1>1, <1>2, <1>3, <2>1, <2>2 DEF ResyncBase, ResyncTypes, RefsTyped, Resyncs!remotes
<1> QED
  BY <1>1, <1>3 DEF Resyncs!Judge, Resyncs!Go

LEMMA JudgeBase == ASSUME ResyncBase, Resyncs!Judge PROVE ResyncBase'
<1> DEFINE r == Resyncs!First(todo)
<1>1. HeadsTyped' /\ CountsTyped' /\ CheckedOut'
  BY JudgeDoes DEF ResyncBase, ResyncTypes, HeadsTyped, CountsTyped, CheckedOut, Resyncs!remotes, Resyncs!counts
<1>2. CASE \E res : Resyncs!End(res)
  <2>1. RefsTyped'
    BY JudgeDoes DEF ResyncBase, ResyncTypes, RefsTyped, Resyncs!remotes
  <2> QED
    BY <1>1, <1>2, <2>1, EndIs DEF ResyncBase, ResyncTypes
<1>3. CASE /\ Resyncs!Target \in DOMAIN origin[r] /\ Resyncs!Target \in Resyncs!Branch /\ origin[r][Resyncs!Target] \in SUBSET Commits /\ RefsTyped'
           /\ at' = "stash" /\ fetched' = origin[r][Resyncs!Target]
           /\ UNCHANGED <<todo, cmd, start, result, saved, entry, moved, plan>>
  <2>1. StatesTyped' /\ RunTyped'
    BY <1>3 DEF ResyncBase, ResyncTypes, StatesTyped, RunTyped, Walking
  <2>2. Resyncs!Target' = Resyncs!Target
    BY <1>3, JudgeDoes DEF Resyncs!Target, Resyncs!RootBranch
  <2>3. ResyncPhases'
    BY <1>3, <2>2, JudgeDoes DEF ResyncBase, ResyncPhases, WalkPhase, RestPhase, PlanPhase, LoadPhase, Walking, Walks, Shifted, Resyncs!InScope
  <2> QED
    BY <1>1, <1>3, <2>1, <2>3 DEF ResyncBase, ResyncTypes
<1> QED
  BY <1>2, <1>3, JudgeDoes

LEMMA StashDoes ==
    ASSUME ResyncBase, Resyncs!Stash
    PROVE  LET r == Resyncs!First(todo)
           IN  /\ at = "stash" /\ at' = "reset" /\ r \in todo /\ r \in Resyncs!Repo /\ disk[r] /\ cmd \in {"force", "force private"}
               /\ stash' = [stash EXCEPT ![r] = @ \cup dirt[r]] /\ dirt' = [dirt EXCEPT ![r] = {}]
               /\ UNCHANGED <<Resyncs!remotes, track, local, on, loose, disk, entry, moved, plan, fetched, Resyncs!counts, faults>>
               /\ UNCHANGED <<todo, cmd, start, result, saved>>
<1> DEFINE r == Resyncs!First(todo)
<1>1. at = "stash" /\ r \in todo /\ r \in Resyncs!Repo /\ disk[r] /\ cmd \in {"force", "force private"}
  BY TheFirst DEF Resyncs!Stash, ResyncBase, ResyncPhases, RestPhase, WalkPhase, Walking
<1>2. dirt' = [dirt EXCEPT ![r] = dirt[r] \ dirt[r]] /\ dirt[r] \ dirt[r] = {}
  BY DEF Resyncs!Stash, Resyncs!SetAside
<1> QED
  BY <1>1, <1>2 DEF Resyncs!Stash, Resyncs!SetAside, Resyncs!Go

LEMMA StashBase == ASSUME ResyncBase, Resyncs!Stash PROVE ResyncBase'
<1>1. RefsTyped' /\ CountsTyped' /\ CheckedOut' /\ StatesTyped'
  BY StashDoes DEF ResyncBase, ResyncTypes, RefsTyped, CountsTyped, CheckedOut, StatesTyped, Resyncs!remotes, Resyncs!counts
<1>2. RunTyped'
  BY StashDoes DEF ResyncBase, ResyncTypes, RunTyped, Walking
<1>5. HeadsTyped'
  <2>1. Resyncs!First(todo) \in Resyncs!Repo /\ dirt \in [Resyncs!Repo -> SUBSET Resyncs!Dirt] /\ stash \in [Resyncs!Repo -> SUBSET Resyncs!Dirt]
    BY StashDoes DEF ResyncBase, ResyncTypes, HeadsTyped
  <2>2. dirt' \in [Resyncs!Repo -> SUBSET Resyncs!Dirt] /\ stash' \in [Resyncs!Repo -> SUBSET Resyncs!Dirt]
    BY <2>1, StashDoes
  <2> QED
    BY <2>2, StashDoes DEF ResyncBase, ResyncTypes, HeadsTyped, Resyncs!remotes
<1>3. Resyncs!Target' = Resyncs!Target
  BY StashDoes DEF Resyncs!Target, Resyncs!RootBranch
<1>4. ResyncPhases'
  BY <1>3, StashDoes DEF ResyncBase, ResyncPhases, WalkPhase, RestPhase, PlanPhase, LoadPhase, Walking, Walks, Shifted, Resyncs!InScope
<1> QED
  BY <1>1, <1>2, <1>4, <1>5 DEF ResyncBase, ResyncTypes

LEMMA ResetDoes ==
    ASSUME ResyncBase, Resyncs!Reset
    PROVE  LET r == Resyncs!First(todo)
           IN  /\ at = "reset" /\ r \in todo /\ r \in Resyncs!Repo /\ disk[r] /\ cmd \in {"force", "force private"}
               /\ Resyncs!Target \in Resyncs!Branch /\ fetched \in SUBSET Commits
               /\ UNCHANGED <<Resyncs!remotes, track, stash, disk, Resyncs!counts, faults>>
               /\ \/ Resyncs!End("failed") /\ UNCHANGED <<local, on, loose, dirt>>
                  \/ /\ local' = [local EXCEPT ![r] = Resyncs!With(@, Resyncs!Target, fetched)]
                     /\ on' = [on EXCEPT ![r] = Resyncs!Target] /\ loose' = [loose EXCEPT ![r] = {}]
                     /\ dirt' = [dirt EXCEPT ![r] = @ \ {"untracked"}]
                     /\ Resyncs!Settle(r)
<1>1. LET r == Resyncs!First(todo) IN at = "reset" /\ r \in todo /\ r \in Resyncs!Repo /\ disk[r] /\ cmd \in {"force", "force private"}
  BY TheFirst DEF Resyncs!Reset, ResyncBase, ResyncPhases, RestPhase, WalkPhase, Walking
<1>2. Resyncs!Target \in Resyncs!Branch /\ fetched \in SUBSET Commits
  BY <1>1 DEF ResyncBase, ResyncPhases, WalkPhase, ResyncTypes, RunTyped
<1> QED
  BY <1>1, <1>2 DEF Resyncs!Reset

LEMMA ResetBase == ASSUME ResyncBase, Resyncs!Reset PROVE ResyncBase'
<1> DEFINE r == Resyncs!First(todo)
<1>1. CASE Resyncs!End("failed") /\ UNCHANGED <<local, on, loose, dirt>>
  <2>1. RefsTyped' /\ HeadsTyped' /\ CountsTyped' /\ CheckedOut'
    BY <1>1, ResetDoes DEF ResyncBase, ResyncTypes, RefsTyped, HeadsTyped, CountsTyped, CheckedOut, Resyncs!remotes, Resyncs!counts
  <2> QED
    BY <1>1, <2>1, EndIs DEF ResyncBase, ResyncTypes
<1>2. CASE /\ local' = [local EXCEPT ![r] = Resyncs!With(@, Resyncs!Target, fetched)]
           /\ on' = [on EXCEPT ![r] = Resyncs!Target] /\ loose' = [loose EXCEPT ![r] = {}]
           /\ dirt' = [dirt EXCEPT ![r] = @ \ {"untracked"}]
           /\ Resyncs!Settle(r)
  <2>1. r \in Resyncs!Repo /\ local[r] \in Refs
    BY ResetDoes DEF ResyncBase, ResyncTypes, RefsTyped
  <2>2. Resyncs!With(local[r], Resyncs!Target, fetched) \in Refs /\ Resyncs!Target \in DOMAIN Resyncs!With(local[r], Resyncs!Target, fetched)
    <3>1. Resyncs!Target \in Resyncs!Branch /\ fetched \in SUBSET Commits
      BY ResetDoes
    <3>2. /\ Resyncs!With(local[r], Resyncs!Target, fetched) \in Refs
          /\ DOMAIN Resyncs!With(local[r], Resyncs!Target, fetched) = DOMAIN local[r] \cup {Resyncs!Target}
      BY <2>1, <3>1, WithIs
    <3> QED
      BY <3>2
  <2> DEFINE refs == Resyncs!With(local[r], Resyncs!Target, fetched)
  <2>3. local' = [local EXCEPT ![r] = refs]
    BY <1>2
  <2>6. RefsTyped' /\ CountsTyped'
    BY <2>1, <2>2, <2>3, ResetDoes DEF ResyncBase, ResyncTypes, RefsTyped, CountsTyped, Resyncs!remotes, Resyncs!counts
  <2>7. CheckedOut'
    <3> SUFFICES ASSUME NEW k \in Resyncs!Repo PROVE on'[k] # Resyncs!None => on'[k] \in DOMAIN local'[k]
      BY DEF CheckedOut
    <3>1. CASE k = r
      <4>1. local'[r] = refs /\ on'[r] = Resyncs!Target
        BY <1>2, <2>1, <2>3 DEF ResyncBase, ResyncTypes, RefsTyped, HeadsTyped
      <4> QED
        BY <2>2, <3>1, <4>1
    <3>2. CASE k # r
      BY <1>2, <2>3, <3>2 DEF ResyncBase, ResyncTypes, CheckedOut, RefsTyped, HeadsTyped
    <3> QED
      BY <3>1, <3>2
  <2>4. Resyncs!Target \in Spots /\ dirt[r] \ {"untracked"} \subseteq Resyncs!Dirt
    BY <2>1, ResetDoes DEF Spots, ResyncBase, ResyncTypes, HeadsTyped
  <2>5. HeadsTyped'
    BY <1>2, <2>1, <2>4, ResetDoes DEF ResyncBase, ResyncTypes, HeadsTyped, Resyncs!remotes
  <2> QED
    BY <1>2, <2>5, <2>6, <2>7, SettleBase, ResetDoes DEF Walking
<1> QED
  BY <1>1, <1>2, ResetDoes

LEMMA SaveBase == ASSUME ResyncBase, Resyncs!Save PROVE ResyncBase'
<1>1. RefsTyped' /\ HeadsTyped' /\ CountsTyped' /\ CheckedOut'
  BY DEF Resyncs!Save, ResyncBase, ResyncTypes, RefsTyped, HeadsTyped, CountsTyped, CheckedOut, Resyncs!remotes, Resyncs!repos, Resyncs!counts
<1>2. Resyncs!Recording \in [Resyncs!Repo -> Landing]
  <2>1. entry \in [Resyncs!Repo -> Landing] /\ Memory \in Resyncs!Repo /\ on[Memory] \in Spots
    BY ResyncTree DEF ResyncBase, ResyncTypes, StatesTyped, HeadsTyped
  <2>2. on[Memory] # Resyncs!None => <<"branch", on[Memory]>> \in Landing
    BY <2>1 DEF Spots, Landing
  <2> QED
    BY <2>1, <2>2 DEF Resyncs!Recording
<1>3. StatesTyped' /\ RunTyped'
  BY <1>2 DEF Resyncs!Save, ResyncBase, ResyncTypes, StatesTyped, RunTyped, Resyncs!Commands
<1>4. ResyncPhases'
  BY DEF Resyncs!Save, ResyncBase, ResyncPhases, WalkPhase, RestPhase, PlanPhase, LoadPhase, Walking, Shifted
<1> QED
  BY <1>1, <1>3, <1>4 DEF ResyncBase, ResyncTypes

\* A repository whose recorded ref is checked out again.
RestoredOne(r) ==
    /\ \A k \in Resyncs!Repo \ {r} : /\ disk'[k] = disk[k] /\ track'[k] = track[k] /\ local'[k] = local[k]
                             /\ on'[k] = on[k] /\ loose'[k] = loose[k]
    /\ disk'[r] /\ track'[r] = IF disk[r] THEN track[r] ELSE origin[r]
    /\ disk[r] => \A b : b \in DOMAIN local[r] => b \in DOMAIN local'[r] /\ local'[r][b] = local[r][b]
    /\ ~disk[r] => \A b \in DOMAIN local'[r] : b \in DOMAIN origin[r] /\ local'[r][b] = origin[r][b]
    /\ saved[r][2] \in Resyncs!Branch => on'[r] = saved[r][2] /\ loose'[r] = {}
    /\ saved[r][2] \notin Resyncs!Branch => on'[r] = Resyncs!None /\ loose'[r] = Resyncs!Released

LEMMA RestoreDoes ==
    ASSUME ResyncBase, Resyncs!Restore
    PROVE  LET r == Resyncs!First(todo)
           IN  /\ at = "restore" /\ r \in todo /\ r \in Resyncs!Repo /\ cmd = "restore"
               /\ UNCHANGED <<Resyncs!remotes, dirt, stash, Resyncs!counts, faults>>
               /\ \/ Resyncs!End("failed") /\ UNCHANGED <<track, local, on, loose, disk>>
                  \/ /\ RestoredOne(r) /\ RefsTyped' /\ HeadsTyped' /\ CheckedOut'
                     /\ Resyncs!Onward("restore", r, "save") /\ UNCHANGED <<entry, moved, plan, fetched>>
<1> DEFINE r == Resyncs!First(todo)
<1> DEFINE ref == saved[r][2]
<1> DEFINE seen == IF disk[r] THEN track[r] ELSE origin[r]
<1> DEFINE mine == IF disk[r] THEN local[r] ELSE [b \in {} |-> {}]
<1> DEFINE got == IF ref \in Resyncs!Branch \ DOMAIN mine THEN Resyncs!With(mine, ref, seen[ref]) ELSE mine
<1>1. at = "restore" /\ r \in todo /\ r \in Resyncs!Repo /\ cmd = "restore"
  BY TheFirst DEF Resyncs!Restore, ResyncBase, ResyncPhases, RestPhase, Walking
<1>2. seen \in Refs /\ mine \in Refs
  <2>1. [b \in {} |-> {}] \in Refs
    <3>1. {} \in SUBSET Resyncs!Branch /\ [b \in {} |-> {}] \in [{} -> SUBSET Commits]
      OBVIOUS
    <3> QED
      BY <3>1 DEF Refs
  <2> QED
    BY <1>1, <2>1 DEF ResyncBase, ResyncTypes, RefsTyped
<1>3. ASSUME Resyncs!Found(r, ref)
      PROVE  /\ got \in Refs /\ (ref \in Resyncs!Branch => ref \in DOMAIN got)
             /\ \A b : b \in DOMAIN mine => b \in DOMAIN got /\ got[b] = mine[b]
             /\ ~disk[r] => \A b \in DOMAIN got : b \in DOMAIN origin[r] /\ got[b] = origin[r][b]
  <2>1. CASE ref \in Resyncs!Branch \ DOMAIN mine
    <3>1. ref \in DOMAIN seen
      BY <1>3, <2>1 DEF Resyncs!Found
    <3>2. seen[ref] \in SUBSET Commits
      BY <1>2, <3>1, RefsAre
    <3>3. got = Resyncs!With(mine, ref, seen[ref])
      BY <2>1
    <3>4. ~disk[r] => DOMAIN mine = {} /\ seen = origin[r]
      OBVIOUS
    <3> HIDE DEF got, mine, seen, ref
    <3>5. ref \in Resyncs!Branch /\ ref \notin DOMAIN mine
      BY <2>1
    <3>6. /\ got \in Refs /\ DOMAIN got = DOMAIN mine \cup {ref} /\ got[ref] = seen[ref]
          /\ \A x \in DOMAIN mine : got[x] = mine[x]
      BY <1>2, <3>1, <3>3, <3>5, Gets
    <3> QED
      BY <3>1, <3>4, <3>5, <3>6
  <2>2. CASE ref \notin Resyncs!Branch \ DOMAIN mine
    <3>1. got = mine
      BY <2>2
    <3>2. ~disk[r] => DOMAIN mine = {}
      OBVIOUS
    <3> HIDE DEF got, mine, seen, ref
    <3> QED
      BY <1>2, <2>2, <3>1, <3>2
  <2> QED
    BY <2>1, <2>2
<1>4. CASE Resyncs!End("failed") /\ UNCHANGED <<track, local, on, loose, disk>>
  BY <1>1, <1>4 DEF Resyncs!Restore
<1>5. CASE /\ Resyncs!Found(r, ref)
           /\ disk' = [disk EXCEPT ![r] = TRUE] /\ track' = [track EXCEPT ![r] = seen]
           /\ local' = [local EXCEPT ![r] = got]
           /\ on' = [on EXCEPT ![r] = IF ref \in Resyncs!Branch THEN ref ELSE Resyncs!None]
           /\ loose' = [loose EXCEPT ![r] = IF ref \in Resyncs!Branch THEN {} ELSE Resyncs!Released]
           /\ Resyncs!Onward("restore", r, "save")
           /\ UNCHANGED <<entry, moved, plan, fetched>>
  <2>1. UNCHANGED <<Resyncs!remotes, dirt, stash, Resyncs!counts, faults>>
    BY DEF Resyncs!Restore
  <2>2. Resyncs!Released \in SUBSET Commits
    <3>1. <<"release", 0>> \in {"release", "own", "mate"} \X Nat
      OBVIOUS
    <3> QED
      BY <3>1 DEF Resyncs!Released, Commits
  <2>3. RefsTyped' /\ local'[r] = got /\ track'[r] = seen /\ \A k \in Resyncs!Repo \ {r} : local'[k] = local[k] /\ track'[k] = track[k]
    <3> HIDE DEF got, seen
    <3> QED
      BY <1>1, <1>2, <1>3, <1>5, <2>1 DEF ResyncBase, ResyncTypes, RefsTyped, Resyncs!remotes
  <2>4. /\ HeadsTyped' /\ on'[r] = (IF ref \in Resyncs!Branch THEN ref ELSE Resyncs!None) /\ loose'[r] = (IF ref \in Resyncs!Branch THEN {} ELSE Resyncs!Released) /\ disk'[r]
        /\ \A k \in Resyncs!Repo \ {r} : on'[k] = on[k] /\ loose'[k] = loose[k] /\ disk'[k] = disk[k]
    <3> HIDE DEF ref
    <3> QED
      BY <1>1, <1>5, <2>1, <2>2 DEF ResyncBase, ResyncTypes, HeadsTyped, Resyncs!remotes, Spots
  <2>5. CheckedOut'
    <3> HIDE DEF got, ref, r
    <3> QED
      BY <1>3, <1>5, <2>3, <2>4 DEF ResyncBase, ResyncTypes, CheckedOut
  <2>6. RestoredOne(r)
    <3>1. disk[r] => mine = local[r]
      OBVIOUS
    <3>2. seen = IF disk[r] THEN track[r] ELSE origin[r]
      OBVIOUS
    <3> HIDE DEF got, mine, seen, r
    <3> QED
      BY <1>3, <1>5, <2>3, <2>4, <3>1, <3>2 DEF RestoredOne
  <2> QED
    BY <1>1, <1>5, <2>1, <2>3, <2>4, <2>5, <2>6
<1> QED
  BY <1>4, <1>5 DEF Resyncs!Restore

LEMMA RestoreBase == ASSUME ResyncBase, Resyncs!Restore PROVE ResyncBase'
<1> DEFINE r == Resyncs!First(todo)
<1>1. CountsTyped'
  BY RestoreDoes DEF ResyncBase, ResyncTypes, CountsTyped, Resyncs!counts
<1>2. CASE Resyncs!End("failed") /\ UNCHANGED <<track, local, on, loose, disk>>
  <2>1. RefsTyped' /\ HeadsTyped' /\ CheckedOut'
    BY <1>2, RestoreDoes DEF ResyncBase, ResyncTypes, RefsTyped, HeadsTyped, CheckedOut, Resyncs!remotes
  <2> QED
    BY <1>1, <1>2, <2>1, EndIs DEF ResyncBase, ResyncTypes
<1>3. CASE /\ RefsTyped' /\ HeadsTyped' /\ CheckedOut'
           /\ Resyncs!Onward("restore", r, "save") /\ UNCHANGED <<entry, moved, plan, fetched>>
  <2>1. /\ at = "restore" /\ r \in todo /\ todo' = todo \ {r} /\ at' = IF todo # {r} THEN "restore" ELSE "save"
        /\ UNCHANGED <<cmd, start, result, saved, entry, moved, plan, fetched>> /\ cmd = "restore" /\ result = "nothing" /\ moved = {}
    BY <1>3, RestoreDoes DEF Resyncs!Onward, Resyncs!Go, ResyncBase, ResyncPhases, RestPhase, LoadPhase, Walking
  <2>2. StatesTyped' /\ RunTyped'
    BY <2>1 DEF ResyncBase, ResyncTypes, StatesTyped, RunTyped
  <2>3. ResyncPhases'
    BY <2>1 DEF ResyncPhases, WalkPhase, RestPhase, PlanPhase, LoadPhase, Walking, Walks, Shifted
  <2> QED
    BY <1>1, <1>3, <2>2, <2>3 DEF ResyncBase, ResyncTypes
<1> QED
  BY <1>2, <1>3, RestoreDoes

\* A repository that is cloned at its recorded commit.
ClonedOne(r) ==
    /\ \A k \in Resyncs!Repo \ {r} : /\ disk'[k] = disk[k] /\ track'[k] = track[k] /\ local'[k] = local[k]
                             /\ on'[k] = on[k] /\ loose'[k] = loose[k]
    /\ disk'[r] /\ track'[r] = origin[r] /\ local'[r] = [b \in {"main"} |-> Resyncs!Released]
    /\ on'[r] = "main" /\ loose'[r] = {}

LEMMA CloneDoes ==
    ASSUME ResyncBase, Resyncs!Clone
    PROVE  LET r == Resyncs!First(todo)
           IN  /\ at = "clone" /\ r \in todo /\ r \in Resyncs!Recorded /\ cmd = "load" /\ ~disk[r] /\ moved = {}
               /\ UNCHANGED <<Resyncs!remotes, dirt, stash, Resyncs!counts, faults>>
               /\ \/ Resyncs!End("failed") /\ UNCHANGED <<track, local, on, loose, disk>>
                  \/ /\ ClonedOne(r) /\ RefsTyped' /\ HeadsTyped' /\ CheckedOut'
                     /\ UNCHANGED <<cmd, start, result, saved, entry, moved, plan, fetched>>
                     /\ \/ todo # {r} /\ at' = "clone" /\ todo' = todo \ {r}
                        \/ todo = {r} /\ at' = "move" /\ todo' = Resyncs!Recorded
<1> DEFINE r == Resyncs!First(todo)
<1>1. at = "clone" /\ r \in todo /\ r \in Resyncs!Recorded /\ r \in Resyncs!Repo /\ cmd = "load" /\ ~disk[r] /\ moved = {}
  BY TheFirst DEF Resyncs!Clone, ResyncBase, ResyncPhases, RestPhase, LoadPhase
<1>2. ASSUME disk' = [disk EXCEPT ![r] = TRUE], track' = [track EXCEPT ![r] = origin[r]],
             local' = [local EXCEPT ![r] = [b \in {"main"} |-> Resyncs!Released]],
             on' = [on EXCEPT ![r] = "main"], loose' = [loose EXCEPT ![r] = {}], UNCHANGED <<Resyncs!remotes, dirt, stash>>
      PROVE  ClonedOne(r) /\ RefsTyped' /\ HeadsTyped' /\ CheckedOut'
  <2>1. [b \in {"main"} |-> Resyncs!Released] \in Refs
    <3>1. <<"release", 0>> \in {"release", "own", "mate"} \X Nat
      OBVIOUS
    <3>2. [b \in {"main"} |-> Resyncs!Released] \in [{"main"} -> SUBSET Commits]
      BY <3>1 DEF Resyncs!Released, Commits
    <3> QED
      BY <3>2, RefsOf DEF Resyncs!Branch
  <2>2. RefsTyped' /\ HeadsTyped'
    BY <1>1, <1>2, <2>1 DEF ResyncBase, ResyncTypes, RefsTyped, HeadsTyped, Resyncs!remotes, Spots, Resyncs!Branch
  <2>3. ClonedOne(r)
    BY <1>1, <1>2, <2>1 DEF ResyncBase, ResyncTypes, RefsTyped, HeadsTyped, ClonedOne
  <2>4. CheckedOut'
    BY <2>3 DEF ClonedOne, CheckedOut, ResyncBase, ResyncTypes
  <2> QED
    BY <2>2, <2>3, <2>4
<1> QED
  BY <1>1, <1>2 DEF Resyncs!Clone, Resyncs!Go

LEMMA CloneBase == ASSUME ResyncBase, Resyncs!Clone PROVE ResyncBase'
<1> DEFINE r == Resyncs!First(todo)
<1>1. CountsTyped'
  BY CloneDoes DEF ResyncBase, ResyncTypes, CountsTyped, Resyncs!counts
<1>2. CASE Resyncs!End("failed") /\ UNCHANGED <<track, local, on, loose, disk>>
  <2>1. RefsTyped' /\ HeadsTyped' /\ CheckedOut'
    BY <1>2, CloneDoes DEF ResyncBase, ResyncTypes, RefsTyped, HeadsTyped, CheckedOut, Resyncs!remotes
  <2> QED
    BY <1>1, <1>2, <2>1, EndIs DEF ResyncBase, ResyncTypes
<1>3. CASE /\ ClonedOne(r) /\ RefsTyped' /\ HeadsTyped' /\ CheckedOut'
           /\ UNCHANGED <<cmd, start, result, saved, entry, moved, plan, fetched>>
           /\ \/ todo # {r} /\ at' = "clone" /\ todo' = todo \ {r}
              \/ todo = {r} /\ at' = "move" /\ todo' = Resyncs!Recorded
  <2>1. /\ at = "clone" /\ r \in todo /\ todo \subseteq Resyncs!Recorded /\ todo \subseteq Resyncs!Repo /\ cmd = "load" /\ result = "nothing" /\ moved = {}
        /\ \A k \in todo : ~disk[k]
    BY CloneDoes DEF ResyncBase, ResyncTypes, RunTyped, ResyncPhases, RestPhase, LoadPhase, Walking
  <2>2. todo' \in SUBSET Resyncs!Repo /\ todo' # {} /\ todo' \subseteq Resyncs!Recorded /\ at' \in {"clone", "move"}
    BY <1>3, <2>1, ResyncTree
  <2>3. StatesTyped' /\ RunTyped'
    BY <1>3, <2>2 DEF ResyncBase, ResyncTypes, StatesTyped, RunTyped
  <2>4. at' = "clone" => \A k \in todo' : ~disk'[k]
    BY <1>3, <2>1 DEF ClonedOne
  <2>5. ResyncPhases'
    BY <1>3, <2>1, <2>2, <2>4 DEF ResyncPhases, WalkPhase, RestPhase, PlanPhase, LoadPhase, Walking, Walks, Shifted
  <2> QED
    BY <1>1, <1>3, <2>3, <2>5 DEF ResyncBase, ResyncTypes
<1> QED
  BY <1>2, <1>3, CloneDoes

\* A repository that is detached at the release.
MovedOne(r) ==
    /\ moved' = moved \cup {<<r, on[r], Resyncs!Tip(r)>>}
    /\ on' = [on EXCEPT ![r] = Resyncs!None] /\ loose' = [loose EXCEPT ![r] = Resyncs!Released]
    /\ entry' = [entry EXCEPT ![r] = Resyncs!Ref(r)]
    /\ todo' = todo \ {r} /\ at' = IF todo # {r} THEN "move" ELSE "save"
    /\ UNCHANGED <<cmd, start, result, saved, plan, fetched, faults>>

LEMMA MoveDoes ==
    ASSUME ResyncBase, Resyncs!Move
    PROVE  LET r == Resyncs!First(todo)
           IN  /\ at = "move" /\ r \in todo /\ r \in Resyncs!Recorded /\ r \in Resyncs!Repo /\ cmd = "load" /\ result = "nothing"
               /\ UNCHANGED <<Resyncs!remotes, track, local, dirt, stash, disk, Resyncs!counts>> /\ faults' \in Nat
               /\ \/ UNCHANGED <<on, loose>> /\ moved = {} /\ Resyncs!End("put back")
                  \/ /\ UNCHANGED <<on, loose>> /\ moved # {} /\ at' = "back" /\ todo' = Shifted
                     /\ UNCHANGED <<cmd, start, result, saved, entry, moved, plan, fetched>>
                  \/ MovedOne(r)
<1> DEFINE r == Resyncs!First(todo)
<1>1. at = "move" /\ r \in todo /\ r \in Resyncs!Recorded /\ r \in Resyncs!Repo /\ cmd = "load" /\ result = "nothing"
  BY TheFirst DEF Resyncs!Move, ResyncBase, ResyncPhases, RestPhase, LoadPhase
<1>2. faults' \in Nat
  <2>1. faults' = faults \/ faults' = faults + 1
    BY DEF Resyncs!Move
  <2> QED
    BY <2>1 DEF ResyncBase, ResyncTypes, CountsTyped
<1> QED
  BY <1>1, <1>2 DEF Resyncs!Move, Resyncs!PutsBack, Resyncs!Go, Resyncs!Onward, Shifted, MovedOne

LEMMA MoveBase == ASSUME ResyncBase, Resyncs!Move PROVE ResyncBase'
<1> DEFINE r == Resyncs!First(todo)
<1>1. RefsTyped' /\ CountsTyped'
  BY MoveDoes DEF ResyncBase, ResyncTypes, RefsTyped, CountsTyped, Resyncs!remotes, Resyncs!counts
<1>2. CASE UNCHANGED <<on, loose>> /\ moved = {} /\ Resyncs!End("put back")
  <2>1. HeadsTyped' /\ CheckedOut'
    BY <1>2, MoveDoes DEF ResyncBase, ResyncTypes, HeadsTyped, CheckedOut, Resyncs!remotes
  <2> QED
    BY <1>1, <1>2, <2>1, EndIs DEF ResyncBase, ResyncTypes
<1>3. CASE /\ UNCHANGED <<on, loose>> /\ moved # {} /\ at' = "back" /\ todo' = Shifted
           /\ UNCHANGED <<cmd, start, result, saved, entry, moved, plan, fetched>>
  <2>1. HeadsTyped' /\ CheckedOut' /\ StatesTyped'
    BY <1>3, MoveDoes DEF ResyncBase, ResyncTypes, HeadsTyped, CheckedOut, StatesTyped, Resyncs!remotes
  <2>2. Shifted \subseteq Resyncs!Recorded /\ Shifted # {} /\ Shifted \in SUBSET Resyncs!Repo /\ cmd = "load" /\ result = "nothing"
    <3>1. \A m \in moved : m[1] \in Resyncs!Recorded
      BY DEF ResyncBase, ResyncPhases, LoadPhase
    <3>2. Shifted \subseteq Resyncs!Recorded
      BY <3>1 DEF Shifted
    <3>3. Shifted # {}
      BY <1>3 DEF Shifted
    <3> QED
      BY <3>2, <3>3, MoveDoes, ResyncTree
  <2>3. RunTyped'
    BY <1>3, <2>2 DEF ResyncBase, ResyncTypes, RunTyped
  <2>4. ResyncPhases'
    BY <1>3, <2>2, MoveDoes DEF ResyncBase, ResyncPhases, WalkPhase, RestPhase, PlanPhase, LoadPhase, Walking, Shifted
  <2> QED
    BY <1>1, <2>1, <2>3, <2>4 DEF ResyncBase, ResyncTypes
<1>4. CASE MovedOne(r)
  <2>1. /\ at = "move" /\ r \in todo /\ r \in Resyncs!Recorded /\ r \in Resyncs!Repo /\ cmd = "load" /\ result = "nothing"
        /\ todo \in SUBSET Resyncs!Recorded /\ todo \cap Shifted = {}
        /\ on[r] \in Spots /\ (on[r] # Resyncs!None => on[r] \in DOMAIN local[r])
    BY MoveDoes DEF ResyncBase, ResyncPhases, LoadPhase, ResyncTypes, HeadsTyped, CheckedOut
  <2>2. Resyncs!Released \in SUBSET Commits
    <3>1. <<"release", 0>> \in {"release", "own", "mate"} \X Nat
      OBVIOUS
    <3> QED
      BY <3>1 DEF Resyncs!Released, Commits
  <2>3. HeadsTyped'
    BY <1>4, <2>1, <2>2, MoveDoes DEF MovedOne, ResyncBase, ResyncTypes, HeadsTyped, Resyncs!remotes, Spots
  <2>4. CheckedOut'
    <3>1. \A k \in Resyncs!Repo \ {r} : on'[k] = on[k]
      BY <1>4 DEF MovedOne, ResyncBase, ResyncTypes, HeadsTyped
    <3>2. on'[r] = Resyncs!None /\ local' = local
      BY <1>4, <2>1, MoveDoes DEF MovedOne, ResyncBase, ResyncTypes, HeadsTyped
    <3> QED
      BY <3>1, <3>2 DEF ResyncBase, ResyncTypes, CheckedOut
  <2>5. StatesTyped'
    <3>1. Resyncs!Ref(r) \in Landing
      BY DEF Resyncs!Ref, Landing
    <3> QED
      BY <1>4, <2>1, <3>1 DEF MovedOne, ResyncBase, ResyncTypes, StatesTyped
  <2>6. <<r, on[r], Resyncs!Tip(r)>> \in Resyncs!Repo \X Spots \X (SUBSET Commits)
    BY <2>1, TipIs DEF ResyncBase
  <2>7. RunTyped'
    BY <1>4, <2>1, <2>6 DEF MovedOne, ResyncBase, ResyncTypes, RunTyped
  <2>8. Shifted' = Shifted \cup {r}
    <3> DEFINE m0 == <<r, on[r], Resyncs!Tip(r)>>
    <3>1. moved' = moved \cup {m0} /\ m0[1] = r
      BY <1>4 DEF MovedOne
    <3> HIDE DEF m0
    <3> QED
      BY <3>1 DEF Shifted
  <2>9. \A m \in moved' : m[1] \in Resyncs!Recorded /\ (m[2] # Resyncs!None => m[2] \in DOMAIN local'[m[1]])
    BY <1>4, <2>1, MoveDoes DEF MovedOne, ResyncBase, ResyncPhases, LoadPhase
  <2>10. ResyncPhases'
    BY <1>4, <2>1, <2>8, <2>9 DEF MovedOne, ResyncPhases, WalkPhase, RestPhase, PlanPhase, LoadPhase, Walking
  <2> QED
    BY <1>1, <2>3, <2>4, <2>5, <2>7, <2>10 DEF ResyncBase, ResyncTypes
<1> QED
  BY <1>2, <1>3, <1>4, MoveDoes

\* A repository that goes back where it was.
BackOne(r) ==
    \E m \in moved : /\ m[1] = r /\ m \in Resyncs!Repo \X Spots \X (SUBSET Commits)
                     /\ on' = [on EXCEPT ![r] = m[2]]
                     /\ loose' = [loose EXCEPT ![r] = IF m[2] = Resyncs!None THEN m[3] ELSE {}]

LEMMA BackDoes ==
    ASSUME ResyncBase, Resyncs!Back
    PROVE  LET r == Resyncs!Deepest(todo)
           IN  /\ at = "back" /\ r \in todo /\ r \in Resyncs!Recorded /\ r \in Resyncs!Repo /\ cmd = "load" /\ result = "nothing"
               /\ UNCHANGED <<Resyncs!remotes, track, local, dirt, stash, disk, Resyncs!counts, faults>>
               /\ BackOne(r)
               /\ \/ /\ todo # {r} /\ at' = "back" /\ todo' = todo \ {r}
                     /\ UNCHANGED <<cmd, start, result, saved, entry, moved, plan, fetched>>
                  \/ todo = {r} /\ Resyncs!End("put back")
<1> DEFINE r == Resyncs!Deepest(todo)
<1>1. at = "back" /\ r \in todo /\ r \in Resyncs!Recorded /\ r \in Resyncs!Repo /\ cmd = "load" /\ result = "nothing"
  BY TheLast DEF Resyncs!Back, ResyncBase, ResyncPhases, RestPhase, LoadPhase
<1>2. BackOne(r)
  BY DEF Resyncs!Back, BackOne, ResyncBase, ResyncTypes, RunTyped
<1> QED
  BY <1>1, <1>2 DEF Resyncs!Back, Resyncs!Go

LEMMA BackBase == ASSUME ResyncBase, Resyncs!Back PROVE ResyncBase'
<1> DEFINE r == Resyncs!Deepest(todo)
<1>1. RefsTyped' /\ CountsTyped'
  BY BackDoes DEF ResyncBase, ResyncTypes, RefsTyped, CountsTyped, Resyncs!remotes, Resyncs!counts
<1>2. PICK m \in moved : /\ m[1] = r /\ m \in Resyncs!Repo \X Spots \X (SUBSET Commits)
                         /\ on' = [on EXCEPT ![r] = m[2]]
                         /\ loose' = [loose EXCEPT ![r] = IF m[2] = Resyncs!None THEN m[3] ELSE {}]
  BY BackDoes DEF BackOne
<1>3. m[2] \in Spots /\ m[3] \in SUBSET Commits /\ (m[2] # Resyncs!None => m[2] \in DOMAIN local[r]) /\ r \in Resyncs!Repo
  BY <1>2, BackDoes DEF ResyncBase, ResyncPhases, LoadPhase
<1>4. HeadsTyped'
  BY <1>2, <1>3, BackDoes DEF ResyncBase, ResyncTypes, HeadsTyped, Resyncs!remotes
<1>5. CheckedOut'
  BY <1>2, <1>3, BackDoes DEF ResyncBase, ResyncTypes, HeadsTyped, CheckedOut
<1>6. CASE Resyncs!End("put back")
  BY <1>1, <1>4, <1>5, <1>6, EndIs DEF ResyncBase, ResyncTypes
<1>7. CASE /\ todo # {r} /\ at' = "back" /\ todo' = todo \ {r}
           /\ UNCHANGED <<cmd, start, result, saved, entry, moved, plan, fetched>>
  <2>1. at = "back" /\ r \in todo /\ cmd = "load" /\ result = "nothing" /\ local' = local
    BY BackDoes
  <2>2. StatesTyped' /\ RunTyped'
    BY <1>7, <2>1 DEF ResyncBase, ResyncTypes, StatesTyped, RunTyped
  <2>3. ResyncPhases'
    BY <1>7, <2>1 DEF ResyncBase, ResyncPhases, WalkPhase, RestPhase, PlanPhase, LoadPhase, Walking, Shifted
  <2> QED
    BY <1>1, <1>4, <1>5, <2>2, <2>3 DEF ResyncBase, ResyncTypes
<1> QED
  BY <1>6, <1>7, BackDoes

\* A repository that is asked whether its base branch merges.
LEMMA PlanDoes ==
    ASSUME ResyncBase, Resyncs!Plan
    PROVE  LET r == Resyncs!Deepest(todo)
           IN  /\ at = "plan" /\ r \in todo /\ r \in Hidden /\ r \in Resyncs!Repo /\ cmd = "refresh"
               /\ UNCHANGED <<Resyncs!remotes, local, on, loose, dirt, stash, disk, Resyncs!counts, faults>>
               /\ RefsTyped' /\ \A k \in Resyncs!Repo \ {r} : track'[k] = track[k]
               /\ \/ track'[r] = track[r]
                  \/ "main" \in DOMAIN origin[r] /\ track'[r] = Resyncs!With(track[r], "main", origin[r]["main"])
               /\ \A k \in Resyncs!Repo : DOMAIN track[k] \subseteq DOMAIN track'[k]
               /\ \/ \E res \in {"failed", "refused", "done"} : Resyncs!End(res)
                  \/ \E p \in SUBSET (Resyncs!Repo \X BOOLEAN) :
                        /\ \A m \in p : m \in plan \/ (m[1] = r /\ "main" \in DOMAIN track'[r])
                        /\ plan' = p /\ UNCHANGED <<cmd, start, result, saved, entry, moved, fetched>>
                        /\ \/ todo # {r} /\ at' = "plan" /\ todo' = todo \ {r}
                           \/ p # {} /\ at' = "merge" /\ todo' = {m[1] : m \in p}
<1> DEFINE r == Resyncs!Deepest(todo)
<1> DEFINE asked == on[r] # "main"
<1> DEFINE base == origin[r]["main"]
<1>1. at = "plan" /\ r \in todo /\ r \in Hidden /\ r \in Resyncs!Repo /\ cmd = "refresh"
  BY TheLast DEF Resyncs!Plan, ResyncBase, ResyncPhases, RestPhase
<1>2. UNCHANGED <<Resyncs!remotes, local, on, loose, dirt, stash, disk, Resyncs!counts, faults>>
  BY DEF Resyncs!Plan
<1>3. track \in [Resyncs!Repo -> Refs] /\ origin[r] \in Refs /\ track[r] \in Refs /\ plan \in SUBSET (Resyncs!Repo \X BOOLEAN)
  BY <1>1 DEF ResyncBase, ResyncTypes, RefsTyped, RunTyped
<1>4. CASE track' = track /\ Resyncs!End("failed")
  BY <1>1, <1>2, <1>3, <1>4 DEF ResyncBase, ResyncTypes, RefsTyped, Resyncs!remotes
<1>5. ASSUME asked => "main" \in DOMAIN origin[r],
             track' = IF asked THEN [track EXCEPT ![r] = Resyncs!With(@, "main", base)] ELSE track
      PROVE  /\ RefsTyped' /\ \A k \in Resyncs!Repo \ {r} : track'[k] = track[k]
             /\ \/ track'[r] = track[r]
                \/ "main" \in DOMAIN origin[r] /\ track'[r] = Resyncs!With(track[r], "main", origin[r]["main"])
             /\ \A k \in Resyncs!Repo : DOMAIN track[k] \subseteq DOMAIN track'[k]
             /\ asked => "main" \in DOMAIN track'[r]
  <2>1. CASE ~asked
    BY <1>2, <1>5, <2>1 DEF ResyncBase, ResyncTypes, RefsTyped, Resyncs!remotes
  <2>2. CASE asked
    <3>1. "main" \in Resyncs!Branch /\ base \in SUBSET Commits
      BY <1>3, <1>5, <2>2, RefsAre DEF Resyncs!Branch
    <3>2. Resyncs!With(track[r], "main", base) \in Refs /\ DOMAIN Resyncs!With(track[r], "main", base) = DOMAIN track[r] \cup {"main"}
      BY <1>3, <3>1, WithIs
    <3>3. track' = [track EXCEPT ![r] = Resyncs!With(track[r], "main", base)]
      BY <1>5, <2>2
    <3>4. track'[r] = Resyncs!With(track[r], "main", base) /\ track' \in [Resyncs!Repo -> Refs] /\ \A k \in Resyncs!Repo \ {r} : track'[k] = track[k]
      BY <1>1, <1>3, <3>2, <3>3
    <3> QED
      BY <1>2, <1>5, <2>2, <3>2, <3>4 DEF ResyncBase, ResyncTypes, RefsTyped, Resyncs!remotes
  <2> QED
    BY <2>1, <2>2
<1>6. ASSUME asked => "main" \in DOMAIN origin[r],
             track' = IF asked THEN [track EXCEPT ![r] = Resyncs!With(@, "main", base)] ELSE track,
             NEW clash \in BOOLEAN, NEW behind \in BOOLEAN, behind => asked,
             NEW p, p = plan \cup IF behind THEN {<<r, clash>>} ELSE {}
      PROVE  p \in SUBSET (Resyncs!Repo \X BOOLEAN) /\ \A m \in p : m \in plan \/ (m[1] = r /\ "main" \in DOMAIN track'[r])
  <2>1. <<r, clash>> \in Resyncs!Repo \X BOOLEAN /\ (behind => "main" \in DOMAIN track'[r])
    BY <1>1, <1>5, <1>6
  <2>2. CASE behind
    BY <1>3, <1>6, <2>1, <2>2
  <2>3. CASE ~behind
    BY <1>3, <1>6, <2>3
  <2> QED
    BY <2>2, <2>3
<1>7. CASE /\ asked => "main" \in DOMAIN origin[r]
           /\ track' = IF asked THEN [track EXCEPT ![r] = Resyncs!With(@, "main", base)] ELSE track
           /\ \E clash \in BOOLEAN :
                    LET behind == asked /\ ~(base \subseteq Resyncs!Tip(r))
                        p == plan \cup IF behind THEN {<<r, clash>>} ELSE {}
                    IN  /\ clash => behind /\ r # Memory /\ ~(Resyncs!Tip(r) \subseteq base)
                        /\ \/ todo # {r} /\ Resyncs!Go("plan", todo \ {r}) /\ plan' = p /\ UNCHANGED <<entry, moved, fetched>>
                           \/ todo = {r} /\ Resyncs!Clashing(p) /\ Resyncs!End("refused")
                           \/ todo = {r} /\ p = {} /\ Resyncs!End("done")
                           \/ /\ todo = {r} /\ p # {} /\ ~Resyncs!Clashing(p)
                              /\ Resyncs!Go("merge", {m[1] : m \in p}) /\ plan' = p /\ UNCHANGED <<entry, moved, fetched>>
  <2>1. PICK clash \in BOOLEAN :
                    LET behind == asked /\ ~(base \subseteq Resyncs!Tip(r))
                        p == plan \cup IF behind THEN {<<r, clash>>} ELSE {}
                    IN  /\ \/ todo # {r} /\ Resyncs!Go("plan", todo \ {r}) /\ plan' = p /\ UNCHANGED <<entry, moved, fetched>>
                           \/ todo = {r} /\ Resyncs!Clashing(p) /\ Resyncs!End("refused")
                           \/ todo = {r} /\ p = {} /\ Resyncs!End("done")
                           \/ /\ todo = {r} /\ p # {} /\ ~Resyncs!Clashing(p)
                              /\ Resyncs!Go("merge", {m[1] : m \in p}) /\ plan' = p /\ UNCHANGED <<entry, moved, fetched>>
    BY <1>7
  <2> DEFINE behind == asked /\ ~(base \subseteq Resyncs!Tip(r))
  <2> DEFINE p == plan \cup IF behind THEN {<<r, clash>>} ELSE {}
  <2>2. p \in SUBSET (Resyncs!Repo \X BOOLEAN) /\ \A m \in p : m \in plan \/ (m[1] = r /\ "main" \in DOMAIN track'[r])
    <3>1. behind \in BOOLEAN /\ (behind => asked) /\ p = plan \cup IF behind THEN {<<r, clash>>} ELSE {}
      OBVIOUS
    <3> HIDE DEF behind, p, asked
    <3> QED
      BY <1>6, <1>7, <3>1
  <2>3. \/ \E res \in {"failed", "refused", "done"} : Resyncs!End(res)
        \/ /\ plan' = p /\ UNCHANGED <<cmd, start, result, saved, entry, moved, fetched>>
           /\ \/ todo # {r} /\ at' = "plan" /\ todo' = todo \ {r}
              \/ p # {} /\ at' = "merge" /\ todo' = {m[1] : m \in p}
    BY <2>1 DEF Resyncs!Go
  <2> HIDE DEF p, behind
  <2> QED
    BY <1>1, <1>2, <1>5, <1>7, <2>2, <2>3
<1> QED
  BY <1>4, <1>7 DEF Resyncs!Plan

LEMMA PlanBase == ASSUME ResyncBase, Resyncs!Plan PROVE ResyncBase'
<1> DEFINE r == Resyncs!Deepest(todo)
<1>1. RefsTyped' /\ CountsTyped' /\ HeadsTyped' /\ CheckedOut'
  BY PlanDoes DEF ResyncBase, ResyncTypes, CountsTyped, HeadsTyped, CheckedOut, Resyncs!remotes, Resyncs!counts
<1>2. CASE \E res : Resyncs!End(res)
  BY <1>1, <1>2, EndIs DEF ResyncBase, ResyncTypes
<1>3. CASE \E p \in SUBSET (Resyncs!Repo \X BOOLEAN) :
                        /\ \A m \in p : m \in plan \/ (m[1] = r /\ "main" \in DOMAIN track'[r])
                        /\ plan' = p /\ UNCHANGED <<cmd, start, result, saved, entry, moved, fetched>>
                        /\ \/ todo # {r} /\ at' = "plan" /\ todo' = todo \ {r}
                           \/ p # {} /\ at' = "merge" /\ todo' = {m[1] : m \in p}
  <2>1. PICK p \in SUBSET (Resyncs!Repo \X BOOLEAN) :
                        /\ \A m \in p : m \in plan \/ (m[1] = r /\ "main" \in DOMAIN track'[r])
                        /\ plan' = p /\ UNCHANGED <<cmd, start, result, saved, entry, moved, fetched>>
                        /\ \/ todo # {r} /\ at' = "plan" /\ todo' = todo \ {r}
                           \/ p # {} /\ at' = "merge" /\ todo' = {m[1] : m \in p}
    BY <1>3
  <2>2. /\ at = "plan" /\ r \in todo /\ r \in Hidden /\ cmd = "refresh" /\ result = "nothing" /\ moved = {}
        /\ todo \subseteq Hidden /\ todo \subseteq Resyncs!Repo /\ \A k \in Hidden : disk'[k]
        /\ \A m \in plan : m[1] \in Hidden /\ m[1] \in Resyncs!Repo /\ "main" \in DOMAIN track[m[1]]
    BY PlanDoes DEF ResyncBase, ResyncPhases, RestPhase, PlanPhase, LoadPhase, Walking, ResyncTypes, RunTyped
  <2>3. \A m \in plan' : m[1] \in Hidden /\ m[1] \in Resyncs!Repo /\ "main" \in DOMAIN track'[m[1]]
    BY <2>1, <2>2, PlanDoes
  <2>4. todo' # {} /\ todo' \in SUBSET Resyncs!Repo /\ todo' \subseteq Hidden /\ (at' = "merge" => todo' \subseteq {m[1] : m \in plan'})
    BY <2>1, <2>2, <2>3
  <2>5. StatesTyped' /\ RunTyped'
    BY <2>1, <2>2, <2>4 DEF ResyncBase, ResyncTypes, StatesTyped, RunTyped
  <2>6. ResyncPhases'
    BY <2>1, <2>2, <2>3, <2>4 DEF ResyncPhases, WalkPhase, RestPhase, PlanPhase, LoadPhase, Walking, Shifted
  <2> QED
    BY <1>1, <2>5, <2>6 DEF ResyncBase, ResyncTypes
<1> QED
  BY <1>2, <1>3, PlanDoes

LEMMA MergeDoes ==
    ASSUME ResyncBase, Resyncs!Merge
    PROVE  LET r == Resyncs!Deepest(todo)
               both == Resyncs!Tip(r) \cup track[r]["main"]
           IN  /\ at = "merge" /\ r \in todo /\ r \in Hidden /\ r \in Resyncs!Repo /\ cmd = "refresh"
               /\ UNCHANGED <<Resyncs!remotes, track, on, dirt, stash, disk, Resyncs!counts, faults>>
               /\ "main" \in DOMAIN track[r] /\ both \in SUBSET Commits /\ Resyncs!Advance(r, both)
               /\ \/ /\ todo # {r} /\ at' = "merge" /\ todo' = todo \ {r}
                     /\ UNCHANGED <<cmd, start, result, saved, entry, moved, plan, fetched>>
                  \/ Resyncs!End("done")
<1> DEFINE r == Resyncs!Deepest(todo)
<1>1. at = "merge" /\ r \in todo /\ r \in Hidden /\ r \in Resyncs!Repo /\ cmd = "refresh"
  BY TheLast DEF Resyncs!Merge, ResyncBase, ResyncPhases, RestPhase
<1>2. "main" \in DOMAIN track[r]
  <2>1. todo \subseteq {m[1] : m \in plan} /\ \A m \in plan : "main" \in DOMAIN track[m[1]]
    BY <1>1 DEF ResyncBase, ResyncPhases, PlanPhase
  <2> QED
    BY <1>1, <2>1
<1>3. track[r] \in Refs /\ Resyncs!Tip(r) \in SUBSET Commits
  BY <1>1, TipIs DEF ResyncBase, ResyncTypes, RefsTyped
<1>4. track[r]["main"] \in SUBSET Commits
  BY <1>2, <1>3, RefsAre
<1> QED
  BY <1>1, <1>2, <1>3, <1>4 DEF Resyncs!Merge, Resyncs!Go

LEMMA MergeBase == ASSUME ResyncBase, Resyncs!Merge PROVE ResyncBase'
<1> DEFINE r == Resyncs!Deepest(todo)
<1> DEFINE sum == Resyncs!Tip(r) \cup track[r]["main"]
<1>1. r \in Resyncs!Repo /\ r \in todo /\ at = "merge" /\ on' = on /\ sum \in SUBSET Commits /\ Resyncs!Advance(r, sum)
  BY MergeDoes
<1>2. local' \in [Resyncs!Repo -> Refs] /\ loose' \in [Resyncs!Repo -> SUBSET Commits] /\ CheckedOut'
  <2> HIDE DEF sum
  <2> QED
    BY <1>1, AdvanceIs DEF ResyncBase
<1>3. RefsTyped' /\ HeadsTyped' /\ CountsTyped'
  BY <1>1, <1>2, MergeDoes DEF ResyncBase, ResyncTypes, RefsTyped, HeadsTyped, CountsTyped, Resyncs!remotes, Resyncs!counts
<1>4. CASE Resyncs!End("done")
  BY <1>2, <1>3, <1>4, EndIs DEF ResyncBase, ResyncTypes
<1>5. CASE /\ todo # {r} /\ at' = "merge" /\ todo' = todo \ {r}
           /\ UNCHANGED <<cmd, start, result, saved, entry, moved, plan, fetched>>
  <2>1. track' = track
    BY MergeDoes
  <2>2. StatesTyped' /\ RunTyped'
    BY <1>1, <1>5 DEF ResyncBase, ResyncTypes, StatesTyped, RunTyped
  <2>3. moved = {} /\ moved' = {} /\ disk' = disk
    BY <1>1, <1>5, MergeDoes DEF ResyncBase, ResyncPhases, LoadPhase
  <2>4. ResyncPhases'
    BY <1>1, <1>5, <2>1, <2>3 DEF ResyncBase, ResyncPhases, WalkPhase, RestPhase, PlanPhase, LoadPhase, Walking, Shifted
  <2> QED
    BY <1>2, <1>3, <2>2, <2>4 DEF ResyncBase, ResyncTypes
<1> QED
  BY <1>4, <1>5, MergeDoes

LEMMA FetchDoes ==
    ASSUME ResyncBase, Resyncs!Fetch
    PROVE  LET r == Resyncs!First(todo)
           IN  /\ at = "fetch" /\ r \in todo /\ r \in Resyncs!Repo /\ RefsTyped' /\ faults' \in Nat
               /\ UNCHANGED <<Resyncs!remotes, local, on, loose, dirt, stash, disk, Resyncs!counts>>
               /\ \A k \in Resyncs!Repo : track'[k] = track[k] \/ track'[k] = origin[k]
               /\ \/ /\ todo # {r} /\ at' = "fetch" /\ todo' = todo \ {r}
                     /\ UNCHANGED <<cmd, start, result, saved, entry, moved, plan, fetched>>
                  \/ Resyncs!End("done")
<1> DEFINE r == Resyncs!First(todo)
<1>1. at = "fetch" /\ r \in todo /\ r \in Resyncs!Repo
  BY TheFirst DEF Resyncs!Fetch, ResyncBase, ResyncPhases, RestPhase
<1>2. faults' \in Nat
  <2>1. faults' = faults \/ faults' = faults + 1
    BY DEF Resyncs!Fetch
  <2> QED
    BY <2>1 DEF ResyncBase, ResyncTypes, CountsTyped
<1>3. track' = track \/ track' = [track EXCEPT ![r] = origin[r]]
  BY DEF Resyncs!Fetch
<1>4. RefsTyped' /\ \A k \in Resyncs!Repo : track'[k] = track[k] \/ track'[k] = origin[k]
  BY <1>1, <1>3 DEF Resyncs!Fetch, ResyncBase, ResyncTypes, RefsTyped, Resyncs!remotes
<1> QED
  BY <1>1, <1>2, <1>4 DEF Resyncs!Fetch, Resyncs!Go

LEMMA FetchBase == ASSUME ResyncBase, Resyncs!Fetch PROVE ResyncBase'
<1> DEFINE r == Resyncs!First(todo)
<1>1. RefsTyped' /\ HeadsTyped' /\ CountsTyped' /\ CheckedOut'
  BY FetchDoes DEF ResyncBase, ResyncTypes, HeadsTyped, CountsTyped, CheckedOut, Resyncs!remotes, Resyncs!counts
<1>2. CASE Resyncs!End("done")
  BY <1>1, <1>2, EndIs DEF ResyncBase, ResyncTypes
<1>3. CASE /\ todo # {r} /\ at' = "fetch" /\ todo' = todo \ {r}
           /\ UNCHANGED <<cmd, start, result, saved, entry, moved, plan, fetched>>
  <2>1. at = "fetch" /\ r \in todo /\ moved = {}
    BY FetchDoes DEF ResyncBase, ResyncPhases, LoadPhase
  <2>2. StatesTyped' /\ RunTyped'
    BY <1>3, <2>1 DEF ResyncBase, ResyncTypes, StatesTyped, RunTyped
  <2>3. ResyncPhases'
    BY <1>3, <2>1 DEF ResyncBase, ResyncPhases, WalkPhase, RestPhase, PlanPhase, LoadPhase, Walking, Shifted
  <2> QED
    BY <1>1, <2>2, <2>3 DEF ResyncBase, ResyncTypes
<1> QED
  BY <1>2, <1>3, FetchDoes

LEMMA StopBase == ASSUME ResyncBase, Resyncs!Stop PROVE ResyncBase'
<1>1. Resyncs!End("failed") /\ faults' = faults + 1
  BY DEF Resyncs!Stop, Resyncs!Fails
<1>2. RefsTyped' /\ HeadsTyped' /\ CheckedOut'
  BY DEF Resyncs!Stop, ResyncBase, ResyncTypes, RefsTyped, HeadsTyped, CheckedOut, Resyncs!remotes, Resyncs!repos
<1>3. CountsTyped'
  BY <1>1 DEF Resyncs!Stop, ResyncBase, ResyncTypes, CountsTyped, Resyncs!counts
<1> QED
  BY <1>1, <1>2, <1>3, EndIs DEF ResyncBase, ResyncTypes

\* What the user does changes a repository, and nothing of the command that runs.
LEMMA PhasesKept ==
    ASSUME ResyncBase, UNCHANGED <<saved, entry, Resyncs!command, at>>, disk' = disk, result' = "nothing" \/ result' = result,
           Resyncs!Target' = Resyncs!Target \/ at = "idle",
           \A r \in Resyncs!Repo : DOMAIN local[r] \subseteq DOMAIN local'[r],
           \A r \in Resyncs!Repo : DOMAIN track[r] \subseteq DOMAIN track'[r]
    PROVE  StatesTyped' /\ RunTyped' /\ ResyncPhases'
<1>1. UNCHANGED <<cmd, todo, moved, plan, fetched, start>>
  BY DEF Resyncs!command
<1>2. StatesTyped' /\ RunTyped'
  BY <1>1 DEF ResyncBase, ResyncTypes, StatesTyped, RunTyped
<1>3. WalkPhase' /\ RestPhase'
  BY <1>1 DEF ResyncBase, ResyncPhases, WalkPhase, RestPhase, Walking, Resyncs!InScope
<1>4. PlanPhase'
  BY <1>1, ResyncTree DEF ResyncBase, ResyncPhases, PlanPhase
<1>5. \A m \in moved : m[1] \in Resyncs!Recorded /\ m[1] \in Resyncs!Repo
  BY ResyncTree DEF ResyncBase, ResyncPhases, LoadPhase
<1>6. LoadPhase'
  BY <1>1, <1>5 DEF ResyncBase, ResyncPhases, LoadPhase, Shifted
<1> QED
  BY <1>2, <1>3, <1>4, <1>6 DEF ResyncPhases

\* What a commit of the user adds.
LEMMA CommitDoes ==
    ASSUME ResyncBase, NEW r \in Resyncs!Repo, Resyncs!Commit(r)
    PROVE  LET both == Resyncs!Tip(r) \cup {<<"own", work + 1>>}
           IN  /\ both \in SUBSET Commits /\ Resyncs!Advance(r, both) /\ disk[r] /\ (on[r] = Resyncs!None => Adrift)
               /\ UNCHANGED <<track, on, dirt, stash, disk>> /\ work' = work + 1 /\ result' = "nothing" /\ (During \/ at = "idle")
<1>1. <<"own", work + 1>> \in Commits
  <2>1. work + 1 \in Nat
    BY DEF ResyncBase, ResyncTypes, CountsTyped
  <2>2. <<"own", work + 1>> \in {"release", "own", "mate"} \X Nat
    BY <2>1
  <2> QED
    BY <2>2 DEF Commits
<1> QED
  BY <1>1, TipIs DEF Resyncs!Commit, Resyncs!Acts, ResyncBase

LEMMA UserBase == ASSUME ResyncBase, Resyncs!User PROVE ResyncBase'
<1>1. UNCHANGED <<origin, tagged, saved, entry, Resyncs!command, at, mates, runs, faults>>
  BY DEF Resyncs!User, Resyncs!remotes
<1>2. ASSUME NEW r \in Resyncs!Repo, Resyncs!Commit(r) PROVE ResyncBase'
  <2> DEFINE more == Resyncs!Tip(r) \cup {<<"own", work + 1>>}
  <2>1. more \in SUBSET Commits /\ Resyncs!Advance(r, more) /\ UNCHANGED <<track, on, dirt, stash, disk>> /\ work' = work + 1 /\ result' = "nothing"
    BY <1>2, CommitDoes
  <2>2. local' \in [Resyncs!Repo -> Refs] /\ loose' \in [Resyncs!Repo -> SUBSET Commits] /\ CheckedOut' /\ \A k \in Resyncs!Repo : DOMAIN local'[k] = DOMAIN local[k]
    <3> HIDE DEF more
    <3> QED
      BY <2>1, AdvanceIs DEF ResyncBase
  <2>3. RefsTyped' /\ HeadsTyped' /\ CountsTyped'
    BY <1>1, <2>1, <2>2 DEF ResyncBase, ResyncTypes, RefsTyped, HeadsTyped, CountsTyped
  <2>4. Resyncs!Target' = Resyncs!Target
    BY <1>1, <2>1 DEF Resyncs!Target, Resyncs!RootBranch, Resyncs!command
  <2>5. StatesTyped' /\ RunTyped' /\ ResyncPhases'
    BY <1>1, <2>1, <2>2, <2>4, PhasesKept
  <2> QED
    BY <2>2, <2>3, <2>5 DEF ResyncBase, ResyncTypes
<1>3. ASSUME NEW r \in Resyncs!Repo, NEW kind \in Resyncs!Dirt, Resyncs!Edit(r, kind) PROVE ResyncBase'
  <2>1. UNCHANGED <<track, local, on, loose, stash, disk>> /\ dirt' = [dirt EXCEPT ![r] = @ \cup {kind}] /\ work' = work + 1 /\ result' = "nothing"
    BY <1>3 DEF Resyncs!Edit, Resyncs!Acts
  <2>2. RefsTyped' /\ HeadsTyped' /\ CountsTyped' /\ CheckedOut'
    BY <1>1, <2>1 DEF ResyncBase, ResyncTypes, RefsTyped, HeadsTyped, CountsTyped, CheckedOut
  <2>4. Resyncs!Target' = Resyncs!Target
    BY <1>1, <2>1 DEF Resyncs!Target, Resyncs!RootBranch, Resyncs!command
  <2>5. StatesTyped' /\ RunTyped' /\ ResyncPhases'
    BY <1>1, <2>1, <2>4, PhasesKept
  <2> QED
    BY <2>2, <2>5 DEF ResyncBase, ResyncTypes
<1>4. ASSUME NEW r \in Resyncs!Repo, NEW b \in Resyncs!Branch, Resyncs!Switch(r, b) PROVE ResyncBase'
  <2>1. /\ UNCHANGED <<track, local, dirt, stash, disk>> /\ on' = [on EXCEPT ![r] = b] /\ loose' = [loose EXCEPT ![r] = {}]
        /\ work' = work + 1 /\ result' = "nothing" /\ at = "idle" /\ b \in DOMAIN local[r]
    BY <1>4 DEF Resyncs!Switch, Resyncs!Acts
  <2>2. RefsTyped' /\ CountsTyped'
    BY <1>1, <2>1 DEF ResyncBase, ResyncTypes, RefsTyped, CountsTyped
  <2>3. HeadsTyped'
    BY <1>1, <2>1 DEF ResyncBase, ResyncTypes, HeadsTyped, Spots
  <2>4. CheckedOut'
    BY <2>1 DEF ResyncBase, ResyncTypes, HeadsTyped, CheckedOut
  <2>5. StatesTyped' /\ RunTyped' /\ ResyncPhases'
    BY <1>1, <2>1, PhasesKept
  <2> QED
    BY <2>2, <2>3, <2>4, <2>5 DEF ResyncBase, ResyncTypes
<1> QED
  BY <1>2, <1>3, <1>4 DEF Resyncs!User

\* The user's push.
LEMMA PushDoes ==
    ASSUME ResyncBase, NEW r \in Resyncs!Repo, Resyncs!Push(r)
    PROVE  /\ at = "idle" /\ on[r] \in DOMAIN origin[r] /\ on[r] \in Resyncs!Branch /\ on[r] # Resyncs!None /\ result' = "nothing"
           /\ origin[r][on[r]] \subseteq Resyncs!Tip(r) /\ Resyncs!Tip(r) \in SUBSET Commits /\ Resyncs!Tip(r) = local[r][on[r]] /\ on[r] \in DOMAIN local[r]
           /\ \A k \in Resyncs!Repo \ {r} : origin'[k] = origin[k] /\ track'[k] = track[k]
           /\ origin'[r] = [origin[r] EXCEPT ![on[r]] = Resyncs!Tip(r)] /\ track'[r] = Resyncs!With(track[r], on[r], Resyncs!Tip(r))
           /\ RefsTyped' /\ \A k \in Resyncs!Repo : DOMAIN track[k] \subseteq DOMAIN track'[k]
           /\ UNCHANGED <<tagged, local, on, loose, dirt, stash, disk, saved, entry, Resyncs!command, at, Resyncs!counts, faults>>
<1>1. origin[r] \in Refs /\ track[r] \in Refs /\ on[r] \in DOMAIN origin[r]
  BY DEF Resyncs!Push, ResyncBase, ResyncTypes, RefsTyped
<1>2. on[r] \in Resyncs!Branch /\ on[r] # Resyncs!None
  BY <1>1, RefsAre DEF Resyncs!Branch, Resyncs!None
<1>3. Resyncs!Tip(r) \in SUBSET Commits /\ Resyncs!Tip(r) = local[r][on[r]] /\ on[r] \in DOMAIN local[r]
  BY <1>2, TipIs DEF ResyncBase
<1>4. [origin[r] EXCEPT ![on[r]] = Resyncs!Tip(r)] \in Refs
  BY <1>1, <1>3, ExceptIs
<1>5. Resyncs!With(track[r], on[r], Resyncs!Tip(r)) \in Refs /\ DOMAIN Resyncs!With(track[r], on[r], Resyncs!Tip(r)) = DOMAIN track[r] \cup {on[r]}
  <2>1. \A f \in Refs, b \in Resyncs!Branch, c \in SUBSET Commits : Resyncs!With(f, b, c) \in Refs /\ DOMAIN Resyncs!With(f, b, c) = DOMAIN f \cup {b}
    BY WithIs
  <2> QED
    BY <1>1, <1>2, <1>3, <2>1
<1>6. /\ origin' = [origin EXCEPT ![r] = [origin[r] EXCEPT ![on[r]] = Resyncs!Tip(r)]]
      /\ track' = [track EXCEPT ![r] = Resyncs!With(track[r], on[r], Resyncs!Tip(r))]
  BY DEF Resyncs!Push
<1>7. /\ \A k \in Resyncs!Repo \ {r} : origin'[k] = origin[k] /\ track'[k] = track[k]
      /\ origin'[r] = [origin[r] EXCEPT ![on[r]] = Resyncs!Tip(r)] /\ track'[r] = Resyncs!With(track[r], on[r], Resyncs!Tip(r))
      /\ origin' \in [Resyncs!Repo -> Refs] /\ track' \in [Resyncs!Repo -> Refs]
  BY <1>4, <1>5, <1>6 DEF ResyncBase, ResyncTypes, RefsTyped
<1>8. RefsTyped' /\ \A k \in Resyncs!Repo : DOMAIN track[k] \subseteq DOMAIN track'[k]
  BY <1>5, <1>7 DEF Resyncs!Push, ResyncBase, ResyncTypes, RefsTyped
<1> QED
  BY <1>1, <1>2, <1>3, <1>7, <1>8 DEF Resyncs!Push

LEMMA PushBase == ASSUME ResyncBase, NEW r \in Resyncs!Repo, Resyncs!Push(r) PROVE ResyncBase'
<1>1. RefsTyped' /\ HeadsTyped' /\ CountsTyped' /\ CheckedOut'
  BY PushDoes DEF ResyncBase, ResyncTypes, HeadsTyped, CountsTyped, CheckedOut, Resyncs!counts
<1>2. StatesTyped' /\ RunTyped' /\ ResyncPhases'
  BY PushDoes, PhasesKept
<1> QED
  BY <1>1, <1>2 DEF ResyncBase, ResyncTypes

\* What a colleague does to a branch of a remote.
LEMMA MateDoes ==
    ASSUME ResyncBase, NEW r \in Resyncs!Repo, NEW b \in Resyncs!Branch, NEW what \in Mates, Resyncs!Mate(r, b, what)
    PROVE  /\ UNCHANGED <<tagged, Resyncs!repos, saved, entry, Resyncs!command, at, result, work, runs, faults>> /\ mates' = mates + 1
           /\ RefsTyped' /\ \A k \in Resyncs!Repo \ {r} : origin'[k] = origin[k]
           /\ DOMAIN origin'[r] \subseteq DOMAIN origin[r]
           /\ \A x \in DOMAIN origin'[r] \ {b} : origin'[r][x] = origin[r][x]
           /\ b \in DOMAIN origin'[r] =>
                 \/ origin'[r][b] = origin[r][b] \cup {<<"mate", mates + 1>>}
                 \/ what = "rewrite" /\ origin'[r][b] = Resyncs!Released \cup {<<"mate", mates + 1>>}
<1>1. UNCHANGED <<tagged, Resyncs!repos, saved, entry, Resyncs!command, at, result, work, runs, faults>> /\ mates' = mates + 1 /\ b \in DOMAIN origin[r]
  BY DEF Resyncs!Mate
<1>2. origin \in [Resyncs!Repo -> Refs] /\ origin[r] \in Refs /\ mates + 1 \in Nat
  BY DEF ResyncBase, ResyncTypes, RefsTyped, CountsTyped
<1>3. {<<"mate", mates + 1>>} \in SUBSET Commits /\ Resyncs!Released \in SUBSET Commits
  <2>1. <<"mate", mates + 1>> \in {"release", "own", "mate"} \X Nat /\ <<"release", 0>> \in {"release", "own", "mate"} \X Nat
    BY <1>2
  <2> QED
    BY <2>1 DEF Resyncs!Released, Commits
<1>4. ASSUME NEW c \in SUBSET Commits, origin' = [origin EXCEPT ![r] = [origin[r] EXCEPT ![b] = c]]
      PROVE  /\ origin' \in [Resyncs!Repo -> Refs] /\ \A k \in Resyncs!Repo \ {r} : origin'[k] = origin[k]
             /\ DOMAIN origin'[r] = DOMAIN origin[r] /\ origin'[r][b] = c
             /\ \A x \in DOMAIN origin'[r] \ {b} : origin'[r][x] = origin[r][x]
  <2> DEFINE new == [origin[r] EXCEPT ![b] = c]
  <2>1. new \in Refs /\ DOMAIN new = DOMAIN origin[r] /\ new[b] = c /\ \A x \in DOMAIN origin[r] \ {b} : new[x] = origin[r][x]
    BY <1>1, <1>2, ExceptIs
  <2>2. origin' = [origin EXCEPT ![r] = new]
    BY <1>4
  <2> HIDE DEF new
  <2> QED
    BY <1>2, <2>1, <2>2
<1>5. origin[r][b] \in SUBSET Commits
  BY <1>1, <1>2, RefsAre
<1>6. CASE what = "push"
  <2>1. origin' = [origin EXCEPT ![r] = [origin[r] EXCEPT ![b] = origin[r][b] \cup {<<"mate", mates + 1>>}]]
    <3> DEFINE grown == [origin[r] EXCEPT ![b] = @ \cup {<<"mate", mates + 1>>}]
    <3> DEFINE redone == [origin[r] EXCEPT ![b] = Resyncs!Released \cup {<<"mate", mates + 1>>}]
    <3> DEFINE cut == [x \in DOMAIN origin[r] \ {b} |-> origin[r][x]]
    <3>1. origin' = [origin EXCEPT ![r] = CASE what = "push" -> grown [] what = "rewrite" -> redone [] OTHER -> cut]
      BY DEF Resyncs!Mate
    <3>2. grown = [origin[r] EXCEPT ![b] = origin[r][b] \cup {<<"mate", mates + 1>>}]
      OBVIOUS
    <3> HIDE DEF grown, redone, cut
    <3> QED
      BY <1>6, <3>1, <3>2
  <2>2. origin[r][b] \cup {<<"mate", mates + 1>>} \in SUBSET Commits
    BY <1>3, <1>5
  <2>3. /\ origin' \in [Resyncs!Repo -> Refs] /\ \A k \in Resyncs!Repo \ {r} : origin'[k] = origin[k]
        /\ DOMAIN origin'[r] = DOMAIN origin[r] /\ origin'[r][b] = origin[r][b] \cup {<<"mate", mates + 1>>}
        /\ \A x \in DOMAIN origin'[r] \ {b} : origin'[r][x] = origin[r][x]
    BY <1>4, <2>1, <2>2
  <2> QED
    BY <1>1, <2>3 DEF Resyncs!repos, ResyncBase, ResyncTypes, RefsTyped
<1>7. CASE what = "rewrite"
  <2>1. origin' = [origin EXCEPT ![r] = [origin[r] EXCEPT ![b] = Resyncs!Released \cup {<<"mate", mates + 1>>}]]
    BY <1>7 DEF Resyncs!Mate
  <2>2. Resyncs!Released \cup {<<"mate", mates + 1>>} \in SUBSET Commits
    BY <1>3
  <2>3. /\ origin' \in [Resyncs!Repo -> Refs] /\ \A k \in Resyncs!Repo \ {r} : origin'[k] = origin[k]
        /\ DOMAIN origin'[r] = DOMAIN origin[r] /\ origin'[r][b] = Resyncs!Released \cup {<<"mate", mates + 1>>}
        /\ \A x \in DOMAIN origin'[r] \ {b} : origin'[r][x] = origin[r][x]
    BY <1>4, <2>1, <2>2
  <2> QED
    BY <1>1, <1>7, <2>3 DEF Resyncs!repos, ResyncBase, ResyncTypes, RefsTyped
<1>8. CASE what \notin {"push", "rewrite"}
  <2> DEFINE B == DOMAIN origin[r] \ {b}
  <2> DEFINE cut == [x \in B |-> origin[r][x]]
  <2>1. origin' = [origin EXCEPT ![r] = cut]
    BY <1>8 DEF Resyncs!Mate
  <2>2. cut \in Refs /\ DOMAIN cut = B /\ \A x \in B : cut[x] = origin[r][x]
    BY <1>2, CutIs
  <2>3. origin' \in [Resyncs!Repo -> Refs] /\ origin'[r] = cut /\ \A k \in Resyncs!Repo \ {r} : origin'[k] = origin[k]
    <3> HIDE DEF cut
    <3> QED
      BY <1>2, <2>1, <2>2
  <2> HIDE DEF cut
  <2> QED
    BY <1>1, <2>2, <2>3 DEF Resyncs!repos, ResyncBase, ResyncTypes, RefsTyped
<1> QED
  BY <1>6, <1>7, <1>8

LEMMA MateBase == ASSUME ResyncBase, NEW r \in Resyncs!Repo, NEW b \in Resyncs!Branch, NEW what \in Mates, Resyncs!Mate(r, b, what) PROVE ResyncBase'
<1>1. UNCHANGED <<tagged, track, local, on, loose, dirt, stash, disk, saved, entry, Resyncs!command, at, result, work, runs, faults>>
  BY MateDoes DEF Resyncs!repos
<1>2. RefsTyped' /\ HeadsTyped' /\ CountsTyped' /\ CheckedOut'
  BY <1>1, MateDoes DEF ResyncBase, ResyncTypes, HeadsTyped, CountsTyped, CheckedOut
<1>3. Resyncs!Target' = Resyncs!Target
  BY <1>1 DEF Resyncs!Target, Resyncs!RootBranch, Resyncs!command
<1>4. StatesTyped' /\ RunTyped' /\ ResyncPhases'
  BY <1>1, <1>3, PhasesKept
<1> QED
  BY <1>2, <1>4 DEF ResyncBase, ResyncTypes

LEMMA StutterBase == ASSUME ResyncBase, UNCHANGED Resyncs!vars PROVE ResyncBase'
<1>1. UNCHANGED <<origin, tagged, track, local, on, loose, dirt, stash, disk, saved, entry, Resyncs!command, at, result, work, mates, runs, faults>>
  BY DEF Resyncs!vars, Resyncs!remotes, Resyncs!repos, Resyncs!counts
<1>2. RefsTyped' /\ HeadsTyped' /\ CountsTyped' /\ CheckedOut'
  BY <1>1 DEF ResyncBase, ResyncTypes, RefsTyped, HeadsTyped, CountsTyped, CheckedOut
<1>3. Resyncs!Target' = Resyncs!Target
  BY <1>1 DEF Resyncs!Target, Resyncs!RootBranch, Resyncs!command
<1>4. StatesTyped' /\ RunTyped' /\ ResyncPhases'
  BY <1>1, <1>3, PhasesKept
<1> QED
  BY <1>2, <1>4 DEF ResyncBase, ResyncTypes

LEMMA BaseKept == ASSUME ResyncBase, [Resyncs!Next]_(Resyncs!vars) PROVE ResyncBase'
<1>1. CASE \E c \in Resyncs!Commands : Resyncs!Begin(c)
  BY <1>1, BeginBase
<1>2. CASE Resyncs!Step
  BY <1>2, VisitBase, PullBase, JudgeBase, StashBase, ResetBase, SaveBase, RestoreBase, CloneBase, MoveBase, BackBase,
     PlanBase, MergeBase, FetchBase DEF Resyncs!Step
<1>3. CASE Resyncs!Stop \/ Resyncs!User \/ \E r \in Resyncs!Repo : Resyncs!Push(r)
  BY <1>3, StopBase, UserBase, PushBase
<1>4. CASE \E r \in Resyncs!Repo, b \in Resyncs!Branch, what \in Mates : Resyncs!Mate(r, b, what)
  BY <1>4, MateBase
<1>5. CASE UNCHANGED Resyncs!vars
  BY <1>5, StutterBase
<1> QED
  BY <1>1, <1>2, <1>3, <1>4, <1>5 DEF Resyncs!Next

-----------------------------------------------------------------------------
(* No commit of the user is taken away *)

\* What the branches of a repository hold.
Holding(r) == UNION Resyncs!Range(local[r])

\* Nobody but the user's own push and commits bring a commit of the user anywhere: what a
\* remote has, or was seen to have, of a branch, the repository's own branch has.
Backed == \A r \in Resyncs!Repo : \A b \in Resyncs!Branch :
    (TipOf(origin[r], b) \cup TipOf(track[r], b)) \cap Resyncs!Own \subseteq TipOf(local[r], b)

\* So has some branch what a detached HEAD is at, now or when a load moved it.
LooseBacked == \A r \in Resyncs!Repo : loose[r] \cap Resyncs!Own \subseteq Holding(r)
MovedBacked == \A m \in moved : m[3] \cap Resyncs!Own \subseteq Holding(m[1])

\* A repository that is gone held no work.
GoneEmpty == \A r \in Resyncs!Repo : ~disk[r] => dirt[r] = {} /\ stash[r] = {} /\ Holding(r) \cap Resyncs!Own = {}

\* What pull --force is about to reset to was judged, and no work is in its way.
FetchedRight ==
    at \in {"stash", "reset"} =>
        LET r == Resyncs!First(todo)
        IN  /\ Resyncs!Target \in DOMAIN track[r] /\ fetched = track[r][Resyncs!Target]
            /\ ~Resyncs!WouldDrop(r, Resyncs!Target, track[r]) /\ TipOf(origin[r], Resyncs!Target) \cap Resyncs!Own \subseteq fetched
            /\ at = "reset" => dirt[r] = {}

WorkInv == ResyncBase /\ Backed /\ LooseBacked /\ MovedBacked /\ GoneEmpty /\ FetchedRight

\* What a step leaves of the user's work.
Safe == \A r \in Resyncs!Repo : Holding(r) \cap Resyncs!Own \subseteq Holding(r)' /\ dirt[r] \cup stash[r] \subseteq dirt'[r] \cup stash'[r]

LEMMA NotOwn == Resyncs!Released \cap Resyncs!Own = {} /\ \A n : <<"mate", n>> \notin Resyncs!Own
<1>1. \A x \in Resyncs!Own : x[1] = "own"
  BY DEF Resyncs!Own
<1>2. \A n : <<"mate", n>>[1] = "mate" /\ <<"release", 0>>[1] = "release"
  OBVIOUS
<1> QED
  BY <1>1, <1>2 DEF Resyncs!Released

\* What a step must leave as it is.
LEMMA WorkFrom ==
    ASSUME WorkInv, ResyncBase', Backed',
           \A r \in Resyncs!Repo : Holding(r) \cap Resyncs!Own \subseteq Holding(r)',
           \A r \in Resyncs!Repo : loose'[r] \cap Resyncs!Own \subseteq Holding(r) \cup Holding(r)',
           \A m \in moved' : m \in moved \/ m[3] \cap Resyncs!Own \subseteq Holding(m[1]),
           \A r \in Resyncs!Repo : ~disk'[r] => ~disk[r] /\ local'[r] = local[r] /\ dirt'[r] = dirt[r] /\ stash'[r] = stash[r],
           \A r \in Resyncs!Repo : dirt[r] \cup stash[r] \subseteq dirt'[r] \cup stash'[r],
           FetchedRight'
    PROVE  WorkInv' /\ Safe
<1>1. LooseBacked'
  BY DEF LooseBacked
<1>2. MovedBacked'
  <2>1. \A m \in moved' : m[1] \in Resyncs!Repo
    BY DEF ResyncBase, ResyncTypes, RunTyped
  <2> QED
    BY <2>1 DEF MovedBacked, WorkInv
<1>3. GoneEmpty'
  BY DEF GoneEmpty, WorkInv, Holding
<1> QED
  BY <1>1, <1>2, <1>3 DEF WorkInv, Safe

\* A step on which every branch grows.
LEMMA WorkGrows ==
    ASSUME WorkInv, ResyncBase',
           \A r \in Resyncs!Repo : \A b \in Resyncs!Branch : TipOf(local[r], b) \cap Resyncs!Own \subseteq TipOf(local'[r], b),
           \A r \in Resyncs!Repo : \A b \in Resyncs!Branch : TipOf(origin'[r], b) \cap Resyncs!Own \subseteq TipOf(origin[r], b) \cup TipOf(local'[r], b),
           \A r \in Resyncs!Repo : \A b \in Resyncs!Branch : TipOf(track'[r], b) \cap Resyncs!Own \subseteq TipOf(origin[r], b) \cup TipOf(track[r], b) \cup TipOf(local'[r], b),
           \A r \in Resyncs!Repo : loose'[r] \cap Resyncs!Own \subseteq Holding(r) \cup Holding(r)',
           \A m \in moved' : m \in moved \/ m[3] \cap Resyncs!Own \subseteq Holding(m[1]),
           \A r \in Resyncs!Repo : ~disk'[r] => ~disk[r] /\ local'[r] = local[r] /\ dirt'[r] = dirt[r] /\ stash'[r] = stash[r],
           \A r \in Resyncs!Repo : dirt[r] \cup stash[r] \subseteq dirt'[r] \cup stash'[r],
           FetchedRight'
    PROVE  WorkInv' /\ Safe
<1>1. ASSUME NEW r \in Resyncs!Repo PROVE Holding(r) \cap Resyncs!Own \subseteq Holding(r)'
  <2> SUFFICES ASSUME NEW c \in Resyncs!Own, c \in Holding(r) PROVE c \in Holding(r)'
    OBVIOUS
  <2>1. PICK b \in DOMAIN local[r] : c \in TipOf(local[r], b)
    BY RangeTips DEF Holding, TipOf
  <2>2. b \in Resyncs!Branch
    <3>1. local[r] \in Refs
      BY DEF WorkInv, ResyncBase, ResyncTypes, RefsTyped
    <3> QED
      BY <3>1, RefsAre
  <2>3. c \in TipOf(local'[r], b)
    BY <2>1, <2>2
  <2>4. b \in DOMAIN local'[r]
    BY <2>3 DEF TipOf
  <2> QED
    BY <2>3, <2>4, RangeTips DEF Holding
<1>2. Backed'
  <2> SUFFICES ASSUME NEW r \in Resyncs!Repo, NEW b \in Resyncs!Branch
               PROVE  (TipOf(origin'[r], b) \cup TipOf(track'[r], b)) \cap Resyncs!Own \subseteq TipOf(local'[r], b)
    BY DEF Backed
  <2> QED
    BY DEF WorkInv, Backed
<1> QED
  BY <1>1, <1>2, WorkFrom

\* ... or none changes.
LEMMA WorkStill ==
    ASSUME WorkInv, ResyncBase', UNCHANGED <<origin, track, local, stash>>,
           \A r \in Resyncs!Repo : loose'[r] \cap Resyncs!Own \subseteq Holding(r),
           \A m \in moved' : m \in moved \/ m[3] \cap Resyncs!Own \subseteq Holding(m[1]),
           \A r \in Resyncs!Repo : ~disk'[r] => ~disk[r] /\ dirt'[r] = dirt[r],
           \A r \in Resyncs!Repo : dirt[r] \subseteq dirt'[r],
           FetchedRight'
    PROVE  WorkInv' /\ Safe
BY WorkGrows

LEMMA WorkWith ==
    ASSUME NEW f \in Refs, NEW g \in Refs, NEW b \in Resyncs!Branch, NEW c \in SUBSET Commits, g = Resyncs!With(f, b, c)
    PROVE  \A x : TipOf(g, x) \subseteq TipOf(f, x) \cup (IF x = b THEN c ELSE {})
<1>1. \A x : TipOf(Resyncs!With(f, b, c), x) = IF x = b THEN c ELSE TipOf(f, x)
  BY DEF Resyncs!With, TipOf
<1> QED
  BY <1>1

\* Where a command is not about to reset.
LEMMA FetchedIdle == ASSUME at' \notin {"stash", "reset"} PROVE FetchedRight'
BY DEF FetchedRight

LEMMA InitWork == ASSUME Resyncs!Init PROVE WorkInv
<1>1. ResyncBase
  BY InitBase
<1>2. PICK odd \in Resyncs!Repo, kind \in {"", "untagged", "away", "unknown", "tracked", "untracked", "gone", "loose"}, rel \in {"main", "dev", Resyncs!None} :
          LET fresh == [b \in Resyncs!Branch |-> IF b = rel THEN Resyncs!Released ELSE {}]
          IN  /\ kind = "gone" => odd # Resyncs!Root
              /\ tagged = [r \in Resyncs!Repo |-> ~(kind = "untagged" /\ r = odd)]
              /\ origin = [r \in Resyncs!Repo |-> IF kind = "unknown" /\ r = odd THEN fresh ELSE [b \in Resyncs!Branch |-> Resyncs!Released]]
              /\ local = [r \in Resyncs!Repo |-> IF kind = "unknown" /\ r = odd THEN [b \in {"main"} |-> {}]
                                         ELSE [b \in {"main", "dev"} |-> Resyncs!Released]]
              /\ track = [r \in Resyncs!Repo |-> IF kind = "unknown" /\ r = odd THEN [b \in Resyncs!Branch |-> {}] ELSE local[r]]
              /\ on = [r \in Resyncs!Repo |-> CASE kind = "away" /\ r = odd -> "dev" [] kind = "loose" /\ r # Memory -> Resyncs!None [] OTHER -> "main"]
              /\ loose = [r \in Resyncs!Repo |-> IF on[r] = Resyncs!None THEN Resyncs!Released ELSE {}]
              /\ saved = [r \in Resyncs!Repo |-> IF on[r] = Resyncs!None THEN Resyncs!Ref(r) ELSE <<"branch", "main">>]
              /\ dirt = [r \in Resyncs!Repo |-> IF kind \in Resyncs!Dirt /\ r = odd THEN {kind} ELSE {}]
              /\ disk = [r \in Resyncs!Repo |-> ~(kind = "gone" /\ r = odd)]
              /\ (kind # "unknown") => rel = Resyncs!None
  BY ZenonT(30) DEF Resyncs!Init
<1>3. stash = [r \in Resyncs!Repo |-> {}] /\ at = "idle" /\ moved = {}
  BY DEF Resyncs!Init
<1>4. \A r \in Resyncs!Repo : \A b : /\ TipOf(origin[r], b) \subseteq Resyncs!Released /\ TipOf(track[r], b) \subseteq Resyncs!Released
                             /\ TipOf(local[r], b) \subseteq Resyncs!Released
  BY <1>2 DEF TipOf
<1>5. \A r \in Resyncs!Repo : loose[r] \subseteq Resyncs!Released /\ (~disk[r] => dirt[r] = {} /\ stash[r] = {})
  BY <1>2, <1>3 DEF Resyncs!Dirt
<1>6. \A r \in Resyncs!Repo : Holding(r) \cap Resyncs!Own = {}
  BY <1>4, RangeTips, NotOwn DEF Holding
<1>7. Backed
  BY <1>4, NotOwn DEF Backed
<1>8. LooseBacked /\ MovedBacked /\ GoneEmpty /\ FetchedRight
  BY <1>3, <1>5, <1>6, NotOwn DEF LooseBacked, MovedBacked, GoneEmpty, FetchedRight
<1> QED
  BY <1>1, <1>7, <1>8 DEF WorkInv

\* ... or no more than what is known of the remotes changes.
LEMMA WorkSeen ==
    ASSUME WorkInv, ResyncBase', UNCHANGED <<origin, local, loose, dirt, stash, disk>>,
           \A r \in Resyncs!Repo : \A b \in Resyncs!Branch : TipOf(track'[r], b) \subseteq TipOf(origin[r], b) \cup TipOf(track[r], b),
           moved' \subseteq moved, FetchedRight'
    PROVE  WorkInv' /\ Safe
<1>1. \A r \in Resyncs!Repo : loose'[r] \cap Resyncs!Own \subseteq Holding(r)
  BY DEF WorkInv, LooseBacked
<1> QED
  BY <1>1, WorkGrows

LEMMA TipHeld == ASSUME WorkInv, NEW r \in Resyncs!Repo PROVE Resyncs!Tip(r) \cap Resyncs!Own \subseteq Holding(r)
<1>1. CASE on[r] = Resyncs!None
  BY <1>1, TipIs DEF WorkInv, ResyncBase, LooseBacked
<1>2. CASE on[r] # Resyncs!None
  BY <1>2, TipIs, RangeHolds DEF WorkInv, ResyncBase, Holding
<1> QED
  BY <1>1, <1>2

\* What is seen or held of a branch.
LEMMA BackedHeld ==
    ASSUME WorkInv, NEW r \in Resyncs!Repo, NEW b \in Resyncs!Branch
    PROVE  (TipOf(origin[r], b) \cup TipOf(track[r], b)) \cap Resyncs!Own \subseteq Holding(r)
<1> SUFFICES ASSUME NEW c \in Resyncs!Own, c \in TipOf(origin[r], b) \cup TipOf(track[r], b) PROVE c \in Holding(r)
  OBVIOUS
<1>1. c \in TipOf(local[r], b)
  BY DEF WorkInv, Backed
<1>2. b \in DOMAIN local[r]
  BY <1>1 DEF TipOf
<1> QED
  BY <1>1, <1>2, RangeTips DEF Holding

\* HEAD moves to what holds it.
LEMMA WorkAdvances ==
    ASSUME WorkInv, NEW r \in Resyncs!Repo, NEW c \in SUBSET Commits, Resyncs!Advance(r, c), on' = on, Resyncs!Tip(r) \subseteq c,
           on[r] = Resyncs!None => c \cap Resyncs!Own \subseteq Holding(r)
    PROVE  /\ \A k \in Resyncs!Repo : \A b \in Resyncs!Branch : TipOf(local[k], b) \cap Resyncs!Own \subseteq TipOf(local'[k], b)
           /\ \A k \in Resyncs!Repo : loose'[k] \cap Resyncs!Own \subseteq Holding(k)
           /\ \A k \in Resyncs!Repo \ {r} : local'[k] = local[k]
<1> USE DEF WorkInv
<1>1. /\ \A k \in Resyncs!Repo \ {r} : local'[k] = local[k] /\ loose'[k] = loose[k]
      /\ \A b : TipOf(local'[r], b) = IF on[r] # Resyncs!None /\ b = on[r] THEN c ELSE TipOf(local[r], b)
      /\ on[r] = Resyncs!None => loose'[r] = c
      /\ on[r] # Resyncs!None => loose' = loose
  BY AdvanceIs DEF ResyncBase
<1>2. on[r] # Resyncs!None => TipOf(local[r], on[r]) = Resyncs!Tip(r)
  BY TipIs DEF ResyncBase, TipOf
<1> QED
  BY <1>1, <1>2 DEF LooseBacked

\* What a command fetches of a repository: some branches are as its remote has them.
Sees == \A k \in Resyncs!Repo : \A b \in Resyncs!Branch :
    \/ TipOf(track'[k], b) = TipOf(track[k], b)
    \/ b \in DOMAIN origin[k] /\ TipOf(track'[k], b) = origin[k][b]

LEMMA SeesNoMore ==
    ASSUME Sees
    PROVE  \A k \in Resyncs!Repo : \A b \in Resyncs!Branch : TipOf(track'[k], b) \subseteq TipOf(origin[k], b) \cup TipOf(track[k], b)
<1>1. \A k \in Resyncs!Repo : \A b \in Resyncs!Branch : b \in DOMAIN origin[k] => TipOf(origin[k], b) = origin[k][b]
  BY DEF TipOf
<1> QED
  BY <1>1 DEF Sees

\* ... one of them,
LEMMA SeesOne ==
    ASSUME ResyncBase, NEW r \in Resyncs!Repo, NEW b \in DOMAIN origin[r],
           track' = [track EXCEPT ![r] = Resyncs!With(track[r], b, origin[r][b])]
    PROVE  Sees /\ b \in DOMAIN track'[r] /\ track'[r][b] = origin[r][b]
<1>1. track \in [Resyncs!Repo -> Refs] /\ origin[r] \in Refs /\ track[r] \in Refs
  BY DEF ResyncBase, ResyncTypes, RefsTyped
<1>2. b \in Resyncs!Branch /\ origin[r][b] \in SUBSET Commits
  BY <1>1, RefsAre
<1>3. track'[r] = Resyncs!With(track[r], b, origin[r][b]) /\ \A k \in Resyncs!Repo \ {r} : track'[k] = track[k]
  BY <1>1
<1>4. \A x : TipOf(Resyncs!With(track[r], b, origin[r][b]), x) = IF x = b THEN origin[r][b] ELSE TipOf(track[r], x)
  BY <1>1, <1>2, WithTips
<1>5. b \in DOMAIN Resyncs!With(track[r], b, origin[r][b]) /\ Resyncs!With(track[r], b, origin[r][b])[b] = origin[r][b]
  BY <1>1, <1>2, WithHas
<1> QED
  BY <1>3, <1>4, <1>5 DEF Sees

\* ... or all.
LEMMA VisitSees == ASSUME ResyncBase, Resyncs!Visit PROVE Sees
<1> DEFINE r == Resyncs!First(todo)
<1>1. /\ r \in Resyncs!Repo /\ \A k \in Resyncs!Repo \ {r} : track'[k] = track[k]
      /\ track'[r] = track[r] \/ track'[r] = Resyncs!Over(origin[r], track[r])
  BY VisitDoes
<1> HIDE DEF r
<1>2. origin[r] \in Refs /\ track[r] \in Refs
  BY <1>1 DEF ResyncBase, ResyncTypes, RefsTyped
<1>3. \A x : TipOf(Resyncs!Over(origin[r], track[r]), x) = IF x \in DOMAIN origin[r] THEN origin[r][x] ELSE TipOf(track[r], x)
  BY <1>2, OverIs
<1> QED
  BY <1>1, <1>3 DEF Sees

LEMMA PlanSees == ASSUME ResyncBase, Resyncs!Plan PROVE Sees
<1> DEFINE r == Resyncs!Deepest(todo)
<1>1. /\ r \in Resyncs!Repo /\ \A k \in Resyncs!Repo \ {r} : track'[k] = track[k]
      /\ \/ track'[r] = track[r]
         \/ "main" \in DOMAIN origin[r] /\ track'[r] = Resyncs!With(track[r], "main", origin[r]["main"])
  BY PlanDoes
<1> HIDE DEF r
<1>2. CASE track'[r] = track[r]
  BY <1>1, <1>2 DEF Sees
<1>3. CASE "main" \in DOMAIN origin[r] /\ track'[r] = Resyncs!With(track[r], "main", origin[r]["main"])
  <2>1. origin[r] \in Refs /\ track[r] \in Refs /\ "main" \in Resyncs!Branch
    BY <1>1 DEF ResyncBase, ResyncTypes, RefsTyped, Resyncs!Branch
  <2>2. origin[r]["main"] \in SUBSET Commits
    BY <1>3, <2>1, RefsAre
  <2>3. \A x : TipOf(Resyncs!With(track[r], "main", origin[r]["main"]), x) = IF x = "main" THEN origin[r]["main"] ELSE TipOf(track[r], x)
    BY <2>1, <2>2, WithTips
  <2> QED
    BY <1>1, <1>3, <2>3 DEF Sees
<1> QED
  BY <1>1, <1>2, <1>3

LEMMA BeginWork == ASSUME WorkInv, ResyncBase', NEW c \in Resyncs!Commands, Resyncs!Begin(c) PROVE WorkInv' /\ Safe
<1>1. UNCHANGED <<Resyncs!remotes, Resyncs!repos>> /\ moved' = {} /\ at' \notin {"stash", "reset"}
  <2>1. at' \in {"idle", "clone", "move", "plan", "fetch", "restore", "visit"}
    BY DEF Resyncs!Begin, Resyncs!Commands
  <2> QED
    BY <2>1 DEF Resyncs!Begin
<1> QED
  BY <1>1, WorkSeen, FetchedIdle DEF Resyncs!remotes, Resyncs!repos

LEMMA VisitWork == ASSUME WorkInv, ResyncBase', Resyncs!Visit PROVE WorkInv' /\ Safe
<1>1. UNCHANGED <<origin, local, loose, dirt, stash, disk>>
  BY VisitDoes DEF WorkInv, Resyncs!remotes
<1>2. at' \notin {"stash", "reset"} /\ moved' \subseteq moved
  BY VisitDoes DEF Resyncs!End, Resyncs!Go, Resyncs!Settle, Resyncs!Onward, WorkInv
<1> QED
  BY <1>1, <1>2, VisitSees, SeesNoMore, WorkSeen, FetchedIdle DEF WorkInv

LEMMA PullWork == ASSUME WorkInv, ResyncBase', Resyncs!Pull PROVE WorkInv' /\ Safe
<1> DEFINE r == Resyncs!First(todo)
<1> DEFINE new == origin[r][Resyncs!Target]
<1>1. r \in Resyncs!Repo /\ disk[r] /\ UNCHANGED <<origin, on, dirt, stash, disk>> /\ at' \notin {"stash", "reset"} /\ moved' \subseteq moved
  BY PullDoes DEF Resyncs!End, Resyncs!Go, Resyncs!Settle, Resyncs!Onward, WorkInv, Resyncs!remotes
<1>2. CASE UNCHANGED <<track, local, loose>>
  BY <1>1, <1>2, WorkSeen, FetchedIdle
<1>3. CASE /\ Resyncs!Target \in DOMAIN origin[r] /\ Resyncs!Target \in Resyncs!Branch /\ new \in SUBSET Commits
           /\ new \subseteq Resyncs!Tip(r) \/ Resyncs!Tip(r) \subseteq new
           /\ track' = [track EXCEPT ![r] = Resyncs!With(@, Resyncs!Target, new)]
           /\ Resyncs!TakeIn(r, new) \in SUBSET Commits /\ Resyncs!Advance(r, Resyncs!TakeIn(r, new))
  <2>1. Resyncs!Tip(r) \subseteq Resyncs!TakeIn(r, new) /\ (Resyncs!TakeIn(r, new) = new \/ Resyncs!TakeIn(r, new) = Resyncs!Tip(r))
    BY <1>3 DEF Resyncs!TakeIn
  <2>2. new = TipOf(origin[r], Resyncs!Target)
    BY <1>3 DEF TipOf
  <2>3. Resyncs!TakeIn(r, new) \cap Resyncs!Own \subseteq Holding(r)
    BY <1>1, <1>3, <2>1, <2>2, TipHeld, BackedHeld
  <2>4. /\ \A k \in Resyncs!Repo : \A b \in Resyncs!Branch : TipOf(local[k], b) \cap Resyncs!Own \subseteq TipOf(local'[k], b)
        /\ \A k \in Resyncs!Repo : loose'[k] \cap Resyncs!Own \subseteq Holding(k)
        /\ \A k \in Resyncs!Repo \ {r} : local'[k] = local[k]
    BY <1>1, <1>3, <2>1, <2>3, WorkAdvances
  <2>5. \A k \in Resyncs!Repo : \A b \in Resyncs!Branch : TipOf(track'[k], b) \subseteq TipOf(origin[k], b) \cup TipOf(track[k], b)
    BY <1>1, <1>3, SeesOne, SeesNoMore DEF WorkInv
  <2>6. \A k \in Resyncs!Repo : ~disk'[k] => ~disk[k] /\ local'[k] = local[k]
    BY <1>1, <2>4
  <2> HIDE DEF new, r
  <2> QED
    BY <1>1, <2>4, <2>5, <2>6, WorkGrows, FetchedIdle
<1> QED
  BY <1>2, <1>3, PullDoes DEF WorkInv

LEMMA JudgeWork == ASSUME WorkInv, ResyncBase', Resyncs!Judge PROVE WorkInv' /\ Safe
<1> DEFINE r == Resyncs!First(todo)
<1>1. r \in Resyncs!Repo /\ UNCHANGED <<origin, tagged, local, on, loose, dirt, stash, disk>>
  BY JudgeDoes DEF WorkInv, Resyncs!remotes
<1>2. CASE Resyncs!End("failed") /\ UNCHANGED track
  BY <1>1, <1>2, WorkSeen, FetchedIdle DEF Resyncs!End
<1>3. CASE /\ Resyncs!Target \in DOMAIN origin[r] /\ Resyncs!Target \in Resyncs!Branch
           /\ track' = [track EXCEPT ![r] = Resyncs!With(@, Resyncs!Target, origin[r][Resyncs!Target])]
           /\ \/ Resyncs!End("refused")
              \/ /\ ~Resyncs!WouldDrop(r, Resyncs!Target, track'[r]) /\ at' = "stash" /\ fetched' = origin[r][Resyncs!Target]
                 /\ UNCHANGED <<todo, cmd, start, result, saved, entry, moved, plan>>
  <2>1. Sees /\ Resyncs!Target \in DOMAIN track'[r] /\ track'[r][Resyncs!Target] = origin[r][Resyncs!Target]
    BY <1>1, <1>3, SeesOne DEF WorkInv
  <2>2. \A k \in Resyncs!Repo : \A b \in Resyncs!Branch : TipOf(track'[k], b) \subseteq TipOf(origin[k], b) \cup TipOf(track[k], b)
    BY <2>1, SeesNoMore
  <2>3. CASE Resyncs!End("refused")
    BY <1>1, <2>2, <2>3, WorkSeen, FetchedIdle DEF Resyncs!End
  <2>4. CASE /\ ~Resyncs!WouldDrop(r, Resyncs!Target, track'[r]) /\ at' = "stash" /\ fetched' = origin[r][Resyncs!Target]
             /\ UNCHANGED <<todo, cmd, start, result, saved, entry, moved, plan>>
    <3>1. Resyncs!Target' = Resyncs!Target /\ Resyncs!First(todo)' = r
      BY <1>1, <2>4 DEF Resyncs!Target, Resyncs!RootBranch, Resyncs!First
    <3>2. ~Resyncs!WouldDrop(r, Resyncs!Target, track[r])'
      BY <1>1, <2>4, <3>1 DEF Resyncs!WouldDrop
    <3>3. TipOf(origin[r], Resyncs!Target) = origin[r][Resyncs!Target]
      BY <1>3 DEF TipOf
    <3>4. FetchedRight'
      BY <1>1, <2>1, <2>4, <3>1, <3>2, <3>3 DEF FetchedRight
    <3> QED
      BY <1>1, <2>2, <2>4, <3>4, WorkSeen
  <2> QED
    BY <1>3, <2>3, <2>4
<1> QED
  BY <1>2, <1>3, JudgeDoes DEF WorkInv

LEMMA StashWork == ASSUME WorkInv, ResyncBase', Resyncs!Stash PROVE WorkInv' /\ Safe
<1> DEFINE r == Resyncs!First(todo)
<1>1. /\ at = "stash" /\ at' = "reset" /\ r \in Resyncs!Repo /\ disk[r]
      /\ stash' = [stash EXCEPT ![r] = stash[r] \cup dirt[r]] /\ dirt' = [dirt EXCEPT ![r] = {}]
      /\ UNCHANGED <<origin, tagged, track, local, on, loose, disk, entry, moved, fetched, todo, cmd, start, result, saved>>
  BY StashDoes DEF WorkInv, Resyncs!remotes
<1>2. dirt \in [Resyncs!Repo -> SUBSET Resyncs!Dirt] /\ stash \in [Resyncs!Repo -> SUBSET Resyncs!Dirt]
  BY DEF WorkInv, ResyncBase, ResyncTypes, HeadsTyped
<1>3. dirt'[r] = {} /\ \A k \in Resyncs!Repo : dirt[k] \cup stash[k] \subseteq dirt'[k] \cup stash'[k]
  BY <1>1, <1>2
<1>4. \A k \in Resyncs!Repo : ~disk[k] => k # r /\ dirt'[k] = dirt[k] /\ stash'[k] = stash[k]
  BY <1>1, <1>2
<1>5. Resyncs!Target' = Resyncs!Target /\ Resyncs!First(todo)' = r
  BY <1>1 DEF Resyncs!Target, Resyncs!RootBranch, Resyncs!First
<1>6. Resyncs!WouldDrop(r, Resyncs!Target, track[r])' = Resyncs!WouldDrop(r, Resyncs!Target, track[r])
  BY <1>1, <1>5 DEF Resyncs!WouldDrop
<1>7. FetchedRight'
  BY <1>1, <1>3, <1>5, <1>6 DEF WorkInv, FetchedRight
<1>8. \A k \in Resyncs!Repo : loose'[k] \cap Resyncs!Own \subseteq Holding(k)
  BY <1>1 DEF WorkInv, LooseBacked
<1> HIDE DEF r
<1> QED
  BY <1>1, <1>3, <1>4, <1>7, <1>8, WorkGrows

\* The reset drops no commit, as it was asked whether it would.
LEMMA ResetWork == ASSUME WorkInv, ResyncBase', Resyncs!Reset PROVE WorkInv' /\ Safe
<1> DEFINE r == Resyncs!First(todo)
<1>1. /\ at = "reset" /\ r \in Resyncs!Repo /\ disk[r] /\ Resyncs!Target \in Resyncs!Branch /\ fetched \in SUBSET Commits
      /\ UNCHANGED <<origin, track, stash, disk>> /\ at' \notin {"stash", "reset"} /\ moved' \subseteq moved
  BY ResetDoes DEF WorkInv, Resyncs!remotes, Resyncs!End, Resyncs!Settle, Resyncs!Onward, Resyncs!Go
<1>2. CASE UNCHANGED <<local, on, loose, dirt>>
  BY <1>1, <1>2, WorkSeen, FetchedIdle
<1>3. CASE /\ local' = [local EXCEPT ![r] = Resyncs!With(@, Resyncs!Target, fetched)]
           /\ loose' = [loose EXCEPT ![r] = {}] /\ dirt' = [dirt EXCEPT ![r] = @ \ {"untracked"}]
  <2>1. local \in [Resyncs!Repo -> Refs] /\ local[r] \in Refs /\ dirt \in [Resyncs!Repo -> SUBSET Resyncs!Dirt] /\ loose \in [Resyncs!Repo -> SUBSET Commits]
    BY <1>1 DEF WorkInv, ResyncBase, ResyncTypes, RefsTyped, HeadsTyped
  <2>2. /\ Resyncs!Target \in DOMAIN track[r] /\ fetched = track[r][Resyncs!Target] /\ dirt[r] = {}
        /\ ~Resyncs!WouldDrop(r, Resyncs!Target, track[r]) /\ TipOf(origin[r], Resyncs!Target) \cap Resyncs!Own \subseteq fetched
    BY <1>1 DEF WorkInv, FetchedRight
  <2>3. local'[r] = Resyncs!With(local[r], Resyncs!Target, fetched) /\ \A k \in Resyncs!Repo \ {r} : local'[k] = local[k]
    BY <1>1, <1>3, <2>1
  <2>4. \A x : TipOf(local'[r], x) = IF x = Resyncs!Target THEN fetched ELSE TipOf(local[r], x)
    <3> HIDE DEF r
    <3> QED
      BY <1>1, <2>1, <2>3, WithTips
  <2>5. fetched = TipOf(track[r], Resyncs!Target)
    BY <2>2 DEF TipOf
  <2>6. Backed'
    <3> SUFFICES ASSUME NEW k \in Resyncs!Repo, NEW b \in Resyncs!Branch
                 PROVE  (TipOf(origin[k], b) \cup TipOf(track[k], b)) \cap Resyncs!Own \subseteq TipOf(local'[k], b)
      BY <1>1 DEF Backed
    <3> HIDE DEF r
    <3>1. (TipOf(origin[k], b) \cup TipOf(track[k], b)) \cap Resyncs!Own \subseteq TipOf(local[k], b)
      BY DEF WorkInv, Backed
    <3>2. CASE k # r
      BY <2>3, <3>1, <3>2
    <3>3. CASE k = r /\ b # Resyncs!Target
      BY <2>4, <3>1, <3>3
    <3>4. CASE k = r /\ b = Resyncs!Target
      BY <2>2, <2>4, <2>5, <3>4
    <3> QED
      BY <3>2, <3>3, <3>4
  <2>7. Holding(r) \cap Resyncs!Own \subseteq UNION Resyncs!Range(local'[r])
    <3> SUFFICES ASSUME NEW c \in Resyncs!Own, c \in Holding(r) PROVE c \in UNION Resyncs!Range(local'[r])
      BY DEF Holding
    <3>1. PICK b \in DOMAIN local[r] : c \in TipOf(local[r], b)
      BY RangeTips DEF Holding
    <3>2. CASE b # Resyncs!Target
      <4>1. c \in TipOf(local'[r], b)
        BY <2>4, <3>1, <3>2
      <4>2. b \in DOMAIN local'[r]
        BY <4>1 DEF TipOf
      <4> QED
        BY <4>1, <4>2, RangeTips
    <3>3. CASE b = Resyncs!Target
      <4>1. c \in UNION Resyncs!Range(track[r])
        <5>1. local[r][Resyncs!Target] \subseteq UNION Resyncs!Range(track[r])
          BY <2>2, <3>1, <3>3 DEF Resyncs!WouldDrop
        <5> QED
          BY <3>1, <3>3, <5>1 DEF TipOf
      <4>2. PICK x \in DOMAIN track[r] : c \in TipOf(track[r], x)
        BY <4>1, RangeTips
      <4>3. x \in Resyncs!Branch
        <5>1. track[r] \in Refs
          BY <1>1 DEF WorkInv, ResyncBase, ResyncTypes, RefsTyped
        <5> QED
          BY <5>1, RefsAre
      <4>4. c \in TipOf(local'[r], x)
        BY <1>1, <2>6, <4>2, <4>3 DEF Backed
      <4>5. x \in DOMAIN local'[r]
        BY <4>4 DEF TipOf
      <4> QED
        BY <4>4, <4>5, RangeTips
    <3> QED
      BY <3>2, <3>3
  <2>8. \A k \in Resyncs!Repo : Holding(k) \cap Resyncs!Own \subseteq Holding(k)'
    <3>1. \A k \in Resyncs!Repo \ {r} : Holding(k)' = Holding(k)
      BY <2>3 DEF Holding
    <3> HIDE DEF r
    <3>2. \A k \in Resyncs!Repo : Holding(k)' = UNION Resyncs!Range(local'[k])
      BY DEF Holding
    <3> QED
      BY <2>7, <3>1, <3>2
  <2>9. \A k \in Resyncs!Repo : loose'[k] \cap Resyncs!Own \subseteq Holding(k)
    BY <1>1, <1>3, <2>1 DEF WorkInv, LooseBacked
  <2>10. \A k \in Resyncs!Repo : dirt'[k] = dirt[k]
    BY <1>1, <1>3, <2>1, <2>2
  <2> HIDE DEF r
  <2> QED
    BY <1>1, <2>3, <2>6, <2>8, <2>9, <2>10, WorkFrom, FetchedIdle
<1> QED
  BY <1>2, <1>3, ResetDoes DEF WorkInv

LEMMA SaveWork == ASSUME WorkInv, ResyncBase', Resyncs!Save PROVE WorkInv' /\ Safe
<1>1. UNCHANGED <<Resyncs!remotes, Resyncs!repos>> /\ moved' = {} /\ at' = "idle"
  BY DEF Resyncs!Save
<1> QED
  BY <1>1, WorkSeen, FetchedIdle DEF Resyncs!remotes, Resyncs!repos

\* A repository that is gone has no branch with a commit of the user.
LEMMA GoneTips == ASSUME WorkInv, NEW r \in Resyncs!Repo, ~disk[r] PROVE \A b : TipOf(local[r], b) \cap Resyncs!Own = {}
<1>1. Holding(r) \cap Resyncs!Own = {}
  BY DEF WorkInv, GoneEmpty
<1> SUFFICES ASSUME NEW b, NEW c \in Resyncs!Own, c \in TipOf(local[r], b) PROVE FALSE
  OBVIOUS
<1>2. b \in DOMAIN local[r]
  BY DEF TipOf
<1> QED
  BY <1>1, <1>2, RangeTips DEF Holding

LEMMA RestoreWork == ASSUME WorkInv, ResyncBase', Resyncs!Restore PROVE WorkInv' /\ Safe
<1> DEFINE r == Resyncs!First(todo)
<1>1. r \in Resyncs!Repo /\ UNCHANGED <<origin, dirt, stash>> /\ at' \notin {"stash", "reset"} /\ moved' \subseteq moved
  BY RestoreDoes DEF WorkInv, Resyncs!remotes, Resyncs!End, Resyncs!Onward, Resyncs!Go
<1>2. CASE UNCHANGED <<track, local, on, loose, disk>>
  BY <1>1, <1>2, WorkSeen, FetchedIdle
<1>3. CASE RestoredOne(r)
  <2> HIDE DEF r
  <2>1. /\ \A k \in Resyncs!Repo \ {r} : disk'[k] = disk[k] /\ track'[k] = track[k] /\ local'[k] = local[k] /\ loose'[k] = loose[k]
        /\ disk'[r] /\ track'[r] = IF disk[r] THEN track[r] ELSE origin[r]
        /\ disk[r] => \A b : b \in DOMAIN local[r] => b \in DOMAIN local'[r] /\ local'[r][b] = local[r][b]
        /\ loose'[r] \in {{}, Resyncs!Released}
    BY <1>3 DEF RestoredOne
  <2>2. \A b : TipOf(local[r], b) \cap Resyncs!Own \subseteq TipOf(local'[r], b)
    <3>1. CASE disk[r]
      BY <2>1, <3>1 DEF TipOf
    <3>2. CASE ~disk[r]
      BY <1>1, <3>2, GoneTips
    <3> QED
      BY <3>1, <3>2
  <2>3. \A b : TipOf(track'[r], b) \subseteq TipOf(origin[r], b) \cup TipOf(track[r], b)
    BY <2>1
  <2>4. /\ \A k \in Resyncs!Repo : \A b \in Resyncs!Branch : TipOf(local[k], b) \cap Resyncs!Own \subseteq TipOf(local'[k], b)
        /\ \A k \in Resyncs!Repo : \A b \in Resyncs!Branch : TipOf(track'[k], b) \subseteq TipOf(origin[k], b) \cup TipOf(track[k], b)
    BY <2>1, <2>2, <2>3
  <2>5. \A k \in Resyncs!Repo : loose'[k] \cap Resyncs!Own \subseteq Holding(k)
    BY <2>1, NotOwn DEF WorkInv, LooseBacked
  <2>6. \A k \in Resyncs!Repo : ~disk'[k] => ~disk[k] /\ local'[k] = local[k]
    BY <2>1
  <2> QED
    BY <1>1, <2>4, <2>5, <2>6, WorkGrows, FetchedIdle
<1> QED
  BY <1>2, <1>3, RestoreDoes DEF WorkInv

LEMMA CloneWork == ASSUME WorkInv, ResyncBase', Resyncs!Clone PROVE WorkInv' /\ Safe
<1> DEFINE r == Resyncs!First(todo)
<1>1. r \in Resyncs!Repo /\ ~disk[r] /\ UNCHANGED <<origin, dirt, stash>> /\ moved' \subseteq moved
  BY CloneDoes, ResyncTree DEF WorkInv, Resyncs!remotes, Resyncs!End
<1>2. at' \notin {"stash", "reset"}
  BY CloneDoes DEF WorkInv, Resyncs!End
<1>3. CASE UNCHANGED <<track, local, on, loose, disk>>
  BY <1>1, <1>2, <1>3, WorkSeen, FetchedIdle
<1>4. CASE ClonedOne(r)
  <2> HIDE DEF r
  <2>1. /\ \A k \in Resyncs!Repo \ {r} : disk'[k] = disk[k] /\ track'[k] = track[k] /\ local'[k] = local[k] /\ loose'[k] = loose[k]
        /\ disk'[r] /\ track'[r] = origin[r] /\ loose'[r] = {}
    BY <1>4 DEF ClonedOne
  <2>2. \A b : TipOf(local[r], b) \cap Resyncs!Own \subseteq TipOf(local'[r], b)
    BY <1>1, GoneTips
  <2>3. /\ \A k \in Resyncs!Repo : \A b \in Resyncs!Branch : TipOf(local[k], b) \cap Resyncs!Own \subseteq TipOf(local'[k], b)
        /\ \A k \in Resyncs!Repo : \A b \in Resyncs!Branch : TipOf(track'[k], b) \subseteq TipOf(origin[k], b) \cup TipOf(track[k], b)
    BY <2>1, <2>2
  <2>4. \A k \in Resyncs!Repo : loose'[k] \cap Resyncs!Own \subseteq Holding(k)
    BY <2>1 DEF WorkInv, LooseBacked
  <2>5. \A k \in Resyncs!Repo : ~disk'[k] => ~disk[k] /\ local'[k] = local[k]
    BY <2>1
  <2> QED
    BY <1>1, <1>2, <2>3, <2>4, <2>5, WorkGrows, FetchedIdle
<1> QED
  BY <1>3, <1>4, CloneDoes DEF WorkInv

LEMMA MoveWork == ASSUME WorkInv, ResyncBase', Resyncs!Move PROVE WorkInv' /\ Safe
<1> DEFINE r == Resyncs!First(todo)
<1>1. r \in Resyncs!Repo /\ UNCHANGED <<origin, track, local, dirt, stash, disk>> /\ at' \notin {"stash", "reset"}
  BY MoveDoes DEF WorkInv, Resyncs!remotes, Resyncs!End, MovedOne
<1>2. CASE UNCHANGED loose /\ moved' \subseteq moved
  BY <1>1, <1>2, WorkSeen, FetchedIdle
<1>3. CASE MovedOne(r)
  <2> HIDE DEF r
  <2>1. moved' = moved \cup {<<r, on[r], Resyncs!Tip(r)>>} /\ loose' = [loose EXCEPT ![r] = Resyncs!Released]
    BY <1>3 DEF MovedOne
  <2>2. \A k \in Resyncs!Repo : loose'[k] \cap Resyncs!Own \subseteq Holding(k)
    <3>1. loose \in [Resyncs!Repo -> SUBSET Commits]
      BY DEF WorkInv, ResyncBase, ResyncTypes, HeadsTyped
    <3> QED
      BY <2>1, <3>1, NotOwn DEF WorkInv, LooseBacked
  <2>3. \A m \in moved' : m \in moved \/ m[3] \cap Resyncs!Own \subseteq Holding(m[1])
    BY <1>1, <2>1, TipHeld
  <2> QED
    BY <1>1, <2>2, <2>3, WorkStill, FetchedIdle
<1> QED
  BY <1>2, <1>3, MoveDoes DEF WorkInv, Resyncs!End

LEMMA BackWork == ASSUME WorkInv, ResyncBase', Resyncs!Back PROVE WorkInv' /\ Safe
<1> DEFINE r == Resyncs!Deepest(todo)
<1>1. /\ r \in Resyncs!Repo /\ UNCHANGED <<origin, track, local, dirt, stash, disk>> /\ at' \notin {"stash", "reset"}
      /\ moved' \subseteq moved /\ BackOne(r)
  BY BackDoes DEF WorkInv, Resyncs!remotes, Resyncs!End
<1> HIDE DEF r
<1>2. PICK m \in moved : m[1] = r /\ loose' = [loose EXCEPT ![r] = IF m[2] = Resyncs!None THEN m[3] ELSE {}]
  BY <1>1 DEF BackOne
<1>3. \A k \in Resyncs!Repo : loose'[k] \cap Resyncs!Own \subseteq Holding(k)
  <2>1. loose \in [Resyncs!Repo -> SUBSET Commits]
    BY DEF WorkInv, ResyncBase, ResyncTypes, HeadsTyped
  <2>2. m[3] \cap Resyncs!Own \subseteq Holding(r)
    BY <1>2 DEF WorkInv, MovedBacked
  <2> QED
    BY <1>1, <1>2, <2>1, <2>2 DEF WorkInv, LooseBacked
<1> QED
  BY <1>1, <1>3, WorkStill, FetchedIdle

LEMMA PlanWork == ASSUME WorkInv, ResyncBase', Resyncs!Plan PROVE WorkInv' /\ Safe
<1>1. UNCHANGED <<origin, local, on, loose, dirt, stash, disk>>
  BY PlanDoes DEF WorkInv, Resyncs!remotes
<1>2. at' \notin {"stash", "reset"} /\ moved' \subseteq moved
  BY PlanDoes DEF WorkInv, Resyncs!End
<1> QED
  BY <1>1, <1>2, PlanSees, SeesNoMore, WorkSeen, FetchedIdle DEF WorkInv

LEMMA MergeWork == ASSUME WorkInv, ResyncBase', Resyncs!Merge PROVE WorkInv' /\ Safe
<1> DEFINE r == Resyncs!Deepest(todo)
<1> DEFINE both == Resyncs!Tip(r) \cup track[r]["main"]
<1>1. /\ r \in Resyncs!Repo /\ UNCHANGED <<origin, track, on, dirt, stash, disk>> /\ at' \notin {"stash", "reset"}
      /\ "main" \in DOMAIN track[r] /\ both \in SUBSET Commits /\ Resyncs!Advance(r, both) /\ moved' \subseteq moved
      /\ \A k \in Hidden : disk[k]
  BY MergeDoes DEF WorkInv, Resyncs!remotes, Resyncs!End, ResyncBase, ResyncPhases, RestPhase
<1>2. disk[r]
  BY <1>1, MergeDoes DEF WorkInv
<1> HIDE DEF r
<1>3. both \cap Resyncs!Own \subseteq Holding(r)
  <2>1. TipOf(track[r], "main") = track[r]["main"] /\ "main" \in Resyncs!Branch
    BY <1>1 DEF TipOf, Resyncs!Branch
  <2>2. TipOf(track[r], "main") \cap Resyncs!Own \subseteq Holding(r)
    BY <1>1, <2>1, BackedHeld
  <2> QED
    BY <1>1, <2>1, <2>2, TipHeld
<1>4. Resyncs!Tip(r) \subseteq both
  OBVIOUS
<1> HIDE DEF both
<1>5. /\ \A k \in Resyncs!Repo : \A b \in Resyncs!Branch : TipOf(local[k], b) \cap Resyncs!Own \subseteq TipOf(local'[k], b)
      /\ \A k \in Resyncs!Repo : loose'[k] \cap Resyncs!Own \subseteq Holding(k)
      /\ \A k \in Resyncs!Repo \ {r} : local'[k] = local[k]
  BY <1>1, <1>3, <1>4, WorkAdvances
<1>6. \A k \in Resyncs!Repo : ~disk'[k] => ~disk[k] /\ local'[k] = local[k]
  BY <1>1, <1>2, <1>5
<1> QED
  BY <1>1, <1>5, <1>6, WorkGrows, FetchedIdle

LEMMA FetchWork == ASSUME WorkInv, ResyncBase', Resyncs!Fetch PROVE WorkInv' /\ Safe
<1>1. UNCHANGED <<origin, local, loose, dirt, stash, disk>> /\ \A k \in Resyncs!Repo : track'[k] = track[k] \/ track'[k] = origin[k]
  BY FetchDoes DEF WorkInv, Resyncs!remotes
<1>2. at' \notin {"stash", "reset"} /\ moved' \subseteq moved
  BY FetchDoes DEF WorkInv, Resyncs!End
<1>3. \A k \in Resyncs!Repo : \A b \in Resyncs!Branch : TipOf(track'[k], b) \subseteq TipOf(origin[k], b) \cup TipOf(track[k], b)
  BY <1>1
<1> QED
  BY <1>1, <1>2, <1>3, WorkSeen, FetchedIdle

LEMMA StopWork == ASSUME WorkInv, ResyncBase', Resyncs!Stop PROVE WorkInv' /\ Safe
<1>1. UNCHANGED <<Resyncs!remotes, Resyncs!repos>> /\ moved' = {} /\ at' = "idle"
  BY DEF Resyncs!Stop, Resyncs!Fails, Resyncs!End
<1> QED
  BY <1>1, WorkSeen, FetchedIdle DEF Resyncs!remotes, Resyncs!repos

LEMMA UserWork == ASSUME ~During, ~Adrift, WorkInv, ResyncBase', Resyncs!User PROVE WorkInv' /\ Safe
<1>1. UNCHANGED <<origin, moved, at>>
  BY DEF Resyncs!User, Resyncs!remotes, Resyncs!command
<1>2. ASSUME NEW r \in Resyncs!Repo, Resyncs!Commit(r) PROVE WorkInv' /\ Safe
  <2> DEFINE both == Resyncs!Tip(r) \cup {<<"own", work + 1>>}
  <2>1. /\ both \in SUBSET Commits /\ Resyncs!Advance(r, both) /\ disk[r] /\ on[r] # Resyncs!None /\ at = "idle"
        /\ UNCHANGED <<track, on, dirt, stash, disk>>
    BY <1>2, CommitDoes DEF WorkInv
  <2>2. Resyncs!Tip(r) \subseteq both
    OBVIOUS
  <2> HIDE DEF both
  <2>3. /\ \A k \in Resyncs!Repo : \A b \in Resyncs!Branch : TipOf(local[k], b) \cap Resyncs!Own \subseteq TipOf(local'[k], b)
        /\ \A k \in Resyncs!Repo : loose'[k] \cap Resyncs!Own \subseteq Holding(k)
        /\ \A k \in Resyncs!Repo \ {r} : local'[k] = local[k]
    BY <2>1, <2>2, WorkAdvances
  <2>4. \A k \in Resyncs!Repo : ~disk'[k] => ~disk[k] /\ local'[k] = local[k]
    BY <2>1, <2>3
  <2> QED
    BY <1>1, <2>1, <2>3, <2>4, WorkGrows, FetchedIdle
<1>3. ASSUME NEW r \in Resyncs!Repo, NEW kind \in Resyncs!Dirt, Resyncs!Edit(r, kind) PROVE WorkInv' /\ Safe
  <2>1. UNCHANGED <<track, local, on, loose, stash, disk>> /\ dirt' = [dirt EXCEPT ![r] = @ \cup {kind}] /\ at = "idle" /\ disk[r]
    BY <1>3 DEF Resyncs!Edit, Resyncs!Acts
  <2>2. \A k \in Resyncs!Repo : dirt[k] \subseteq dirt'[k] /\ (~disk'[k] => ~disk[k] /\ dirt'[k] = dirt[k])
    BY <2>1 DEF WorkInv, ResyncBase, ResyncTypes, HeadsTyped
  <2>3. \A k \in Resyncs!Repo : loose'[k] \cap Resyncs!Own \subseteq Holding(k)
    BY <2>1 DEF WorkInv, LooseBacked
  <2> QED
    BY <1>1, <2>1, <2>2, <2>3, WorkStill, FetchedIdle
<1>4. ASSUME NEW r \in Resyncs!Repo, NEW b \in Resyncs!Branch, Resyncs!Switch(r, b) PROVE WorkInv' /\ Safe
  <2>1. UNCHANGED <<track, local, dirt, stash, disk>> /\ loose' = [loose EXCEPT ![r] = {}] /\ at = "idle"
    BY <1>4 DEF Resyncs!Switch, Resyncs!Acts
  <2>2. \A k \in Resyncs!Repo : loose'[k] \cap Resyncs!Own \subseteq Holding(k)
    BY <2>1 DEF WorkInv, LooseBacked, ResyncBase, ResyncTypes, HeadsTyped
  <2> QED
    BY <1>1, <2>1, <2>2, WorkStill, FetchedIdle
<1> QED
  BY <1>2, <1>3, <1>4 DEF Resyncs!User

LEMMA PushWork == ASSUME WorkInv, ResyncBase', NEW r \in Resyncs!Repo, Resyncs!Push(r) PROVE WorkInv' /\ Safe
<1>1. /\ at = "idle" /\ on[r] \in DOMAIN origin[r] /\ on[r] \in Resyncs!Branch /\ Resyncs!Tip(r) \in SUBSET Commits
      /\ Resyncs!Tip(r) = local[r][on[r]] /\ on[r] \in DOMAIN local[r]
      /\ \A k \in Resyncs!Repo \ {r} : origin'[k] = origin[k] /\ track'[k] = track[k]
      /\ origin'[r] = [origin[r] EXCEPT ![on[r]] = Resyncs!Tip(r)] /\ track'[r] = Resyncs!With(track[r], on[r], Resyncs!Tip(r))
      /\ UNCHANGED <<local, loose, dirt, stash, disk, at, moved>>
  BY PushDoes DEF WorkInv, Resyncs!command
<1>2. origin[r] \in Refs /\ track[r] \in Refs
  BY DEF WorkInv, ResyncBase, ResyncTypes, RefsTyped
<1>3. \A x : TipOf(origin'[r], x) = IF x = on[r] THEN Resyncs!Tip(r) ELSE TipOf(origin[r], x)
  BY <1>1, <1>2, ExceptIs
<1>4. \A x : TipOf(track'[r], x) = IF x = on[r] THEN Resyncs!Tip(r) ELSE TipOf(track[r], x)
  BY <1>1, <1>2, WithTips
<1>5. TipOf(local[r], on[r]) = Resyncs!Tip(r)
  BY <1>1 DEF TipOf
<1>6. /\ \A k \in Resyncs!Repo : \A b \in Resyncs!Branch : TipOf(origin'[k], b) \cap Resyncs!Own \subseteq TipOf(origin[k], b) \cup TipOf(local'[k], b)
      /\ \A k \in Resyncs!Repo : \A b \in Resyncs!Branch : TipOf(track'[k], b) \cap Resyncs!Own \subseteq TipOf(origin[k], b) \cup TipOf(track[k], b) \cup TipOf(local'[k], b)
  BY <1>1, <1>3, <1>4, <1>5
<1>7. \A k \in Resyncs!Repo : loose'[k] \cap Resyncs!Own \subseteq Holding(k)
  BY <1>1 DEF WorkInv, LooseBacked
<1>8. FetchedRight'
  BY <1>1, FetchedIdle
<1> QED
  BY <1>1, <1>6, <1>7, <1>8, WorkGrows

\* Colleagues bring no commit of the user.
LEMMA MateWork ==
    ASSUME WorkInv, ResyncBase', NEW r \in Resyncs!Repo, NEW b \in Resyncs!Branch, NEW what \in Mates, Resyncs!Mate(r, b, what)
    PROVE  WorkInv' /\ Safe
<1>1. UNCHANGED <<track, local, on, loose, dirt, stash, disk, saved, entry, cmd, todo, moved, fetched, at>>
  BY MateDoes DEF WorkInv, Resyncs!repos, Resyncs!command
<1>2. /\ \A k \in Resyncs!Repo \ {r} : origin'[k] = origin[k]
      /\ DOMAIN origin'[r] \subseteq DOMAIN origin[r]
      /\ \A x \in DOMAIN origin'[r] \ {b} : origin'[r][x] = origin[r][x]
      /\ b \in DOMAIN origin'[r] =>
            \/ origin'[r][b] = origin[r][b] \cup {<<"mate", mates + 1>>}
            \/ origin'[r][b] = Resyncs!Released \cup {<<"mate", mates + 1>>}
  BY MateDoes DEF WorkInv
<1>3. <<"mate", mates + 1>> \notin Resyncs!Own /\ Resyncs!Released \cap Resyncs!Own = {}
  BY NotOwn
<1>4. ASSUME NEW x PROVE TipOf(origin'[r], x) \cap Resyncs!Own \subseteq TipOf(origin[r], x)
  <2>1. CASE x \notin DOMAIN origin'[r]
    BY <2>1 DEF TipOf
  <2>2. CASE x \in DOMAIN origin'[r] /\ x # b
    BY <1>2, <2>2 DEF TipOf
  <2>3. CASE x = b /\ b \in DOMAIN origin'[r]
    BY <1>2, <1>3, <2>3 DEF TipOf
  <2> QED
    BY <2>1, <2>2, <2>3
<1>5. \A k \in Resyncs!Repo : \A x : TipOf(origin'[k], x) \cap Resyncs!Own \subseteq TipOf(origin[k], x)
  BY <1>2, <1>4
<1>6. FetchedRight'
  <2> DEFINE first == Resyncs!First(todo)
  <2> SUFFICES ASSUME at \in {"stash", "reset"} PROVE FetchedRight'
    BY <1>1 DEF FetchedRight
  <2>1. Resyncs!Target' = Resyncs!Target /\ Resyncs!First(todo)' = first
    BY <1>1 DEF Resyncs!Target, Resyncs!RootBranch, Resyncs!First
  <2>2. first \in Resyncs!Repo
    BY TheFirst DEF WorkInv, ResyncBase, ResyncPhases, RestPhase
  <2>3. Resyncs!WouldDrop(first, Resyncs!Target, track[first])' = Resyncs!WouldDrop(first, Resyncs!Target, track[first])
    BY <1>1, <2>1 DEF Resyncs!WouldDrop
  <2>4. TipOf(origin'[first], Resyncs!Target) \cap Resyncs!Own \subseteq fetched
    BY <1>5, <2>2 DEF WorkInv, FetchedRight
  <2> QED
    BY <1>1, <2>1, <2>3, <2>4 DEF WorkInv, FetchedRight
<1>7. \A k \in Resyncs!Repo : loose'[k] \cap Resyncs!Own \subseteq Holding(k)
  BY <1>1 DEF WorkInv, LooseBacked
<1> QED
  BY <1>1, <1>5, <1>6, <1>7, WorkGrows

LEMMA StutterWork == ASSUME WorkInv, ResyncBase', UNCHANGED Resyncs!vars PROVE WorkInv' /\ Safe
<1>1. UNCHANGED <<origin, track, local, on, loose, dirt, stash, disk, saved, entry, cmd, todo, moved, fetched, at>>
  BY DEF Resyncs!vars, Resyncs!remotes, Resyncs!repos, Resyncs!command
<1>2. FetchedRight'
  BY <1>1 DEF WorkInv, FetchedRight, Resyncs!Target, Resyncs!RootBranch, Resyncs!First, Resyncs!WouldDrop
<1> QED
  BY <1>1, <1>2, WorkSeen

LEMMA WorkKept == ASSUME ~During, ~Adrift, WorkInv, [Resyncs!Next]_(Resyncs!vars) PROVE WorkInv' /\ Safe
<1>1. ResyncBase'
  BY BaseKept DEF WorkInv
<1>2. CASE \E c \in Resyncs!Commands : Resyncs!Begin(c)
  BY <1>1, <1>2, BeginWork
<1>3. CASE Resyncs!Step
  BY <1>1, <1>3, VisitWork, PullWork, JudgeWork, StashWork, ResetWork, SaveWork, RestoreWork, CloneWork, MoveWork, BackWork,
     PlanWork, MergeWork, FetchWork DEF Resyncs!Step
<1>4. CASE Resyncs!Stop
  BY <1>1, <1>4, StopWork
<1>5. CASE Resyncs!User
  BY <1>1, <1>5, UserWork
<1>6. CASE \E r \in Resyncs!Repo : Resyncs!Push(r)
  BY <1>1, <1>6, PushWork
<1>7. CASE \E r \in Resyncs!Repo, b \in Resyncs!Branch, what \in Mates : Resyncs!Mate(r, b, what)
  BY <1>1, <1>7, MateWork
<1>8. CASE UNCHANGED Resyncs!vars
  BY <1>1, <1>8, StutterWork
<1> QED
  BY <1>2, <1>3, <1>4, <1>5, <1>6, <1>7, <1>8 DEF Resyncs!Next

\* What a ref names of the user's work is on a branch.
LEMMA WorkStays == ASSUME WorkInv, WorkInv', Safe PROVE Resyncs!OwnWorkStays
<1> SUFFICES ASSUME NEW r \in Resyncs!Repo PROVE Resyncs!Named(r) \cap Resyncs!Own \subseteq Resyncs!Named(r)'
  BY DEF Resyncs!OwnWorkStays, Safe
<1>1. Resyncs!Named(r) \cap Resyncs!Own \subseteq Holding(r)
  <2> SUFFICES ASSUME NEW c \in Resyncs!Own, c \in Resyncs!Named(r) PROVE c \in Holding(r)
    OBVIOUS
  <2>1. CASE c \in UNION Resyncs!Range(track[r])
    <3>1. PICK b \in DOMAIN track[r] : c \in TipOf(track[r], b)
      BY <2>1, RangeTips
    <3>2. b \in Resyncs!Branch
      <4>1. track[r] \in Refs
        BY DEF WorkInv, ResyncBase, ResyncTypes, RefsTyped
      <4> QED
        BY <4>1, RefsAre
    <3> QED
      BY <3>1, <3>2, BackedHeld
  <2>2. CASE c \in loose[r]
    BY <2>2 DEF WorkInv, LooseBacked
  <2> QED
    BY <2>1, <2>2 DEF Resyncs!Named, Holding
<1>2. Holding(r)' \subseteq Resyncs!Named(r)'
  BY DEF Resyncs!Named, Holding
<1> QED
  BY <1>1, <1>2 DEF Safe

-----------------------------------------------------------------------------
(* A State names what was reached, and a refusal moves nothing *)

\* A remote that is not rewritten has what was seen of it.
Behind == \A r \in Resyncs!Repo : \A b \in DOMAIN origin[r] : TipOf(track[r], b) \subseteq origin[r][b]

\* What pull --force judged before its walk holds of those it has not visited, and what
\* it is about to reset one to is the branch as it was fetched.
Judged ==
    at \in Walking /\ cmd \in {"force", "force private"} =>
        \A r \in todo : disk[r] => ~Resyncs!WouldDrop(r, Resyncs!Target, track[r])
Chosen == at \in {"stash", "reset"} => Resyncs!Target \in DOMAIN track[Resyncs!First(todo)] /\ fetched = track[Resyncs!First(todo)][Resyncs!Target]

\* Those a walk has visited are registered on their branch, which has what was fetched.
Visited(r) ==
    /\ disk[r] /\ entry[r] = <<"branch", IF on[r] = Resyncs!None THEN Resyncs!Target ELSE on[r]>>
    /\ Resyncs!Target \in DOMAIN track[r] => track[r][Resyncs!Target] \subseteq Resyncs!Tip(r)
Walked ==
    at \in Walking \cup {"save"} /\ cmd \in Walks =>
        /\ \A r \in Resyncs!InScope(cmd) : start[r][1] # Resyncs!None => on[r] # Resyncs!None
        /\ \A r \in Resyncs!InScope(cmd) \ todo : Visited(r)
        /\ \A r \in Resyncs!Repo : r \in todo \/ r \notin Resyncs!InScope(cmd) => entry[r] = saved[r]

\* A repository that is gone is recorded on the branch it was on; and then no State of a
\* release that detached it was written.
Proper(x) == x \in ({"branch"} \X Resyncs!Branch) \cup {<<"tag", "tag">>, <<"commit", "commit">>}
Absent ==
    /\ (\E r \in Resyncs!Repo : ~disk[r]) \/ (at # "idle" /\ cmd = "restore") => \A r \in Resyncs!Repo : Proper(saved[r])
    /\ (\E r \in Resyncs!Recorded : ~disk[r]) => saved[Resyncs!Root][1] = "branch"
    /\ \A r \in Resyncs!Repo : ~disk[r] => saved[r] = <<"branch", on[r]>> /\ on[r] # Resyncs!None

\* What a load holds of those it moved, and of the others.
Loading == at \in {"clone", "move", "back"} \/ (at = "save" /\ cmd = "load")
MovedFrom(m) ==
    /\ start[m[1]][3] => start[m[1]] = <<m[2], m[3], TRUE>>
    /\ m[2] # Resyncs!None => local[m[1]][m[2]] = m[3]
    /\ disk[m[1]]
Loaded ==
    Loading =>
        /\ Resyncs!Where(Memory) = start[Memory] /\ entry[Memory] = saved[Memory]
        /\ at # "back" => \A r \in Shifted : on[r] = Resyncs!None /\ loose[r] = Resyncs!Released /\ entry[r] = Resyncs!Ref(r)
        /\ \A m \in moved : MovedFrom(m)
        /\ \A r \in Resyncs!Repo : start[r][3] /\ (r \notin Shifted \/ (at = "back" /\ r \notin todo)) => Resyncs!Where(r) = start[r]
        /\ at = "clone" => \A r \in Resyncs!Recorded \ todo : disk[r]
        /\ at = "move" => todo \cup Shifted = Resyncs!Recorded /\ \A r \in todo : disk[r]
        /\ at = "save" => Shifted = Resyncs!Recorded

Planned == at = "plan" => \A r \in Resyncs!Repo : Resyncs!Where(r) = start[r]
Restored ==
    at \in {"restore", "save"} /\ cmd = "restore" =>
        /\ entry = saved
        /\ \A r \in Resyncs!Repo \ todo : disk[r] /\ (saved[r][1] = "branch" => on[r] = saved[r][2])

Underway  == Judged /\ Chosen /\ Walked /\ Loaded /\ Planned /\ Restored
SoundInv == ResyncBase /\ Behind /\ Absent /\ Underway /\ Resyncs!RefusalMovesNothing

\* The places of the tree do not change where nothing is moved.
LEMMA WhereKept ==
    ASSUME NEW r \in Resyncs!Repo, local'[r] = local[r], on'[r] = on[r], loose'[r] = loose[r]
    PROVE  Resyncs!Tip(r)' = Resyncs!Tip(r) /\ (disk'[r] = disk[r] => Resyncs!Where(r)' = Resyncs!Where(r))
BY DEF Resyncs!Tip, Resyncs!Where

LEMMA NoneRuns == ASSUME at' = "idle" PROVE Underway'
BY DEF Underway, Judged, Chosen, Walked, Loaded, Loading, Planned, Restored, Walking

LEMMA InitSound == ASSUME Resyncs!Init PROVE SoundInv
<1>1. ResyncBase /\ at = "idle" /\ result = "nothing"
  BY InitBase DEF Resyncs!Init
<1>2. PICK odd \in Resyncs!Repo, kind \in {"", "untagged", "away", "unknown", "tracked", "untracked", "gone", "loose"}, rel \in {"main", "dev", Resyncs!None} :
          LET fresh == [b \in Resyncs!Branch |-> IF b = rel THEN Resyncs!Released ELSE {}]
          IN  /\ kind = "gone" => odd # Resyncs!Root
              /\ tagged = [r \in Resyncs!Repo |-> ~(kind = "untagged" /\ r = odd)]
              /\ origin = [r \in Resyncs!Repo |-> IF kind = "unknown" /\ r = odd THEN fresh ELSE [b \in Resyncs!Branch |-> Resyncs!Released]]
              /\ local = [r \in Resyncs!Repo |-> IF kind = "unknown" /\ r = odd THEN [b \in {"main"} |-> {}]
                                         ELSE [b \in {"main", "dev"} |-> Resyncs!Released]]
              /\ track = [r \in Resyncs!Repo |-> IF kind = "unknown" /\ r = odd THEN [b \in Resyncs!Branch |-> {}] ELSE local[r]]
              /\ on = [r \in Resyncs!Repo |-> CASE kind = "away" /\ r = odd -> "dev" [] kind = "loose" /\ r # Memory -> Resyncs!None [] OTHER -> "main"]
              /\ loose = [r \in Resyncs!Repo |-> IF on[r] = Resyncs!None THEN Resyncs!Released ELSE {}]
              /\ saved = [r \in Resyncs!Repo |-> IF on[r] = Resyncs!None THEN Resyncs!Ref(r) ELSE <<"branch", "main">>]
              /\ dirt = [r \in Resyncs!Repo |-> IF kind \in Resyncs!Dirt /\ r = odd THEN {kind} ELSE {}]
              /\ disk = [r \in Resyncs!Repo |-> ~(kind = "gone" /\ r = odd)]
              /\ (kind # "unknown") => rel = Resyncs!None
  BY ZenonT(30) DEF Resyncs!Init
<1>3. Behind
  BY <1>2 DEF Behind, TipOf, Resyncs!Branch
<1>4. ASSUME kind = "gone" PROVE Absent
  <2>1. \A r \in Resyncs!Repo : on[r] = "main"
    BY <1>2, <1>4
  <2>2. \A r \in Resyncs!Repo : saved[r] = <<"branch", "main">>
    BY <1>2, <2>1 DEF Resyncs!None
  <2>3. Proper(<<"branch", "main">>) /\ "main" # Resyncs!None
    <3>1. <<"branch", "main">> \in {"branch"} \X Resyncs!Branch
      BY DEF Resyncs!Branch
    <3> QED
      BY <3>1 DEF Proper, Resyncs!None
  <2>4. Resyncs!Root \in Resyncs!Repo
    BY ResyncTree
  <2>5. (\A r \in Resyncs!Repo : Proper(saved[r])) /\ saved[Resyncs!Root] = <<"branch", "main">> /\ saved[Resyncs!Root][1] = "branch"
    <3> DEFINE main == <<"branch", "main">>
    <3>1. main[1] = "branch"
      OBVIOUS
    <3>2. (\A r \in Resyncs!Repo : saved[r] = main) /\ Proper(main)
      BY <2>2, <2>3
    <3> HIDE DEF main
    <3>3. (\A r \in Resyncs!Repo : Proper(saved[r])) /\ saved[Resyncs!Root][1] = "branch"
      BY <2>4, <3>1, <3>2
    <3> QED
      BY <2>4, <3>2, <3>3 DEF main
  <2>6. \A r \in Resyncs!Repo : saved[r] = <<"branch", on[r]>> /\ on[r] # Resyncs!None
    BY <2>1, <2>2, <2>3
  <2> QED
    BY <2>5, <2>6 DEF Absent
<1>5. ASSUME kind # "gone" PROVE Absent
  <2>1. \A r \in Resyncs!Repo : disk[r]
    BY <1>2, <1>5
  <2> QED
    BY <1>1, <2>1, ResyncTree DEF Absent
<1>6. Underway
  BY <1>1 DEF Underway, Judged, Chosen, Walked, Loaded, Loading, Planned, Restored, Walking
<1> QED
  BY <1>1, <1>3, <1>4, <1>5, <1>6 DEF SoundInv, Resyncs!RefusalMovesNothing

-----------------------------------------------------------------------------
(* What is seen of a remote *)

\* Where what is seen is what the remote has or what was seen.
LEMMA BehindSeen ==
    ASSUME ResyncBase, Behind, ResyncBase', origin' = origin,
           \A k \in Resyncs!Repo : \A b \in Resyncs!Branch : TipOf(track'[k], b) \subseteq TipOf(origin[k], b) \cup TipOf(track[k], b)
    PROVE  Behind'
<1> SUFFICES ASSUME NEW r \in Resyncs!Repo, NEW b \in DOMAIN origin[r] PROVE TipOf(track'[r], b) \subseteq origin[r][b]
  BY DEF Behind
<1>1. b \in Resyncs!Branch
  <2>1. origin[r] \in Refs
    BY DEF ResyncBase, ResyncTypes, RefsTyped
  <2> QED
    BY <2>1, RefsAre
<1> QED
  BY <1>1 DEF Behind, TipOf

LEMMA StepBehind == ASSUME ResyncBase, Behind, ResyncBase', Resyncs!Step PROVE Behind'
<1>1. CASE Resyncs!Visit
  BY <1>1, VisitDoes, VisitSees, SeesNoMore, BehindSeen DEF Resyncs!remotes
<1>2. CASE Resyncs!Pull
  <2>1. origin' = origin /\ Resyncs!First(todo) \in Resyncs!Repo
    BY <1>2, PullDoes DEF Resyncs!remotes
  <2>2. track' = track \/ Sees
    BY <1>2, <2>1, PullDoes, SeesOne
  <2> QED
    BY <2>1, <2>2, SeesNoMore, BehindSeen
<1>3. CASE Resyncs!Judge
  <2>1. origin' = origin /\ Resyncs!First(todo) \in Resyncs!Repo
    BY <1>3, JudgeDoes DEF Resyncs!remotes
  <2>2. track' = track \/ Sees
    BY <1>3, <2>1, JudgeDoes, SeesOne
  <2> QED
    BY <2>1, <2>2, SeesNoMore, BehindSeen
<1>4. CASE Resyncs!Plan
  BY <1>4, PlanDoes, PlanSees, SeesNoMore, BehindSeen DEF Resyncs!remotes
<1>5. CASE Resyncs!Restore
  <2>1. origin' = origin /\ \A k \in Resyncs!Repo : track'[k] = track[k] \/ track'[k] = origin[k]
    BY <1>5, RestoreDoes DEF RestoredOne, Resyncs!remotes
  <2> QED
    BY <2>1, BehindSeen
<1>6. CASE Resyncs!Clone
  <2>1. origin' = origin /\ \A k \in Resyncs!Repo : track'[k] = track[k] \/ track'[k] = origin[k]
    BY <1>6, CloneDoes DEF ClonedOne, Resyncs!remotes
  <2> QED
    BY <2>1, BehindSeen
<1>7. CASE Resyncs!Fetch
  <2>1. origin' = origin /\ \A k \in Resyncs!Repo : track'[k] = track[k] \/ track'[k] = origin[k]
    BY <1>7, FetchDoes DEF Resyncs!remotes
  <2> QED
    BY <2>1, BehindSeen
<1>8. CASE Resyncs!Stash \/ Resyncs!Reset \/ Resyncs!Save \/ Resyncs!Move \/ Resyncs!Back \/ Resyncs!Merge
  <2>1. origin' = origin /\ track' = track
    BY <1>8 DEF Resyncs!Stash, Resyncs!Reset, Resyncs!Save, Resyncs!Move, Resyncs!Back, Resyncs!Merge, Resyncs!remotes, Resyncs!repos
  <2> QED
    BY <2>1 DEF Behind
<1> QED
  BY <1>1, <1>2, <1>3, <1>4, <1>5, <1>6, <1>7, <1>8 DEF Resyncs!Step

LEMMA PushBehind == ASSUME ResyncBase, Behind, NEW r \in Resyncs!Repo, Resyncs!Push(r) PROVE Behind'
<1>1. /\ on[r] \in DOMAIN origin[r] /\ on[r] \in Resyncs!Branch /\ Resyncs!Tip(r) \in SUBSET Commits
      /\ \A k \in Resyncs!Repo \ {r} : origin'[k] = origin[k] /\ track'[k] = track[k]
      /\ origin'[r] = [origin[r] EXCEPT ![on[r]] = Resyncs!Tip(r)] /\ track'[r] = Resyncs!With(track[r], on[r], Resyncs!Tip(r))
  BY PushDoes
<1>2. origin[r] \in Refs /\ track[r] \in Refs
  BY DEF ResyncBase, ResyncTypes, RefsTyped
<1>3. /\ DOMAIN origin'[r] = DOMAIN origin[r] /\ origin'[r][on[r]] = Resyncs!Tip(r)
      /\ \A x \in DOMAIN origin[r] \ {on[r]} : origin'[r][x] = origin[r][x]
  BY <1>1, <1>2, ExceptIs
<1>4. \A x : TipOf(track'[r], x) = IF x = on[r] THEN Resyncs!Tip(r) ELSE TipOf(track[r], x)
  BY <1>1, <1>2, WithTips
<1>5. \A b \in DOMAIN origin'[r] : TipOf(track'[r], b) \subseteq origin'[r][b]
  BY <1>3, <1>4 DEF Behind
<1> QED
  BY <1>1, <1>5 DEF Behind

LEMMA MateBehind ==
    ASSUME "rewrite" \notin Mates, ResyncBase, Behind, NEW r \in Resyncs!Repo, NEW b \in Resyncs!Branch, NEW what \in Mates, Resyncs!Mate(r, b, what)
    PROVE  Behind'
<1>1. /\ track' = track /\ \A k \in Resyncs!Repo \ {r} : origin'[k] = origin[k]
      /\ DOMAIN origin'[r] \subseteq DOMAIN origin[r]
      /\ \A x \in DOMAIN origin'[r] \ {b} : origin'[r][x] = origin[r][x]
      /\ b \in DOMAIN origin'[r] => origin'[r][b] = origin[r][b] \cup {<<"mate", mates + 1>>}
  BY MateDoes DEF Resyncs!repos
<1>2. \A x \in DOMAIN origin'[r] : TipOf(track[r], x) \subseteq origin'[r][x]
  BY <1>1 DEF Behind
<1> QED
  BY <1>1, <1>2 DEF Behind

LEMMA BehindKept == ASSUME "rewrite" \notin Mates, ResyncBase, Behind, [Resyncs!Next]_(Resyncs!vars), ResyncBase' PROVE Behind'
<1>1. CASE Resyncs!Step
  BY <1>1, StepBehind
<1>2. CASE \E r \in Resyncs!Repo : Resyncs!Push(r)
  BY <1>2, PushBehind
<1>3. CASE \E r \in Resyncs!Repo, b \in Resyncs!Branch, what \in Mates : Resyncs!Mate(r, b, what)
  BY <1>3, MateBehind
<1>4. CASE (\E c \in Resyncs!Commands : Resyncs!Begin(c)) \/ Resyncs!Stop \/ Resyncs!User \/ UNCHANGED Resyncs!vars
  <2>1. origin' = origin /\ track' = track
    BY <1>4 DEF Resyncs!Begin, Resyncs!Stop, Resyncs!User, Resyncs!Commit, Resyncs!Edit, Resyncs!Switch, Resyncs!remotes, Resyncs!repos, Resyncs!vars
  <2> QED
    BY <2>1 DEF Behind
<1> QED
  BY <1>1, <1>2, <1>3, <1>4 DEF Resyncs!Next

-----------------------------------------------------------------------------
(* What is gone, and the State that names it *)

\* The State is as it was; who is gone was, on the branch he was on.
LEMMA AbsentStays ==
    ASSUME Absent, ResyncBase', saved' = saved, \A r \in Resyncs!Repo : ~disk'[r] => ~disk[r] /\ on'[r] = on[r],
           at' # "idle" /\ cmd' = "restore" => (at # "idle" /\ cmd = "restore") \/ \E r \in Resyncs!Repo : ~disk[r]
    PROVE  Absent'
BY ResyncTree DEF Absent

LEMMA SaveAbsent == ASSUME SoundInv, ResyncBase', Resyncs!Save PROVE Absent'
<1>1. at = "save" /\ todo = {} /\ cmd \in Walks \cup {"load", "restore"}
  BY DEF Resyncs!Save, SoundInv, ResyncBase, ResyncPhases, RestPhase
<1>2. saved' = Resyncs!Recording /\ at' = "idle" /\ disk' = disk /\ on' = on
  BY DEF Resyncs!Save, Resyncs!repos
<1>3. /\ entry \in [Resyncs!Repo -> Landing] /\ Memory \in Resyncs!Repo /\ on \in [Resyncs!Repo -> Spots]
      /\ \A r \in Resyncs!Repo \ {Memory} : Resyncs!Recording[r] = entry[r]
      /\ Resyncs!Recording[Memory] = IF disk[Memory] /\ on[Memory] # Resyncs!None THEN <<"branch", on[Memory]>> ELSE entry[Memory]
  <2>1. entry \in [Resyncs!Repo -> Landing] /\ Memory \in Resyncs!Repo /\ on \in [Resyncs!Repo -> Spots]
    BY ResyncTree DEF SoundInv, ResyncBase, ResyncTypes, StatesTyped, HeadsTyped
  <2> QED
    BY <2>1 DEF Resyncs!Recording
<1>4. \A b \in Resyncs!Branch : Proper(<<"branch", b>>)
  <2> SUFFICES ASSUME NEW b \in Resyncs!Branch PROVE Proper(<<"branch", b>>)
    OBVIOUS
  <2>1. <<"branch", b>> \in {"branch"} \X Resyncs!Branch
    OBVIOUS
  <2> QED
    BY <2>1 DEF Proper
<1>5. CASE \A r \in Resyncs!Repo : disk[r]
  BY <1>2, <1>5, ResyncTree DEF Absent
<1>6. CASE cmd \in {"pull", "restart", "force"}
  <2>1. Resyncs!InScope(cmd) = Resyncs!Repo /\ cmd \in Walks
    BY <1>6 DEF Resyncs!InScope, Walks
  <2>2. \A r \in Resyncs!Repo : disk[r]
    BY <1>1, <2>1 DEF SoundInv, Underway, Walked, Visited
  <2> QED
    BY <1>5, <2>2
<1>7. CASE cmd = "restore"
  <2>1. \A r \in Resyncs!Repo : disk[r]
    BY <1>1, <1>7 DEF SoundInv, Underway, Restored
  <2> QED
    BY <1>5, <2>1
<1>8. CASE cmd = "load"
  <2>1. Shifted = Resyncs!Recorded /\ entry[Memory] = saved[Memory] /\ (\A m \in moved : disk[m[1]]) /\ \A r \in Shifted : entry[r] = Resyncs!Ref(r)
    BY <1>1, <1>8 DEF SoundInv, Underway, Loaded, Loading, MovedFrom
  <2>2. \A r \in Resyncs!Recorded : disk[r] /\ entry[r] = Resyncs!Ref(r)
    BY <2>1 DEF Shifted
  <2>3. CASE disk[Memory]
    <3>1. \A r \in Resyncs!Repo : disk[r]
      BY <2>2, <2>3 DEF Resyncs!Recorded
    <3> QED
      BY <1>5, <3>1
  <2>4. CASE ~disk[Memory]
    <3>1. Resyncs!Recording[Memory] = saved[Memory] /\ \A r \in Resyncs!Recorded : Resyncs!Recording[r] = Resyncs!Ref(r)
      BY <1>3, <2>1, <2>2, <2>4 DEF Resyncs!Recorded
    <3>2. Proper(saved[Memory]) /\ saved[Memory] = <<"branch", on[Memory]>> /\ on[Memory] # Resyncs!None
      BY <1>3, <2>4 DEF SoundInv, Absent
    <3>3. \A r \in Resyncs!Repo : Proper(Resyncs!Ref(r))
      BY DEF Resyncs!Ref, Proper
    <3>4. \A r \in Resyncs!Repo : Proper(Resyncs!Recording[r])
      BY <3>1, <3>2, <3>3 DEF Resyncs!Recorded
    <3> QED
      BY <1>2, <2>2, <3>1, <3>2, <3>4 DEF Absent, Resyncs!Recorded
  <2> QED
    BY <2>3, <2>4
<1>9. CASE cmd = "force private" /\ \E r \in Resyncs!Repo : ~disk[r]
  <2>1. Resyncs!InScope(cmd) = Hidden /\ cmd \in Walks
    BY <1>9 DEF Resyncs!InScope, Walks
  <2>2. /\ \A r \in Hidden : disk[r] /\ entry[r] = <<"branch", IF on[r] = Resyncs!None THEN Resyncs!Target ELSE on[r]>>
        /\ \A r \in Resyncs!Repo \ Hidden : entry[r] = saved[r]
    BY <1>1, <2>1 DEF SoundInv, Underway, Walked, Visited
  <2>3. Memory \in Hidden /\ Resyncs!Root \in Resyncs!Repo /\ Resyncs!Root # Memory
    BY ResyncTree
  <2>4. (\A r \in Resyncs!Repo : Proper(saved[r])) /\ saved[Resyncs!Root][1] = "branch"
    <3>1. PICK r \in Resyncs!Repo : ~disk[r]
      BY <1>9
    <3>2. r \in Resyncs!Recorded
      BY <2>2, <2>3, <3>1 DEF Resyncs!Recorded
    <3> QED
      BY <3>1, <3>2 DEF SoundInv, Absent
  <2>5. Resyncs!Target \in Resyncs!Branch
    <3>1. saved[Resyncs!Root][2] \in Resyncs!Branch
      <4>1. Proper(saved[Resyncs!Root])
        BY <2>3, <2>4
      <4> QED
        BY <2>4, <4>1 DEF Proper
    <3> QED
      BY <1>3, <1>9, <2>3, <3>1 DEF Resyncs!Target, Resyncs!RootBranch, Spots
  <2>6. \A r \in Hidden : Proper(entry[r]) /\ entry[r][1] = "branch"
    BY <1>3, <1>4, <2>2, <2>5, ResyncTree DEF Spots
  <2>7. \A r \in Resyncs!Repo : Proper(entry[r])
    BY <2>2, <2>4, <2>6
  <2>8. \A r \in Resyncs!Repo : Proper(Resyncs!Recording[r])
    <3>1. disk[Memory] /\ on[Memory] # Resyncs!None => Proper(<<"branch", on[Memory]>>)
      BY <1>3, <1>4 DEF Spots
    <3> QED
      BY <1>3, <2>7, <3>1
  <2>9. Resyncs!Recording[Resyncs!Root][1] = "branch"
    BY <1>3, <2>2, <2>3, <2>4, <2>6
  <2>10. \A r \in Resyncs!Repo : ~disk[r] => Resyncs!Recording[r] = saved[r]
    BY <1>3, <2>2, <2>3
  <2> QED
    BY <1>2, <2>8, <2>9, <2>10 DEF Absent, SoundInv
<1> QED
  BY <1>1, <1>5, <1>6, <1>7, <1>8, <1>9 DEF Walks

LEMMA AbsentKept == ASSUME SoundInv, ResyncBase', [Resyncs!Next]_(Resyncs!vars) PROVE Absent'
<1> USE DEF SoundInv
<1>1. CASE \E c \in Resyncs!Commands : Resyncs!Begin(c)
  <2>1. PICK c \in Resyncs!Commands : Resyncs!Begin(c)
    BY <1>1
  <2>2. UNCHANGED <<saved, disk, on>> /\ (at' # "idle" => cmd' = c)
    BY <2>1 DEF Resyncs!Begin, Resyncs!repos
  <2>3. c = "restore" => \E r \in Resyncs!Repo : ~disk[r]
    BY <2>1 DEF Resyncs!Begin
  <2> QED
    BY <2>2, <2>3, AbsentStays
<1>2. CASE Resyncs!Visit \/ Resyncs!Pull \/ Resyncs!Judge \/ Resyncs!Stash
  <2>1. UNCHANGED <<disk, on, saved>> /\ (cmd' = cmd \/ at' = "idle") /\ at # "idle"
    BY <1>2 DEF Resyncs!Visit, Resyncs!Pull, Resyncs!Judge, Resyncs!Stash, Resyncs!End, Resyncs!Settle, Resyncs!Onward, Resyncs!Go
  <2> QED
    BY <2>1, AbsentStays
<1>3. CASE Resyncs!Reset
  <2>1. /\ disk' = disk /\ Resyncs!First(todo) \in Resyncs!Repo /\ disk[Resyncs!First(todo)] /\ at = "reset"
        /\ on' = on \/ on' = [on EXCEPT ![Resyncs!First(todo)] = Resyncs!Target]
    BY <1>3, ResetDoes
  <2>2. saved' = saved /\ (cmd' = cmd \/ at' = "idle")
    BY <1>3 DEF Resyncs!Reset, Resyncs!End, Resyncs!Settle, Resyncs!Onward, Resyncs!Go
  <2>3. \A r \in Resyncs!Repo : ~disk'[r] => ~disk[r] /\ on'[r] = on[r]
    BY <2>1 DEF ResyncBase, ResyncTypes, HeadsTyped
  <2> QED
    BY <2>1, <2>2, <2>3, AbsentStays
<1>4. CASE Resyncs!Restore
  <2>1. at = "restore" /\ cmd = "restore" /\ Resyncs!First(todo) \in Resyncs!Repo
    BY <1>4, RestoreDoes
  <2>2. saved' = saved
    BY <1>4 DEF Resyncs!Restore, Resyncs!End, Resyncs!Onward, Resyncs!Go
  <2>3. \A r \in Resyncs!Repo : ~disk'[r] => ~disk[r] /\ on'[r] = on[r]
    BY <1>4, RestoreDoes DEF RestoredOne
  <2> QED
    BY <2>1, <2>2, <2>3, AbsentStays
<1>5. CASE Resyncs!Clone
  <2>1. Resyncs!First(todo) \in Resyncs!Repo /\ at = "clone" /\ cmd = "load"
    BY <1>5, CloneDoes, ResyncTree
  <2>2. saved' = saved /\ (cmd' = cmd \/ at' = "idle")
    BY <1>5, CloneDoes DEF Resyncs!End
  <2>3. \A r \in Resyncs!Repo : ~disk'[r] => ~disk[r] /\ on'[r] = on[r]
    BY <1>5, CloneDoes DEF ClonedOne
  <2> QED
    BY <2>1, <2>2, <2>3, AbsentStays
<1>6. CASE Resyncs!Move
  <2>1. /\ Resyncs!First(todo) \in Resyncs!Repo /\ Resyncs!First(todo) \in todo /\ at = "move" /\ cmd = "load" /\ disk' = disk
        /\ on' = on \/ on' = [on EXCEPT ![Resyncs!First(todo)] = Resyncs!None]
    BY <1>6, MoveDoes DEF MovedOne
  <2>2. saved' = saved /\ (cmd' = cmd \/ at' = "idle")
    BY <1>6, MoveDoes DEF MovedOne, Resyncs!End
  <2>3. disk[Resyncs!First(todo)]
    BY <2>1 DEF Underway, Loaded, Loading
  <2>4. \A r \in Resyncs!Repo : ~disk'[r] => ~disk[r] /\ on'[r] = on[r]
    BY <2>1, <2>3 DEF ResyncBase, ResyncTypes, HeadsTyped
  <2> QED
    BY <2>1, <2>2, <2>4, AbsentStays
<1>7. CASE Resyncs!Back
  <2>1. Resyncs!Deepest(todo) \in Resyncs!Repo /\ at = "back" /\ cmd = "load" /\ disk' = disk /\ BackOne(Resyncs!Deepest(todo))
    BY <1>7, BackDoes
  <2>2. saved' = saved /\ (cmd' = cmd \/ at' = "idle")
    BY <1>7, BackDoes DEF Resyncs!End
  <2>3. PICK m \in moved : m[1] = Resyncs!Deepest(todo) /\ on' = [on EXCEPT ![Resyncs!Deepest(todo)] = m[2]]
    BY <2>1 DEF BackOne
  <2>4. disk[Resyncs!Deepest(todo)]
    BY <2>1, <2>3 DEF Underway, Loaded, Loading, MovedFrom
  <2>5. \A r \in Resyncs!Repo : ~disk'[r] => ~disk[r] /\ on'[r] = on[r]
    BY <2>1, <2>3, <2>4 DEF ResyncBase, ResyncTypes, HeadsTyped
  <2> QED
    BY <2>1, <2>2, <2>5, AbsentStays
<1>8. CASE Resyncs!Plan \/ Resyncs!Merge \/ Resyncs!Fetch \/ Resyncs!Stop
  <2>1. UNCHANGED <<disk, on, saved>> /\ (cmd' = cmd \/ at' = "idle") /\ at # "idle"
    BY <1>8 DEF Resyncs!Plan, Resyncs!Merge, Resyncs!Fetch, Resyncs!Stop, Resyncs!Fails, Resyncs!End, Resyncs!Go, Resyncs!repos
  <2> QED
    BY <2>1, AbsentStays
<1>9. CASE Resyncs!User
  <2>1. /\ UNCHANGED <<disk, saved, cmd, at>>
        /\ on' = on \/ \E r \in Resyncs!Repo, b \in Resyncs!Branch : disk[r] /\ on' = [on EXCEPT ![r] = b]
    BY <1>9 DEF Resyncs!User, Resyncs!Commit, Resyncs!Edit, Resyncs!Switch, Resyncs!command
  <2>2. \A r \in Resyncs!Repo : ~disk'[r] => ~disk[r] /\ on'[r] = on[r]
    BY <2>1 DEF ResyncBase, ResyncTypes, HeadsTyped
  <2> QED
    BY <2>1, <2>2, AbsentStays
<1>10. CASE (\E r \in Resyncs!Repo : Resyncs!Push(r)) \/ (\E r \in Resyncs!Repo, b \in Resyncs!Branch, what \in Mates : Resyncs!Mate(r, b, what)) \/ UNCHANGED Resyncs!vars
  <2>1. UNCHANGED <<disk, on, saved, cmd, at>>
    BY <1>10 DEF Resyncs!Push, Resyncs!Mate, Resyncs!vars, Resyncs!command, Resyncs!repos
  <2> QED
    BY <2>1, AbsentStays
<1> QED
  BY <1>1, <1>2, <1>3, <1>4, <1>5, <1>6, <1>7, <1>8, <1>9, <1>10, SaveAbsent DEF Resyncs!Next, Resyncs!Step

-----------------------------------------------------------------------------
(* The walk of a pull *)

LEMMA TargetKept ==
    ASSUME ResyncBase, cmd' = cmd, saved' = saved, on'[Resyncs!Root] = on[Resyncs!Root] \/ on'[Resyncs!Root] = Resyncs!Target
    PROVE  Resyncs!Target' = Resyncs!Target
<1>1. CASE on'[Resyncs!Root] = on[Resyncs!Root]
  BY <1>1 DEF Resyncs!Target, Resyncs!RootBranch
<1>2. CASE on'[Resyncs!Root] = Resyncs!Target
  <2>1. Resyncs!Target # Resyncs!None
    BY TargetIs DEF ResyncBase
  <2> QED
    BY <1>2, <2>1 DEF Resyncs!Target, Resyncs!RootBranch
<1> QED
  BY <1>1, <1>2

\* What is fetched adds to what is seen of a remote that is not rewritten.
LEMMA SeenGrows ==
    ASSUME ResyncBase, Behind, Sees
    PROVE  \A k \in Resyncs!Repo : UNION Resyncs!Range(track[k]) \subseteq UNION Resyncs!Range(track'[k])
<1> SUFFICES ASSUME NEW k \in Resyncs!Repo, NEW c \in UNION Resyncs!Range(track[k]) PROVE c \in UNION Resyncs!Range(track'[k])
  OBVIOUS
<1>1. PICK b \in DOMAIN track[k] : c \in TipOf(track[k], b)
  BY RangeTips
<1>2. b \in Resyncs!Branch
  <2>1. track[k] \in Refs
    BY DEF ResyncBase, ResyncTypes, RefsTyped
  <2> QED
    BY <2>1, RefsAre
<1>3. c \in TipOf(track'[k], b)
  BY <1>1, <1>2 DEF Sees, Behind
<1>4. b \in DOMAIN track'[k]
  BY <1>3 DEF TipOf
<1> QED
  BY <1>3, <1>4, RangeTips

\* So does it drop no more than it was judged to.
LEMMA JudgedKept ==
    ASSUME Judged, at \in Walking, cmd' = cmd, todo' \subseteq todo, Resyncs!Target' = Resyncs!Target,
           \A k \in todo' : local'[k] = local[k] /\ on'[k] = on[k] /\ loose'[k] = loose[k] /\ disk'[k] = disk[k],
           \A k \in todo' : UNION Resyncs!Range(track[k]) \subseteq UNION Resyncs!Range(track'[k])
    PROVE  Judged'
<1> SUFFICES ASSUME cmd \in {"force", "force private"}, NEW r \in todo', disk'[r] PROVE ~Resyncs!WouldDrop(r, Resyncs!Target, track[r])'
  BY DEF Judged
<1>1. ~Resyncs!WouldDrop(r, Resyncs!Target, track[r])
  BY DEF Judged
<1> QED
  BY <1>1 DEF Resyncs!WouldDrop

LEMMA NoRefusal == ASSUME result' \notin {"refused", "put back"} PROVE Resyncs!RefusalMovesNothing'
BY DEF Resyncs!RefusalMovesNothing

\* A step that ends no visit.
LEMMA WalkSound ==
    ASSUME SoundInv, Judged', Chosen', at \in Walking, at' \in Walking, NEW r \in todo,
           UNCHANGED <<todo, cmd, start, result, saved, entry, local, on, loose, disk>>,
           \A k \in Resyncs!Repo \ {r} : track'[k] = track[k]
    PROVE  Underway' /\ Resyncs!RefusalMovesNothing'
<1> USE DEF SoundInv
<1>1. cmd \in Walks /\ result = "nothing" /\ todo \subseteq Resyncs!Repo /\ Resyncs!InScope(cmd) \subseteq Resyncs!Repo
  BY ResyncTree DEF ResyncBase, ResyncPhases, WalkPhase, RestPhase, Walking, ResyncTypes, RunTyped
<1>2. Resyncs!Target' = Resyncs!Target
  BY TargetKept
<1>3. Resyncs!InScope(cmd)' = Resyncs!InScope(cmd)
  BY DEF Resyncs!InScope
<1>4. \A k \in Resyncs!InScope(cmd) \ todo : Visited(k)'
  <2> SUFFICES ASSUME NEW k \in Resyncs!InScope(cmd) \ todo PROVE Visited(k)'
    OBVIOUS
  <2>1. Visited(k) /\ k \in Resyncs!Repo /\ track'[k] = track[k]
    BY <1>1 DEF Underway, Walked
  <2>2. Resyncs!Tip(k)' = Resyncs!Tip(k)
    BY <2>1, WhereKept
  <2> QED
    BY <1>2, <2>1, <2>2 DEF Visited
<1>5. Walked'
  BY <1>1, <1>3, <1>4 DEF Underway, Walked
<1>6. Loaded' /\ Planned' /\ Restored'
  BY DEF Loaded, Loading, Planned, Restored, Walking
<1> QED
  BY <1>1, <1>5, <1>6, NoRefusal DEF Underway

\* The end of a visit.
LEMMA SettleSound ==
    ASSUME SoundInv, at \in Walking, NEW r \in Resyncs!Repo, r = Resyncs!First(todo), Resyncs!Settle(r), disk[r], disk' = disk,
           \A k \in Resyncs!Repo \ {r} : track'[k] = track[k] /\ local'[k] = local[k] /\ on'[k] = on[k] /\ loose'[k] = loose[k],
           on'[r] = on[r] \/ on'[r] = Resyncs!Target, Resyncs!Target \in DOMAIN track'[r] => track'[r][Resyncs!Target] \subseteq Resyncs!Tip(r)'
    PROVE  Underway' /\ Resyncs!RefusalMovesNothing'
<1> USE DEF SoundInv
<1>1. cmd \in Walks /\ result = "nothing" /\ todo \subseteq Resyncs!InScope(cmd) /\ Resyncs!InScope(cmd) \subseteq Resyncs!Repo /\ r \in todo
  <2>1. cmd \in Walks /\ result = "nothing" /\ todo \subseteq Resyncs!InScope(cmd) /\ todo # {} /\ cmd \in Resyncs!Commands
    BY DEF ResyncBase, ResyncPhases, WalkPhase, RestPhase, Walking, ResyncTypes, RunTyped
  <2>2. r \in todo
    BY <2>1, TheFirst
  <2> QED
    BY <2>1, <2>2, ResyncTree
<1>2. /\ todo' = todo \ {r} /\ UNCHANGED <<cmd, start, result, saved>>
      /\ at' \in {"visit", "save"} /\ (at' = "save" => todo' = {})
      /\ entry' = [entry EXCEPT ![r] = <<"branch", IF on'[r] = Resyncs!None THEN Resyncs!Target ELSE on'[r]>>]
  BY <1>1 DEF Resyncs!Settle, Resyncs!Onward, Resyncs!Go
<1>3. entry \in [Resyncs!Repo -> Landing]
  BY DEF ResyncBase, ResyncTypes, StatesTyped
<1>4. Resyncs!Target' = Resyncs!Target
  BY <1>2, ResyncTree, TargetKept
<1>5. Resyncs!Target # Resyncs!None /\ Resyncs!InScope(cmd)' = Resyncs!InScope(cmd)
  BY <1>2, TargetIs DEF ResyncBase, Resyncs!InScope
<1>6. Judged'
  <2>1. CASE at' = "save"
    BY <2>1 DEF Judged, Walking
  <2>2. \A k \in todo' : k \in Resyncs!Repo \ {r}
    BY <1>1, <1>2
  <2>3. \A k \in todo' : UNION Resyncs!Range(track[k]) \subseteq UNION Resyncs!Range(track'[k])
    BY <2>2
  <2> QED
    BY <1>2, <1>4, <2>2, <2>3, JudgedKept DEF Underway
<1>7. Chosen'
  BY <1>2 DEF Chosen
<1>8. \A k \in Resyncs!InScope(cmd) \ todo' : Visited(k)'
  <2> SUFFICES ASSUME NEW k \in Resyncs!InScope(cmd) \ todo' PROVE Visited(k)'
    OBVIOUS
  <2>1. CASE k = r
    <3>1. entry'[r] = <<"branch", IF on'[r] = Resyncs!None THEN Resyncs!Target' ELSE on'[r]>>
      BY <1>2, <1>3, <1>4
    <3> QED
      BY <1>4, <2>1, <3>1 DEF Visited
  <2>2. CASE k # r
    <3>1. Visited(k) /\ k \in Resyncs!Repo \ {r} /\ entry'[k] = entry[k]
      BY <1>1, <1>2, <1>3, <2>2 DEF Underway, Walked
    <3>2. Resyncs!Tip(k)' = Resyncs!Tip(k)
      BY <3>1, WhereKept
    <3> QED
      BY <1>4, <3>1, <3>2 DEF Visited
  <2> QED
    BY <2>1, <2>2
<1>9. \A k \in Resyncs!InScope(cmd) : start[k][1] # Resyncs!None => on'[k] # Resyncs!None
  BY <1>1, <1>5 DEF Underway, Walked
<1>10. \A k \in Resyncs!Repo : k \in todo' \/ k \notin Resyncs!InScope(cmd) => entry'[k] = saved[k]
  BY <1>1, <1>2, <1>3 DEF Underway, Walked
<1>11. Walked'
  BY <1>2, <1>5, <1>8, <1>9, <1>10 DEF Walked
<1>12. Loaded' /\ Planned' /\ Restored'
  BY <1>1, <1>2 DEF Loaded, Loading, Planned, Restored, Walks
<1> QED
  BY <1>1, <1>2, <1>6, <1>7, <1>11, <1>12, NoRefusal DEF Underway

\* The end of a command that did not refuse.
LEMMA EndSound ==
    ASSUME NEW res, Resyncs!End(res), res \notin {"refused", "put back"} \/ (\A r \in Resyncs!Repo : start[r][3] => Resyncs!Where(r)' = start[r])
    PROVE  Underway' /\ Resyncs!RefusalMovesNothing'
<1>1. at' = "idle" /\ result' = res /\ start' = start
  BY DEF Resyncs!End
<1> QED
  BY <1>1, NoneRuns, NoRefusal DEF Resyncs!RefusalMovesNothing

LEMMA VisitSound == ASSUME SoundInv, ResyncBase', Resyncs!Visit PROVE Underway' /\ Resyncs!RefusalMovesNothing'
<1> USE DEF SoundInv
<1>1. PICK r \in Resyncs!Repo : r = Resyncs!First(todo)
  BY VisitDoes
<1>2. /\ at = "visit" /\ at \in Walking /\ r \in todo /\ UNCHANGED <<local, on, loose, disk>>
      /\ \A k \in Resyncs!Repo \ {r} : track'[k] = track[k]
  BY <1>1, VisitDoes DEF Walking
<1>3. CASE Resyncs!End("failed")
  BY <1>3, EndSound
<1>4. CASE disk[r] /\ Resyncs!Target \notin DOMAIN track'[r] /\ Resyncs!Settle(r)
  BY <1>1, <1>2, <1>4, SettleSound
<1>5. CASE disk[r] /\ Resyncs!Target \in DOMAIN track'[r] /\ UNCHANGED <<entry, moved, plan, fetched>>
           /\ Resyncs!Go(IF cmd \in {"force", "force private"} THEN "judge" ELSE "pull", todo)
  <2>1. at' \in Walking /\ at' \notin {"stash", "reset"} /\ UNCHANGED <<todo, cmd, start, result, saved, entry>>
    BY <1>5 DEF Resyncs!Go, Walking
  <2>2. Resyncs!Target' = Resyncs!Target
    BY <1>2, <2>1, TargetKept
  <2>3. \A k \in todo' : UNION Resyncs!Range(track[k]) \subseteq UNION Resyncs!Range(track'[k])
    <3>1. todo' \subseteq Resyncs!Repo
      BY <2>1 DEF ResyncBase, ResyncTypes, RunTyped
    <3> QED
      BY <3>1, VisitSees, SeenGrows
  <2>4. Judged'
    BY <1>2, <2>1, <2>2, <2>3, JudgedKept DEF Underway
  <2>5. Chosen'
    BY <2>1 DEF Chosen
  <2> QED
    BY <1>2, <2>1, <2>4, <2>5, WalkSound
<1> QED
  BY <1>1, <1>3, <1>4, <1>5, VisitDoes

\* The pull takes what it fetched in.
LEMMA PullSound == ASSUME SoundInv, ResyncBase', Resyncs!Pull PROVE Underway' /\ Resyncs!RefusalMovesNothing'
<1> USE DEF SoundInv
<1>1. PICK r \in Resyncs!Repo : r = Resyncs!First(todo)
  BY PullDoes
<1> DEFINE new == origin[r][Resyncs!Target]
<1>2. at = "pull" /\ at \in Walking /\ r \in todo /\ disk[r] /\ UNCHANGED <<on, disk>>
  BY <1>1, PullDoes DEF Walking
<1>3. CASE Resyncs!End("failed")
  BY <1>3, EndSound
<1>4. CASE /\ Resyncs!Target \in DOMAIN origin[r] /\ (new \subseteq Resyncs!Tip(r) \/ Resyncs!Tip(r) \subseteq new)
           /\ track' = [track EXCEPT ![r] = Resyncs!With(@, Resyncs!Target, new)]
           /\ Resyncs!TakeIn(r, new) \in SUBSET Commits /\ Resyncs!Advance(r, Resyncs!TakeIn(r, new)) /\ Resyncs!Settle(r)
  <2>1. track'[r][Resyncs!Target] = new /\ \A k \in Resyncs!Repo \ {r} : track'[k] = track[k]
    <3>1. track'[r][Resyncs!Target] = new
      BY <1>4, SeesOne
    <3> QED
      BY <1>4, <3>1 DEF ResyncBase, ResyncTypes, RefsTyped
  <2>2. Resyncs!Tip(r)' = Resyncs!TakeIn(r, new) /\ \A k \in Resyncs!Repo \ {r} : local'[k] = local[k] /\ loose'[k] = loose[k]
    BY <1>2, <1>4, AdvanceIs DEF ResyncBase
  <2>3. new \subseteq Resyncs!TakeIn(r, new)
    BY <1>4 DEF Resyncs!TakeIn
  <2>4. track'[r][Resyncs!Target] \subseteq Resyncs!Tip(r)'
    BY <2>1, <2>2, <2>3
  <2> QED
    BY <1>1, <1>2, <1>4, <2>1, <2>2, <2>4, SettleSound
<1> QED
  BY <1>1, <1>3, <1>4, PullDoes

\* pull --force refuses nothing that it did not refuse before its walk.
LEMMA JudgeSound == ASSUME SoundInv, ResyncBase', Resyncs!Judge PROVE Underway' /\ Resyncs!RefusalMovesNothing'
<1> USE DEF SoundInv
<1>1. PICK r \in Resyncs!Repo : r = Resyncs!First(todo)
  BY JudgeDoes
<1>2. /\ at = "judge" /\ at \in Walking /\ r \in todo /\ disk[r] /\ cmd \in {"force", "force private"}
      /\ UNCHANGED <<local, on, loose, disk>>
  BY <1>1, JudgeDoes DEF Walking
<1>3. CASE Resyncs!End("failed")
  BY <1>3, EndSound
<1>4. CASE /\ Resyncs!Target \in DOMAIN origin[r] /\ track' = [track EXCEPT ![r] = Resyncs!With(@, Resyncs!Target, origin[r][Resyncs!Target])]
           /\ \A k \in Resyncs!Repo \ {r} : track'[k] = track[k]
           /\ \/ Resyncs!WouldDrop(r, Resyncs!Target, track'[r]) /\ Resyncs!End("refused")
              \/ /\ ~Resyncs!WouldDrop(r, Resyncs!Target, track'[r]) /\ at' = "stash" /\ fetched' = origin[r][Resyncs!Target]
                 /\ UNCHANGED <<todo, cmd, start, result, saved, entry, moved, plan>>
  <2>1. Sees /\ Resyncs!Target \in DOMAIN track'[r] /\ track'[r][Resyncs!Target] = origin[r][Resyncs!Target]
    BY <1>4, SeesOne
  <2>2. \A k \in Resyncs!Repo : UNION Resyncs!Range(track[k]) \subseteq UNION Resyncs!Range(track'[k])
    BY <2>1, SeenGrows
  <2>3. ~Resyncs!WouldDrop(r, Resyncs!Target, track[r])
    BY <1>2 DEF Underway, Judged
  <2>4. ~Resyncs!WouldDrop(r, Resyncs!Target, track'[r])
    BY <2>2, <2>3 DEF Resyncs!WouldDrop
  <2>5. at' = "stash" /\ at' \in Walking /\ fetched' = origin[r][Resyncs!Target] /\ UNCHANGED <<todo, cmd, start, result, saved, entry>>
    BY <1>4, <2>4 DEF Walking
  <2>6. Resyncs!Target' = Resyncs!Target /\ Resyncs!First(todo)' = r
    BY <1>1, <1>2, <2>5, TargetKept DEF Resyncs!First
  <2>7. Judged'
    <3>1. todo' \subseteq Resyncs!Repo
      BY <2>5 DEF ResyncBase, ResyncTypes, RunTyped
    <3> QED
      BY <1>2, <2>2, <2>5, <2>6, <3>1, JudgedKept DEF Underway
  <2>8. Chosen'
    BY <2>1, <2>5, <2>6 DEF Chosen
  <2> QED
    BY <1>2, <1>4, <2>5, <2>7, <2>8, WalkSound
<1> QED
  BY <1>1, <1>3, <1>4, JudgeDoes

LEMMA StashSound == ASSUME SoundInv, ResyncBase', Resyncs!Stash PROVE Underway' /\ Resyncs!RefusalMovesNothing'
<1> USE DEF SoundInv
<1>1. PICK r \in Resyncs!Repo : r = Resyncs!First(todo)
  BY StashDoes
<1>2. /\ at = "stash" /\ at' = "reset" /\ at \in Walking /\ at' \in Walking /\ r \in todo
      /\ UNCHANGED <<track, local, on, loose, disk, entry, fetched, todo, cmd, start, result, saved>>
  BY <1>1, StashDoes DEF Walking
<1>3. Resyncs!Target' = Resyncs!Target /\ Resyncs!First(todo)' = Resyncs!First(todo)
  BY <1>2, TargetKept DEF Resyncs!First
<1>4. Chosen'
  BY <1>2, <1>3 DEF Underway, Chosen
<1>5. Judged'
  BY <1>2, <1>3, JudgedKept DEF Underway
<1> QED
  BY <1>2, <1>4, <1>5, WalkSound

LEMMA ResetSound == ASSUME SoundInv, ResyncBase', Resyncs!Reset PROVE Underway' /\ Resyncs!RefusalMovesNothing'
<1> USE DEF SoundInv
<1>1. PICK r \in Resyncs!Repo : r = Resyncs!First(todo)
  BY ResetDoes
<1>2. /\ at = "reset" /\ at \in Walking /\ r \in todo /\ disk[r] /\ Resyncs!Target \in Resyncs!Branch /\ fetched \in SUBSET Commits
      /\ UNCHANGED <<track, disk>>
  BY <1>1, ResetDoes DEF Walking
<1>3. CASE Resyncs!End("failed")
  BY <1>3, EndSound
<1>4. CASE /\ local' = [local EXCEPT ![r] = Resyncs!With(@, Resyncs!Target, fetched)]
           /\ on' = [on EXCEPT ![r] = Resyncs!Target] /\ loose' = [loose EXCEPT ![r] = {}] /\ Resyncs!Settle(r)
  <2>1. /\ local \in [Resyncs!Repo -> Refs] /\ on \in [Resyncs!Repo -> Spots] /\ loose \in [Resyncs!Repo -> SUBSET Commits] /\ Resyncs!Target # Resyncs!None
    BY <1>2 DEF ResyncBase, ResyncTypes, RefsTyped, HeadsTyped, Resyncs!Branch, Resyncs!None
  <2>2. /\ \A k \in Resyncs!Repo \ {r} : track'[k] = track[k] /\ local'[k] = local[k] /\ on'[k] = on[k] /\ loose'[k] = loose[k]
        /\ local'[r] = Resyncs!With(local[r], Resyncs!Target, fetched) /\ on'[r] = Resyncs!Target
    BY <1>2, <1>4, <2>1
  <2>3. local'[r][Resyncs!Target] = fetched
    <3>1. local[r] \in Refs
      BY <2>1
    <3> QED
      BY <1>2, <2>2, <3>1, WithHas
  <2>4. Resyncs!Tip(r)' = fetched
    BY <2>1, <2>2, <2>3 DEF Resyncs!Tip
  <2>5. track'[r][Resyncs!Target] = fetched
    BY <1>1, <1>2 DEF Underway, Chosen
  <2> QED
    BY <1>1, <1>2, <1>4, <2>2, <2>4, <2>5, SettleSound
<1> QED
  BY <1>1, <1>3, <1>4, ResetDoes

-----------------------------------------------------------------------------
(* The load of a release, and the other commands *)

LEMMA BeginSound == ASSUME SoundInv, ResyncBase', NEW c \in Resyncs!Commands, Resyncs!Begin(c) PROVE Underway' /\ Resyncs!RefusalMovesNothing'
<1> USE DEF SoundInv
<1>1. UNCHANGED <<Resyncs!remotes, track, local, on, loose, disk, saved>> /\ start' = [r \in Resyncs!Repo |-> Resyncs!Where(r)] /\ entry' = saved /\ moved' = {}
  BY DEF Resyncs!Begin, Resyncs!repos
<1>2. \A r \in Resyncs!Repo : start'[r] = Resyncs!Where(r) /\ Resyncs!Where(r)' = Resyncs!Where(r) /\ start'[r][1] = on[r] /\ start'[r][3] = disk[r]
  BY <1>1 DEF Resyncs!Where, Resyncs!Tip
<1>3. Resyncs!RefusalMovesNothing'
  BY <1>2 DEF Resyncs!RefusalMovesNothing
<1>4. CASE Resyncs!Refused(c)
  <2>1. at' = "idle"
    BY <1>4 DEF Resyncs!Begin
  <2> QED
    BY <1>3, <2>1, NoneRuns
<1>5. CASE ~Resyncs!Refused(c) /\ c \in Walks
  <2>1. at' = "visit" /\ cmd' = c /\ todo' = Resyncs!InScope(c)
    BY <1>5 DEF Resyncs!Begin, Walks
  <2>2. Resyncs!Target' = Resyncs!RootBranch(c)
    BY <1>1, <2>1 DEF Resyncs!Target, Resyncs!RootBranch
  <2>3. Judged'
    <3> SUFFICES ASSUME c \in {"force", "force private"}, NEW r \in Resyncs!InScope(c), disk[r] PROVE ~Resyncs!WouldDrop(r, Resyncs!Target, track[r])'
      BY <1>1, <2>1 DEF Judged
    <3>1. ~Resyncs!WouldDrop(r, Resyncs!RootBranch(c), track[r])
      BY <1>5 DEF Resyncs!Refused, Resyncs!ForceRefused
    <3> QED
      BY <1>1, <2>2, <3>1 DEF Resyncs!WouldDrop
  <2>4. Resyncs!InScope(c) \subseteq Resyncs!Repo
    BY ResyncTree
  <2>5. Walked'
    BY <1>1, <1>2, <2>1, <2>4 DEF Walked, Resyncs!InScope
  <2>6. Chosen' /\ Loaded' /\ Planned' /\ Restored'
    BY <2>1 DEF Chosen, Loaded, Loading, Planned, Restored
  <2> QED
    BY <1>3, <2>3, <2>5, <2>6 DEF Underway
<1>6. CASE ~Resyncs!Refused(c) /\ c = "load"
  <2>1. /\ cmd' = "load" /\ Shifted' = {} /\ Memory \in Resyncs!Repo
        /\ \/ at' = "clone" /\ todo' = Resyncs!Missing
           \/ at' = "move" /\ todo' = Resyncs!Recorded /\ Resyncs!Missing = {}
    BY <1>1, <1>6, ResyncTree DEF Resyncs!Begin, Shifted
  <2>2. \A r \in Resyncs!Recorded \ Resyncs!Missing : disk[r]
    BY DEF Resyncs!Missing
  <2>3. Loaded'
    BY <1>1, <1>2, <2>1, <2>2 DEF Loaded, MovedFrom
  <2>4. Judged' /\ Chosen' /\ Walked' /\ Planned' /\ Restored'
    BY <2>1 DEF Judged, Chosen, Walked, Walks, Planned, Restored, Walking
  <2> QED
    BY <1>3, <2>3, <2>4 DEF Underway
<1>7. CASE ~Resyncs!Refused(c) /\ c \in {"refresh", "fetch", "restore"}
  <2>1. /\ at' \in {"plan", "fetch", "restore"} /\ cmd' = c
        /\ at' = "restore" => todo' = Resyncs!Repo
    BY <1>7 DEF Resyncs!Begin
  <2>2. Planned' /\ Restored'
    BY <1>1, <1>2, <2>1 DEF Planned, Restored
  <2>3. Judged' /\ Chosen' /\ Walked' /\ Loaded'
    BY <2>1 DEF Judged, Chosen, Walked, Loaded, Loading, Walking
  <2> QED
    BY <1>3, <2>2, <2>3 DEF Underway
<1> QED
  BY <1>4, <1>5, <1>6, <1>7 DEF Resyncs!Commands, Walks

\* A load that runs on, or has moved all.
LEMMA OnlyLoads ==
    ASSUME Loaded', at' \in {"clone", "move", "back"} \/ (at' = "save" /\ cmd' = "load"), result' = "nothing"
    PROVE  Underway' /\ Resyncs!RefusalMovesNothing'
<1>1. Judged' /\ Chosen' /\ Walked' /\ Planned' /\ Restored'
  BY DEF Judged, Chosen, Walked, Planned, Restored, Walking, Walks
<1> QED
  BY <1>1, NoRefusal DEF Underway

LEMMA CloneSound == ASSUME SoundInv, ResyncBase', Resyncs!Clone PROVE Underway' /\ Resyncs!RefusalMovesNothing'
<1> USE DEF SoundInv
<1>1. PICK r \in Resyncs!Repo : r = Resyncs!First(todo) /\ r \in Resyncs!Recorded /\ r # Memory
  BY CloneDoes, ResyncTree
<1>2. at = "clone" /\ r \in todo /\ ~disk[r] /\ moved = {} /\ cmd = "load" /\ result = "nothing" /\ Memory \in Resyncs!Repo
  BY <1>1, CloneDoes, ResyncTree DEF ResyncBase, ResyncPhases, RestPhase
<1>3. CASE Resyncs!End("failed")
  BY <1>3, EndSound
<1>4. CASE /\ ClonedOne(r) /\ UNCHANGED <<cmd, start, result, saved, entry, moved, plan, fetched>>
           /\ \/ todo # {r} /\ at' = "clone" /\ todo' = todo \ {r}
              \/ todo = {r} /\ at' = "move" /\ todo' = Resyncs!Recorded
  <2>1. /\ \A k \in Resyncs!Repo \ {r} : disk'[k] = disk[k] /\ local'[k] = local[k] /\ on'[k] = on[k] /\ loose'[k] = loose[k]
        /\ disk'[r]
    BY <1>4 DEF ClonedOne
  <2>2. \A k \in Resyncs!Repo \ {r} : Resyncs!Where(k)' = Resyncs!Where(k)
    BY <2>1, WhereKept
  <2>3. Loading /\ Shifted = {} /\ Shifted' = {}
    BY <1>2, <1>4 DEF Loading, Shifted
  <2>4. /\ Resyncs!Where(Memory) = start[Memory] /\ entry[Memory] = saved[Memory]
        /\ \A k \in Resyncs!Repo : start[k][3] => Resyncs!Where(k) = start[k]
        /\ \A k \in Resyncs!Recorded \ todo : disk[k]
    BY <1>2, <2>3 DEF Underway, Loaded
  <2>5. ~start[r][3]
    <3>1. Resyncs!Where(r)[3] = disk[r]
      BY DEF Resyncs!Where
    <3> QED
      BY <1>2, <2>4, <3>1
  <2>6. \A k \in Resyncs!Recorded \ (todo \ {r}) : disk'[k]
    BY <2>1, <2>4, ResyncTree
  <2>7. todo = {r} => \A k \in Resyncs!Recorded : disk'[k]
    BY <2>6
  <2>8. \A k \in Resyncs!Repo : start[k][3] => Resyncs!Where(k)' = start[k]
    BY <2>2, <2>4, <2>5
  <2>9. Resyncs!Where(Memory)' = start[Memory]
    BY <1>1, <1>2, <2>2, <2>4
  <2>10. Loaded'
    BY <1>2, <1>4, <2>3, <2>4, <2>6, <2>7, <2>8, <2>9 DEF Loaded, MovedFrom
  <2> QED
    BY <1>2, <1>4, <2>10, OnlyLoads
<1> QED
  BY <1>1, <1>3, <1>4, CloneDoes

\* A load that cannot move one of them puts those it moved back; the others were not moved.
LEMMA MoveSound == ASSUME SoundInv, ResyncBase', Resyncs!Move PROVE Underway' /\ Resyncs!RefusalMovesNothing'
<1> USE DEF SoundInv
<1>1. PICK r \in Resyncs!Repo : r = Resyncs!First(todo) /\ r \in Resyncs!Recorded /\ r # Memory
  BY MoveDoes, ResyncTree
<1>2. /\ at = "move" /\ r \in todo /\ cmd = "load" /\ result = "nothing" /\ Memory \in Resyncs!Repo /\ Loading
      /\ UNCHANGED <<Resyncs!remotes, track, local, disk>> /\ todo \cap Shifted = {}
  BY <1>1, MoveDoes, ResyncTree DEF Loading, ResyncBase, ResyncPhases, LoadPhase
<1>3. /\ Resyncs!Where(Memory) = start[Memory] /\ entry[Memory] = saved[Memory]
      /\ \A k \in Shifted : on[k] = Resyncs!None /\ loose[k] = Resyncs!Released /\ entry[k] = Resyncs!Ref(k)
      /\ \A m \in moved : MovedFrom(m)
      /\ \A k \in Resyncs!Repo : start[k][3] /\ k \notin Shifted => Resyncs!Where(k) = start[k]
      /\ todo \cup Shifted = Resyncs!Recorded /\ \A k \in todo : disk[k]
  BY <1>2 DEF Underway, Loaded
<1>4. CASE UNCHANGED <<on, loose>> /\ moved = {} /\ Resyncs!End("put back")
  <2>1. \A k \in Resyncs!Repo : Resyncs!Where(k)' = Resyncs!Where(k)
    BY <1>2, <1>4, WhereKept
  <2>2. \A k \in Resyncs!Repo : start[k][3] => Resyncs!Where(k)' = start[k]
    BY <1>3, <1>4, <2>1 DEF Shifted
  <2> QED
    BY <1>4, <2>2, EndSound
<1>5. CASE /\ UNCHANGED <<on, loose>> /\ moved # {} /\ at' = "back" /\ todo' = Shifted
           /\ UNCHANGED <<cmd, start, result, saved, entry, moved, plan, fetched>>
  <2>1. \A k \in Resyncs!Repo : Resyncs!Where(k)' = Resyncs!Where(k)
    BY <1>2, <1>5, WhereKept
  <2>2. Shifted' = Shifted
    BY <1>5 DEF Shifted
  <2>3. \A m \in moved' : MovedFrom(m)'
    BY <1>2, <1>3, <1>5 DEF MovedFrom
  <2>4. Loaded'
    BY <1>2, <1>3, <1>5, <2>1, <2>2, <2>3 DEF Loaded
  <2> QED
    BY <1>2, <1>5, <2>4, OnlyLoads
<1>6. CASE MovedOne(r)
  <2>1. /\ moved' = moved \cup {<<r, on[r], Resyncs!Tip(r)>>} /\ todo' = todo \ {r}
        /\ at' = IF todo # {r} THEN "move" ELSE "save"
        /\ UNCHANGED <<cmd, start, result, saved>>
        /\ on' = [on EXCEPT ![r] = Resyncs!None] /\ loose' = [loose EXCEPT ![r] = Resyncs!Released] /\ entry' = [entry EXCEPT ![r] = Resyncs!Ref(r)]
    BY <1>6 DEF MovedOne
  <2>2. on \in [Resyncs!Repo -> Spots] /\ loose \in [Resyncs!Repo -> SUBSET Commits] /\ entry \in [Resyncs!Repo -> Landing]
    BY DEF ResyncBase, ResyncTypes, HeadsTyped, StatesTyped
  <2>3. /\ \A k \in Resyncs!Repo \ {r} : on'[k] = on[k] /\ loose'[k] = loose[k] /\ entry'[k] = entry[k]
        /\ on'[r] = Resyncs!None /\ loose'[r] = Resyncs!Released /\ entry'[r] = Resyncs!Ref(r)
    BY <2>1, <2>2
  <2>4. \A k \in Resyncs!Repo \ {r} : Resyncs!Where(k)' = Resyncs!Where(k)
    BY <1>2, <2>3, WhereKept
  <2>5. Shifted' = Shifted \cup {r} /\ Shifted \subseteq Resyncs!Repo
    <3>1. Shifted \subseteq Resyncs!Repo
      BY DEF Shifted, ResyncBase, ResyncTypes, RunTyped
    <3> DEFINE last == <<r, on[r], Resyncs!Tip(r)>>
    <3>2. last[1] = r /\ moved' = moved \cup {last}
      BY <2>1
    <3> HIDE DEF last
    <3>3. Shifted' = {m[1] : m \in moved \cup {last}}
      BY <3>2 DEF Shifted
    <3>4. {m[1] : m \in moved \cup {last}} = {m[1] : m \in moved} \cup {r}
      BY <3>2
    <3> QED
      BY <3>1, <3>3, <3>4 DEF Shifted
  <2>6. \A k : Resyncs!Ref(k)' = Resyncs!Ref(k)
    BY <1>2 DEF Resyncs!Ref, Resyncs!remotes
  <2>7. \A k \in Shifted' : on'[k] = Resyncs!None /\ loose'[k] = Resyncs!Released /\ entry'[k] = Resyncs!Ref(k)'
    BY <1>3, <2>3, <2>5, <2>6
  <2>8. MovedFrom(<<r, on[r], Resyncs!Tip(r)>>)
    <3>1. start[r][3] => start[r] = <<on[r], Resyncs!Tip(r), TRUE>>
      <4>1. r \notin Shifted /\ disk[r] = TRUE
        BY <1>2, <1>3 DEF ResyncBase, ResyncTypes, HeadsTyped
      <4> QED
        BY <1>3, <4>1 DEF Resyncs!Where
    <3>2. on[r] # Resyncs!None => local[r][on[r]] = Resyncs!Tip(r)
      BY DEF Resyncs!Tip
    <3> QED
      BY <1>2, <1>3, <3>1, <3>2 DEF MovedFrom
  <2>9. \A m \in moved' : MovedFrom(m)'
    <3>1. \A m \in moved' : MovedFrom(m)
      BY <1>3, <2>1, <2>8
    <3> QED
      BY <1>2, <2>1, <3>1 DEF MovedFrom
  <2>10. Resyncs!Where(Memory)' = start'[Memory] /\ entry'[Memory] = saved'[Memory]
    BY <1>1, <1>2, <1>3, <2>1, <2>3, <2>4
  <2>11. \A k \in Resyncs!Repo : start'[k][3] /\ k \notin Shifted' => Resyncs!Where(k)' = start'[k]
    BY <1>3, <2>1, <2>4, <2>5
  <2>12. todo' \cup Shifted' = Resyncs!Recorded /\ (\A k \in todo' : disk'[k]) /\ (at' = "save" => todo' = {})
    BY <1>2, <1>3, <2>1, <2>5
  <2>13. Loaded'
    BY <2>1, <2>7, <2>9, <2>10, <2>11, <2>12 DEF Loaded
  <2> QED
    BY <1>2, <2>1, <2>13, OnlyLoads
<1> QED
  BY <1>1, <1>4, <1>5, <1>6, MoveDoes

LEMMA BackSound == ASSUME SoundInv, ResyncBase', Resyncs!Back PROVE Underway' /\ Resyncs!RefusalMovesNothing'
<1> USE DEF SoundInv
<1>1. PICK r \in Resyncs!Repo : r = Resyncs!Deepest(todo) /\ r \in Resyncs!Recorded /\ r # Memory
  BY BackDoes, ResyncTree
<1>2. /\ at = "back" /\ r \in todo /\ cmd = "load" /\ result = "nothing" /\ Memory \in Resyncs!Repo /\ Loading
      /\ UNCHANGED <<local, disk>> /\ BackOne(r)
  BY <1>1, BackDoes, ResyncTree DEF Loading
<1>3. /\ Resyncs!Where(Memory) = start[Memory] /\ entry[Memory] = saved[Memory]
      /\ \A m \in moved : MovedFrom(m)
      /\ \A k \in Resyncs!Repo : start[k][3] /\ (k \notin Shifted \/ k \notin todo) => Resyncs!Where(k) = start[k]
  BY <1>2 DEF Underway, Loaded
<1>4. PICK m \in moved : /\ m[1] = r /\ on' = [on EXCEPT ![r] = m[2]]
                         /\ loose' = [loose EXCEPT ![r] = IF m[2] = Resyncs!None THEN m[3] ELSE {}]
  BY <1>2 DEF BackOne
<1>5. /\ on'[r] = m[2] /\ loose'[r] = (IF m[2] = Resyncs!None THEN m[3] ELSE {})
      /\ \A k \in Resyncs!Repo \ {r} : on'[k] = on[k] /\ loose'[k] = loose[k]
  BY <1>4 DEF ResyncBase, ResyncTypes, HeadsTyped
<1>6. \A k \in Resyncs!Repo \ {r} : Resyncs!Where(k)' = Resyncs!Where(k)
  BY <1>2, <1>5, WhereKept
<1>7. start[r][3] => Resyncs!Where(r)' = start[r]
  <2>1. MovedFrom(m)
    BY <1>3
  <2>2. (start[r][3] => start[r] = <<m[2], m[3], TRUE>>) /\ (m[2] # Resyncs!None => local[r][m[2]] = m[3]) /\ disk[r] = TRUE
    BY <1>4, <2>1 DEF MovedFrom, ResyncBase, ResyncTypes, HeadsTyped
  <2>3. Resyncs!Tip(r)' = m[3]
    BY <1>2, <1>5, <2>2 DEF Resyncs!Tip
  <2> QED
    BY <1>2, <1>5, <2>2, <2>3 DEF Resyncs!Where
<1>8. CASE todo = {r} /\ Resyncs!End("put back")
  <2>1. \A k \in Resyncs!Repo : start[k][3] => Resyncs!Where(k)' = start[k]
    BY <1>3, <1>6, <1>7, <1>8
  <2> QED
    BY <1>8, <2>1, EndSound
<1>9. CASE /\ todo # {r} /\ at' = "back" /\ todo' = todo \ {r}
           /\ UNCHANGED <<cmd, start, result, saved, entry, moved, plan, fetched>>
  <2>1. Shifted' = Shifted
    BY <1>9 DEF Shifted
  <2>2. \A k \in moved' : MovedFrom(k)'
    BY <1>2, <1>3, <1>9 DEF MovedFrom
  <2>3. \A k \in Resyncs!Repo : start'[k][3] /\ (k \notin Shifted' \/ k \notin todo') => Resyncs!Where(k)' = start'[k]
    BY <1>3, <1>6, <1>7, <1>9, <2>1
  <2>4. Resyncs!Where(Memory)' = start'[Memory] /\ entry'[Memory] = saved'[Memory]
    BY <1>1, <1>2, <1>3, <1>6, <1>9
  <2>5. Loaded'
    BY <1>9, <2>2, <2>3, <2>4 DEF Loaded
  <2> QED
    BY <1>2, <1>9, <2>5, OnlyLoads
<1> QED
  BY <1>1, <1>8, <1>9, BackDoes

LEMMA RestoreSound == ASSUME SoundInv, ResyncBase', Resyncs!Restore PROVE Underway' /\ Resyncs!RefusalMovesNothing'
<1> USE DEF SoundInv
<1>1. PICK r \in Resyncs!Repo : r = Resyncs!First(todo)
  BY RestoreDoes
<1>2. at = "restore" /\ r \in todo /\ cmd = "restore" /\ result = "nothing"
  BY <1>1, RestoreDoes DEF ResyncBase, ResyncPhases, RestPhase
<1>3. CASE Resyncs!End("failed")
  BY <1>3, EndSound
<1>4. CASE RestoredOne(r) /\ Resyncs!Onward("restore", r, "save") /\ UNCHANGED <<entry, moved, plan, fetched>>
  <2>1. todo' = todo \ {r} /\ at' \in {"restore", "save"} /\ UNCHANGED <<cmd, start, result, saved, entry>>
    BY <1>4 DEF Resyncs!Onward, Resyncs!Go
  <2>2. saved[r][1] = "branch" => saved[r][2] \in Resyncs!Branch
    <3>1. Proper(saved[r])
      BY <1>2 DEF Absent
    <3> QED
      BY <3>1 DEF Proper
  <2>3. disk'[r] /\ (saved[r][1] = "branch" => on'[r] = saved[r][2])
    BY <1>4, <2>2 DEF RestoredOne
  <2>4. \A k \in Resyncs!Repo \ {r} : disk'[k] = disk[k] /\ on'[k] = on[k]
    BY <1>4 DEF RestoredOne
  <2>5. Restored'
    BY <1>2, <2>1, <2>3, <2>4 DEF Underway, Restored
  <2>6. Judged' /\ Chosen' /\ Walked' /\ Loaded' /\ Planned'
    BY <1>2, <2>1 DEF Judged, Chosen, Walked, Loaded, Loading, Planned, Walking, Walks
  <2> QED
    BY <1>2, <2>1, <2>5, <2>6, NoRefusal DEF Underway
<1> QED
  BY <1>1, <1>3, <1>4, RestoreDoes

\* A refusal to merge is made before any merge.
LEMMA PlanSound == ASSUME SoundInv, ResyncBase', Resyncs!Plan PROVE Underway' /\ Resyncs!RefusalMovesNothing'
<1> USE DEF SoundInv
<1>1. at = "plan" /\ result = "nothing" /\ UNCHANGED <<local, on, loose, disk>>
  BY PlanDoes DEF ResyncBase, ResyncPhases, RestPhase
<1>2. \A r \in Resyncs!Repo : Resyncs!Where(r)' = start[r]
  <2>1. \A r \in Resyncs!Repo : Resyncs!Where(r)' = Resyncs!Where(r) /\ Resyncs!Where(r) = start[r]
    BY <1>1, WhereKept DEF Underway, Planned
  <2> QED
    BY <2>1
<1>3. CASE \E res \in {"failed", "refused", "done"} : Resyncs!End(res)
  BY <1>2, <1>3, EndSound
<1>4. CASE at' \in {"plan", "merge"} /\ UNCHANGED <<start, result>>
  <2>1. Planned'
    BY <1>2, <1>4 DEF Planned
  <2>2. Judged' /\ Chosen' /\ Walked' /\ Loaded' /\ Restored'
    BY <1>4 DEF Judged, Chosen, Walked, Loaded, Loading, Restored, Walking
  <2> QED
    BY <1>1, <1>4, <2>1, <2>2, NoRefusal DEF Underway
<1> QED
  BY <1>3, <1>4, PlanDoes

LEMMA OthersSound == ASSUME SoundInv, ResyncBase', Resyncs!Save \/ Resyncs!Merge \/ Resyncs!Fetch \/ Resyncs!Stop PROVE Underway' /\ Resyncs!RefusalMovesNothing'
<1> USE DEF SoundInv
<1>1. CASE Resyncs!Save
  <2>1. at' = "idle" /\ result' = "done"
    BY <1>1 DEF Resyncs!Save
  <2> QED
    BY <2>1, NoneRuns, NoRefusal
<1>2. CASE Resyncs!Stop
  <2>1. Resyncs!End("failed")
    BY <1>2 DEF Resyncs!Stop, Resyncs!Fails
  <2> QED
    BY <2>1, EndSound
<1>3. CASE Resyncs!Merge \/ Resyncs!Fetch
  <2>1. CASE Resyncs!End("done")
    BY <2>1, EndSound
  <2>2. CASE at' \in {"merge", "fetch"} /\ result' = result
    <3>1. result = "nothing"
      BY <1>3 DEF Resyncs!Merge, Resyncs!Fetch, ResyncBase, ResyncPhases, RestPhase
    <3>2. Underway'
      BY <2>2 DEF Underway, Judged, Chosen, Walked, Loaded, Loading, Planned, Restored, Walking
    <3> QED
      BY <2>2, <3>1, <3>2, NoRefusal
  <2> QED
    BY <1>3, <2>1, <2>2, MergeDoes, FetchDoes
<1> QED
  BY <1>1, <1>2, <1>3

\* What nobody moves stays where it is.
LEMMA AsideSound ==
    ASSUME SoundInv, UNCHANGED <<track, local, on, loose, disk, tagged, saved, entry, Resyncs!command, at, result>>
    PROVE  Underway' /\ Resyncs!RefusalMovesNothing'
<1> USE DEF SoundInv
<1>1. UNCHANGED <<cmd, todo, moved, plan, fetched, start>>
  BY DEF Resyncs!command
<1>2. Resyncs!Target' = Resyncs!Target /\ Resyncs!First(todo)' = Resyncs!First(todo) /\ Resyncs!InScope(cmd)' = Resyncs!InScope(cmd)
  BY <1>1 DEF Resyncs!Target, Resyncs!RootBranch, Resyncs!First, Resyncs!InScope
<1>3. \A r : Resyncs!Where(r)' = Resyncs!Where(r) /\ Resyncs!Tip(r)' = Resyncs!Tip(r) /\ Resyncs!Ref(r)' = Resyncs!Ref(r)
  BY DEF Resyncs!Where, Resyncs!Tip, Resyncs!Ref
<1>4. Resyncs!RefusalMovesNothing'
  BY <1>1, <1>3 DEF Resyncs!RefusalMovesNothing
<1>5. Judged' /\ Chosen' /\ Planned' /\ Restored'
  BY <1>1, <1>2, <1>3 DEF Underway, Judged, Chosen, Planned, Restored, Resyncs!WouldDrop
<1>6. Walked'
  <2>1. \A r : Visited(r)' = Visited(r)
    BY <1>2, <1>3 DEF Visited
  <2> QED
    BY <1>1, <1>2, <2>1 DEF Underway, Walked
<1>7. Loaded'
  <2>1. Shifted' = Shifted /\ Loading' = Loading /\ \A m : MovedFrom(m)' = MovedFrom(m)
    BY <1>1 DEF Shifted, Loading, MovedFrom
  <2> QED
    BY <1>1, <1>3, <2>1 DEF Underway, Loaded
<1> QED
  BY <1>4, <1>5, <1>6, <1>7 DEF Underway

\* The invariant, and what it is for.
LEMMA SoundKept == ASSUME ~During, "rewrite" \notin Mates, SoundInv, [Resyncs!Next]_(Resyncs!vars) PROVE SoundInv'
<1>1. ResyncBase' /\ Behind' /\ Absent'
  BY BaseKept, BehindKept, AbsentKept DEF SoundInv
<1>2. CASE \E c \in Resyncs!Commands : Resyncs!Begin(c)
  BY <1>1, <1>2, BeginSound DEF SoundInv
<1>3. CASE Resyncs!Step \/ Resyncs!Stop
  BY <1>1, <1>3, VisitSound, PullSound, JudgeSound, StashSound, ResetSound, RestoreSound, CloneSound, MoveSound, BackSound,
     PlanSound, OthersSound DEF Resyncs!Step, SoundInv
<1>4. CASE Resyncs!User
  <2>1. at' = "idle" /\ result' = "nothing"
    BY <1>4 DEF Resyncs!User, Resyncs!Commit, Resyncs!Edit, Resyncs!Switch, Resyncs!Acts
  <2> QED
    BY <1>1, <2>1, NoneRuns, NoRefusal DEF SoundInv
<1>5. CASE \E r \in Resyncs!Repo : Resyncs!Push(r)
  <2>1. at' = "idle" /\ result' = "nothing"
    BY <1>5 DEF Resyncs!Push
  <2> QED
    BY <1>1, <2>1, NoneRuns, NoRefusal DEF SoundInv
<1>6. CASE (\E r \in Resyncs!Repo, b \in Resyncs!Branch, what \in Mates : Resyncs!Mate(r, b, what)) \/ UNCHANGED Resyncs!vars
  <2>1. UNCHANGED <<track, local, on, loose, disk, tagged, saved, entry, Resyncs!command, at, result>>
    BY <1>6 DEF Resyncs!Mate, Resyncs!vars, Resyncs!repos, Resyncs!remotes
  <2> QED
    BY <1>1, <2>1, AsideSound DEF SoundInv
<1> QED
  BY <1>2, <1>3, <1>4, <1>5, <1>6 DEF Resyncs!Next

LEMMA SavedIsReached == ASSUME SoundInv PROVE Resyncs!ResyncIsSound
<1> USE DEF SoundInv
<1>1. ASSUME at = "save"
      PROVE  /\ cmd \in {"pull", "restart", "force", "force private"} =>
                    \A r \in Resyncs!InScope(cmd) : Resyncs!Target \in DOMAIN track[r] => track[r][Resyncs!Target] \subseteq Resyncs!Tip(r)
             /\ cmd = "load" => /\ \A r \in Resyncs!Recorded : on[r] = Resyncs!None /\ Resyncs!Tip(r) = Resyncs!Released
                                /\ Resyncs!Where(Memory) = start[Memory]
             /\ \A r \in Resyncs!InScope(cmd) : Resyncs!Recording[r][1] = "branch" /\ start[r][1] # Resyncs!None => on[r] = Resyncs!Recording[r][2]
  <2>1. todo = {} /\ cmd \in Walks \cup {"load", "restore"} /\ Memory \in Resyncs!Repo /\ Memory \in Hidden
    BY <1>1, ResyncTree DEF ResyncBase, ResyncPhases, RestPhase
  <2>2. /\ \A r \in Resyncs!Repo \ {Memory} : Resyncs!Recording[r] = entry[r]
        /\ Resyncs!Recording[Memory] = IF disk[Memory] /\ on[Memory] # Resyncs!None THEN <<"branch", on[Memory]>> ELSE entry[Memory]
    <3>1. entry \in [Resyncs!Repo -> Landing]
      BY DEF ResyncBase, ResyncTypes, StatesTyped
    <3> QED
      BY <2>1, <3>1 DEF Resyncs!Recording
  <2>3. CASE cmd \in Walks
    <3>1. /\ \A r \in Resyncs!InScope(cmd) : Visited(r) /\ (start[r][1] # Resyncs!None => on[r] # Resyncs!None)
          /\ Resyncs!InScope(cmd) \subseteq Resyncs!Repo
      BY <1>1, <2>1, <2>3, ResyncTree DEF Underway, Walked, ResyncBase, ResyncTypes, RunTyped
    <3>2. \A r \in Resyncs!InScope(cmd) : start[r][1] # Resyncs!None => entry[r][2] = on[r]
      BY <3>1 DEF Visited
    <3>3. \A r \in Resyncs!InScope(cmd) : Resyncs!Target \in DOMAIN track[r] => track[r][Resyncs!Target] \subseteq Resyncs!Tip(r)
      BY <3>1 DEF Visited
    <3>4. \A r \in Resyncs!InScope(cmd) : start[r][1] # Resyncs!None => on[r] = Resyncs!Recording[r][2]
      BY <2>2, <3>1, <3>2
    <3> QED
      BY <2>3, <3>3, <3>4 DEF Walks
  <2>4. CASE cmd = "load"
    <3>1. /\ \A r \in Resyncs!Recorded : on[r] = Resyncs!None /\ loose[r] = Resyncs!Released /\ entry[r] = Resyncs!Ref(r)
          /\ Resyncs!Where(Memory) = start[Memory] /\ entry[Memory] = saved[Memory]
      BY <1>1, <2>4 DEF Underway, Loaded, Loading
    <3>2. \A r \in Resyncs!Recorded : Resyncs!Tip(r) = Resyncs!Released
      BY <3>1 DEF Resyncs!Tip
    <3>3. \A r \in Resyncs!Recorded : Resyncs!Recording[r][1] # "branch"
      BY <2>2, <3>1 DEF Resyncs!Recorded, Resyncs!Ref
    <3>4. start[Memory][1] = on[Memory]
      BY <3>1 DEF Resyncs!Where
    <3>5. start[Memory][1] # Resyncs!None => on[Memory] = Resyncs!Recording[Memory][2]
      <4>1. CASE disk[Memory]
        BY <2>2, <3>4, <4>1
      <4>2. CASE ~disk[Memory]
        BY <2>1, <2>2, <3>1, <4>2 DEF Absent
      <4> QED
        BY <4>1, <4>2
    <3>6. Resyncs!InScope(cmd) = Resyncs!Repo
      BY <2>4 DEF Resyncs!InScope
    <3> QED
      BY <2>4, <3>1, <3>2, <3>3, <3>5, <3>6 DEF Resyncs!Recorded
  <2>5. CASE cmd = "restore"
    <3>1. entry = saved /\ (\A r \in Resyncs!Repo : disk[r] /\ (saved[r][1] = "branch" => on[r] = saved[r][2])) /\ Resyncs!InScope(cmd) = Resyncs!Repo
      BY <1>1, <2>1, <2>5 DEF Underway, Restored, Resyncs!InScope
    <3> QED
      BY <2>1, <2>2, <2>5, <3>1
  <2> QED
    BY <2>1, <2>3, <2>4, <2>5
<1> QED
  BY <1>1 DEF Resyncs!ResyncIsSound, Resyncs!StateIsReached, Resyncs!StateNamesTheBranch

-----------------------------------------------------------------------------
(* The theorems about a workspace that is moved *)

LEMMA ResyncStep ==
    ASSUME [OneRuns]_all, which' = "resync"
    PROVE  which = "resync" /\ [Resyncs!Next]_(Resyncs!vars)
<1>1. CASE UNCHANGED all
  BY <1>1 DEF all, shared, resyncOnly, Resyncs!vars, Resyncs!remotes, Resyncs!repos, Resyncs!command, Resyncs!counts
<1>2. CASE OneRuns
  BY <1>2 DEF OneRuns, Installing, Resyncing
<1> QED
  BY <1>1, <1>2

\* In any tree, and for any number of commands, of Git's failures, of kills and of changes
\* of colleagues, rewritten remotes included: no command takes a commit of the user off
\* every ref of its repository, nor what is not committed out of it and its stash, as long
\* as the user commits neither on a detached HEAD nor while a command runs.
THEOREM OwnWorkIsKept == ASSUME ~During, ~Adrift PROVE Workspaces => OwnWorkKept
<1>1. InitOne => (which = "resync" => WorkInv)
  BY InitWork DEF InitOne
<1>2. (which = "resync" => WorkInv) /\ [OneRuns]_all =>
          (which = "resync" => WorkInv)' /\ (which = "resync" => Resyncs!OwnWorkStays)
  <2> SUFFICES ASSUME which = "resync" => WorkInv, [OneRuns]_all, which' = "resync" \/ which = "resync"
               PROVE  (which' = "resync" => WorkInv') /\ Resyncs!OwnWorkStays
    OBVIOUS
  <2>1. which' = which
    BY DEF OneRuns, Installing, Resyncing, all
  <2>2. WorkInv /\ [Resyncs!Next]_(Resyncs!vars)
    BY <2>1, ResyncStep
  <2>3. WorkInv' /\ Safe
    BY <2>2, WorkKept
  <2> QED
    BY <2>2, <2>3, WorkStays
<1>3. (which = "resync" => WorkInv) /\ [OneRuns]_all => [which = "resync" => Resyncs!OwnWorkStays]_all
  BY <1>2
<1> QED
  BY <1>1, <1>2, <1>3, PTL DEF Workspaces, OwnWorkKept

\* ... and a command that refuses, or that says it put everything back, left every
\* repository where it found it, and a State names branches that are checked out and hold
\* what was fetched: as long as no remote is rewritten and nobody works beside a command.
THEOREM ResyncsAreSound == ASSUME ~During, "rewrite" \notin Mates PROVE Workspaces => []ResyncIsSound
<1>1. InitOne => (which = "resync" => SoundInv)
  BY InitSound DEF InitOne
<1>2. (which = "resync" => SoundInv) /\ [OneRuns]_all => (which = "resync" => SoundInv)'
  BY ResyncStep, SoundKept
<1>3. (which = "resync" => SoundInv) => ResyncIsSound
  BY SavedIsReached DEF ResyncIsSound
<1> QED
  BY <1>1, <1>2, <1>3, PTL DEF Workspaces

=============================================================================
