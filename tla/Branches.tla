------------------------------- MODULE Branches -------------------------------
(****************************************************************************)
(* The life of a project branch in one workspace: created and checked out   *)
(* tree-wide, worked on, closed (renamed to closed/<branch>) and deleted,   *)
(* with what it alone holds kept on the `ancestors` branch first and the    *)
(* move recorded in the ledger.                                             *)
(*                                                                          *)
(* Every command visits the repositories one by one and may stop between    *)
(* any two Git commands; nothing is rolled back, and it is run again.       *)
(* Colleagues push to the same remotes.  A commit is the set of its         *)
(* ancestors' numbers, its own included; a branch that does not exist is    *)
(* at {}.  The repositories are the project's own, numbered leaf-first; all *)
(* of them call the branch by its own name.                                 *)
(****************************************************************************)
EXTENDS Naturals, FiniteSets

CONSTANTS
    NRepos,      \* repositories; the root is the last one
    Branches,    \* the project's branches beside the default one and `ancestors`
    Between,     \* where colleagues push between commands: "main", "live", "closed", "ancestors"
    During,      \* and during one; "own": this user commits during one
    Plain,       \* whether a closed branch may be deleted with plain Git
    Reuse,       \* whether a branch is created again once it was closed
    MaxCommits,  \* bound: no work is committed once that many commits were made
    MaxStops     \* bound: commands killed, or failed at a Git command

Repos == 1..NRepos
Root  == NRepos

Live(b)   == <<"live", b>>
Closed(b) == <<"closed", b>>
Main      == Live("main")
Ancestors == Live("ancestors")
Names     == {Main, Ancestors} \cup {Live(b) : b \in Branches} \cup {Closed(b) : b \in Branches}

Kind(n) == IF n \in {Main, Ancestors} THEN n[2] ELSE n[1]

ASSUME BranchesAssumption ==
    /\ NRepos \in Nat \ {0}
    /\ Branches \cap {"main", "ancestors"} = {}
    /\ Between \subseteq {"main", "live", "closed", "ancestors"}
    /\ During \subseteq {"main", "live", "closed", "ancestors", "own"}
    /\ Plain \in BOOLEAN /\ Reuse \in BOOLEAN
    /\ MaxCommits \in Nat /\ MaxStops \in Nat

VARIABLES
    local,   \* refs/heads of each repository
    seen,    \* refs/remotes/origin of each repository
    remote,  \* the branches origin holds
    on,      \* the branch each repository has checked out
    ledger,  \* the relocations recorded: a tip that `ancestors` keeps
    job,     \* the command that runs, and the branch it is about
    at,      \* the step it takes next
    turn,    \* the repository it visits
    answer,  \* what it found about the branch in each repository
    wanted,  \* the close or delete that was started and is not done
    sealed,  \* what each closed branch held when the close that ended looked at it
    built,   \* commits made so far
    stops

refs == <<local, seen, remote>>
run  == <<job, at, turn, answer, wanted>>
vars == <<refs, on, ledger, run, sealed, built, stops>>

Commit  == SUBSET Nat
Verdict == {"safe", "recorded", "needs_ancestor", "absent"}
Answer  == [verdict : Verdict, tip : Commit, kept : BOOLEAN]
Job     == [cmd : {"none", "create", "checkout", "close", "keep", "delete"}, name : Names]
Steps   == {"idle", "create", "checkout", "inspect", "keep", "send", "record", "look",
            "push_closed", "drop_old", "rename", "verify", "check", "held", "drop", "drop_local",
            "snapshot"}

NoJob    == [cmd |-> "none", name |-> Main]
NoAnswer == [verdict |-> "absent", tip |-> {}, kept |-> FALSE]

Branch(name) == name[2]

\* The commits that are on some branch, here or on origin.
Held(r) == UNION {local[r][n] \cup remote[r][n] : n \in Names}

Init ==
    /\ local = [r \in Repos |-> [n \in Names |-> IF n = Main THEN {0} ELSE {}]]
    /\ seen = local
    /\ remote = local
    /\ on = [r \in Repos |-> Main]
    /\ ledger = {}
    /\ job = NoJob
    /\ at = "idle"
    /\ turn = Root
    /\ answer = [r \in Repos |-> NoAnswer]
    /\ wanted = NoJob
    /\ sealed = [r \in Repos |-> [b \in Branches |-> {}]]
    /\ built = 0
    /\ stops = 0

-----------------------------------------------------------------------------
(* The steps of a command *)

Go(step, r) == at' = step /\ turn' = r

\* A leaf-first sweep goes on from this repository: to the next one, or after
\* the root to what follows it.
Up(step, next) == IF turn = Root THEN Go(next, 1) ELSE Go(step, turn + 1)

\* A parent-first sweep, which ends at the first leaf.
Down(step, next) == IF turn = 1 THEN Go(next, Root) ELSE Go(step, turn - 1)

\* The command ended, was refused or failed here.
Over == Go("idle", Root) /\ job' = NoJob /\ answer' = [r \in Repos |-> NoAnswer]

Begin(cmd, name, step, r) ==
    /\ job = NoJob
    /\ job' = [cmd |-> cmd, name |-> name]
    /\ Go(step, r)

-----------------------------------------------------------------------------
(* Work beside the commands *)

\* The user commits on the branch that is checked out; one that is gone starts again
\* from nothing.
Work(r) ==
    /\ built < MaxCommits
    /\ job = NoJob \/ "own" \in During
    /\ built' = built + 1
    /\ local' = [local EXCEPT ![r][on[r]] = @ \cup {built + 1}]
    /\ UNCHANGED <<seen, remote, on, ledger, run, sealed, stops>>

\* The user pushes it: never forced.
Publish(r) ==
    LET n == on[r] IN
    /\ job = NoJob
    /\ remote[r][n] \subseteq local[r][n]
    /\ remote[r][n] # local[r][n]
    /\ remote' = [remote EXCEPT ![r][n] = local[r][n]]
    /\ seen' = [seen EXCEPT ![r][n] = local[r][n]]
    /\ UNCHANGED <<local, on, ledger, run, sealed, built, stops>>

\* A colleague pushes a commit to n, or pushes n for the first time.
Colleague(r, n) ==
    /\ built < MaxCommits
    /\ Kind(n) \in During \cup (IF job = NoJob THEN Between ELSE {})
    /\ built' = built + 1
    /\ remote' = [remote EXCEPT ![r][n] =
                    (IF @ = {} /\ n # Ancestors THEN remote[r][Main] ELSE @) \cup {built + 1}]
    /\ UNCHANGED <<local, seen, on, ledger, run, sealed, stops>>

\* A branch that was closed is deleted with plain Git, while it holds what it
\* held when its close looked at it.
PlainDelete(r, b) ==
    LET n == Closed(b) IN
    /\ Plain
    /\ job = NoJob
    /\ on[r] # n
    /\ local[r][n] \cup remote[r][n] # {}
    /\ local[r][n] \cup remote[r][n] \subseteq sealed[r][b]
    /\ local' = [local EXCEPT ![r][n] = {}]
    /\ remote' = [remote EXCEPT ![r][n] = {}]
    /\ seen' = [seen EXCEPT ![r][n] = {}]
    /\ UNCHANGED <<on, ledger, run, sealed, built, stops>>

-----------------------------------------------------------------------------
(* branch create and checkout *)

Exists(r, n) == local[r][n] \cup remote[r][n] # {}
WasClosed(b) == \E r \in Repos : Exists(r, Closed(b)) \/ sealed[r][b] # {}

\* `branch create` makes the branch everywhere; `checkout` then moves to it, and is
\* worth running where a repository is not on it.  A closed branch is checked out only
\* once there is one, and without Reuse a name that was closed is not taken again.
StartCreate(cmd, n) ==
    /\ \E r \in Repos : (cmd = "create" /\ local[r][n] = {}) \/ (cmd = "checkout" /\ on[r] # n)
    /\ Kind(n) = "closed" => \E r \in Repos : Exists(r, n)
    /\ \A b \in Branches : n = Live(b) /\ WasClosed(b) => Reuse
    /\ Begin(cmd, n, "create", Root)
    /\ UNCHANGED <<refs, on, ledger, answer, wanted, sealed, built, stops>>

\* Mutant: origin is not asked for a branch that was never fetched.
StartPointUnasked(r, n) == IF seen[r][n] # {} THEN seen[r][n] ELSE local[r][on[r]]

\* Where create_global_branch starts a branch the repository lacks, having
\* asked origin for one it never fetched: there, else at HEAD.
StartPoint(r, n) ==
    IF seen[r][n] # {} THEN seen[r][n]
    ELSE IF remote[r][n] # {} THEN remote[r][n] ELSE local[r][on[r]]

Create ==
    LET n == job.name IN
    /\ at = "create"
    /\ IF local[turn][n] # {} THEN UNCHANGED refs
       ELSE /\ local' = [local EXCEPT ![turn][n] = StartPoint(turn, n)]
            /\ seen' = [seen EXCEPT ![turn][n] = IF @ = {} THEN remote[turn][n] ELSE @]
            /\ UNCHANGED remote
    /\ IF local[turn][n] \cup StartPoint(turn, n) = {} \/ (turn = 1 /\ job.cmd = "create")
       THEN Over
       ELSE Down("create", "checkout") /\ UNCHANGED <<job, answer>>
    /\ UNCHANGED <<on, ledger, wanted, sealed, built, stops>>

Checkout ==
    /\ at = "checkout"
    /\ on' = [on EXCEPT ![turn] = job.name]
    /\ IF turn = 1 THEN Over ELSE Down("checkout", "idle") /\ UNCHANGED <<job, answer>>
    /\ UNCHANGED <<refs, ledger, wanted, sealed, built, stops>>

-----------------------------------------------------------------------------
(* branch close and branch delete: the start *)

\* Whether the project has the branch, by what its root holds and last fetched.
Known(n) == local[Root][n] \cup seen[Root][n] # {}

\* _closed_or_live: closed/<branch> is the closed one; a bare name is the live
\* branch when the project has one, else the closed one if there is one.
MeansClosed(b, explicit) == explicit \/ (~Known(Live(b)) /\ Known(Closed(b)))

\* close_branch: a live branch is renamed, and refused while a repository is on
\* it (assert_closeable); of a closed one only what it alone holds is kept.
StartClose(b, explicit) ==
    /\ IF MeansClosed(b, explicit) THEN Begin("keep", Closed(b), "inspect", 1)
       ELSE /\ \A r \in Repos : on[r] # Live(b)
            /\ Begin("close", Live(b), "inspect", 1)
    /\ wanted' = job'
    /\ UNCHANGED <<refs, on, ledger, answer, sealed, built, stops>>

StartDelete(b, explicit) ==
    /\ MeansClosed(b, explicit)
    /\ Begin("delete", Closed(b), "inspect", 1)
    /\ wanted' = job'
    /\ UNCHANGED <<refs, on, ledger, answer, sealed, built, stops>>

-----------------------------------------------------------------------------
(* AncestorOperation.inspect: what the branch alone holds *)

Relocation(r) == [repo |-> r, tip |-> answer[r].tip]

\* Neither of two copies of a branch holds the other.
Diverged(here, there) == ~(here \subseteq there) /\ ~(there \subseteq here)

\* Mutant: the branch itself counts among the others.
ElsewhereOrHere(r, n) == UNION {local[r][m] \cup remote[r][m] : m \in Names \ {Ancestors}}

\* What holds commits beside the branch and `ancestors`, here or on origin.
Elsewhere(r, n) == UNION {local[r][m] \cup remote[r][m] : m \in Names \ {n, Ancestors}}

Inspected(r, n) ==
    LET tip  == local[r][n] \cup remote[r][n]
        kept == tip \subseteq local[r][Ancestors] \/ tip \subseteq remote[r][Ancestors] IN
    IF tip = {} THEN NoAnswer
    ELSE [tip |-> tip, kept |-> kept,
          verdict |-> IF tip \subseteq Elsewhere(r, n) THEN "safe"
                      ELSE IF kept /\ [repo |-> r, tip |-> tip] \in ledger THEN "recorded"
                      ELSE "needs_ancestor"]

\* Origin is fetched first, pruned: what was fetched is what origin holds.  Copies
\* that diverged are refused (_single_tip).  A delete inspects again before it deletes.
Inspect ==
    /\ at \in {"inspect", "check"}
    /\ seen' = [seen EXCEPT ![turn] = remote[turn]]
    /\ IF Diverged(local[turn][job.name], remote[turn][job.name]) THEN Over
       ELSE /\ answer' = [answer EXCEPT ![turn] = Inspected(turn, job.name)]
            /\ IF at = "check" THEN Up(at, "held") ELSE Up(at, "keep")
            /\ UNCHANGED job
    /\ UNCHANGED <<local, remote, on, ledger, wanted, sealed, built, stops>>

\* Mutants: a close leaves the keeping to the delete; the root alone is asked.
NeedingUnlessClosing ==
    {r \in Repos : job.cmd # "close" /\ answer[r].verdict = "needs_ancestor"}
NeedingInRoot == {r \in {Root} : answer[r].verdict = "needs_ancestor"}

Needing == {r \in Repos : answer[r].verdict = "needs_ancestor"}

-----------------------------------------------------------------------------
(* AncestorOperation.persist, and the entry that records it *)

\* The local and origin copies of `ancestors`: the one that holds the other.
Base(r) == local[r][Ancestors] \cup seen[r][Ancestors]

\* `ancestors` starts as an empty root commit; a tip is kept by a merge.
Keep ==
    /\ at = "keep"
    /\ IF turn \notin Needing
       THEN Up("keep", "record") /\ UNCHANGED <<local, job, answer, built>>
       ELSE IF Diverged(local[turn][Ancestors], seen[turn][Ancestors]) THEN Over /\ UNCHANGED <<local, built>>
       ELSE LET made == (IF Base(turn) = {} THEN {built + 1} ELSE {})
                          \cup (IF answer[turn].kept THEN {} ELSE answer[turn].tip \cup {built + 2})
            IN  /\ local' = [local EXCEPT ![turn][Ancestors] = Base(turn) \cup made]
                /\ built' = IF answer[turn].kept THEN built ELSE built + 2
                /\ Go("send", turn)
                /\ UNCHANGED <<job, answer>>
    /\ UNCHANGED <<seen, remote, on, ledger, wanted, sealed, stops>>

\* Mutants: the push is forced; a rejected push is not an error.
SendForced ==
    /\ at = "send"
    /\ remote' = [remote EXCEPT ![turn][Ancestors] = local[turn][Ancestors]]
    /\ seen' = [seen EXCEPT ![turn][Ancestors] = local[turn][Ancestors]]
    /\ Up("keep", "record")
    /\ UNCHANGED <<local, on, ledger, job, answer, wanted, sealed, built, stops>>

SendUnchecked ==
    /\ at = "send"
    /\ IF remote[turn][Ancestors] \subseteq local[turn][Ancestors]
       THEN /\ remote' = [remote EXCEPT ![turn][Ancestors] = local[turn][Ancestors]]
            /\ seen' = [seen EXCEPT ![turn][Ancestors] = local[turn][Ancestors]]
       ELSE UNCHANGED <<seen, remote>>
    /\ Up("keep", "record")
    /\ UNCHANGED <<local, on, ledger, job, answer, wanted, sealed, built, stops>>

\* push_ref_as, a plain fast-forward.
Send ==
    /\ at = "send"
    /\ IF remote[turn][Ancestors] \subseteq local[turn][Ancestors]
       THEN /\ remote' = [remote EXCEPT ![turn][Ancestors] = local[turn][Ancestors]]
            /\ seen' = [seen EXCEPT ![turn][Ancestors] = local[turn][Ancestors]]
            /\ Up("keep", "record")
            /\ UNCHANGED <<job, answer>>
       ELSE Over /\ UNCHANGED <<seen, remote>>
    /\ UNCHANGED <<local, on, ledger, wanted, sealed, built, stops>>

Resolves(m) ==
    \/ m.tip \subseteq local[m.repo][Ancestors]
    \/ m.tip \subseteq seen[m.repo][Ancestors]

After == [close |-> "look", keep |-> "snapshot", delete |-> "verify"][job.cmd]

\* One entry records every move; the history must then verify.  Nothing is
\* written when nothing had to be kept.
Record ==
    /\ at = "record"
    /\ ledger' = ledger \cup {Relocation(r) : r \in Needing}
    /\ IF Needing = {} \/ \A m \in ledger' : Resolves(m)
       THEN Go(After, 1) /\ UNCHANGED <<job, answer>>
       ELSE Over
    /\ UNCHANGED <<refs, on, wanted, sealed, built, stops>>

-----------------------------------------------------------------------------
(* BranchOperation._close_one: the rename, in each repository *)

Renamed == Up("look", "snapshot")

\* Mutant: a repository with no such branch is an error.
LookStrictly ==
    LET published == remote[turn][job.name] # {} IN
    /\ at = "look"
    /\ IF ~published /\ local[turn][job.name] = {} THEN Over
       ELSE Go(IF published THEN "push_closed" ELSE "rename", turn) /\ UNCHANGED <<job, answer>>
    /\ UNCHANGED <<refs, on, ledger, wanted, sealed, built, stops>>

\* What the repository holds of the branch, and whether origin has more.
Look ==
    LET n == job.name
        published == remote[turn][n] # {} IN
    /\ at = "look"
    /\ seen' = [seen EXCEPT ![turn][n] = IF published THEN remote[turn][n] ELSE @]
    /\ \/ /\ ~published /\ local[turn][n] = {}
          /\ Renamed /\ UNCHANGED <<job, answer>>
       \/ /\ ~published /\ local[turn][n] # {}
          /\ Go("rename", turn) /\ UNCHANGED <<job, answer>>
       \/ /\ published /\ local[turn][n] # {} /\ ~(remote[turn][n] \subseteq local[turn][n])
          /\ Over
       \/ /\ published /\ (local[turn][n] = {} \/ remote[turn][n] \subseteq local[turn][n])
          /\ Go("push_closed", turn) /\ UNCHANGED <<job, answer>>
    /\ UNCHANGED <<local, remote, on, ledger, wanted, sealed, built, stops>>

PushClosed ==
    LET n == job.name
        c == Closed(Branch(n))
        pushed == IF local[turn][n] # {} THEN local[turn][n] ELSE seen[turn][n] IN
    /\ at = "push_closed"
    /\ IF remote[turn][c] \subseteq pushed
       THEN /\ remote' = [remote EXCEPT ![turn][c] = pushed]
            /\ seen' = [seen EXCEPT ![turn][c] = pushed]
            /\ Go("drop_old", turn)
            /\ UNCHANGED <<job, answer>>
       ELSE Over /\ UNCHANGED <<seen, remote>>
    /\ UNCHANGED <<local, on, ledger, wanted, sealed, built, stops>>

DropOld ==
    LET n == job.name IN
    /\ at = "drop_old"
    /\ remote' = [remote EXCEPT ![turn][n] = {}]
    /\ seen' = [seen EXCEPT ![turn][n] = {}]
    /\ IF local[turn][n] # {} THEN Go("rename", turn) ELSE Renamed
    /\ UNCHANGED <<local, on, ledger, job, answer, wanted, sealed, built, stops>>

\* Mutant: git branch -M.
RenameForced ==
    LET n == job.name IN
    /\ at = "rename"
    /\ local' = [local EXCEPT ![turn][Closed(Branch(n))] = local[turn][n], ![turn][n] = {}]
    /\ Renamed
    /\ UNCHANGED <<seen, remote, on, ledger, job, answer, wanted, sealed, built, stops>>

\* git branch -m: refused when the closed name is taken here.
Rename ==
    LET n == job.name
        c == Closed(Branch(n)) IN
    /\ at = "rename"
    /\ IF local[turn][c] = {}
       THEN /\ local' = [local EXCEPT ![turn][c] = local[turn][n], ![turn][n] = {}]
            /\ Renamed
            /\ UNCHANGED <<job, answer>>
       ELSE Over /\ UNCHANGED local
    /\ UNCHANGED <<seen, remote, on, ledger, wanted, sealed, built, stops>>

-----------------------------------------------------------------------------
(* delete_branch: the last checks and the deletion *)

Verify ==
    /\ at = "verify"
    /\ IF \A m \in ledger : Resolves(m) THEN Go("check", 1) /\ UNCHANGED <<job, answer>>
       ELSE Over
    /\ UNCHANGED <<refs, on, ledger, wanted, sealed, built, stops>>

\* Origin may lag the tip that was checked, never lead it.
AsChecked(r, n) == remote[r][n] \subseteq answer[r].tip

CheckHeld ==
    /\ at = "held"
    /\ IF Needing = {} /\ (answer[turn].verdict = "absent" \/ AsChecked(turn, job.name))
       THEN Up("held", "drop") /\ UNCHANGED <<job, answer>>
       ELSE Over
    /\ UNCHANGED <<refs, on, ledger, wanted, sealed, built, stops>>

Drop ==
    LET n == job.name IN
    /\ at = "drop"
    /\ IF answer[turn].verdict = "absent"
       THEN Up("drop", "snapshot") /\ UNCHANGED refs
       ELSE /\ remote' = [remote EXCEPT ![turn][n] = {}]
            /\ seen' = [seen EXCEPT ![turn][n] = IF remote[turn][n] = {} THEN @ ELSE {}]
            /\ Go("drop_local", turn)
            /\ UNCHANGED local
    /\ UNCHANGED <<on, ledger, job, answer, wanted, sealed, built, stops>>

\* The commit expected there is read just before.
DropLocal ==
    /\ at = "drop_local"
    /\ local' = [local EXCEPT ![turn][job.name] = {}]
    /\ Up("drop", "snapshot")
    /\ UNCHANGED <<seen, remote, on, ledger, job, answer, wanted, sealed, built, stops>>

\* The command is done, and writes the State.
Snapshot ==
    LET b == Branch(job.name) IN
    /\ at = "snapshot"
    /\ Over
    /\ wanted' = NoJob
    /\ sealed' = [r \in Repos |-> [sealed[r] EXCEPT ![b] =
                     IF answer[r].verdict = "absent" THEN @ ELSE answer[r].tip]]
    /\ UNCHANGED <<refs, on, ledger, built, stops>>

\* The command is killed, or what it asked Git failed.
Stop ==
    /\ job # NoJob
    /\ stops < MaxStops
    /\ stops' = stops + 1
    /\ Over
    /\ UNCHANGED <<refs, on, ledger, wanted, sealed, built>>

-----------------------------------------------------------------------------
Step ==
    \/ Create \/ Checkout
    \/ Inspect \/ Keep \/ Send \/ Record
    \/ Look \/ PushClosed \/ DropOld \/ Rename
    \/ Verify \/ CheckHeld \/ Drop \/ DropLocal
    \/ Snapshot

Start ==
    \/ \E b \in Branches : StartCreate("create", Live(b))
    \/ \E n \in Names \ {Ancestors} : StartCreate("checkout", n)
    \/ \E b \in Branches, explicit \in BOOLEAN : StartClose(b, explicit) \/ StartDelete(b, explicit)

Beside ==
    \/ \E r \in Repos : Work(r) \/ Publish(r)
    \/ \E r \in Repos, n \in Names : Colleague(r, n)
    \/ \E r \in Repos, b \in Branches : PlainDelete(r, b)

Next == Step \/ Start \/ Beside \/ Stop

Spec == Init /\ [][Next]_vars

\* The command that was cut short, as its user wrote it: `branch close b` may find the
\* branch closed already.
Rerun ==
    LET b == Branch(wanted.name) IN
    \/ wanted.cmd = "close" /\ StartClose(b, FALSE)
    \/ wanted.cmd = "keep" /\ StartClose(b, TRUE)
    \/ wanted.cmd = "delete" /\ StartDelete(b, TRUE)

\* Its user runs it again before any other command.
Again == job = NoJob /\ wanted # NoJob /\ job' # NoJob => Rerun

RetrySpec == Init /\ [][Next /\ Again]_vars /\ WF_vars(Step) /\ WF_vars(Rerun)

-----------------------------------------------------------------------------
(* Properties *)

TypeOK ==
    /\ local \in [Repos -> [Names -> Commit]]
    /\ seen \in [Repos -> [Names -> Commit]]
    /\ remote \in [Repos -> [Names -> Commit]]
    /\ on \in [Repos -> Names]
    /\ ledger \subseteq [repo : Repos, tip : Commit]
    /\ job \in Job /\ wanted \in Job
    /\ at \in Steps /\ turn \in Repos
    /\ answer \in [Repos -> Answer]
    /\ sealed \in [Repos -> [Branches -> Commit]]
    /\ built \in Nat /\ stops \in 0..MaxStops

\* No commit that is on a branch, here or on origin, ever leaves them all.
HeldStays == \A r \in Repos : Held(r) \subseteq Held(r)'
NothingLost == [][HeldStays]_vars

\* While a branch is closed, every commit that origin held stays reachable under
\* some name there.
Published(r) == UNION {remote[r][n] : n \in Names}

CloseKeepsPublished ==
    [][job.cmd = "close" => \A r \in Repos : Published(r) \subseteq Published(r)']_vars

\* A move the ledger records is kept on origin's `ancestors`, not only here.
RecordedIsPublic == \A m \in ledger : m.tip \subseteq remote[m.repo][Ancestors]

\* Nothing is deleted anywhere before what the branch holds in every repository
\* is held under another name.
DeletesOnlyWhenAllKept ==
    at \in {"drop", "drop_local"} =>
        \A r \in Repos : local[r][job.name] \cup remote[r][job.name] \subseteq
            UNION {local[r][n] \cup remote[r][n] : n \in Names \ {job.name}}

\* A branch made here where origin has one of that name joins it.
JoinsThere ==
    \A r \in Repos, n \in Names :
        local[r][n] = {} /\ local'[r][n] # {} /\ remote[r][n] # {} /\ at = "create"
            => local'[r][n] \subseteq remote[r][n]
JoinsRemote == [][JoinsThere]_vars

\* A close or a delete cut short ends when it is run again.
RetryEnds == wanted # NoJob ~> wanted = NoJob

===============================================================================
