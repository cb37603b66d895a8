-------------------------------- MODULE Release --------------------------------
(****************************************************************************)
(* `cgitsync release freeze`: one release of a tree, tried from several     *)
(* machines and tried again when it stopped part-way.                       *)
(*                                                                          *)
(* A run stages and commits the project's repositories, pulls every         *)
(* repository, pushes the project's branches, then visits every writable    *)
(* repository leaf-first: whatever is left is committed there, the          *)
(* repository is tagged, its branch is pushed when this very step committed *)
(* in it, and its tag is pushed.  The root is last and its tag is annotated *)
(* with the commit of every project repository: it says that the release is *)
(* complete.  A failure anywhere ends the run and nothing is rolled back.   *)
(*                                                                          *)
(* A commit is the set of its ancestors' numbers, its own included; one     *)
(* branch per repository, which names an upstream.  The release's name is   *)
(* the same in every run: it is the version the root's pixi.toml declares.  *)
(****************************************************************************)
EXTENDS Naturals, FiniteSets

CONSTANTS
    Machines,   \* workspaces of the same tree
    NRepos,     \* repositories, numbered leaf-first: the root is the last one
    Private,    \* the writable configuration repositories among them
    None,       \* the root carries no release tag
    Edits,      \* when files are edited, once a tag exists: "between" runs, "during" one
    MaxEdits,   \* bound: edits in all
    Faults,     \* the steps of a run that may fail
    MaxFaults   \* bound: how many of them do

Repos   == 1..NRepos
Root    == NRepos
Leaves  == Repos \ {Root}
Project == Repos \ Private
Steps   == {"add", "commit", "pull", "check push", "push", "check tag", "freeze", "tag",
            "branch", "send tag", "annotate", "send root tag", "record"}

ASSUME ReleaseAssumption ==
    /\ NRepos \in Nat \ {0}
    /\ Private \subseteq Leaves
    /\ Edits \subseteq {"between", "during"}
    /\ MaxEdits \in Nat /\ MaxFaults \in Nat
    /\ Faults \subseteq Steps \cup {"fetch"}

VARIABLES
    head,       \* the branch of each repository on each machine
    seen,       \* its remote-tracking branch there
    branch,     \* the branch on the remote
    work,       \* what the worktree holds uncommitted: "edited", "staged"
    tag,        \* the release tag of each leaf on each machine, {} when there is none
    rtag,       \* the same on the remote
    mark,       \* the root's annotated tag on each machine
    rmark,      \* the same on the remote
    row,        \* machines whose ledger records the release
    at,         \* the step each machine's run takes next, "idle" when none runs
    turn,       \* the repository its sweep visits
    committed,  \* machines whose visit of the current one committed
    built,      \* commits made so far
    edits, faults

repos == <<head, seen, branch, work>>
tags  == <<tag, rtag, mark, rmark>>
run   == <<at, turn, committed>>
vars  == <<repos, tags, row, run, built, edits, faults>>

Commit == SUBSET Nat  \* of which {} is no commit
Mark   == [by : Machines, at : Commit, notes : [Project -> Commit]]

ASSUME NoneAssumption == None \notin Mark

Init ==
    /\ head = [m \in Machines |-> [r \in Repos |-> {0}]]
    /\ seen = [m \in Machines |-> [r \in Repos |-> {0}]]
    /\ branch = [r \in Repos |-> {0}]
    /\ work = [m \in Machines |-> [r \in Repos |-> {}]]
    /\ tag = [m \in Machines |-> [r \in Leaves |-> {}]]
    /\ rtag = [r \in Leaves |-> {}]
    /\ mark = [m \in Machines |-> None]
    /\ rmark = None
    /\ row = {}
    /\ at = [m \in Machines |-> "idle"]
    /\ turn = [m \in Machines |-> Root]
    /\ committed = {}
    /\ built = 0
    /\ edits = 0
    /\ faults = 0

\* git commit in r on machine m, of what `with` holds beside the branch.
NewCommit(m, r, with) ==
    /\ built' = built + 1
    /\ head' = [head EXCEPT ![m][r] = @ \cup with \cup {built + 1}]

\* The commit m's release tag names in r: {} when r carries none.
Tagged(m, r) ==
    IF r # Root THEN tag[m][r]
    ELSE IF mark[m] = None THEN {} ELSE mark[m].at

Go(m, step, r) ==
    /\ at' = [at EXCEPT ![m] = step]
    /\ turn' = [turn EXCEPT ![m] = r]

\* A leaf-first sweep goes on to the next repository, or after the root to what
\* follows.  A repository out of its scope is visited and left alone.
Visited(m, next) ==
    IF turn[m] = Root THEN Go(m, next, 1) ELSE Go(m, at[m], turn[m] + 1)

\* The run is over: it ended, was refused, or failed at this step.
Fail(m) == Go(m, "idle", Root) /\ committed' = committed \ {m}

-----------------------------------------------------------------------------
(* Outside the run *)

\* Somebody changes files of r.
Edit(m, r) ==
    /\ edits < MaxEdits
    /\ at[m] = "idle" \/ "during" \in Edits
    /\ (\A q \in Repos : Tagged(m, q) = {}) \/ Edits # {}
    /\ edits' = edits + 1
    /\ work' = [work EXCEPT ![m][r] = @ \cup {"edited"}]
    /\ UNCHANGED <<head, seen, branch, tags, row, run, built, faults>>

\* A branch the pull left behind its remote is pulled or merged by hand.
Reconcile(m, r) ==
    /\ at[m] = "idle"
    /\ ~(seen[m][r] \subseteq head[m][r])
    /\ IF head[m][r] \subseteq seen[m][r]
       THEN head' = [head EXCEPT ![m][r] = seen[m][r]] /\ UNCHANGED built
       ELSE NewCommit(m, r, seen[m][r])
    /\ UNCHANGED <<seen, branch, work, tags, row, run, edits, faults>>

-----------------------------------------------------------------------------
(* freeze_release: the plan, the refusal, add, commit, pull and push *)

\* Mutant of Taken: a tag says the release was made, wherever it points.
TakenByAnyTag(m) == \E r \in Repos : Tagged(m, r) # {}

\* _refuse_taken: the root holds the tag, or another repository does and it is
\* not an earlier run of this release with nothing left to commit there.
Taken(m) ==
    \E r \in Repos :
        /\ Tagged(m, r) # {}
        /\ r = Root \/ work[m][r] # {} \/ Tagged(m, r) # head[m][r]

\* next_release_tag lists the releases, which fetches the root's tags; a
\* failing fetch is only logged, and a tag that is here already stays.
Start(m) ==
    /\ at[m] = "idle"
    /\ \/ mark' = [mark EXCEPT ![m] = IF @ = None THEN rmark ELSE @]
       \/ "fetch" \in Faults /\ mark' = mark
    /\ UNCHANGED <<repos, tag, rtag, rmark, row, committed, built, edits, faults>>
    /\ IF Taken(m)' THEN UNCHANGED <<at, turn>> ELSE Go(m, "add", Root)

\* add_tree, then commit_tree's preflight.
Add(m) ==
    /\ at[m] = "add"
    /\ work' = [work EXCEPT ![m] = [r \in Repos |->
          IF r \in Project /\ @[r] # {} THEN {"staged"} ELSE @[r]]]
    /\ IF \E r \in Project : ~(seen[m][r] \subseteq head[m][r])
       THEN Fail(m)
       ELSE Go(m, "commit", 1) /\ UNCHANGED committed
    /\ UNCHANGED <<head, seen, branch, tags, row, built, edits, faults>>

CommitRepo(m) ==
    /\ at[m] = "commit"
    /\ LET r == turn[m] IN
          /\ IF r \in Project /\ "staged" \in work[m][r]
             THEN /\ NewCommit(m, r, {})
                  /\ work' = [work EXCEPT ![m][r] = @ \ {"staged"}]
             ELSE UNCHANGED <<head, built, work>>
          /\ IF r = Root THEN Go(m, "pull", Root) ELSE Go(m, "commit", r + 1)
    /\ UNCHANGED <<seen, branch, tags, row, committed, edits, faults>>

\* restart_tree visits the root first.  Each fetch also brings the tags of
\* commits it fetches or that are here already; the pull is fast-forward only.
Pull(m) ==
    /\ at[m] = "pull"
    /\ LET r == turn[m]
           here(c) == c \subseteq branch[r] \/ c \subseteq head[m][r]
       IN /\ seen' = [seen EXCEPT ![m][r] = branch[r]]
          /\ tag' = IF r # Root /\ Tagged(m, r) = {} /\ here(rtag[r])
                    THEN [tag EXCEPT ![m][r] = rtag[r]] ELSE tag
          /\ mark' = IF r = Root /\ mark[m] = None /\ rmark # None /\ here(rmark.at)
                     THEN [mark EXCEPT ![m] = rmark] ELSE mark
          /\ IF head[m][r] \subseteq branch[r] \/ branch[r] \subseteq head[m][r]
             THEN /\ head' = [head EXCEPT ![m][r] = @ \cup branch[r]]
                  /\ IF r = 1 THEN Go(m, "check push", Root) ELSE Go(m, "pull", r - 1)
                  /\ UNCHANGED committed
             ELSE Fail(m) /\ UNCHANGED head
    /\ UNCHANGED <<branch, work, rtag, rmark, row, built, edits, faults>>

UpToDate(m, scope) == \A r \in scope : seen[m][r] \subseteq head[m][r]

CheckPush(m) ==
    /\ at[m] = "check push"
    /\ IF UpToDate(m, Project) THEN Go(m, "push", 1) /\ UNCHANGED committed
                               ELSE Fail(m)
    /\ UNCHANGED <<repos, tags, row, built, edits, faults>>

\* Mutant of PushBranch: git push --force.
PushBranchForced(m, r) ==
    /\ branch' = [branch EXCEPT ![r] = head[m][r]]
    /\ seen' = [seen EXCEPT ![m][r] = head[m][r]]

\* git push of the branch, which the remote takes as a fast-forward only.
PushBranch(m, r) ==
    /\ branch[r] \subseteq head[m][r]
    /\ branch' = [branch EXCEPT ![r] = head[m][r]]
    /\ seen' = [seen EXCEPT ![m][r] = head[m][r]]

Push(m) ==
    /\ at[m] = "push"
    /\ LET r == turn[m] IN
          \/ /\ r \notin Project
             /\ Visited(m, "check tag")
             /\ UNCHANGED <<branch, seen, committed>>
          \/ /\ r \in Project
             /\ PushBranch(m, r)
             /\ Visited(m, "check tag")
             /\ UNCHANGED committed
          \/ /\ r \in Project
             /\ ~(branch[r] \subseteq head[m][r])
             /\ Fail(m)
             /\ UNCHANGED <<branch, seen>>
    /\ UNCHANGED <<head, work, tags, row, built, edits, faults>>

-----------------------------------------------------------------------------
(* freeze_release_tree, over every writable repository *)

\* Mutant of TagsAtHead: a tag that exists is not compared with HEAD.
TagsTrusted(m) == TRUE

TagsAtHead(m) == \A r \in Repos : Tagged(m, r) \in {{}, head[m][r]}

CheckTag(m) ==
    /\ at[m] = "check tag"
    /\ IF UpToDate(m, Repos) /\ TagsAtHead(m)
       THEN Go(m, "freeze", 1) /\ UNCHANGED committed
       ELSE Fail(m)
    /\ UNCHANGED <<repos, tags, row, built, edits, faults>>

\* stage_all, then the commit.
Freeze(m) ==
    /\ at[m] = "freeze"
    /\ LET r == turn[m] IN
          /\ IF work[m][r] # {}
             THEN /\ NewCommit(m, r, {})
                  /\ work' = [work EXCEPT ![m][r] = {}]
                  /\ committed' = committed \cup {m}
             ELSE /\ committed' = committed \ {m}
                  /\ UNCHANGED <<head, built, work>>
          /\ Go(m, IF r = Root THEN "branch" ELSE "tag", r)
    /\ UNCHANGED <<seen, branch, tags, row, edits, faults>>

\* A tag that is held is kept.
TagRepo(m) ==
    /\ at[m] = "tag"
    /\ LET r == turn[m] IN
          tag' = [tag EXCEPT ![m][r] = IF @ = {} THEN head[m][r] ELSE @]
    /\ Go(m, "branch", turn[m])
    /\ UNCHANGED <<repos, rtag, mark, rmark, row, committed, built, edits, faults>>

\* The branch goes with the tag when this visit committed, and only then.
FreezeBranch(m) ==
    /\ at[m] = "branch"
    /\ LET r == turn[m] IN
          IF m \in committed /\ ~(branch[r] \subseteq head[m][r])
          THEN Fail(m) /\ UNCHANGED <<branch, seen>>
          ELSE /\ IF m \in committed THEN PushBranch(m, r) ELSE UNCHANGED <<branch, seen>>
               /\ Go(m, IF r = Root THEN "annotate" ELSE "send tag", r)
               /\ UNCHANGED committed
    /\ UNCHANGED <<head, work, tags, row, built, edits, faults>>

\* Mutant of SendTag: the push is not checked.
SendTagUnchecked(m) ==
    /\ at[m] = "send tag"
    /\ LET r == turn[m] IN
          /\ rtag' = [rtag EXCEPT ![r] = IF @ = {} THEN tag[m][r] ELSE @]
          /\ Go(m, "freeze", r + 1)
    /\ UNCHANGED <<repos, tag, mark, rmark, row, committed, built, edits, faults>>

\* A remote that has the tag refuses another one of that name.
SendTag(m) ==
    /\ at[m] = "send tag"
    /\ LET r == turn[m] IN
          IF rtag[r] \in {{}, tag[m][r]}
          THEN /\ rtag' = [rtag EXCEPT ![r] = tag[m][r]]
               /\ Go(m, "freeze", r + 1)
               /\ UNCHANGED committed
          ELSE Fail(m) /\ UNCHANGED rtag
    /\ UNCHANGED <<repos, tag, mark, rmark, row, built, edits, faults>>

\* The root's own tag, made once every commit is final.
Annotate(m) ==
    /\ at[m] = "annotate"
    /\ IF mark[m] = None
       THEN /\ mark' = [mark EXCEPT ![m] = [by |-> m, at |-> head[m][Root],
                                            notes |-> [r \in Project |-> head[m][r]]]]
            /\ Go(m, "send root tag", Root)
            /\ UNCHANGED committed
       ELSE Fail(m) /\ UNCHANGED mark
    /\ UNCHANGED <<repos, tag, rtag, rmark, row, built, edits, faults>>

\* Mutant of SendRootTag: the push is not checked.
SendRootTagUnchecked(m) ==
    /\ at[m] = "send root tag"
    /\ rmark' = IF rmark = None THEN mark[m] ELSE rmark
    /\ Go(m, "record", Root)
    /\ UNCHANGED <<repos, tag, rtag, mark, row, committed, built, edits, faults>>

SendRootTag(m) ==
    /\ at[m] = "send root tag"
    /\ IF rmark \in {None, mark[m]}
       THEN /\ rmark' = mark[m]
            /\ Go(m, "record", Root)
            /\ UNCHANGED committed
       ELSE Fail(m) /\ UNCHANGED rmark
    /\ UNCHANGED <<repos, tag, rtag, mark, row, built, edits, faults>>

\* write_gts_snapshot: the ledger entry carries the release row.
Record(m) ==
    /\ at[m] = "record"
    /\ row' = row \cup {m}
    /\ Fail(m)
    /\ UNCHANGED <<repos, tags, built, edits, faults>>

\* The step fails, or the process is killed before it: the run is over.  A pull
\* may fail after its fetch.
Stop(m) ==
    /\ at[m] \in Faults
    /\ faults < MaxFaults
    /\ faults' = faults + 1
    /\ Fail(m)
    /\ \/ UNCHANGED seen
       \/ at[m] = "pull" /\ seen' = [seen EXCEPT ![m][turn[m]] = branch[turn[m]]]
    /\ UNCHANGED <<head, branch, work, tags, row, built, edits>>

-----------------------------------------------------------------------------
Step(m) ==
    \/ Add(m) \/ CommitRepo(m) \/ Pull(m) \/ CheckPush(m) \/ Push(m)
    \/ CheckTag(m) \/ Freeze(m) \/ TagRepo(m) \/ FreezeBranch(m) \/ SendTag(m)
    \/ Annotate(m) \/ SendRootTag(m) \/ Record(m)

Next ==
    \E m \in Machines :
        \/ \E r \in Repos : Edit(m, r) \/ Reconcile(m, r)
        \/ Start(m) \/ Step(m) \/ Stop(m)

Spec == Init /\ [][Next]_vars

(* A run that goes on is scheduled; and whoever was told to run the command *)
(* again does so (TreePartialFailure's "run '...' again").                   *)
RetrySpec == Spec /\ \A m \in Machines : WF_vars(Step(m)) /\ WF_vars(Start(m))

-----------------------------------------------------------------------------
(* Properties *)

TypeOK ==
    /\ head \in [Machines -> [Repos -> Commit]]
    /\ seen \in [Machines -> [Repos -> Commit]]
    /\ branch \in [Repos -> Commit]
    /\ work \in [Machines -> [Repos -> SUBSET {"edited", "staged"}]]
    /\ tag \in [Machines -> [Leaves -> Commit]]
    /\ rtag \in [Leaves -> Commit]
    /\ mark \in [Machines -> Mark \cup {None}]
    /\ rmark \in Mark \cup {None}
    /\ row \subseteq Machines
    /\ at \in [Machines -> Steps \cup {"idle"}]
    /\ turn \in [Machines -> Repos]
    /\ committed \subseteq Machines
    /\ built \in Nat
    /\ edits \in 0..MaxEdits
    /\ faults \in 0..MaxFaults

\* The root's tag on the remote says a release is complete: every other
\* repository's tag is there too, and it names the commit the annotation notes
\* ("The root's annotated tag is made last, so it says a release is complete",
\* release_commands.py:166).
MarkMeansReleased ==
    rmark # None => \A r \in Leaves :
        /\ rtag[r] # {}
        /\ r \in Project => rtag[r] = rmark.notes[r]

\* What a tag names on the remote, the branch there has too: "the remote branch
\* is never left behind the release it carries (R5)" (push.py:209-210).
ReleasedIsPublic ==
    /\ \A r \in Leaves : rtag[r] \subseteq branch[r]
    /\ rmark # None => rmark.at \subseteq branch[Root]

\* A tag that is kept is at the commit this run releases: "A tag already at HEAD
\* is an earlier run of this same release ... kept and pushed again. Preflight
\* refused any tag that points elsewhere." (push.py:239-240)
KeptTagIsAtHead ==
    \A m \in Machines : at[m] = "send tag" => tag[m][turn[m]] = head[m][turn[m]]

\* Two machines never both record the release as theirs (_refuse_taken and the
\* remote's refusal of a second root tag).
OneReleaser == Cardinality(row) <= 1

\* A release that has begun comes to its end when it is run again: "Once the
\* cause is fixed, run '...' again: what completed is not repeated"
\* (partial_failure.py:53).
ReleaseCompletes ==
    (\E m \in Machines, r \in Repos : Tagged(m, r) # {}) ~> rmark # None
=============================================================================
