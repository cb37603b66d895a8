------------------------------ MODULE MCBranches -------------------------------
(****************************************************************************)
(* The life of a branch twice: the team whose constants the configuration   *)
(* gives, and one person with two repositories, whose commands are killed   *)
(* and run again. A behaviour is one of the two.                            *)
(****************************************************************************)
EXTENDS BranchesProofs

CONSTANT Which

VARIABLE which

\* The module of the proofs, so that its theorems hold of this instance too.
Tree == INSTANCE BranchesProofs WITH
    NRepos <- 2, Between <- {}, During <- {}, Reuse <- FALSE, MaxCommits <- 1

\* Not used below: without an instance of Branches itself, TLC computes the definitions that
\* only constants enter once, with the team's constants, and for Tree too.
Apart == INSTANCE Branches

InitBoth == which \in Which /\ IF which = "team" THEN Init ELSE Tree!Init

Team  == which = "team" /\ Next /\ UNCHANGED which
Alone == which = "alone" /\ Tree!Next /\ Tree!Again /\ UNCHANGED which
Continues  == which = "alone" /\ Tree!Step /\ UNCHANGED which
Retries == which = "alone" /\ Tree!Rerun /\ UNCHANGED which

\* A command that runs goes on, and one cut short is typed again before another.
Both == InitBoth /\ [][Team \/ Alone]_<<vars, which>> /\ WF_<<vars, which>>(Continues) /\ WF_<<vars, which>>(Retries)

-----------------------------------------------------------------------------
\* No commit that is on a branch, here or on origin, ever leaves them all.
NothingEverLost == [][IF which = "team" THEN HeldStays ELSE Tree!HeldStays]_<<vars, which>>

\* Nothing is deleted anywhere before what the branch holds in every repository is
\* held under another name.
DeletesLast == IF which = "team" THEN DeletesOnlyWhenAllKept ELSE Tree!DeletesOnlyWhenAllKept

\* A branch made here where origin has one of that name joins it.
Joins == [][which = "team" => JoinsThere]_<<vars, which>>

\* A close or a delete cut short ends when it is run again.
RerunEnds == which = "alone" /\ wanted # NoJob ~> wanted = NoJob

-----------------------------------------------------------------------------
(* What BranchesProofs shows of one workspace, for the two behaviours. *)

\* The instance is one the module is meant for, and nobody works beside its commands.
LEMMA TreeFits == Tree!BranchesAssumption /\ Tree!OthersKeepOff /\ Tree!NotDuringIts
BY BranchesAssumption DEF Tree!BranchesAssumption, Tree!OthersKeepOff, Tree!NotDuringIts

\* Each behaviour keeps the invariant of its own constants.
IBoth == IF which = "team" THEN IInv ELSE Tree!IInv
QBoth == IF which = "team" THEN QInv ELSE Tree!QInv

LEMMA OneOfTwo ==
    ASSUME [Team \/ Alone]_<<vars, which>>
    PROVE  /\ which' = which
           /\ which = "team" => [Next]_vars
           /\ which # "team" => [Tree!Next]_(Tree!vars)
<1>1. CASE Team
  BY <1>1 DEF Team
<1>2. CASE Alone
  BY <1>2 DEF Alone
<1>3. CASE UNCHANGED <<vars, which>>
  BY <1>3 DEF vars, refs, run, Tree!vars, Tree!refs, Tree!run
<1> QED
  BY <1>1, <1>2, <1>3

LEMMA InductiveBoth == (InitBoth => IBoth) /\ (IBoth /\ [Team \/ Alone]_<<vars, which>> => IBoth')
<1>1. InitBoth => IBoth
  BY Inductive, Tree!Inductive, TreeFits DEF InitBoth, IBoth
<1>2. ASSUME IBoth, [Team \/ Alone]_<<vars, which>> PROVE IBoth'
  <2>1. CASE which = "team"
    BY <1>2, <2>1, Inductive, OneOfTwo DEF IBoth
  <2>2. CASE which # "team"
    BY <1>2, <2>2, Tree!Inductive, TreeFits, OneOfTwo DEF IBoth
  <2> QED
    BY <2>1, <2>2
<1> QED
  BY <1>1, <1>2

LEMMA InductiveBothAlone ==
    ASSUME OthersKeepOff
    PROVE  (InitBoth => QBoth) /\ (QBoth /\ [Team \/ Alone]_<<vars, which>> => QBoth')
BY InductiveAlone, Tree!InductiveAlone, TreeFits, OneOfTwo DEF InitBoth, QBoth

\* In both, a branch made where origin has one of that name joins it.
THEOREM BothJoin ==
    ASSUME NotDuringIts
    PROVE  Both => Joins
<1>1. IBoth /\ [Team \/ Alone]_<<vars, which>> => [which = "team" => JoinsThere]_<<vars, which>>
  BY JoinsStep, OneOfTwo DEF IBoth
<1> QED
  BY <1>1, InductiveBoth, PTL DEF Both, Joins

\* In both, nothing is deleted anywhere before what the branch holds in every repository is
\* held under another name.
THEOREM BothDeleteLast ==
    ASSUME OthersKeepOff
    PROVE  Both => []DeletesLast
<1>1. QBoth => DeletesLast
  <2>1. CASE which = "team"
    BY <2>1, DeletesKept DEF QBoth, DeletesLast
  <2>2. CASE which # "team"
    BY <2>2, Tree!DeletesKept, TreeFits DEF QBoth, DeletesLast
  <2> QED
    BY <2>1, <2>2
<1> QED
  BY <1>1, InductiveBothAlone, PTL DEF Both

\* In both, no commit that is on a branch, here or on origin, ever leaves them all, as long as
\* no closed branch is deleted by plain Git.
THEOREM BothLoseNothing ==
    ASSUME OthersKeepOff, Plain = FALSE
    PROVE  Both => NothingEverLost
<1>1. QBoth /\ [Team \/ Alone]_<<vars, which>> =>
         [IF which = "team" THEN HeldStays ELSE Tree!HeldStays]_<<vars, which>>
  BY AllStays, Tree!AllStays, TreeFits, OneOfTwo DEF QBoth
<1> QED
  BY <1>1, InductiveBothAlone, PTL DEF Both, NothingEverLost
===============================================================================
