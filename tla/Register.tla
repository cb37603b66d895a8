-------------------------------- MODULE Register -------------------------------
(****************************************************************************)
(* Omniscience: several contributors file the States of their projects in   *)
(* one shared repository. A record is a file on the branch of its project;  *)
(* the branch _global holds the index, a chain of checkpoints that each say *)
(* which records are accepted. Everything is appended by fast-forward, and  *)
(* anybody may also write to the repository with plain git.                 *)
(*                                                                          *)
(* A checkpoint is named by the hash of its body, the body holds its        *)
(* parent's name: it is modelled by the sequence of the sets of records     *)
(* from the first checkpoint to it, which is what the hash chain commits to.*)
(****************************************************************************)
EXTENDS Naturals, FiniteSets, Sequences, SequencesExt

CONSTANTS
    Contributors,   \* the trees that mount the register, writable
    Home,           \* record -> the branch its project and branch name
    Own,            \* the records a contributor registers by command
    Old,            \* the records that may be registered already
    Reads,          \* contributor -> the records whose memory it can read
    Order,          \* the branches in the order of their names
    Hands,          \* what somebody does to the register with plain git
    MaxAttempts,    \* MAX_ATTEMPTS
    MaxRuns, MaxFaults, MaxHands

Records  == DOMAIN Home
Branches == {Home[r] : r \in Records}

ASSUME RegisterAssumption ==
    /\ Order \in Seq(STRING) /\ \A r \in Records : Home[r] \in {Order[i] : i \in 1..Len(Order)}
    /\ \A i, j \in 1..Len(Order) : Order[i] = Order[j] => i = j
    /\ Contributors \cap Records = {} /\ "before" \notin Contributors /\ "hand" \notin Contributors
    /\ Old \subseteq Own /\ Own \subseteq Records
    /\ \A c \in Contributors : Reads[c] \subseteq Records
    /\ MaxAttempts \in Nat /\ MaxRuns \in Nat /\ MaxFaults \in Nat /\ MaxHands \in Nat

VARIABLES
    filed,          \* branch -> its tip: [n |-> number of commits, files |-> records and findings]
    index,          \* the commits of _global, oldest first; <<>> when there is no branch
    gone,           \* records whose memory repository is no longer there
    known,          \* contributor -> the remote-tracking refs of its mount
    cloned,         \* contributor -> the index it cloned
    seen,           \* contributor -> SEEN_FILE: the index it last found sound; <<>> for none
    dirty,          \* contributor -> its mount has uncommitted changes
    step, own, route, base, tries, made,    \* what the running command holds
    sure,           \* the records somebody was told are registered
    hands,          \* what was done by hand so far
    runs, faults

mine   == <<dirty, step, own, route, base, tries, made>>
remote == <<filed, index, gone>>
vars   == <<remote, known, cloned, seen, mine, sure, hands, runs, faults>>

-----------------------------------------------------------------------------
(* What a fetched register says *)

Chain(tip)    == {tip[i].chk : i \in 1..Len(tip)}                  \* the files under checkpoints/
Parents(ch)   == {Front(k) : k \in ch}
Heads(ch)     == ch \ Parents(ch)
ChainHolds(ch) ==
    /\ \A k \in ch : Len(k) > 1 => Front(k) \in ch
    /\ Cardinality(Heads(ch)) <= 1
HeadOf(ch)    == IF ch = {} THEN <<>> ELSE CHOOSE h \in Heads(ch) : TRUE
Covered(ch)   == IF ch = {} THEN {} ELSE Last(HeadOf(ch))          \* the head's records
FiledIn(k)    == UNION {k.filed[b].files : b \in Branches}
FiledAt(k, r) == {b \in Branches : r \in k.filed[b].files}

\* Branches are read in the order of their names and a record's later file replaces the earlier one.
FileOf(k, r) == Order[CHOOSE i \in 1..Len(Order) :
                    Order[i] \in FiledAt(k, r) /\ \A j \in i+1..Len(Order) : Order[j] \notin FiledAt(k, r)]

RewrittenNever(last, tip) == FALSE
Rewritten(last, tip) == last # <<>> /\ tip # <<>> /\ ~IsPrefix(last, tip)
Remembered(c, k) == IF seen[c] # <<>> THEN seen[c] ELSE k.index     \* _seen()

\* The record of file (r, b) is acceptable to c, which verified the records in "checked" itself.
AcceptableAnywhere(c, r, b, checked) == r \in checked \/ (r \in Reads[c] /\ r \notin gone)
Acceptable(c, r, b, checked) == b = Home[r] /\ (r \in checked \/ (r \in Reads[c] /\ r \notin gone))
AcceptedAfresh(c, k, checked) ==
    {r \in Records : \E b \in FiledAt(k, r) : Acceptable(c, r, b, checked)}
Accepted(c, k, checked) ==
    Covered(Chain(k.index)) \cup {r \in Records : \E b \in FiledAt(k, r) : Acceptable(c, r, b, checked)}

\* What a reader is told of record r: register_state() first, then the checkpoint it answers from.
RegisterState(c, k) ==
    LET ch == Chain(k.index) IN
    CASE ~ChainHolds(ch)                          -> "contradicted"
      [] Rewritten(Remembered(c, k), k.index)     -> "rewritten"
      [] ~(Covered(ch) \subseteq FiledIn(k))      -> "contradicted"
      [] \E r \in Covered(ch) : FileOf(k, r) # Home[r] -> "contradicted"
      [] OTHER                                    -> "intact"
Verdict(c, k, r) ==
    CASE RegisterState(c, k) # "intact"  -> "invalid"
      [] r \in Covered(Chain(k.index))   -> "verified"
      [] OTHER                           -> "not_registered"

\* git fetch, which does not prune: a branch that is gone keeps its remote-tracking ref.
Fetched(c) == [filed |-> filed, index |-> IF index = <<>> THEN known[c].index ELSE index]

-----------------------------------------------------------------------------
\* A register that is new, or one that holds a record already.
Init ==
    /\ \/ filed = [b \in Branches |-> [n |-> 0, files |-> {}]] /\ index = <<>>
       \/ \E r \in Old :
            /\ filed = [b \in Branches |-> IF b = Home[r] THEN [n |-> 1, files |-> {r}] ELSE [n |-> 0, files |-> {}]]
            /\ index = <<[by |-> "before", chk |-> <<{r}>>]>>
    /\ gone = {}
    /\ known = [c \in Contributors |-> [filed |-> filed, index |-> index]]
    /\ cloned = [c \in Contributors |-> index]
    /\ seen = [c \in Contributors |-> <<>>]
    /\ dirty = [c \in Contributors |-> FALSE]
    /\ step = [c \in Contributors |-> "idle"]
    /\ own = [c \in Contributors |-> "none"]
    /\ route = [c \in Contributors |-> <<>>]
    /\ base = [c \in Contributors |-> <<>>]
    /\ tries = [c \in Contributors |-> 0]
    /\ made = [c \in Contributors |-> <<>>]
    /\ sure = {}
    /\ hands = {}
    /\ runs = 0
    /\ faults = 0

Starts(c, file, branches) ==
    /\ step[c] = "idle" /\ ~dirty[c] /\ runs < MaxRuns
    /\ step' = [step EXCEPT ![c] = "file"] /\ own' = [own EXCEPT ![c] = file]
    /\ route' = [route EXCEPT ![c] = branches] /\ tries' = [tries EXCEPT ![c] = 1]
    /\ runs' = runs + 1
    /\ UNCHANGED <<remote, cloned, seen, dirty, base, made, sure, hands, faults>>

\* register: the record is validated against the State and the memory's remote first.
Begin(c, r) == r \in Reads[c] \ gone /\ Starts(c, r, <<Home[r]>>) /\ UNCHANGED known

\* observe: one file of findings for each branch that a record is read from.
Observe(c) ==
    LET k == Fetched(c)
        on == SelectSeq(Order, LAMBDA b : \E r \in k.filed[b].files \cap Records : FileOf(k, r) = b)
    IN  on # <<>> /\ c \notin FiledIn(k) /\ Starts(c, c, on) /\ known' = [known EXCEPT ![c] = k]

\* The command stops, with an answer or with an error.
Ends(c) ==
    /\ step' = [step EXCEPT ![c] = "idle"] /\ own' = [own EXCEPT ![c] = "none"]
    /\ route' = [route EXCEPT ![c] = <<>>] /\ base' = [base EXCEPT ![c] = <<>>]
    /\ tries' = [tries EXCEPT ![c] = 0] /\ made' = [made EXCEPT ![c] = <<>>]

\* A file is on its branch: the next branch, or (a record) the index. extend() reads what
\* this tree last saw once, before its first attempt.
Filed(c, k) ==
    \/ /\ Len(route[c]) > 1
       /\ route' = [route EXCEPT ![c] = Tail(@)] /\ tries' = [tries EXCEPT ![c] = 1]
       /\ step' = [step EXCEPT ![c] = "file"] /\ UNCHANGED <<own, base, made>>
    \/ /\ Len(route[c]) = 1 /\ own[c] \in Records
       /\ step' = [step EXCEPT ![c] = "check"] /\ tries' = [tries EXCEPT ![c] = 1]
       /\ base' = [base EXCEPT ![c] = Remembered(c, k)] /\ UNCHANGED <<own, route, made>>
    \/ Len(route[c]) = 1 /\ own[c] \notin Records /\ Ends(c)

\* append: fetch, ask what to write; a file that is already there is not written again.
File(c) ==
    LET k == Fetched(c) IN
    /\ step[c] = "file"
    /\ known' = [known EXCEPT ![c] = k]
    /\ IF own[c] \in k.filed[Head(route[c])].files
       THEN Filed(c, k)
       ELSE step' = [step EXCEPT ![c] = "push"] /\ UNCHANGED <<own, route, base, tries, made>>
    /\ UNCHANGED <<remote, cloned, seen, dirty, sure, hands, runs, faults>>

\* A push that was refused because the branch moved is tried again from its new tip.
Again(c, where) ==
    IF tries[c] < MaxAttempts
    THEN /\ step' = [step EXCEPT ![c] = where] /\ tries' = [tries EXCEPT ![c] = @ + 1]
         /\ made' = [made EXCEPT ![c] = <<>>] /\ UNCHANGED <<own, route, base>>
    ELSE Ends(c)

\* Pushed; pushed and the answer lost; refused because somebody else appended first.
PushFile(c) ==
    LET b == Head(route[c])
        tip == [n |-> filed[b].n + 1, files |-> filed[b].files \cup {own[c]}]
        k == [known[c] EXCEPT !.filed[b] = tip]
        takes == known[c].filed[b].n = filed[b].n
    IN  /\ step[c] = "push"
        /\ \/ takes /\ filed' = [filed EXCEPT ![b] = tip] /\ known' = [known EXCEPT ![c] = k]
              /\ Filed(c, k) /\ UNCHANGED faults
           \/ takes /\ filed' = [filed EXCEPT ![b] = tip] /\ UNCHANGED known
              /\ Again(c, "file") /\ faults < MaxFaults /\ faults' = faults + 1
           \/ ~takes /\ Again(c, "file") /\ UNCHANGED <<filed, known, faults>>
        /\ UNCHANGED <<index, gone, cloned, seen, dirty, sure, hands, runs>>

\* One attempt of extend(): fetch, check the chain, decide what is accepted.
Check(c) ==
    LET k == Fetched(c)
        ch == Chain(k.index)
        sound == ~Rewritten(base[c], k.index) /\ ChainHolds(ch) /\ Covered(ch) \subseteq FiledIn(k)
        accepted == Accepted(c, k, {own[c]})
    IN  /\ step[c] = "check"
        /\ known' = [known EXCEPT ![c] = k]
        /\ IF ~sound
           THEN Ends(c)
           ELSE /\ IF accepted = Covered(ch)
                   THEN step' = [step EXCEPT ![c] = "remember"] /\ made' = [made EXCEPT ![c] = <<>>]
                   ELSE /\ step' = [step EXCEPT ![c] = "publish"]
                        /\ made' = [made EXCEPT ![c] = Append(HeadOf(ch), accepted)]
                /\ UNCHANGED <<own, route, base, tries>>
        /\ UNCHANGED <<remote, cloned, seen, dirty, sure, hands, runs, faults>>

\* A push is fast-forward: the remote's tip must be in what is pushed.
TakesAlways(new) == TRUE
Takes(new) == IsPrefix(index, new)

PushCheckpoint(c) ==
    LET new == Append(known[c].index, [by |-> c, chk |-> made[c]])
        takes == Takes(new)
    IN  /\ step[c] = "publish"
        /\ \/ takes /\ index' = new /\ known' = [known EXCEPT ![c].index = new]
              /\ step' = [step EXCEPT ![c] = "remember"] /\ UNCHANGED <<own, route, base, tries, made, faults>>
           \/ takes /\ index' = new /\ UNCHANGED known
              /\ Again(c, "check") /\ faults < MaxFaults /\ faults' = faults + 1
           \/ ~takes /\ Again(c, "check") /\ UNCHANGED <<index, known, faults>>
        /\ UNCHANGED <<filed, gone, cloned, seen, dirty, sure, hands, runs>>

\* The tip is remembered, the mount is put back on its branch, and the command answers
\* "extended" or "unchanged": the record is registered.
Remember(c) ==
    /\ step[c] = "remember"
    /\ seen' = [seen EXCEPT ![c] = IF known[c].index = <<>> THEN @ ELSE known[c].index]
    /\ sure' = sure \cup {own[c]}
    /\ Ends(c)
    /\ UNCHANGED <<remote, known, cloned, dirty, hands, runs, faults>>

\* The process stops: before the commit, with changes staged in the mount; after it, with
\* a commit nothing refers to.
Crash(c) ==
    /\ step[c] # "idle" /\ faults < MaxFaults
    /\ faults' = faults + 1
    /\ \E left \in {FALSE, step[c] \in {"push", "publish"}} : dirty' = [dirty EXCEPT ![c] = left]
    /\ Ends(c)
    /\ UNCHANGED <<remote, known, cloned, seen, sure, hands, runs>>

\* verify: the register is fetched, and the record looked up in it.
Verify(c, r) ==
    LET k == Fetched(c) IN
    /\ step[c] = "idle"
    /\ known' = [known EXCEPT ![c] = k]
    /\ sure' = IF Verdict(c, k, r) = "verified" THEN sure \cup {r} ELSE sure
    /\ UNCHANGED <<remote, cloned, seen, mine, hands, runs, faults>>

-----------------------------------------------------------------------------
(* What somebody does with plain git *)

Put(b, r)    == filed' = [filed EXCEPT ![b] = [n |-> @.n + 1, files |-> @.files \cup {r}]] /\ UNCHANGED <<index, gone>>
Propose(r)   == r \notin Own /\ r \notin filed[Home[r]].files /\ Put(Home[r], r)
Misfile(r)   == \E b \in Branches \ {Home[r]} : r \notin Own /\ FiledAt([filed |-> filed], r) = {} /\ Put(b, r)
Copy(r)      == \E b \in Branches \ {Home[r]} : r \in filed[Home[r]].files \ filed[b].files /\ Put(b, r)
Withdraw(r)  ==
    /\ r \in filed[Home[r]].files
    /\ filed' = [filed EXCEPT ![Home[r]] = [n |-> @.n + 1, files |-> @.files \ {r}]]
    /\ UNCHANGED <<index, gone>>
Vanish(r)    == r \notin gone /\ gone' = gone \cup {r} /\ UNCHANGED <<filed, index>>
Rewind       == Len(index) > 1 /\ index' = Front(index) /\ UNCHANGED <<filed, gone>>
Replace      ==
    /\ index # <<>>
    /\ index' = Append(Front(index), [by |-> "hand", chk |-> Append(Front(Last(index).chk), {})])
    /\ UNCHANGED <<filed, gone>>
Fork         ==
    /\ index # <<>> /\ Last(Last(index).chk) # {}
    /\ index' = Append(index, [by |-> "hand", chk |-> Append(Front(Last(index).chk), {})])
    /\ UNCHANGED <<filed, gone>>
Drop         == index # <<>> /\ index' = <<>> /\ UNCHANGED <<filed, gone>>

ByHand ==
    \E h \in Hands :
        /\ Cardinality(hands) < MaxHands /\ h \notin hands
        /\ hands' = hands \cup {h}
        /\ \/ \E r \in Records :
                \/ h = "propose"  /\ Propose(r)
                \/ h = "misfile"  /\ Misfile(r)
                \/ h = "copy"     /\ Copy(r)
                \/ h = "withdraw" /\ Withdraw(r)
                \/ h = "vanish"   /\ Vanish(r)
           \/ h = "rewind"  /\ Rewind
           \/ h = "replace" /\ Replace
           \/ h = "fork"    /\ Fork
           \/ h = "drop"    /\ Drop
        /\ UNCHANGED <<known, cloned, seen, mine, sure, runs, faults>>

\* Uncommitted changes are committed or discarded by hand, as the refusal asks.
Tidy(c) == dirty[c] /\ dirty' = [dirty EXCEPT ![c] = FALSE] /\ UNCHANGED <<remote, known, cloned, seen, step, own, route, base, tries, made, sure, hands, runs, faults>>

Step(c) == File(c) \/ PushFile(c) \/ Check(c) \/ PushCheckpoint(c) \/ Remember(c)

Next ==
    \/ \E c \in Contributors :
        \/ Step(c)
        \/ Crash(c)
        \/ \E r \in Own : Begin(c, r)
        \/ \E r \in Own : Verify(c, r)
        \/ Observe(c)
        \/ Tidy(c)
    \/ ByHand

-----------------------------------------------------------------------------
(* Properties *)

\* extend() accepts a record only where its project and branch name, from a contributor
\* that verified it or can read its memory, whoever filed it and in whatever order the
\* contributors' fetches, retries and crashes fall; so what the index covers is filed.
CoveredIsAcceptable ==
    \A i \in 1..Len(index) : index[i].by \in Contributors =>
        \A r \in Last(index[i].chk) :
            /\ "withdraw" \notin hands => r \in filed[Home[r]].files
            /\ \/ r \in Reads[index[i].by]
               \/ \E j \in 1..i-1 : r \in Last(index[j].chk)

\* Whoever was told that a record is registered (register answered extended or unchanged,
\* verify answered verified) was told something that stays so, as long as nobody takes
\* anything away by hand.
ToldStaysRegistered ==
    hands \cap {"withdraw", "rewind", "replace", "fork", "drop"} = {} =>
        sure \subseteq Covered(Chain(index)) \cup Contributors

\* A record somebody adds by hand is only proposed: it changes no answer about the others,
\* so every reader is told of every record the index covers that it is verified.
CoveredIsAnswered ==
    hands \cap {"withdraw", "rewind", "replace", "fork", "drop"} = {} =>
        \A c \in Contributors : \A r \in Covered(Chain(index)) : Verdict(c, Fetched(c), r) = "verified"

RegisterIsSound == CoveredIsAcceptable /\ ToldStaysRegistered /\ (("copy" \notin hands) => CoveredIsAnswered)

\* A command only ever adds to the index it finds: the chain it leaves holds and covers no
\* less, and it contains what that contributor last found sound, whatever was done by hand.
IndexOnlyGrows ==
    hands' = hands /\ index' # index =>
        /\ IsPrefix(index, index')
        /\ ChainHolds(Chain(index'))
        /\ Covered(Chain(index)) \subseteq Covered(Chain(index'))
        /\ IsPrefix(seen[Last(index').by], index')

\* omniscience_checkpoints.py: a first run compares with the remote-tracking ref as cloned.
FirstRunNotices == hands' = hands /\ index' # index => IsPrefix(cloned[Last(index').by], index')

\* omniscience_view.py: a tree that has never written cannot say whether the register was
\* rewritten, and the answer says so (last_seen_tip_known).
NeverWroteSaysSo == \A c \in Contributors : Remembered(c, Fetched(c)) # <<>> => seen[c] # <<>>
=============================================================================
