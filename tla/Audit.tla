--------------------------------- MODULE Audit ---------------------------------
(****************************************************************************)
(* The two computations behind an answer of the register: the inclusion     *)
(* proof of a leaf (merkle/merkle_root.py, the tree of RFC 9162), and the   *)
(* completeness report over the findings about one registered repository    *)
(* (omniscience/omniscience_completeness.py).                               *)
(*                                                                          *)
(* A hash is the structure it was taken of: a leaf <<i>>, a node the pair   *)
(* of its children.  Two hashes are equal only when what they cover is.     *)
(****************************************************************************)
EXTENDS Naturals, Sequences, SequencesExt, FiniteSets

CONSTANTS
    MaxLeaves,   \* bound: leaves of the index
    MaxFindings, \* bound: findings about one repository
    Moments      \* the moments they are made at, in days

-----------------------------------------------------------------------------
(* The tree *)

Powers   == {1, 2, 4, 8, 16}
Split(n) == CHOOSE k \in Powers : k < n /\ n <= 2 * k

\* _subtree: the root over the leaves a..b-1.
Subtree[span \in (0..MaxLeaves) \X (0..MaxLeaves)] ==
    LET a == span[1] b == span[2] k == Split(b - a) IN
    IF b - a = 1 THEN <<a>> ELSE <<Subtree[<<a, a + k>>], Subtree[<<a + k, b>>]>>
GlobalRoot(n) == Subtree[<<0, n>>]

\* _path: the siblings of leaf i among a..b-1, leaf first.
Path[at \in (0..MaxLeaves) \X (0..MaxLeaves) \X (0..MaxLeaves)] ==
    LET i == at[1] a == at[2] b == at[3] k == Split(b - a) IN
    IF b - a <= 1 THEN <<>>
    ELSE IF i < a + k
    THEN Append(Path[<<i, a, a + k>>], Subtree[<<a + k, b>>])
    ELSE Append(Path[<<i, a + k, b>>], Subtree[<<a, a + k>>])
Proof(i, n) == [index |-> i, size |-> n, root |-> GlobalRoot(n), path |-> Path[<<i, 0, n>>]]

Half(n) == n \div 2
Odd(n)  == n % 2 = 1

\* verify's inner loop: shift until the index is odd or 0.
RECURSIVE Settled(_, _)
Settled(index, last) == IF Odd(index) \/ index = 0 THEN <<index, last>> ELSE Settled(Half(index), Half(last))

\* verify's loop over the siblings.
RECURSIVE Walk(_, _, _, _)
NodeFolded(node, index, last, siblings) ==
    LET left == Odd(index) \/ index = last
        at == IF left THEN Settled(index, last) ELSE <<index, last>>
        up == IF left THEN <<Head(siblings), node>> ELSE <<node, Head(siblings)>>
    IN  Walk(up, Half(at[1]), Half(at[2]), Tail(siblings))
WalkAnyRest(node, index, last, siblings) ==
    IF siblings = <<>> \/ last = 0 THEN node ELSE NodeFolded(node, index, last, siblings)
Walk(node, index, last, siblings) ==
    IF siblings = <<>> THEN IF last = 0 THEN node ELSE <<>>
    ELSE IF last = 0 THEN <<>> ELSE NodeFolded(node, index, last, siblings)

Verify(proof, leaf, root, size) ==
    /\ proof.root = root /\ proof.size = size /\ proof.index \in 0..proof.size-1
    /\ Walk(leaf, proof.index, proof.size - 1, proof.path) = root

-----------------------------------------------------------------------------
(* The completeness report *)

Statuses == {"AVAILABLE", "NOT_FOUND", "ACCESS_DENIED"}
Quiet    == {"AVAILABLE", "CLOSED", "DELETION_CONFIRMED"}
Finding  == [status : Statuses, moment : Moments]

PermanentAfter      == 7
PermanentAfterCount == 2

\* The findings about one repository, oldest first; what was found at one moment is in the order of its hashes.
History(findings) == SortSeq(findings, LAMBDA a, b : a.moment < b.moment)

\* _not_found_run: how many findings at the end say NOT_FOUND.
RunAny(history) == Len(SelectSeq(history, LAMBDA f : f.status = "NOT_FOUND"))
Run(history) ==
    LET n == Len(history)
    IN  CHOOSE k \in 0..n :
            /\ \A i \in n-k+1..n : history[i].status = "NOT_FOUND"
            /\ k < n => history[n-k].status # "NOT_FOUND"

Judged(findings) ==
    LET h == History(findings)
        n == Len(h)
        k == Run(h)
    IN  CASE h[n].status \in Quiet -> "ok"
          [] /\ h[n].status \notin Quiet /\ k >= PermanentAfterCount
             /\ h[n].moment - h[n-k+1].moment >= PermanentAfter -> "failure"
          [] OTHER -> "warning"

-----------------------------------------------------------------------------
(* What they promise; an input is one question *)

Questions ==
    [kind : {"proof"}, n : 1..MaxLeaves, i : 0..MaxLeaves-1, j : 0..MaxLeaves-1, leaf : 0..MaxLeaves-1]
    \cup [kind : {"report"}, findings : UNION {[1..k -> Finding] : k \in 1..MaxFindings}]

\* A proof of leaf i, whatever index it claims, verifies exactly the leaf that is there, and
\* a path cut short or made longer verifies nothing.
ProofIsExact(q) ==
    LET p == Proof(q.i, q.n)
        at(path) == Verify([p EXCEPT !.index = q.j, !.path = path], <<q.leaf>>, GlobalRoot(q.n), q.n)
    IN  q.i < q.n =>
            /\ at(p.path) <=> q.j = q.i /\ q.leaf = q.i
            /\ p.path # <<>> => ~at(Front(p.path))
            /\ ~at(Append(p.path, <<q.leaf>>))

\* A repository is a permanent failure exactly when it was not found, and nothing else was
\* found of it, over a week and at least twice, up to now; an outage alone never is.  Of the
\* findings of one moment, those with the later hashes come after the others.
FailureIsLasting(q) ==
    LET f == q.findings
        D == DOMAIN f
        now == CHOOSE t \in Moments : (\E i \in D : f[i].moment = t) /\ \A i \in D : f[i].moment <= t
        follows(k, i) == f[k].moment > f[i].moment \/ (f[k].moment = f[i].moment /\ k >= i)
    IN  Judged(f) = "failure" <=>
            \E i \in D :
                /\ f[i].moment + PermanentAfter <= now
                /\ \A k \in D : follows(k, i) => f[k].status = "NOT_FOUND"

Right(q) == IF q.kind = "proof" THEN ProofIsExact(q) ELSE FailureIsLasting(q)
=============================================================================
