---------------------------------- MODULE Trees ----------------------------------
(****************************************************************************)
(* The registry as a tree (tree/git_tree.py): who is private through whom,  *)
(* in which order a sweep visits, which repository owns a path, and how     *)
(* fix_circularities takes the duplicates out of a tree where the same      *)
(* repository is declared more than once.                                   *)
(*                                                                          *)
(* A tree maps an entry, numbered as the registry lists it, to what it      *)
(* says; a parent that the registry does not hold is 0.  A path on disk is  *)
(* a number where only its identity matters.                                *)
(****************************************************************************)
EXTENDS Naturals, Sequences, SequencesExt, FiniteSets, FiniteSetsExt, Graphs

CONSTANTS
    MaxFlagged, \* bound: entries of a tree whose privacy is asked
    MaxOrdered, \* bound: entries of a tree whose order is asked
    MaxNodes,   \* bound: nodes of a graph
    MaxPaths    \* bound: directories that the entries of a circular tree are at

-----------------------------------------------------------------------------
(* Privacy and scope *)

Declared(tree, e)  == [private |-> tree[e].private, writable |-> tree[e].writable]
HasParent(tree, e) == tree[e].parent \in DOMAIN tree

InheritedUncapped(own, parent) ==
    [private  |-> own.private \/ parent.private,
     writable |-> IF ~parent.private \/ own.private THEN own.writable ELSE parent.writable]
\* resolve: what a child is, given what its parent turned out to be.
Inherited(own, parent) ==
    [private  |-> own.private \/ parent.private,
     writable |-> IF ~parent.private THEN own.writable
                  ELSE IF own.private THEN own.writable /\ parent.writable
                  ELSE parent.writable]

\* propagate_privacy: an entry that is being resolved, or has no parent, says what it declares.
RECURSIVE Resolve(_, _, _, _)
Resolve(tree, e, resolving, done) ==
    IF e \in DOMAIN done THEN [says |-> done[e], done |-> done]
    ELSE IF e \in resolving THEN [says |-> Declared(tree, e), done |-> done]
    ELSE LET up   == Resolve(tree, tree[e].parent, resolving \cup {e}, done)
             root == ~HasParent(tree, e) \/ tree[e].parent = e
             says == IF root THEN Declared(tree, e) ELSE Inherited(Declared(tree, e), up.says)
             seen == IF root THEN done ELSE up.done
         IN  [says |-> says, done |-> [x \in DOMAIN seen \cup {e} |-> IF x = e THEN says ELSE seen[x]]]
Propagated(tree) ==
    FoldLeft(LAMBDA done, e : Resolve(tree, e, {}, done).done, <<>>, SetToSortSeq(DOMAIN tree, <))

Scopes == {"project", "private", "writable", "all"}
Includes(scope, flags) ==
    CASE scope = "all"     -> TRUE
      [] scope = "project" -> ~flags.private
      [] scope = "private" -> flags.private /\ flags.writable
      [] OTHER             -> ~flags.private \/ flags.writable

Profile(effective) == IF \E e \in DOMAIN effective : effective[e].private THEN "dev" ELSE "user"
MayClose(effective) == Profile(effective) = "dev"

-----------------------------------------------------------------------------
(* The orders of a sweep *)

ChildrenOf(tree, p) == {e \in DOMAIN tree : tree[e].parent = p}
InOrder(S) == SetToSortSeq(S, <)

\* iter_tree: from the entries without a parent, each followed by what is nested in it.
RECURSIVE Visit(_, _)
Visit(tree, entries) ==
    FlattenSeq([i \in 1..Len(entries) |-> <<entries[i]>> \o Visit(tree, InOrder(ChildrenOf(tree, entries[i])))])
IterTree(tree)  == Visit(tree, InOrder(ChildrenOf(tree, 0)))
LeafFirst(tree) == Reverse(IterTree(tree))

\* topological_sort: an entry has at most one parent, so it is free once that one is out of the queue.
RECURSIVE Kahn(_, _, _)
Kahn(tree, queue, result) ==
    IF queue = <<>> THEN result
    ELSE LET e == Head(queue)
             freed == IF e \in Range(result) THEN {} ELSE ChildrenOf(tree, e) \ {e}
         IN  Kahn(tree, Tail(queue) \o InOrder(freed), Append(result, e))
TopologicalSort(tree) == Kahn(tree, InOrder({e \in DOMAIN tree : ~HasParent(tree, e)}), <<>>)

-----------------------------------------------------------------------------
(* The owner of a path, or none; here a path is the sequence of its segments *)

Innermost(candidates) == {p \in candidates : \A o \in candidates : Len(o) <= Len(p)}
OwnerOf(repositories, path) == Innermost({r \in repositories : IsPrefix(r, path)})
InnermostContaining(candidates, path) ==
    Innermost({c \in candidates : c # <<>> /\ c # path /\ IsPrefix(c, path)})

-----------------------------------------------------------------------------
(* Circular trees *)

Placed(tree) == {e \in DOMAIN tree : tree[e].path # 0}
PathGraph(tree) ==
    [p \in {tree[e].path : e \in Placed(tree)} |->
        {tree[e].path : e \in {x \in Placed(tree) : HasParent(tree, x) /\ tree[tree[x].parent].path = p}}]

\* find_strongly_connected_components: Tarjan's algorithm, successors in order.
Min2(a, b) == IF a <= b THEN a ELSE b
RECURSIVE StrongConnect(_, _, _)
StrongConnect(graph, node, s) ==
    LET known   == DOMAIN s.index \cup {node}
        entered == [s EXCEPT !.index = [n \in known |-> IF n = node THEN s.counter ELSE s.index[n]],
                             !.low = [n \in known |-> IF n = node THEN s.counter ELSE s.low[n]],
                             !.counter = @ + 1, !.stack = Append(@, node)]
        follow(t, next) ==
            IF next \notin DOMAIN t.index
            THEN LET u == StrongConnect(graph, next, t) IN [u EXCEPT !.low[node] = Min2(@, u.low[next])]
            ELSE IF next \in Range(t.stack) THEN [t EXCEPT !.low[node] = Min2(@, t.index[next])]
            ELSE t
        left == FoldLeft(follow, entered, InOrder(graph[node]))
        at   == CHOOSE i \in DOMAIN left.stack : left.stack[i] = node
    IN  IF left.low[node] # left.index[node] THEN left
        ELSE [left EXCEPT !.stack = SubSeq(@, 1, at - 1),
                          !.found = Append(@, Range(SubSeq(left.stack, at, Len(left.stack))))]
Components(graph) ==
    FoldLeft(LAMBDA s, node : IF node \in DOMAIN s.index THEN s ELSE StrongConnect(graph, node, s),
             [index |-> <<>>, low |-> <<>>, counter |-> 0, stack |-> <<>>, found |-> <<>>],
             InOrder(DOMAIN graph)).found

\* How many names an entry's id counts: one for each entry above it.
RECURSIVE Depth(_, _)
Depth(tree, e) == IF HasParent(tree, e) THEN 1 + Depth(tree, tree[e].parent) ELSE 0

HighestAny(tree, S) == CHOOSE e \in S : \A o \in S : e >= o
\* The highest entry of a set, the first listed among equals.
Highest(tree, S) ==
    CHOOSE e \in S : \A o \in S : Depth(tree, e) < Depth(tree, o) \/ (Depth(tree, e) = Depth(tree, o) /\ e <= o)

EntriesAt(tree, p) == {e \in DOMAIN tree : tree[e].path = p}
\* _select_scc_anchor; the order of the hashes is that of the numbers.
Anchor(tree, graph, scc) ==
    LET external(p) == Cardinality({q \in DOMAIN graph \ scc : p \in graph[q]})
        depth(p)    == Min({Depth(tree, e) : e \in EntriesAt(tree, p)})
        referenced  == {p \in scc : \A q \in scc : external(p) >= external(q)}
    IN  Min({p \in referenced : \A q \in referenced : depth(p) <= depth(q)})

\* Phase 1: the entries at the anchor that hang below another member of its component.
BackEdges(tree, graph, scc) ==
    LET anchor == Anchor(tree, graph, scc)
        below  == {e \in EntriesAt(tree, anchor) : HasParent(tree, e) /\ tree[tree[e].parent].path \in scc \ {anchor}}
    IN  below \ {Highest(tree, EntriesAt(tree, anchor))}
CycleBreaking(tree) ==
    LET graph == PathGraph(tree) IN
    UNION {BackEdges(tree, graph, scc) : scc \in {c \in Range(Components(graph)) : Cardinality(c) > 1}}

\* _is_compatible_duplicate: the same states, and no commit or ref of one that the other contradicts.
Agree(a, b) == a = 0 \/ b = 0 \/ a = b
SameCommit(a, b) == a.commit # 0 /\ a.commit = b.commit
Compatible(a, b) == a.state = b.state /\ Agree(a.commit, b.commit) /\ (SameCommit(a, b) \/ Agree(a.ref, b.ref))

\* Phase 2: what is left at one directory, but for the highest and what contradicts it.
Duplicates(tree, gone) ==
    UNION {LET rest == EntriesAt(tree, p) \ gone
               kept == Highest(tree, rest)
           IN  {e \in rest \ {kept} : Compatible(tree[kept].mark, tree[e].mark)}
           : p \in {q \in {tree[e].path : e \in Placed(tree)} : EntriesAt(tree, q) \ gone # {}}}
Removed(tree) == LET gone == CycleBreaking(tree) IN gone \cup Duplicates(tree, gone)
FixCircularities(tree) == [e \in DOMAIN tree \ Removed(tree) |-> tree[e]]

-----------------------------------------------------------------------------
(* What they promise; an input is one question *)

\* Trees of n entries where a parent is listed before its children, level by level.
Shapes(n) == {f \in [1..n -> 0..n-1] : /\ \A e \in 1..n : f[e] < e /\ (e > 1 => f[e] >= 1)
                                       /\ \A e \in 1..n-1 : f[e] <= f[e+1]}
Flags == {[private |-> p, writable |-> w] : <<p, w>> \in {<<FALSE, FALSE>>, <<TRUE, FALSE>>, <<TRUE, TRUE>>}}
Plain == [state |-> "ready", commit |-> 0, ref |-> 0]
Marks == {Plain, [Plain EXCEPT !.commit = 1], [Plain EXCEPT !.commit = 2, !.ref = 1], [Plain EXCEPT !.ref = 2]}
Opposed == {[Plain EXCEPT !.commit = 1], [Plain EXCEPT !.commit = 2, !.ref = 1]}
\* The same shapes with every directory, and with every mark, the root in the directory 1.
Circular(n, marks) ==
    {[e \in 1..n |-> [parent |-> f[e], path |-> p[e], mark |-> k[e], private |-> FALSE, writable |-> FALSE]] :
        f \in Shapes(n), p \in {x \in [1..n -> 0..MaxPaths] : x[1] = 1}, k \in [1..n -> marks]}
Segments == SeqOf({"a", "b"}, 2)

Questions ==
    [kind : {"privacy"}, parent : UNION {Shapes(n) : n \in 1..MaxFlagged}, flags : [1..MaxFlagged -> Flags]]
    \cup [kind : {"loop"}, parent : [1..3 -> 0..3], flags : [1..3 -> Flags]]
    \cup [kind : {"order"}, parent : UNION {[1..n -> 0..n] : n \in 1..MaxOrdered}]
    \cup [kind : {"path"}, repositories : SUBSET Segments, path : SeqOf({"a", "b"}, 3)]
    \cup [kind : {"components"}, graph : [1..MaxNodes -> SUBSET (1..MaxNodes)]]
    \cup [kind : {"circular"}, tree : Circular(3, Marks) \cup Circular(4, Opposed) \cup Circular(5, {Plain})]

Flagged(q) ==
    [e \in DOMAIN q.parent |-> [parent |-> q.parent[e], private |-> q.flags[e].private, writable |-> q.flags[e].writable]]
Bare(q) == [e \in DOMAIN q.parent |-> [parent |-> q.parent[e]]]

\* An entry and those above it.
RECURSIVE Upwards(_, _, _)
Upwards(tree, e, seen) ==
    IF e \notin DOMAIN tree \/ e \in seen THEN seen ELSE Upwards(tree, tree[e].parent, seen \cup {e})
Line(tree, e) == Upwards(tree, e, {})

\* An entry is private when anything above it is, and open to writing only when no private one
\* above it is closed: nothing nested is ever opened wider than what holds it.
PrivacyIsInherited(q) ==
    LET tree == Flagged(q) effective == Propagated(tree) IN
    \A e \in DOMAIN tree :
        LET sealed == {a \in Line(tree, e) : tree[a].private} IN
        /\ effective[e].private <=> sealed # {}
        /\ Includes("private", effective[e]) <=> sealed # {} /\ \A a \in sealed : tree[a].writable
        /\ Includes("writable", effective[e]) <=> Includes("project", effective[e]) \/ Includes("private", effective[e])
        /\ ~MayClose(effective) => \A s \in Scopes \ {"private"} : Includes(s, effective[e])

\* On parents that form a loop every entry still gets an answer, and none is private or open to
\* writing that nothing on its line declared so.
LoopIsSafe(q) ==
    LET tree == Flagged(q) effective == Propagated(tree) IN
    \A e \in DOMAIN tree :
        /\ tree[e].private => effective[e].private
        /\ effective[e].private => \E a \in Line(tree, e) : tree[a].private
        /\ effective[e].private /\ effective[e].writable => \E a \in Line(tree, e) : tree[a].writable

\* Both orders list what hangs from a root once, a parent before its children, and nothing that
\* hangs in a loop; iter_tree keeps what is nested in one repository together.
OrderIsParentFirst(q) ==
    LET tree == Bare(q)
        rooted == {e \in DOMAIN tree : \E a \in Line(tree, e) : tree[a].parent = 0}
        before(list, a, b) == SelectInSeq(list, LAMBDA x : x = a) < SelectInSeq(list, LAMBDA x : x = b)
    IN  /\ \A list \in {IterTree(tree), TopologicalSort(tree)} :
              /\ Range(list) = rooted /\ Len(list) = Cardinality(rooted)
              /\ \A e \in rooted : tree[e].parent # 0 => before(list, tree[e].parent, e)
        /\ \A e \in rooted : tree[e].parent # 0 => before(LeafFirst(tree), e, tree[e].parent)
        /\ \A a, x, y, z \in rooted :
              a \in Line(tree, x) \cap Line(tree, z) /\ before(IterTree(tree), x, y) /\ before(IterTree(tree), y, z)
                  => a \in Line(tree, y)

\* A path has one owner unless nothing holds it, no other repository lies between the two, and a
\* repository's container is the owner of the path once the repository itself is left out.
OwnerIsInnermost(q) ==
    LET owner == OwnerOf(q.repositories, q.path) IN
    /\ Cardinality(owner) <= 1 /\ (owner = {} <=> \A r \in q.repositories : ~IsPrefix(r, q.path))
    /\ \A o \in owner, r \in q.repositories : IsPrefix(o, r) /\ IsPrefix(r, q.path) => r = o
    /\ InnermostContaining(q.repositories, q.path) = OwnerOf(q.repositories \ {q.path, <<>>}, q.path)

Leads(graph) ==
    ConnectionsIn([node |-> DOMAIN graph, edge |-> {e \in (DOMAIN graph) \X (DOMAIN graph) : e[2] \in graph[e[1]]}])

\* Two paths are in one component exactly when each leads to the other, and each is in one.
ComponentsAreCycles(q) ==
    LET found == Components(q.graph)
        leads == Leads(q.graph)
    IN  /\ UNION Range(found) = DOMAIN q.graph
        /\ \A i, j \in DOMAIN found : i # j => found[i] \cap found[j] = {}
        /\ \A a, b \in DOMAIN q.graph :
              (\E i \in DOMAIN found : a \in found[i] /\ b \in found[i]) <=> leads[a, b] /\ leads[b, a]

\* Whatever is removed, an entry of the least depth stays in every directory. Where nothing contradicts,
\* one entry stays for each directory, and when a duplicate declares nothing that the entry it
\* duplicates does not, every entry that stays still hangs from the root.
DuplicatesGoHighestStays(q) ==
    LET tree == q.tree
        kept == FixCircularities(tree)
        here(e) == {o \in DOMAIN tree : tree[o].path = tree[e].path}
        nested(e) == {tree[c].path : c \in ChildrenOf(tree, e)}
        agreed == \A e \in DOMAIN tree, o \in DOMAIN tree : o \in here(e) => Compatible(tree[e].mark, tree[o].mark)
        covered == \A e \in DOMAIN tree \ DOMAIN kept : \A k \in here(e) \cap DOMAIN kept : nested(e) \subseteq nested(k)
    IN  /\ \A e \in Placed(tree) : \E k \in here(e) \cap DOMAIN kept : \A o \in here(e) : Depth(tree, k) <= Depth(tree, o)
        /\ \A e \in DOMAIN tree : tree[e].path = 0 => e \in DOMAIN kept
        /\ \A e \in DOMAIN tree \ DOMAIN kept : \E k \in here(e) \cap DOMAIN kept :
               Compatible(tree[k].mark, tree[e].mark) \/ Leads(PathGraph(tree))[tree[k].path, tree[tree[e].parent].path]
        /\ agreed => \A e, o \in Placed(kept) : o \in here(e) => e = o
        /\ agreed /\ covered /\ Placed(tree) = DOMAIN tree => Range(IterTree(kept)) = DOMAIN kept

Right(q) ==
    CASE q.kind = "privacy"    -> PrivacyIsInherited(q)
      [] q.kind = "loop"       -> LoopIsSafe(q)
      [] q.kind = "order"      -> OrderIsParentFirst(q)
      [] q.kind = "path"       -> OwnerIsInnermost(q)
      [] q.kind = "components" -> ComponentsAreCycles(q)
      [] q.kind = "circular"   -> DuplicatesGoHighestStays(q)
=============================================================================
