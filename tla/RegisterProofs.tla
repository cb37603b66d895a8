----------------------------- MODULE RegisterProofs -----------------------------
(****************************************************************************)
(* The register stays sound for any contributors, records and branches, and *)
(* whatever is done to it with plain git. RegisterInv says how far each     *)
(* command has come, what the indexes say, what has been kept of what was   *)
(* seen and told, and where the files are.                                  *)
(*                                                                          *)
(* A conversion of submodules is whole however the repositories are nested: *)
(* the lemmas about the tree say what its walk visits and what git status   *)
(* shows, ConversionInv how far the walk has come.                          *)
(*                                                                          *)
(* No record of a memory on several machines is lost, whatever the machines *)
(* take care of: MachinesInv says which commits each of them can see, and   *)
(* what it is in the middle of; Housed, where a rebooted branch went.       *)
(*                                                                          *)
(* The theorems are about the behaviours that the configurations of         *)
(* MCShared check.                                                          *)
(****************************************************************************)
EXTENDS MCShared, FiniteSetTheorems, SequenceTheorems, WellFoundedInduction, TLAPS

-----------------------------------------------------------------------------
(* Sequences *)

Checks == Seq(SUBSET Records) \ {<<>>}
Commit == [by : Contributors \cup {"before", "hand"}, chk : Checks]
Tips   == Seq(Commit)

\* IsPrefix, without SubSeq.
LEMMA PrefixIs ==
    ASSUME NEW S, NEW s \in Seq(S), NEW t \in Seq(S)
    PROVE  IsPrefix(s, t) <=> Len(s) <= Len(t) /\ \A i \in 1..Len(s) : s[i] = t[i]
<1>1. CASE ~(Len(s) <= Len(t))
  BY <1>1 DEF IsPrefix
<1>2. CASE Len(s) <= Len(t)
  <2> DEFINE a == SubSeq(s, 1, Len(s))  b == SubSeq(t, 1, Len(s))
  <2>1. /\ Len(s) \in Nat /\ Len(t) \in Nat /\ \A i \in 1..Len(s) : s[i] \in S /\ t[i] \in S
    BY <1>2
  <2>2. /\ a \in Seq(S) /\ Len(a) = Len(s) /\ \A i \in 1..Len(s) : a[i] = s[i]
    BY <2>1
  <2>3. /\ b \in Seq(S) /\ Len(b) = Len(s) /\ \A i \in 1..Len(s) : b[i] = t[i]
    BY <2>1, <1>2
  <2>4. a = b <=> \A i \in 1..Len(s) : a[i] = b[i]
    <3>1. ASSUME \A i \in 1..Len(s) : a[i] = b[i] PROVE a = b
      <4> HIDE DEF a, b
      <4> QED
        BY <2>2, <2>3, <3>1, SeqEqual
    <3> QED
      BY <3>1
  <2> QED
    BY <1>2, <2>2, <2>3, <2>4 DEF IsPrefix
<1> QED
  BY <1>1, <1>2

LEMMA PrefixSelf == ASSUME NEW S, NEW s \in Seq(S) PROVE IsPrefix(s, s) /\ IsPrefix(<<>>, s)
<1>1. <<>> \in Seq(S) /\ Len(<<>>) = 0 /\ Len(s) \in Nat
  OBVIOUS
<1>2. IsPrefix(s, s)
  <2>1. Len(s) <= Len(s) /\ \A i \in 1..Len(s) : s[i] = s[i]
    BY <1>1
  <2> QED
    BY <2>1, PrefixIs
<1>3. ASSUME NEW n \in Seq(S), Len(n) = 0 PROVE IsPrefix(n, s)
  <2>1. Len(n) <= Len(s) /\ \A i \in 1..Len(n) : n[i] = s[i]
    BY <1>1, <1>3
  <2> QED
    BY <2>1, PrefixIs
<1>4. IsPrefix(<<>>, s)
  BY <1>1, <1>3
<1> QED
  BY <1>2, <1>4

\* What begins one beginning of a sequence begins the sequence.
LEMMA PrefixTrans ==
    ASSUME NEW S, NEW s \in Seq(S), NEW t \in Seq(S), NEW u \in Seq(S), IsPrefix(s, t), IsPrefix(t, u)
    PROVE  IsPrefix(s, u)
BY PrefixIs

\* What begins a sequence begins the one with an element more.
LEMMA PrefixNext ==
    ASSUME NEW S, NEW s \in Seq(S), NEW t \in Seq(S), NEW e \in S, IsPrefix(s, t)
    PROVE  IsPrefix(s, Append(t, e))
<1> DEFINE u == Append(t, e)
<1>1. u \in Seq(S) /\ Len(u) = Len(t) + 1 /\ \A i \in 1..Len(t) : u[i] = t[i]
  OBVIOUS
<1> HIDE DEF u
<1>2. Len(s) \in Nat /\ Len(t) \in Nat /\ Len(s) <= Len(t) /\ \A i \in 1..Len(s) : s[i] = t[i]
  BY PrefixIs
<1>3. Len(s) <= Len(u) /\ \A i \in 1..Len(s) : s[i] = u[i]
  BY <1>1, <1>2
<1>4. IsPrefix(s, u)
  BY <1>1, <1>3, PrefixIs
<1> QED
  BY <1>4 DEF u

\* A sequence that another one with an element more begins with is all of it, or begins what was.
LEMMA PrefixOfNext ==
    ASSUME NEW S, NEW s \in Seq(S), NEW t \in Seq(S), NEW e \in S, IsPrefix(s, Append(t, e)), s # Append(t, e)
    PROVE  IsPrefix(s, t)
<1> DEFINE u == Append(t, e)
<1>1. u \in Seq(S) /\ Len(u) = Len(t) + 1 /\ \A i \in 1..Len(t) : u[i] = t[i]
  OBVIOUS
<1>0. IsPrefix(s, u) /\ s # u
  OBVIOUS
<1> HIDE DEF u
<1>2. Len(s) <= Len(u) /\ \A i \in 1..Len(s) : s[i] = u[i]
  BY <1>0, <1>1, PrefixIs
<1>3. ASSUME Len(s) = Len(t) + 1 PROVE FALSE
  <2>1. Len(s) = Len(u)
    BY <1>1, <1>3
  <2> QED
    BY <1>0, <1>1, <1>2, <2>1, SeqEqual
<1>4. Len(s) \in Nat /\ Len(t) \in Nat /\ Len(s) <= Len(t)
  BY <1>1, <1>2, <1>3
<1>5. \A i \in 1..Len(s) : s[i] = t[i]
  BY <1>1, <1>2, <1>4
<1> QED
  BY <1>4, <1>5, PrefixIs

\* A beginning that is no shorter is the sequence.
LEMMA PrefixSame ==
    ASSUME NEW S, NEW s \in Seq(S), NEW t \in Seq(S), IsPrefix(s, t), Len(t) <= Len(s)
    PROVE  s = t
<1>1. Len(s) = Len(t) /\ \A i \in 1..Len(s) : s[i] = t[i]
  BY PrefixIs
<1> QED
  BY <1>1, SeqEqual

\* A sequence is its front and its last element.
LEMMA FrontIs ==
    ASSUME NEW S, NEW s \in Seq(S), s # <<>>
    PROVE  /\ Front(s) \in Seq(S) /\ Len(Front(s)) = Len(s) - 1 /\ IsPrefix(Front(s), s)
           /\ \A i \in 1..Len(s) - 1 : Front(s)[i] = s[i]
           /\ Last(s) \in S /\ s = Append(Front(s), Last(s))
<1>1. Len(s) \in Nat /\ Len(s) > 0 /\ \A i \in 1..Len(s) : s[i] \in S
  OBVIOUS
<1>2. /\ Front(s) \in Seq(S) /\ Len(Front(s)) = Len(s) - 1
      /\ \A i \in 1..Len(s) - 1 : Front(s)[i] = s[i]
  <2>1. Len(s) - 1 \in Int /\ 1 \in Int /\ \A i \in 1..Len(s) - 1 : s[i] \in S
    BY <1>1
  <2>2. ASSUME NEW n \in Nat, n = Len(s) - 1
        PROVE  SubSeq(s, 1, n) \in Seq(S) /\ Len(SubSeq(s, 1, n)) = n /\ \A i \in 1..n : SubSeq(s, 1, n)[i] = s[i]
    <3>1. \A i \in 1..n : s[i] \in S
      BY <1>1, <2>2
    <3> QED
      BY <3>1, SubSeqProperties
  <2>3. Len(s) - 1 \in Nat
    BY <1>1
  <2> QED
    BY <2>2, <2>3 DEF Front
<1>3. Last(s) \in S
  BY <1>1 DEF Last
<1>4. s = Append(Front(s), Last(s))
  <2>1. /\ Append(Front(s), Last(s)) \in Seq(S) /\ Len(Append(Front(s), Last(s))) = Len(s)
        /\ \A i \in 1..Len(s) - 1 : Append(Front(s), Last(s))[i] = s[i]
        /\ Append(Front(s), Last(s))[Len(s)] = s[Len(s)]
    BY <1>1, <1>2, <1>3, AppendProperties DEF Last
  <2>2. \A i \in 1..Len(s) : Append(Front(s), Last(s))[i] = s[i]
    BY <1>1, <2>1
  <2> QED
    BY <2>1, <2>2, SeqEqual
<1>5. IsPrefix(Front(s), s)
  <2>1. Len(Front(s)) <= Len(s) /\ \A i \in 1..Len(Front(s)) : Front(s)[i] = s[i]
    BY <1>1, <1>2
  <2> QED
    BY <1>2, <2>1, PrefixIs
<1> QED
  BY <1>1, <1>2, <1>3, <1>4, <1>5

LEMMA FrontOfNext ==
    ASSUME NEW S, NEW s \in Seq(S), NEW e \in S
    PROVE  Front(Append(s, e)) = s /\ Last(Append(s, e)) = e
<1> DEFINE t == Append(s, e)
<1>1. t \in Seq(S) /\ t # <<>> /\ Len(t) = Len(s) + 1 /\ t[Len(t)] = e /\ \A i \in 1..Len(s) : t[i] = s[i]
  BY AppendProperties
<1> HIDE DEF t
<1>2. Front(t) \in Seq(S) /\ Len(Front(t)) = Len(s) /\ \A i \in 1..Len(s) : Front(t)[i] = s[i]
  BY <1>1, FrontIs
<1>3. Front(t) = s
  BY <1>2, SeqEqual
<1> QED
  BY <1>1, <1>3 DEF Last, t

-----------------------------------------------------------------------------
(* Checkpoints *)

\* The checkpoints of an index are finitely many.
LEMMA ChainIs ==
    ASSUME NEW tip \in Tips
    PROVE  /\ Chain(tip) \in SUBSET Checks /\ IsFiniteSet(Chain(tip))
           /\ tip = <<>> <=> Chain(tip) = {}
           /\ \A i \in 1..Len(tip) : tip[i] \in Commit /\ tip[i].chk \in Chain(tip) /\ tip[i].chk \in Checks
<1>1. \A i \in 1..Len(tip) : tip[i] \in Commit
  BY DEF Tips
<1>2. \A i \in 1..Len(tip) : tip[i].chk \in Checks
  BY <1>1 DEF Commit
<1>3. \A i \in 1..Len(tip) : tip[i].chk \in Chain(tip)
  BY DEF Chain
<1>4. Chain(tip) \in SUBSET Checks
  BY <1>2 DEF Chain
<1>5. tip = <<>> <=> Chain(tip) = {}
  <2>1. ASSUME tip # <<>> PROVE Chain(tip) # {}
    <3>1. 1 \in 1..Len(tip)
      BY <2>1 DEF Tips
    <3> QED
      BY <1>3, <3>1
  <2>2. ASSUME tip = <<>> PROVE Chain(tip) = {}
    <3>1. 1..Len(tip) = {}
      BY <2>2
    <3> QED
      BY <3>1 DEF Chain
  <2> QED
    BY <2>1, <2>2
<1>6. IsFiniteSet(Chain(tip))
  <2> DEFINE f == [i \in 1..Len(tip) |-> tip[i].chk]
  <2>1. f \in Surjection(1..Len(tip), Chain(tip))
    BY DEF Surjection, Chain
  <2>2. Len(tip) \in Nat
    BY DEF Tips
  <2> HIDE DEF f
  <2> QED
    BY <2>1, <2>2, FS_Surjection, FS_Interval
<1> QED
  BY <1>1, <1>2, <1>3, <1>4, <1>5, <1>6

\* Every checkpoint leads to a head: else the lengths of what follows it, which are
\* finitely many, would be the same set when each is one more.
LEMMA LeadsToHead ==
    ASSUME NEW ch \in SUBSET Checks, IsFiniteSet(ch), NEW k \in ch
    PROVE  \E h \in Heads(ch) : IsPrefix(k, h)
<1> SUFFICES ASSUME \A h \in Heads(ch) : ~IsPrefix(k, h) PROVE FALSE
  OBVIOUS
<1> DEFINE Ext == {x \in ch : IsPrefix(k, x)}
           lens == {Len(x) : x \in Ext}
           more == {l + 1 : l \in lens}
<1>1. k \in Seq(SUBSET Records) /\ \A x \in ch : x \in Seq(SUBSET Records) /\ x # <<>> /\ Len(x) \in Nat
  BY DEF Checks
<1>2. k \in Ext /\ \A l \in lens : l \in Nat /\ Len(k) <= l
  BY <1>1, PrefixSelf, PrefixIs
<1>3. IsFiniteSet(lens)
  <2>1. IsFiniteSet(Ext)
    BY FS_Subset
  <2> DEFINE f == [x \in Ext |-> Len(x)]
  <2>2. f \in Surjection(Ext, lens)
    BY DEF Surjection
  <2> HIDE DEF f, Ext, lens
  <2> QED
    BY <2>1, <2>2, FS_Surjection
<1>4. more \subseteq lens
  <2> SUFFICES ASSUME NEW x \in Ext PROVE Len(x) + 1 \in lens
    OBVIOUS
  <2>1. x \in Parents(ch)
    BY DEF Heads
  <2>2. PICK y \in ch : x = Front(y)
    BY <2>1 DEF Parents
  <2>3. y \in Seq(SUBSET Records) /\ y # <<>> /\ x \in Seq(SUBSET Records)
    BY <1>1
  <2>4. Len(x) = Len(y) - 1 /\ IsPrefix(x, y) /\ Len(y) \in Nat
    BY <2>2, <2>3, FrontIs
  <2>5. y \in Ext
    BY <1>1, <2>3, <2>4, PrefixTrans
  <2>6. Len(y) = Len(x) + 1
    BY <2>4, <1>1
  <2> QED
    BY <2>5, <2>6
<1>5. IsFiniteSet(more) /\ Cardinality(more) = Cardinality(lens)
  <2> DEFINE f == [l \in lens |-> l + 1]
  <2>1. f \in Bijection(lens, more)
    BY <1>2 DEF Bijection, Injection, Surjection, IsInjective
  <2>2. ExistsBijection(lens, more)
    BY <2>1 DEF ExistsBijection
  <2> HIDE DEF f, lens, more
  <2> QED
    BY <1>3, <2>2, FS_Bijection
<1>6. more = lens
  <2> HIDE DEF lens, more
  <2> QED
    BY <1>3, <1>4, <1>5, FS_Subset
<1>7. Len(k) \in more
  BY <1>2, <1>6
<1> QED
  BY <1>1, <1>2, <1>7

\* A chain that is not empty has a head.
LEMMA HeadIs ==
    ASSUME NEW ch \in SUBSET Checks, IsFiniteSet(ch), ch # {}
    PROVE  HeadOf(ch) \in Heads(ch) /\ HeadOf(ch) \in ch
<1>1. \E h \in Heads(ch) : TRUE
  BY LeadsToHead
<1> QED
  BY <1>1 DEF HeadOf, Heads

\* A chain that holds is all before its one head.
LEMMA OneHead ==
    ASSUME NEW ch \in SUBSET Checks, IsFiniteSet(ch), ch # {}, ChainHolds(ch)
    PROVE  Heads(ch) = {HeadOf(ch)} /\ \A k \in ch : IsPrefix(k, HeadOf(ch))
<1>1. HeadOf(ch) \in Heads(ch)
  BY HeadIs
<1>2. IsFiniteSet(Heads(ch)) /\ Cardinality(Heads(ch)) \in Nat /\ Cardinality(Heads(ch)) <= 1
  BY FS_Subset, FS_CardinalityType DEF Heads, ChainHolds
<1>3. Cardinality(Heads(ch)) # 0
  BY <1>1, <1>2, FS_EmptySet
<1>4. Heads(ch) = {HeadOf(ch)}
  <2>1. Cardinality(Heads(ch)) = 1
    BY <1>2, <1>3
  <2>2. \E x : Heads(ch) = {x}
    BY <1>2, <2>1, FS_Singleton
  <2> QED
    BY <1>1, <2>2
<1> QED
  BY <1>4, LeadsToHead

\* What an index covers is what one of its checkpoints accepted.
LEMMA CoveredIs ==
    ASSUME NEW tip \in Tips
    PROVE  /\ Covered(Chain(tip)) \in SUBSET Records
           /\ tip = <<>> => Covered(Chain(tip)) = {} /\ HeadOf(Chain(tip)) = <<>>
           /\ tip # <<>> => \E i \in 1..Len(tip) : HeadOf(Chain(tip)) = tip[i].chk /\ Covered(Chain(tip)) = Last(tip[i].chk)
<1>1. CASE tip = <<>>
  <2>1. Chain(tip) = {}
    BY <1>1, ChainIs
  <2> QED
    BY <1>1, <2>1 DEF Covered, HeadOf
<1>2. CASE tip # <<>>
  <2>1. Chain(tip) # {} /\ HeadOf(Chain(tip)) \in Chain(tip) /\ HeadOf(Chain(tip)) \in Checks
    BY <1>2, ChainIs, HeadIs
  <2>2. \E i \in 1..Len(tip) : HeadOf(Chain(tip)) = tip[i].chk
    BY <2>1 DEF Chain
  <2>3. Covered(Chain(tip)) = Last(HeadOf(Chain(tip)))
    BY <2>1 DEF Covered
  <2>4. Last(HeadOf(Chain(tip))) \in SUBSET Records
    BY <2>1, FrontIs DEF Checks
  <2> QED
    BY <1>2, <2>2, <2>3, <2>4
<1> QED
  BY <1>1, <1>2

\* No checkpoint takes back what the one before it accepted.
Growing(k) == \A i, j \in 1..Len(k) : i <= j => k[i] \subseteq k[j]

\* An index with more checkpoints covers no less.
LEMMA CoveredGrows ==
    ASSUME NEW old \in Tips, NEW new \in Tips, Chain(old) \subseteq Chain(new),
           ChainHolds(Chain(new)), \A i \in 1..Len(new) : Growing(new[i].chk)
    PROVE  Covered(Chain(old)) \subseteq Covered(Chain(new))
<1>1. CASE old = <<>>
  BY <1>1, CoveredIs
<1>2. CASE old # <<>>
  <2> DEFINE k == HeadOf(Chain(old))  h == HeadOf(Chain(new))
  <2>1. Chain(old) # {} /\ Chain(new) # {} /\ k \in Chain(old) /\ h \in Chain(new) /\ k \in Chain(new)
    BY <1>2, ChainIs, HeadIs
  <2>2. k \in Seq(SUBSET Records) /\ k # <<>> /\ h \in Seq(SUBSET Records) /\ h # <<>>
    BY <2>1, ChainIs DEF Checks
  <2>3. IsPrefix(k, h)
    BY <2>1, ChainIs, OneHead
  <2>4. Growing(h)
    BY <2>1 DEF Chain
  <2>5. Covered(Chain(old)) = k[Len(k)] /\ Covered(Chain(new)) = h[Len(h)]
    BY <2>1 DEF Covered, Last
  <2> HIDE DEF k, h
  <2>6. Len(k) \in 1..Len(h) /\ Len(h) \in 1..Len(h) /\ k[Len(k)] = h[Len(k)] /\ Len(k) <= Len(h)
    BY <2>2, <2>3, PrefixIs
  <2> QED
    BY <2>4, <2>5, <2>6 DEF Growing
<1> QED
  BY <1>1, <1>2

\* A checkpoint that follows the head of a chain that holds is the head of one that holds.
Follow(tip, accepted) == Append(HeadOf(Chain(tip)), accepted)
With(tip, who, k) == Append(tip, [by |-> who, chk |-> k])

LEMMA ChainNext ==
    ASSUME NEW tip \in Tips, ChainHolds(Chain(tip)), NEW acc \in SUBSET Records,
           NEW who \in Contributors \cup {"before", "hand"}
    PROVE  /\ Follow(tip, acc) \in Checks /\ Last(Follow(tip, acc)) = acc
           /\ [by |-> who, chk |-> Follow(tip, acc)] \in Commit
           /\ With(tip, who, Follow(tip, acc)) \in Tips
           /\ Len(With(tip, who, Follow(tip, acc))) = Len(tip) + 1 /\ Len(tip) \in Nat
           /\ \A i \in 1..Len(tip) : With(tip, who, Follow(tip, acc))[i] = tip[i]
           /\ With(tip, who, Follow(tip, acc))[Len(tip) + 1] = [by |-> who, chk |-> Follow(tip, acc)]
           /\ ChainHolds(Chain(With(tip, who, Follow(tip, acc))))
           /\ Covered(Chain(With(tip, who, Follow(tip, acc)))) = acc
           /\ (\A i \in 1..Len(tip) : Growing(tip[i].chk)) /\ Covered(Chain(tip)) \subseteq acc
                 => Growing(Follow(tip, acc))
<1> DEFINE ch == Chain(tip)  h == HeadOf(ch)  made1 == Follow(tip, acc)  new == With(tip, who, made1)
<1>0. made1 = Append(h, acc) /\ new = Append(tip, [by |-> who, chk |-> made1])
  BY DEF Follow, With
<1> HIDE DEF made1, new
<1>1. ch \in SUBSET Checks /\ IsFiniteSet(ch)
  BY ChainIs
<1>2. ch # {} => h \in ch /\ Heads(ch) = {h}
  BY <1>1, HeadIs, OneHead
<1>3. ch = {} => h = <<>>
  BY DEF HeadOf
<1>4. h \in Seq(SUBSET Records)
  <2>1. CASE ch = {}
    <3>1. h = <<>>
      BY <1>3, <2>1
    <3> HIDE DEF h
    <3> QED
      BY <3>1
  <2>2. CASE ch # {}
    <3>1. h \in Checks
      BY <1>1, <1>2, <2>2
    <3> QED
      BY <3>1 DEF Checks
  <2> QED
    BY <2>1, <2>2
<1>5. made1 \in Seq(SUBSET Records) /\ made1 # <<>> /\ Len(made1) = Len(h) + 1 /\ Front(made1) = h /\ Last(made1) = acc
      /\ made1[Len(h) + 1] = acc /\ \A i \in 1..Len(h) : made1[i] = h[i]
  BY <1>0, <1>4, AppendProperties, FrontOfNext
<1>6. made1 \in Checks
  BY <1>5 DEF Checks
<1>7. [by |-> who, chk |-> made1] \in Commit
  BY <1>6 DEF Commit
<1>8. /\ new \in Tips /\ Len(new) = Len(tip) + 1 /\ Len(tip) \in Nat
      /\ \A i \in 1..Len(tip) : new[i] = tip[i]
      /\ new[Len(tip) + 1] = [by |-> who, chk |-> made1]
  <2> QED
    BY <1>0, <1>7, AppendProperties DEF Tips
<1> HIDE DEF ch, h
<1>9. Chain(new) = ch \cup {made1}
  <2>1. ASSUME NEW k \in Chain(new) PROVE k \in ch \cup {made1}
    <3>1. PICK i \in 1..Len(new) : k = new[i].chk
      BY DEF Chain
    <3>2. CASE i \in 1..Len(tip)
      BY <1>8, <3>1, <3>2 DEF Chain, ch
    <3>3. CASE i = Len(tip) + 1
      BY <1>8, <3>1, <3>3
    <3> QED
      BY <1>8, <3>2, <3>3
  <2>2. ASSUME NEW k \in ch PROVE k \in Chain(new)
    <3>1. PICK i \in 1..Len(tip) : k = tip[i].chk
      BY DEF Chain, ch
    <3>2. i \in 1..Len(new) /\ new[i] = tip[i]
      BY <1>8
    <3> QED
      BY <3>1, <3>2 DEF Chain
  <2>3. made1 \in Chain(new)
    <3>1. Len(tip) + 1 \in 1..Len(new)
      BY <1>8
    <3> QED
      BY <1>8, <3>1 DEF Chain
  <2> QED
    BY <2>1, <2>2, <2>3
<1>10. made1 \notin ch
  <2> SUFFICES ASSUME made1 \in ch PROVE FALSE
    OBVIOUS
  <2>1. h \in Parents(ch)
    BY <1>5 DEF Parents
  <2> QED
    BY <1>2, <2>1 DEF Heads
<1>11. made1 \notin Parents(ch \cup {made1})
  <2> SUFFICES ASSUME NEW k \in ch \cup {made1}, made1 = Front(k) PROVE FALSE
    BY DEF Parents
  <2>1. k # made1
    BY <1>4, <1>5
  <2>2. k \in ch /\ k \in Seq(SUBSET Records) /\ k # <<>> /\ h \in Seq(SUBSET Records)
    BY <1>1, <1>4, <2>1 DEF Checks
  <2>3. IsPrefix(k, h) /\ Len(made1) = Len(k) - 1
    BY <1>1, <2>2, OneHead, FrontIs DEF h, ch
  <2>4. Len(k) <= Len(h) /\ Len(k) \in Nat /\ Len(h) \in Nat
    BY <2>2, <2>3, PrefixIs
  <2> QED
    BY <1>5, <2>3, <2>4
<1>12. Heads(ch \cup {made1}) = {made1}
  <2>1. ASSUME NEW k \in ch PROVE k \in Parents(ch \cup {made1})
    <3>1. CASE k = h
      BY <1>5, <3>1 DEF Parents
    <3>2. CASE k # h
      BY <1>2, <3>2 DEF Heads, Parents
    <3> QED
      BY <3>1, <3>2
  <2> QED
    BY <1>11, <2>1 DEF Heads
<1>13. ChainHolds(Chain(new))
  <2>1. Cardinality({made1}) = 1
    BY FS_Singleton
  <2>2. ASSUME NEW k \in ch \cup {made1}, Len(k) > 1 PROVE Front(k) \in ch \cup {made1}
    <3>1. CASE k \in ch
      BY <2>2, <3>1 DEF ChainHolds, ch
    <3>2. CASE k = made1
      <4>1. Len(h) > 0
        BY <1>4, <1>5, <2>2, <3>2
      <4>2. ch # {}
        BY <1>3, <4>1
      <4> QED
        BY <1>2, <1>5, <3>2, <4>2
    <3> QED
      BY <3>1, <3>2
  <2>3. Cardinality(Heads(ch \cup {made1})) <= 1
    <3> DEFINE heads == Heads(ch \cup {made1})
    <3>1. heads = {made1}
      BY <1>12
    <3> HIDE DEF heads
    <3>2. Cardinality(heads) = 1
      BY <2>1, <3>1
    <3>3. Cardinality(heads) <= 1
      BY <3>2
    <3> QED
      BY <3>3 DEF heads
  <2> DEFINE all1 == ch \cup {made1}
  <2>4. (\A k \in all1 : Len(k) > 1 => Front(k) \in all1) /\ Cardinality(Heads(all1)) <= 1
    BY <2>2, <2>3
  <2> HIDE DEF all1
  <2>5. ChainHolds(all1)
    BY <2>4 DEF ChainHolds
  <2> QED
    BY <1>9, <2>5 DEF all1
<1>14. Covered(Chain(new)) = acc
  <2>1. HeadOf(ch \cup {made1}) = made1
    BY <1>12 DEF HeadOf
  <2> QED
    BY <1>5, <1>9, <2>1 DEF Covered
<1>15. ASSUME \A i \in 1..Len(tip) : Growing(tip[i].chk), Covered(ch) \subseteq acc PROVE Growing(made1)
  <2> SUFFICES ASSUME NEW i \in 1..Len(made1), NEW j \in 1..Len(made1), i <= j PROVE made1[i] \subseteq made1[j]
    BY DEF Growing
  <2>1. Len(h) \in Nat
    BY <1>4
  <2>2. CASE ch = {}
    <3>1. i = j
      BY <1>3, <1>5, <2>2
    <3> QED
      BY <3>1
  <2>3. CASE ch # {}
    <3>1. Growing(h) /\ h \in Seq(SUBSET Records) /\ h # <<>>
      BY <1>1, <1>2, <1>15, <2>3 DEF Chain, ch, Checks
    <3>2. Covered(ch) = h[Len(h)] /\ Len(h) \in 1..Len(h)
      BY <2>3, <3>1 DEF Covered, Last, h
    <3>3. CASE j \in 1..Len(h)
      <4>1. i \in 1..Len(h)
        BY <3>3, <2>1
      <4> QED
        BY <1>5, <3>1, <3>3, <4>1 DEF Growing
    <3>4. CASE j = Len(h) + 1 /\ i \in 1..Len(h)
      <4>1. h[i] \subseteq h[Len(h)]
        BY <3>1, <3>2, <3>4 DEF Growing
      <4> QED
        BY <1>5, <1>15, <3>2, <3>4, <4>1
    <3>5. CASE j = Len(h) + 1 /\ i = Len(h) + 1
      BY <3>5
    <3> QED
      BY <1>5, <2>1, <3>3, <3>4, <3>5
  <2> QED
    BY <2>2, <2>3
<1> QED
  BY <1>5, <1>6, <1>8, <1>9, <1>13, <1>7, <1>14, <1>15 DEF h, ch, made1, new

-----------------------------------------------------------------------------
(* The invariant *)

\* Types of what the proofs read; dirty, tries, gone and cloned only narrow what may happen.
Files   == SUBSET (Records \cup Contributors)
Filings == [Branches -> [n : Nat, files : Files]]
Typed ==
    /\ filed \in Filings
    /\ index \in Tips
    /\ known \in [Contributors -> [filed : Filings, index : Tips]]
    /\ seen \in [Contributors -> Tips] /\ base \in [Contributors -> Tips]
    /\ step \in [Contributors -> {"idle", "file", "push", "check", "publish", "remember"}]
    /\ own \in [Contributors -> Records \cup Contributors \cup {"none"}]
    /\ made \in [Contributors -> Seq(SUBSET Records)]
    /\ DOMAIN route = Contributors
    /\ IsFiniteSet(hands) /\ hands \subseteq Hands

Withdrawn(done) == "withdraw" \in done
Rewound(done)   == done \cap {"rewind", "drop"} # {}
Replaced(done)  == done \cap {"replace", "fork"} # {}
AtHome(r, on)   == r \in on[Home[r]].files

\* The checkpoint c is about to publish follows the one it found and adds only what it may.
Publishes(c) ==
    /\ IsPrefix(seen[c], known[c].index)
    /\ ChainHolds(Chain(known[c].index))
    /\ \E accepted \in SUBSET Records :
          /\ made[c] = Follow(known[c].index, accepted)
          /\ Covered(Chain(known[c].index)) \subseteq accepted
          /\ accepted \subseteq Covered(Chain(known[c].index)) \cup Reads[c]
          /\ ~Withdrawn(hands) => own[c] \in accepted /\ \A r \in accepted : AtHome(r, filed)

\* How far the command of c has come.
Holds(c) ==
    /\ step[c] # "idle" /\ own[c] \in Records =>
          own[c] \in Own /\ own[c] \in Reads[c] /\ route[c] = <<Home[own[c]]>>
    /\ step[c] # "idle" => own[c] \in Records \cup Contributors
    /\ step[c] \in {"check", "publish", "remember"} =>
          own[c] \in Records /\ (~Withdrawn(hands) => AtHome(own[c], filed))
    /\ seen[c] # <<>> =>
          known[c].index # <<>> /\ (step[c] \in {"check", "publish"} => base[c] = seen[c])
    /\ step[c] = "publish" => Publishes(c)
    /\ step[c] = "remember" /\ ~Withdrawn(hands) => own[c] \in Covered(Chain(known[c].index))

\* What an index says: each record in it was readable to who added it, is filed where it
\* belongs, and stays in what follows, unless it was withdrawn or the index replaced by hand.
Sound(tip, on, done) ==
    /\ \A i \in 1..Len(tip) : tip[i].by \in Contributors =>
          \A r \in Last(tip[i].chk) :
              r \in Reads[tip[i].by] \/ \E j \in 1..i-1 : r \in Last(tip[j].chk)
    /\ ~Withdrawn(done) => \A i \in 1..Len(tip) : \A r \in Last(tip[i].chk) : AtHome(r, on)
    /\ ~Replaced(done) => \A i \in 1..Len(tip) : Growing(tip[i].chk)
AllSound == Sound(index, filed, hands) /\ \A c \in Contributors : Sound(known[c].index, filed, hands)

\* Unless the index was rewound or replaced by hand, all that anybody saw or was told is in it.
Kept ==
    /\ ~Rewound(hands) => \A c \in Contributors : Len(known[c].index) <= Len(index)
    /\ ~Rewound(hands) /\ ~Replaced(hands) =>
          /\ ChainHolds(Chain(index))
          /\ \A c \in Contributors :
                IsPrefix(known[c].index, index) /\ IsPrefix(seen[c], known[c].index)
          /\ ~Withdrawn(hands) => sure \subseteq Covered(Chain(index)) \cup Contributors

\* A record is on one branch, its own or the one it was misfiled on.
OnOneBranch ==
    "copy" \notin hands =>
        /\ \A r \in Own, b \in Branches : r \in filed[b].files => b = Home[r]
        /\ "misfile" \notin hands =>
              \A r \in Records, b \in Branches : r \in filed[b].files => b = Home[r]
        /\ ~({"misfile", "propose"} \subseteq hands) =>
              \A r \in Records, b, d \in Branches : r \in filed[b].files /\ r \in filed[d].files => b = d

RegisterInv ==
    Typed /\ (\A c \in Contributors : Holds(c)) /\ AllSound /\ Kept /\ OnOneBranch

-----------------------------------------------------------------------------
(* What the helpers say of an index *)

LEMMA TipIs ==
    ASSUME NEW tip \in Tips
    PROVE  /\ Len(tip) \in Nat
           /\ \A i \in 1..Len(tip) :
                 /\ tip[i] \in Commit /\ tip[i].chk \in Seq(SUBSET Records) /\ tip[i].chk # <<>>
                 /\ Last(tip[i].chk) \in SUBSET Records
<1>1. \A i \in 1..Len(tip) : tip[i] \in Commit /\ tip[i].chk \in Checks
  BY ChainIs
<1>2. \A k \in Checks : k \in Seq(SUBSET Records) /\ k # <<>>
  BY DEF Checks
<1>3. \A k \in Checks : Last(k) \in SUBSET Records
  BY <1>2, FrontIs
<1> QED
  BY <1>1, <1>2, <1>3 DEF Tips

\* Nothing becomes unsound but by a withdrawal or a replacement by hand.
LEMMA SoundLater ==
    ASSUME NEW tip \in Tips, NEW on, NEW done, NEW after, NEW more,
           Sound(tip, on, done),
           ~Withdrawn(more) => ~Withdrawn(done) /\ \A r \in Records : AtHome(r, on) => AtHome(r, after),
           ~Replaced(more) => ~Replaced(done)
    PROVE  Sound(tip, after, more)
BY TipIs DEF Sound

\* The beginning of a sound index is sound.
LEMMA SoundStart ==
    ASSUME NEW old \in Tips, NEW new \in Tips, NEW on, NEW done, Sound(new, on, done), IsPrefix(old, new)
    PROVE  Sound(old, on, done)
<1>1. /\ Len(old) \in Nat /\ Len(new) \in Nat /\ Len(old) <= Len(new)
      /\ \A i \in 1..Len(old) : old[i] = new[i]
  BY TipIs, PrefixIs DEF Tips
<1>2. \A i \in 1..Len(old) : i \in 1..Len(new) /\ \A j \in 1..i-1 : old[j] = new[j]
  BY <1>1
<1>3. ASSUME NEW i \in 1..Len(old), old[i].by \in Contributors, NEW r \in Last(old[i].chk)
      PROVE  r \in Reads[old[i].by] \/ \E j \in 1..i-1 : r \in Last(old[j].chk)
  <2>1. r \in Reads[new[i].by] \/ \E j \in 1..i-1 : r \in Last(new[j].chk)
    BY <1>1, <1>2, <1>3 DEF Sound
  <2> QED
    BY <1>1, <1>2, <2>1
<1>4. ASSUME ~Withdrawn(done), NEW i \in 1..Len(old), NEW r \in Last(old[i].chk) PROVE AtHome(r, on)
  BY <1>1, <1>2, <1>4 DEF Sound
<1>5. ASSUME ~Replaced(done), NEW i \in 1..Len(old) PROVE Growing(old[i].chk)
  BY <1>1, <1>2, <1>5 DEF Sound
<1> QED
  BY <1>3, <1>4, <1>5 DEF Sound

\* A commit on a sound index keeps it sound, when it adds only what its writer may accept.
LEMMA SoundNext ==
    ASSUME NEW old \in Tips, NEW new \in Tips, NEW on, NEW done, Sound(old, on, done),
           Len(new) = Len(old) + 1, \A i \in 1..Len(old) : new[i] = old[i],
           new[Len(new)].by \in Contributors =>
              \A r \in Last(new[Len(new)].chk) :
                 r \in Reads[new[Len(new)].by] \/ \E j \in 1..Len(old) : r \in Last(old[j].chk),
           ~Withdrawn(done) => \A r \in Last(new[Len(new)].chk) : AtHome(r, on),
           ~Replaced(done) => Growing(new[Len(new)].chk)
    PROVE  Sound(new, on, done)
<1>1. Len(old) \in Nat /\ Len(new) \in Nat
  BY TipIs
<1>2. \A i \in 1..Len(new) : i \in 1..Len(old) \/ i = Len(new)
  BY <1>1
<1>3. \A i \in 1..Len(new) : \A j \in 1..i-1 : new[j] = old[j] /\ j \in 1..Len(old)
  BY <1>1
<1>4. ASSUME NEW i \in 1..Len(new), new[i].by \in Contributors, NEW r \in Last(new[i].chk)
      PROVE  r \in Reads[new[i].by] \/ \E j \in 1..i-1 : r \in Last(new[j].chk)
  <2>1. CASE i \in 1..Len(old)
    <3>1. r \in Reads[old[i].by] \/ \E j \in 1..i-1 : r \in Last(old[j].chk)
      BY <1>4, <2>1 DEF Sound
    <3> QED
      BY <1>3, <2>1, <3>1
  <2>2. CASE i = Len(new)
    <3>1. 1..i-1 = 1..Len(old)
      BY <1>1, <2>2
    <3> QED
      BY <1>3, <1>4, <2>2, <3>1
  <2> QED
    BY <1>2, <2>1, <2>2
<1>5. ASSUME ~Withdrawn(done), NEW i \in 1..Len(new), NEW r \in Last(new[i].chk) PROVE AtHome(r, on)
  BY <1>2, <1>5 DEF Sound
<1>6. ASSUME ~Replaced(done), NEW i \in 1..Len(new) PROVE Growing(new[i].chk)
  BY <1>2, <1>6 DEF Sound
<1> QED
  BY <1>4, <1>5, <1>6 DEF Sound

LEMMA CoveredAtHome ==
    ASSUME NEW tip \in Tips, NEW on, NEW done, Sound(tip, on, done), ~Withdrawn(done)
    PROVE  \A r \in Covered(Chain(tip)) : AtHome(r, on)
BY CoveredIs DEF Sound

LEMMA ChainPrefix ==
    ASSUME NEW old \in Tips, NEW new \in Tips, IsPrefix(old, new)
    PROVE  Chain(old) \subseteq Chain(new)
<1>1. /\ Len(old) \in Nat /\ Len(new) \in Nat /\ Len(old) <= Len(new)
      /\ \A i \in 1..Len(old) : old[i] = new[i]
  BY TipIs, PrefixIs DEF Tips
<1>2. \A i \in 1..Len(old) : i \in 1..Len(new)
  BY <1>1
<1> QED
  BY <1>1, <1>2 DEF Chain

\* An index that another one begins with covers no more than it.
LEMMA CoveredKept ==
    ASSUME NEW old \in Tips, NEW new \in Tips, NEW on, NEW done, IsPrefix(old, new),
           ChainHolds(Chain(new)), Sound(new, on, done), ~Replaced(done)
    PROVE  Covered(Chain(old)) \subseteq Covered(Chain(new))
BY ChainPrefix, CoveredGrows DEF Sound

-----------------------------------------------------------------------------
(* The start *)

LEMMA HomeIs == \A r \in Records : Home[r] \in Branches
BY DEF Branches

LEMMA EmptyTip ==
    /\ <<>> \in Tips /\ Len(<<>>) = 0 /\ ChainHolds(Chain(<<>>))
    /\ \A on, done : Sound(<<>>, on, done)
<1>1. <<>> \in Tips /\ Len(<<>>) = 0
  BY DEF Tips
<1>2. Chain(<<>>) = {}
  BY <1>1, ChainIs
<1>3. ChainHolds({})
  <2>1. Heads({}) = {} /\ Cardinality({}) = 0
    BY FS_EmptySet DEF Heads
  <2> QED
    BY <2>1 DEF ChainHolds
<1>4. ASSUME NEW tip, Len(tip) = 0, NEW on, NEW done PROVE Sound(tip, on, done)
  <2>1. 1..Len(tip) = {}
    BY <1>4
  <2> QED
    BY <2>1 DEF Sound
<1> QED
  BY <1>1, <1>2, <1>3, <1>4

\* The index of a register that holds one record already.
LEMMA FirstTip ==
    ASSUME NEW r \in Records, NEW tip, tip = <<[by |-> "before", chk |-> <<{r}>>]>>
    PROVE  /\ tip \in Tips /\ ChainHolds(Chain(tip))
           /\ \A on, done : AtHome(r, on) => Sound(tip, on, done)
<1> DEFINE k == <<{r}>>
<1>1. /\ k = Append(<<>>, {r}) /\ Len(k) = 1 /\ k[1] = {r}
  OBVIOUS
<1>0. tip = <<[by |-> "before", chk |-> k]>>
  OBVIOUS
<1> HIDE DEF k
<1>5. tip = Append(<<>>, [by |-> "before", chk |-> k]) /\ Len(tip) = 1 /\ tip[1] = [by |-> "before", chk |-> k]
  BY <1>0
<1>2. HeadOf(Chain(<<>>)) = <<>>
  BY EmptyTip, CoveredIs
<1>3. /\ tip \in Tips /\ ChainHolds(Chain(tip)) /\ Last(k) = {r}
  <2>1. k = Follow(<<>>, {r}) /\ tip = With(<<>>, "before", k)
    BY <1>1, <1>2, <1>5 DEF Follow, With
  <2>2. /\ Last(Follow(<<>>, {r})) = {r} /\ With(<<>>, "before", Follow(<<>>, {r})) \in Tips
        /\ ChainHolds(Chain(With(<<>>, "before", Follow(<<>>, {r}))))
    BY EmptyTip, ChainNext
  <2> QED
    BY <2>1, <2>2
<1>4. ASSUME NEW on, NEW done, AtHome(r, on) PROVE Sound(tip, on, done)
  <2>1. Growing(k)
    BY <1>1 DEF Growing
  <2>2. tip[1].by \notin Contributors /\ tip[1].chk = k
    BY <1>5, RegisterAssumption
  <2>3. \A i \in 1..Len(tip) : i = 1
    BY <1>5
  <2> QED
    BY <1>3, <1>4, <2>1, <2>2, <2>3 DEF Sound
<1> QED
  BY <1>3, <1>4

\* A new register, and one that holds a record, are as they should be.
LEMMA InitInv == Init => RegisterInv
<1> SUFFICES ASSUME Init PROVE RegisterInv
  OBVIOUS
<1>1. filed \in Filings /\ index \in Tips /\ ChainHolds(Chain(index)) /\ Sound(index, filed, hands)
  <2>1. CASE filed = [b \in Branches |-> [n |-> 0, files |-> {}]] /\ index = <<>>
    BY <2>1, EmptyTip DEF Filings, Files
  <2>2. ASSUME NEW r \in Old,
               filed = [b \in Branches |-> IF b = Home[r] THEN [n |-> 1, files |-> {r}] ELSE [n |-> 0, files |-> {}]],
               index = <<[by |-> "before", chk |-> <<{r}>>]>>
        PROVE  filed \in Filings /\ index \in Tips /\ ChainHolds(Chain(index)) /\ Sound(index, filed, hands)
    <3>1. r \in Records
      BY RegisterAssumption
    <3>2. filed \in Filings /\ AtHome(r, filed)
      BY <2>2, <3>1, HomeIs DEF Filings, Files, AtHome
    <3> QED
      BY <2>2, <3>1, <3>2, FirstTip
  <2> QED
    BY <2>1, <2>2 DEF Init
<1>2. Typed
  <2>1. <<>> \in Tips /\ <<>> \in Seq(SUBSET Records)
    BY EmptyTip
  <2>2. IsFiniteSet(hands)
    BY FS_EmptySet DEF Init
  <2> QED
    BY <1>1, <2>1, <2>2 DEF Init, Typed
<1>3. \A c \in Contributors : Holds(c)
  BY DEF Init, Holds
<1>4. AllSound
  BY <1>1 DEF Init, AllSound
<1>5. Kept
  <2>1. IsPrefix(index, index) /\ IsPrefix(<<>>, index) /\ Len(index) \in Nat
    BY <1>1, PrefixSelf, TipIs DEF Tips
  <2> QED
    BY <1>1, <2>1 DEF Init, Kept
<1>6. OnOneBranch
  <2>1. \A b \in Branches : \A r \in filed[b].files : b = Home[r]
    <3>1. CASE filed = [b \in Branches |-> [n |-> 0, files |-> {}]]
      BY <3>1
    <3>2. ASSUME NEW r \in Old,
                 filed = [b \in Branches |-> IF b = Home[r] THEN [n |-> 1, files |-> {r}] ELSE [n |-> 0, files |-> {}]]
          PROVE  \A b \in Branches : \A s \in filed[b].files : b = Home[s]
      BY <3>2
    <3> QED
      BY <3>1, <3>2 DEF Init
  <2> QED
    BY <2>1 DEF OnOneBranch
<1> QED
  BY <1>2, <1>3, <1>4, <1>5, <1>6 DEF RegisterInv

-----------------------------------------------------------------------------
(* What a command leaves alone *)

Running == <<step, own, route, base, made>>
TypedRun ==
    /\ step \in [Contributors -> {"idle", "file", "push", "check", "publish", "remember"}]
    /\ own \in [Contributors -> Records \cup Contributors \cup {"none"}]
    /\ base \in [Contributors -> Tips]
    /\ made \in [Contributors -> Seq(SUBSET Records)]
    /\ DOMAIN route = Contributors

\* The other commands go on where they were.
OthersRun(c) ==
    \A d \in Contributors \ {c} :
        step'[d] = step[d] /\ own'[d] = own[d] /\ route'[d] = route[d] /\ base'[d] = base[d] /\ made'[d] = made[d]
OthersSee(c) ==
    \A d \in Contributors \ {c} : known'[d] = known[d] /\ seen'[d] = seen[d]

\* What a fetch brings.
LEMMA FetchedIs ==
    ASSUME Typed, NEW c \in Contributors
    PROVE  /\ Fetched(c).filed = filed /\ Fetched(c).index \in Tips
           /\ Fetched(c) \in [filed : Filings, index : Tips]
           /\ (Fetched(c).index = index \/ (index = <<>> /\ Fetched(c).index = known[c].index))
           /\ known[c].index # <<>> => Fetched(c).index # <<>>
BY DEF Typed, Fetched

LEMMA KnownIs ==
    ASSUME Typed, NEW c \in Contributors
    PROVE  /\ known[c].index \in Tips /\ known[c].filed \in Filings /\ seen[c] \in Tips /\ base[c] \in Tips
           /\ known[c] \in [filed : Filings, index : Tips]
BY DEF Typed

\* A command that ends leaves the others where they were.
LEMMA EndsRun ==
    ASSUME TypedRun, NEW c \in Contributors, Ends(c)
    PROVE  TypedRun' /\ OthersRun(c) /\ step'[c] = "idle"
<1>1. <<>> \in Tips /\ <<>> \in Seq(SUBSET Records)
  BY EmptyTip
<1> QED
  BY <1>1 DEF TypedRun, Ends, OthersRun

LEMMA AgainRun ==
    ASSUME TypedRun, NEW c \in Contributors, NEW where \in {"file", "check"}, Again(c, where)
    PROVE  /\ TypedRun' /\ OthersRun(c)
           /\ \/ step'[c] = "idle"
              \/ step'[c] = where /\ own'[c] = own[c] /\ route'[c] = route[c] /\ base'[c] = base[c]
<1>1. <<>> \in Tips /\ <<>> \in Seq(SUBSET Records)
  BY EmptyTip
<1>2. CASE tries[c] < MaxAttempts
  BY <1>1, <1>2 DEF TypedRun, Again, OthersRun
<1>3. CASE ~(tries[c] < MaxAttempts)
  BY <1>3, EndsRun DEF Again
<1> QED
  BY <1>2, <1>3

LEMMA FiledRun ==
    ASSUME TypedRun, NEW c \in Contributors, NEW k, k.index \in Tips, seen[c] \in Tips, Filed(c, k)
    PROVE  /\ TypedRun' /\ OthersRun(c)
           /\ \/ step'[c] = "idle"
              \/ step'[c] = "file" /\ own'[c] = own[c] /\ Len(route[c]) > 1
              \/ step'[c] = "check" /\ own'[c] = own[c] /\ route'[c] = route[c] /\ own[c] \in Records
                 /\ base'[c] = Remembered(c, k)
<1>1. Remembered(c, k) \in Tips
  BY DEF Remembered
<1>2. CASE Len(route[c]) > 1 /\ step' = [step EXCEPT ![c] = "file"] /\ route' = [route EXCEPT ![c] = Tail(@)]
           /\ UNCHANGED <<own, base, made>>
  BY <1>2 DEF TypedRun, OthersRun
<1>3. CASE /\ own[c] \in Records /\ step' = [step EXCEPT ![c] = "check"]
           /\ base' = [base EXCEPT ![c] = Remembered(c, k)] /\ UNCHANGED <<own, route, made>>
  BY <1>1, <1>3 DEF TypedRun, OthersRun
<1>4. CASE Ends(c)
  BY <1>4, EndsRun
<1> QED
  BY <1>2, <1>3, <1>4 DEF Filed

LEMMA RunTyped == ASSUME Typed PROVE TypedRun
BY DEF Typed, TypedRun

\* A command goes on to hold what it held while others file, publish or work by hand.
LEMMA HoldsLater ==
    ASSUME Typed, NEW d \in Contributors, Holds(d),
           step'[d] = step[d], own'[d] = own[d], route'[d] = route[d], base'[d] = base[d], made'[d] = made[d],
           known'[d] = known[d], seen'[d] = seen[d],
           ~Withdrawn(hands') =>
              ~Withdrawn(hands) /\ \A r \in Records : AtHome(r, filed) => AtHome(r, filed')
    PROVE  Holds(d)'
<1>1. ASSUME step[d] = "publish" PROVE Publishes(d)'
  <2>1. Publishes(d)
    BY <1>1 DEF Holds
  <2>2. PICK accepted \in SUBSET Records :
          /\ made[d] = Follow(known[d].index, accepted)
          /\ Covered(Chain(known[d].index)) \subseteq accepted
          /\ accepted \subseteq Covered(Chain(known[d].index)) \cup Reads[d]
          /\ ~Withdrawn(hands) => own[d] \in accepted /\ \A r \in accepted : AtHome(r, filed)
    BY <2>1 DEF Publishes
  <2>3. ~Withdrawn(hands') => own[d] \in accepted /\ \A r \in accepted : AtHome(r, filed')
    BY <2>2
  <2> QED
    BY <2>1, <2>2, <2>3 DEF Publishes
<1> QED
  BY <1>1 DEF Holds

\* A command that fetched and goes no further than it was.
LEMMA HoldsFetched ==
    ASSUME RegisterInv, NEW c \in Contributors, step'[c] = "idle", seen'[c] = seen[c],
           known'[c].index = known[c].index \/ known'[c].index = Fetched(c).index
    PROVE  Holds(c)'
<1>1. known[c].index # <<>> => Fetched(c).index # <<>>
  BY FetchedIs DEF RegisterInv
<1> QED
  BY <1>1 DEF RegisterInv, Holds

-----------------------------------------------------------------------------
(* What each step of a command does *)

LEMMA StartsIs ==
    ASSUME RegisterInv, NEW c \in Contributors, NEW file \in Records \cup Contributors, NEW branches,
           Starts(c, file, branches), known' = known \/ known' = [known EXCEPT ![c] = Fetched(c)],
           file \in Records => file \in Own /\ file \in Reads[c] /\ branches = <<Home[file]>>
    PROVE  Typed' /\ OthersRun(c) /\ OthersSee(c) /\ Holds(c)'
<1>1. Typed /\ Holds(c) /\ Fetched(c) \in [filed : Filings, index : Tips]
  BY FetchedIs DEF RegisterInv
<1>2. known' \in [Contributors -> [filed : Filings, index : Tips]]
  BY <1>1 DEF Typed
<1>3. Typed'
  BY <1>1, <1>2 DEF Typed, Starts, remote
<1>4. OthersRun(c) /\ OthersSee(c)
  BY <1>1 DEF OthersRun, OthersSee, Starts, Typed
<1>5. step'[c] = "file" /\ own'[c] = file /\ route'[c] = branches /\ seen'[c] = seen[c]
  BY <1>1 DEF Typed, Starts
<1>6. seen[c] # <<>> => known'[c].index # <<>>
  BY <1>1, FetchedIs DEF Typed, Holds
<1> QED
  BY <1>3, <1>4, <1>5, <1>6 DEF Holds

LEMMA BeginIs ==
    ASSUME RegisterInv, NEW c \in Contributors, NEW r \in Own, Begin(c, r)
    PROVE  Typed' /\ OthersRun(c) /\ OthersSee(c) /\ Holds(c)'
BY StartsIs, RegisterAssumption DEF Begin

LEMMA ObserveIs ==
    ASSUME RegisterInv, NEW c \in Contributors, Observe(c)
    PROVE  Typed' /\ OthersRun(c) /\ OthersSee(c) /\ Holds(c)'
<1>1. c \notin Records
  BY RegisterAssumption
<1>2. PICK on : Starts(c, c, on) /\ known' = [known EXCEPT ![c] = Fetched(c)]
  BY DEF Observe
<1> QED
  BY <1>1, <1>2, StartsIs

LEMMA FileIs ==
    ASSUME RegisterInv, NEW c \in Contributors, File(c)
    PROVE  Typed' /\ OthersRun(c) /\ OthersSee(c) /\ Holds(c)'
<1> DEFINE k == Fetched(c)
<1>0. Typed /\ Holds(c) /\ TypedRun
  BY RunTyped DEF RegisterInv
<1>1. k \in [filed : Filings, index : Tips] /\ k.filed = filed /\ k.index \in Tips
      /\ (known[c].index # <<>> => k.index # <<>>)
  BY <1>0, FetchedIs
<1>2. /\ step[c] = "file" /\ known' = [known EXCEPT ![c] = k]
      /\ UNCHANGED <<remote, cloned, seen, dirty, sure, hands, runs, faults>>
      /\ IF own[c] \in k.filed[Head(route[c])].files THEN Filed(c, k)
         ELSE step' = [step EXCEPT ![c] = "push"] /\ UNCHANGED <<own, route, base, tries, made>>
  BY DEF File
<1> HIDE DEF k
<1>3. known'[c].index = k.index /\ OthersSee(c) /\ seen[c] \in Tips
  BY <1>0, <1>2 DEF Typed, OthersSee
<1>4. CASE own[c] \in k.filed[Head(route[c])].files
  <2>1. Filed(c, k)
    BY <1>2, <1>4
  <2>2. /\ TypedRun' /\ OthersRun(c)
        /\ \/ step'[c] = "idle"
           \/ step'[c] = "file" /\ own'[c] = own[c] /\ Len(route[c]) > 1
           \/ step'[c] = "check" /\ own'[c] = own[c] /\ route'[c] = route[c] /\ own[c] \in Records
              /\ base'[c] = Remembered(c, k)
    BY <1>0, <1>1, <1>3, <2>1, FiledRun
  <2>3. Typed'
    BY <1>0, <1>1, <1>2, <2>2 DEF Typed, TypedRun, remote
  <2>4. own[c] \in Records => Len(route[c]) = 1 /\ Head(route[c]) = Home[own[c]] /\ own[c] \in Own /\ own[c] \in Reads[c]
                              /\ route[c] = <<Home[own[c]]>>
    <3>1. own[c] \in Records => own[c] \in Own /\ own[c] \in Reads[c] /\ route[c] = <<Home[own[c]]>>
      BY <1>0, <1>2 DEF Holds
    <3>2. ASSUME NEW b PROVE Len(<<b>>) = 1 /\ Head(<<b>>) = b
      OBVIOUS
    <3> QED
      BY <3>1, <3>2
  <2>5. own[c] \in Records => AtHome(own[c], filed)
    BY <1>1, <1>4, <2>4 DEF AtHome
  <2>6. filed' = filed /\ hands' = hands /\ seen' = seen
    BY <1>2 DEF remote
  <2>7. CASE step'[c] = "idle"
    <3>1. Holds(c)'
      BY <1>3, <2>6, <2>7, HoldsFetched DEF k
    <3> QED
      BY <1>3, <2>2, <2>3, <3>1
  <2>8. CASE step'[c] = "file" /\ own'[c] = own[c] /\ Len(route[c]) > 1
    <3>2. own[c] \notin Records
      <4>1. own[c] \in Records => Len(route[c]) = 1
        BY <2>4
      <4>2. Len(route[c]) > 1
        BY <2>8
      <4>3. ~(1 > 1)
        OBVIOUS
      <4> QED
        BY <4>1, <4>2, <4>3, Zenon
    <3>3. own[c] \in Records \cup Contributors /\ (seen[c] # <<>> => known[c].index # <<>>)
      BY <1>0, <1>2 DEF Holds
    <3>1. Holds(c)'
      BY <1>1, <1>3, <2>6, <2>8, <3>2, <3>3 DEF Holds
    <3> QED
      BY <1>3, <2>2, <2>3, <3>1
  <2>9. CASE step'[c] = "check" /\ own'[c] = own[c] /\ route'[c] = route[c] /\ own[c] \in Records
             /\ base'[c] = Remembered(c, k)
    <3>1. seen[c] # <<>> => base'[c] = seen[c]
      BY <2>9 DEF Remembered
    <3>2. Holds(c)'
      BY <1>0, <1>1, <1>3, <2>4, <2>5, <2>6, <2>9, <3>1 DEF Holds
    <3> QED
      BY <1>3, <2>2, <2>3, <3>2
  <2> QED
    BY <2>2, <2>7, <2>8, <2>9
<1>5. CASE own[c] \notin k.filed[Head(route[c])].files
  <2>1. step' = [step EXCEPT ![c] = "push"] /\ UNCHANGED <<own, route, base, tries, made>>
    BY <1>2, <1>5
  <2>2. Typed' /\ OthersRun(c)
    BY <1>0, <1>1, <1>2, <2>1 DEF Typed, OthersRun, remote
  <2>3. step'[c] = "push" /\ hands' = hands /\ filed' = filed /\ seen' = seen
    BY <1>0, <1>2, <2>1 DEF Typed, remote
  <2>4. Holds(c)'
    BY <1>0, <1>1, <1>2, <1>3, <2>1, <2>3 DEF Holds
  <2> QED
    BY <1>3, <2>2, <2>4
<1> QED
  BY <1>4, <1>5

\* A command that files again, or gives up.
LEMMA HoldsAgain ==
    ASSUME RegisterInv, NEW c \in Contributors, seen'[c] = seen[c],
           known'[c].index = known[c].index \/ known'[c].index = Fetched(c).index,
           \/ step'[c] = "idle"
           \/ step[c] # "idle" /\ step'[c] = "file" /\ own'[c] = own[c] /\ route'[c] = route[c]
    PROVE  Holds(c)'
<1>1. known[c].index # <<>> => Fetched(c).index # <<>>
  BY FetchedIs DEF RegisterInv
<1>2. Holds(c)
  BY DEF RegisterInv
<1>3. CASE step'[c] = "idle"
  BY <1>3, HoldsFetched
<1>4. CASE step[c] # "idle" /\ step'[c] = "file" /\ own'[c] = own[c] /\ route'[c] = route[c]
  BY <1>1, <1>2, <1>4 DEF Holds
<1> QED
  BY <1>3, <1>4

\* A file is added to the branch of its record, or nothing is.
LEMMA PushFileIs ==
    ASSUME RegisterInv, NEW c \in Contributors, PushFile(c)
    PROVE  /\ Typed' /\ OthersRun(c) /\ OthersSee(c) /\ Holds(c)' /\ known'[c].index = known[c].index
           /\ \A b \in Branches : filed[b].files \subseteq filed'[b].files
           /\ \A b \in Branches, r \in Records :
                 r \in filed'[b].files => r \in filed[b].files \/ (r \in Own /\ b = Home[r])
<1> DEFINE b == Head(route[c])
           tip == [n |-> filed[b].n + 1, files |-> filed[b].files \cup {own[c]}]
           k == [known[c] EXCEPT !.filed[b] = tip]
<1>0. Typed /\ Holds(c) /\ TypedRun /\ step[c] = "push" /\ known[c] \in [filed : Filings, index : Tips] /\ seen[c] \in Tips
  BY RunTyped, KnownIs DEF RegisterInv, PushFile
<1>1. /\ \/ filed' = [filed EXCEPT ![b] = tip] /\ known' = [known EXCEPT ![c] = k] /\ Filed(c, k)
         \/ filed' = [filed EXCEPT ![b] = tip] /\ known' = known /\ Again(c, "file")
         \/ filed' = filed /\ known' = known /\ Again(c, "file")
      /\ index' = index /\ seen' = seen /\ hands' = hands
  BY DEF PushFile
<1>2. own[c] \in Records \cup Contributors
      /\ (own[c] \in Records => own[c] \in Own /\ own[c] \in Reads[c] /\ route[c] = <<Home[own[c]]>>)
  BY <1>0 DEF Holds
<1>3. own[c] \in Records => b = Home[own[c]] /\ ~(Len(route[c]) > 1)
  <2>1. ASSUME NEW h PROVE Len(<<h>>) = 1 /\ Head(<<h>>) = h /\ ~(1 > 1)
    OBVIOUS
  <2> QED
    BY <1>2, <2>1, Zenon
<1>4. b \in Branches => tip \in [n : Nat, files : Files]
  BY <1>0, <1>2 DEF Typed, Filings, Files
<1>5. tip.files = filed[b].files \cup {own[c]}
  OBVIOUS
<1> HIDE DEF tip
<1>6. k \in [filed : Filings, index : Tips] /\ k.index = known[c].index
  BY <1>0, <1>4 DEF Filings
<1> HIDE DEF b, k
<1>7. filed' \in Filings /\ known' \in [Contributors -> [filed : Filings, index : Tips]] /\ known'[c].index = known[c].index
      /\ OthersSee(c)
  <2>1. ASSUME filed' = [filed EXCEPT ![b] = tip] PROVE filed' \in Filings
    BY <1>0, <1>4, <2>1 DEF Typed, Filings
  <2>2. filed' \in Filings
    BY <1>0, <1>1, <2>1 DEF Typed
  <2>3. known' = [known EXCEPT ![c] = k] \/ known' = known
    BY <1>1
  <2>4. known' \in [Contributors -> [filed : Filings, index : Tips]] /\ known'[c].index = known[c].index
        /\ \A d \in Contributors \ {c} : known'[d] = known[d]
    <3>1. known \in [Contributors -> [filed : Filings, index : Tips]]
      BY <1>0 DEF Typed
    <3>2. CASE known' = known
      BY <3>1, <3>2
    <3>3. CASE known' = [known EXCEPT ![c] = k]
      BY <1>6, <3>1, <3>3
    <3> QED
      BY <2>3, <3>2, <3>3
  <2> QED
    BY <1>1, <2>2, <2>4 DEF OthersSee
<1>8. \A d \in Branches : filed'[d].files = filed[d].files \/ (d = b /\ filed'[d].files = filed[d].files \cup {own[c]})
  BY <1>0, <1>1, <1>5 DEF Typed, Filings
<1>9. /\ \A d \in Branches : filed[d].files \subseteq filed'[d].files
      /\ \A d \in Branches, r \in Records : r \in filed'[d].files => r \in filed[d].files \/ (r \in Own /\ d = Home[r])
  BY <1>2, <1>3, <1>8
<1>10. CASE Again(c, "file")
  <2>1. TypedRun' /\ OthersRun(c)
        /\ (step'[c] = "idle" \/ (step'[c] = "file" /\ own'[c] = own[c] /\ route'[c] = route[c] /\ base'[c] = base[c]))
    <3>1. "file" \in {"file", "check"}
      OBVIOUS
    <3> QED
      BY <1>0, <1>10, <3>1, AgainRun
  <2>2. Typed'
    BY <1>0, <1>1, <1>7, <2>1 DEF Typed, TypedRun
  <2>3. Holds(c)'
    BY <1>0, <1>1, <1>7, <2>1, HoldsAgain
  <2> QED
    BY <1>7, <1>9, <2>1, <2>2, <2>3
<1>11. CASE filed' = [filed EXCEPT ![b] = tip] /\ Filed(c, k)
  <2>1. /\ TypedRun' /\ OthersRun(c)
        /\ \/ step'[c] = "idle"
           \/ step'[c] = "file" /\ own'[c] = own[c] /\ Len(route[c]) > 1
           \/ step'[c] = "check" /\ own'[c] = own[c] /\ route'[c] = route[c] /\ own[c] \in Records
              /\ base'[c] = Remembered(c, k)
    BY <1>0, <1>6, <1>11, FiledRun
  <2>2. Typed'
    BY <1>0, <1>1, <1>7, <2>1 DEF Typed, TypedRun
  <2>3. CASE step'[c] = "idle"
    <3>1. Holds(c)'
      BY <1>1, <1>7, <2>3, HoldsAgain
    <3> QED
      BY <1>7, <1>9, <2>1, <2>2, <3>1
  <2>4. CASE step'[c] = "file" /\ own'[c] = own[c] /\ Len(route[c]) > 1
    <3>1. own[c] \notin Records
      BY <1>3, <2>4
    <3>2. seen'[c] # <<>> => known'[c].index # <<>>
      BY <1>0, <1>1, <1>7 DEF Holds
    <3>3. Holds(c)'
      BY <1>2, <2>4, <3>1, <3>2 DEF Holds
    <3> QED
      BY <1>7, <1>9, <2>1, <2>2, <3>3
  <2>5. CASE step'[c] = "check" /\ own'[c] = own[c] /\ route'[c] = route[c] /\ own[c] \in Records
             /\ base'[c] = Remembered(c, k)
    <3>1. seen[c] # <<>> => base'[c] = seen[c] /\ known[c].index # <<>>
      BY <1>0, <2>5 DEF Remembered, Holds
    <3>2. AtHome(own[c], filed')
      <4>1. b \in Branches /\ b = Home[own[c]]
        BY <1>3, <2>5, HomeIs
      <4>2. filed'[b].files = filed[b].files \cup {own[c]}
        BY <1>0, <1>5, <1>11, <4>1 DEF Typed, Filings
      <4> QED
        BY <4>1, <4>2 DEF AtHome
    <3>3. Holds(c)'
      BY <1>1, <1>2, <1>7, <2>5, <3>1, <3>2 DEF Holds
    <3> QED
      BY <1>7, <1>9, <2>1, <2>2, <3>3
  <2> QED
    BY <2>1, <2>3, <2>4, <2>5
<1> QED
  BY <1>1, <1>10, <1>11

LEMMA SoundFetched ==
    ASSUME RegisterInv, NEW c \in Contributors
    PROVE  Sound(Fetched(c).index, filed, hands)
BY FetchedIs DEF RegisterInv, AllSound

\* What extend() accepts.
LEMMA AcceptedIs ==
    ASSUME RegisterInv, NEW c \in Contributors, step[c] = "check",
           NEW found, found = Fetched(c).index, NEW accepted, accepted = Accepted(c, Fetched(c), {own[c]})
    PROVE  /\ accepted \in SUBSET Records
           /\ Covered(Chain(found)) \subseteq accepted
           /\ accepted \subseteq Covered(Chain(found)) \cup Reads[c]
           /\ ~Withdrawn(hands) => own[c] \in accepted /\ \A r \in accepted : AtHome(r, filed)
<1> DEFINE k == Fetched(c)
           fresh == {r \in Records : \E b \in FiledAt(k, r) : Acceptable(c, r, b, {own[c]})}
<1>1. found \in Tips /\ k.filed = filed /\ Sound(found, filed, hands) /\ Typed /\ Holds(c)
  BY FetchedIs, SoundFetched DEF RegisterInv
<1>2. own[c] \in Records /\ own[c] \in Reads[c] /\ (~Withdrawn(hands) => AtHome(own[c], filed))
  BY <1>1 DEF Holds
<1>3. Covered(Chain(found)) \in SUBSET Records
  BY <1>1, CoveredIs
<1>4. accepted = Covered(Chain(found)) \cup fresh
  BY DEF Accepted
<1>5. fresh \subseteq Reads[c]
  BY <1>2 DEF Acceptable
<1>6. \A r \in fresh : AtHome(r, filed)
  BY <1>1 DEF FiledAt, Acceptable, AtHome
<1>7. ~Withdrawn(hands) => own[c] \in fresh
  <2> SUFFICES ASSUME ~Withdrawn(hands) PROVE own[c] \in fresh
    OBVIOUS
  <2>1. Home[own[c]] \in FiledAt(k, own[c])
    BY <1>1, <1>2, HomeIs DEF FiledAt, AtHome
  <2> QED
    BY <1>2, <2>1 DEF Acceptable
<1>8. ~Withdrawn(hands) => \A r \in Covered(Chain(found)) : AtHome(r, filed)
  BY <1>1, CoveredAtHome
<1> HIDE DEF fresh
<1>9. fresh \subseteq Records
  BY DEF fresh
<1> QED
  BY <1>3, <1>4, <1>5, <1>6, <1>7, <1>8, <1>9

\* An attempt of extend(): what it goes on to publish follows what it fetched.
LEMMA CheckIs ==
    ASSUME RegisterInv, NEW c \in Contributors, Check(c)
    PROVE  Typed' /\ OthersRun(c) /\ OthersSee(c) /\ Holds(c)'
<1> DEFINE k == Fetched(c)
           ch == Chain(k.index)
           sound == ~Rewritten(base[c], k.index) /\ ChainHolds(ch) /\ Covered(ch) \subseteq FiledIn(k)
           accepted == Accepted(c, k, {own[c]})
<1>0. Typed /\ Holds(c) /\ TypedRun /\ step[c] = "check" /\ known[c] \in [filed : Filings, index : Tips]
      /\ seen[c] \in Tips /\ base[c] \in Tips
  BY RunTyped, KnownIs DEF RegisterInv, Check
<1>1. k \in [filed : Filings, index : Tips] /\ k.filed = filed /\ k.index \in Tips
      /\ (known[c].index # <<>> => k.index # <<>>)
  BY <1>0, FetchedIs
<1>2. /\ known' = [known EXCEPT ![c] = k]
      /\ UNCHANGED <<remote, cloned, seen, dirty, sure, hands, runs, faults>>
      /\ \/ ~sound /\ Ends(c)
         \/ /\ sound /\ UNCHANGED <<own, route, base, tries>>
            /\ \/ accepted = Covered(ch) /\ step' = [step EXCEPT ![c] = "remember"] /\ made' = [made EXCEPT ![c] = <<>>]
               \/ step' = [step EXCEPT ![c] = "publish"] /\ made' = [made EXCEPT ![c] = Append(HeadOf(ch), accepted)]
  BY DEF Check
<1>3. /\ accepted \in SUBSET Records
      /\ Covered(ch) \subseteq accepted
      /\ accepted \subseteq Covered(ch) \cup Reads[c]
      /\ ~Withdrawn(hands) => own[c] \in accepted /\ \A r \in accepted : AtHome(r, filed)
  BY <1>0, AcceptedIs
<1>4. sound => ChainHolds(ch) /\ IsPrefix(seen[c], k.index)
  <2> SUFFICES ASSUME sound PROVE IsPrefix(seen[c], k.index)
    OBVIOUS
  <2>1. CASE seen[c] = <<>>
    BY <1>1, <2>1, PrefixSelf DEF Tips
  <2>2. CASE seen[c] # <<>>
    <3>1. base[c] = seen[c] /\ k.index # <<>>
      BY <1>0, <1>1, <2>2 DEF Holds
    <3> QED
      BY <2>2, <3>1 DEF Rewritten
  <2> QED
    BY <2>1, <2>2
<1>5. /\ own[c] \in Records /\ own[c] \in Own /\ own[c] \in Reads[c] /\ route[c] = <<Home[own[c]]>>
      /\ (~Withdrawn(hands) => AtHome(own[c], filed))
      /\ (seen[c] # <<>> => k.index # <<>> /\ base[c] = seen[c])
  BY <1>0, <1>1 DEF Holds
<1>6. Append(HeadOf(ch), accepted) = Follow(k.index, accepted)
  BY DEF Follow
<1>7. sound => Follow(k.index, accepted) \in Seq(SUBSET Records)
  <2>1. sound => Follow(k.index, accepted) \in Checks
    BY <1>1, <1>3, <1>4, ChainNext
  <2> QED
    BY <2>1 DEF Checks
<1> HIDE DEF k, sound, accepted
<1>8. known'[c].index = k.index /\ known' \in [Contributors -> [filed : Filings, index : Tips]] /\ OthersSee(c)
      /\ filed' = filed /\ index' = index /\ hands' = hands /\ seen' = seen
  BY <1>0, <1>1, <1>2 DEF Typed, OthersSee, remote
<1>9. CASE ~sound /\ Ends(c)
  <2>1. TypedRun' /\ OthersRun(c) /\ step'[c] = "idle"
    BY <1>0, <1>9, EndsRun
  <2>2. Typed'
    BY <1>0, <1>8, <2>1 DEF Typed, TypedRun
  <2>3. Holds(c)'
    BY <1>8, <2>1, HoldsFetched DEF k
  <2> QED
    BY <1>8, <2>1, <2>2, <2>3
<1>10. CASE sound /\ UNCHANGED <<own, route, base>> /\ accepted = Covered(ch)
            /\ step' = [step EXCEPT ![c] = "remember"] /\ made' = [made EXCEPT ![c] = <<>>]
  <2>1. <<>> \in Seq(SUBSET Records)
    OBVIOUS
  <2>2. Typed' /\ OthersRun(c)
    BY <1>0, <1>8, <1>10, <2>1 DEF Typed, OthersRun
  <2>3. step'[c] = "remember" /\ own'[c] = own[c] /\ route'[c] = route[c] /\ base'[c] = base[c]
    BY <1>0, <1>10 DEF Typed
  <2>4. Holds(c)'
    BY <1>3, <1>5, <1>8, <1>10, <2>3 DEF Holds
  <2> QED
    BY <1>8, <2>2, <2>4
<1>11. CASE sound /\ UNCHANGED <<own, route, base>>
            /\ step' = [step EXCEPT ![c] = "publish"] /\ made' = [made EXCEPT ![c] = Append(HeadOf(ch), accepted)]
  <2>1. Typed' /\ OthersRun(c)
    BY <1>0, <1>6, <1>7, <1>8, <1>11 DEF Typed, OthersRun
  <2>2. step'[c] = "publish" /\ own'[c] = own[c] /\ route'[c] = route[c] /\ base'[c] = base[c]
        /\ made'[c] = Follow(k.index, accepted)
    BY <1>0, <1>6, <1>11 DEF Typed
  <2>3. Publishes(c)'
    BY <1>3, <1>4, <1>8, <1>11, <2>2 DEF Publishes
  <2>4. Holds(c)'
    BY <1>5, <1>8, <2>2, <2>3 DEF Holds
  <2> QED
    BY <1>8, <2>1, <2>4
<1> QED
  BY <1>2, <1>9, <1>10, <1>11

\* The index that c is about to publish.
Published(c) == With(known[c].index, c, made[c])

\* The index a contributor publishes holds, and covers all that it found and its own record.
LEMMA NewIndex ==
    ASSUME RegisterInv, NEW c \in Contributors, step[c] = "publish"
    PROVE  /\ Published(c) \in Tips /\ Published(c) # <<>> /\ Len(Published(c)) = Len(known[c].index) + 1
           /\ Published(c) = Append(known[c].index, [by |-> c, chk |-> made[c]]) /\ [by |-> c, chk |-> made[c]] \in Commit
           /\ Last(Published(c)).by = c
           /\ IsPrefix(known[c].index, Published(c)) /\ IsPrefix(seen[c], Published(c))
           /\ ChainHolds(Chain(Published(c))) /\ Covered(Chain(known[c].index)) \subseteq Covered(Chain(Published(c)))
           /\ ~Withdrawn(hands) => own[c] \in Covered(Chain(Published(c)))
           /\ Sound(Published(c), filed, hands)
<1> DEFINE old == known[c].index
<1>1. Typed /\ Holds(c) /\ Sound(old, filed, hands) /\ old \in Tips /\ seen[c] \in Tips /\ Publishes(c)
  BY KnownIs DEF RegisterInv, AllSound, Holds
<1>2. PICK accepted \in SUBSET Records :
        /\ made[c] = Follow(old, accepted)
        /\ Covered(Chain(old)) \subseteq accepted
        /\ accepted \subseteq Covered(Chain(old)) \cup Reads[c]
        /\ ~Withdrawn(hands) => own[c] \in accepted /\ \A r \in accepted : AtHome(r, filed)
  BY <1>1 DEF Publishes
<1>3. ChainHolds(Chain(old)) /\ IsPrefix(seen[c], old)
  BY <1>1 DEF Publishes
<1> DEFINE new == With(old, c, Follow(old, accepted))
<1>4. /\ Last(Follow(old, accepted)) = accepted
      /\ [by |-> c, chk |-> Follow(old, accepted)] \in Commit
      /\ new \in Tips /\ Len(new) = Len(old) + 1 /\ Len(old) \in Nat
      /\ \A i \in 1..Len(old) : new[i] = old[i]
      /\ new[Len(old) + 1] = [by |-> c, chk |-> Follow(old, accepted)]
      /\ ChainHolds(Chain(new)) /\ Covered(Chain(new)) = accepted
      /\ (\A i \in 1..Len(old) : Growing(old[i].chk)) /\ Covered(Chain(old)) \subseteq accepted
            => Growing(Follow(old, accepted))
  BY <1>1, <1>3, ChainNext
<1>5. Published(c) = new /\ new = Append(old, [by |-> c, chk |-> made[c]])
  BY <1>2 DEF Published, With
<1> HIDE DEF old, new
<1>6. new # <<>> /\ Last(new).by = c
  <2>1. Len(new) # 0
    BY <1>4
  <2> QED
    BY <1>4, <2>1 DEF Last
<1>7. IsPrefix(old, new)
  <2>1. Len(old) <= Len(new) /\ \A i \in 1..Len(old) : old[i] = new[i]
    BY <1>4
  <2> QED
    BY <1>1, <1>4, <2>1, PrefixIs DEF Tips
<1>8. IsPrefix(seen[c], new)
  BY <1>1, <1>3, <1>4, <1>7, PrefixTrans DEF Tips
<1>9. Sound(new, filed, hands)
  <2>1. new[Len(new)].by = c /\ Last(new[Len(new)].chk) = accepted /\ new[Len(new)].chk = Follow(old, accepted)
    BY <1>4
  <2>2. \A r \in accepted : r \in Reads[c] \/ \E j \in 1..Len(old) : r \in Last(old[j].chk)
    <3> SUFFICES ASSUME NEW r \in accepted, r \notin Reads[c] PROVE \E j \in 1..Len(old) : r \in Last(old[j].chk)
      OBVIOUS
    <3>1. r \in Covered(Chain(old))
      BY <1>2 DEF old
    <3> QED
      BY <1>1, <3>1, CoveredIs
  <2>3. ~Replaced(hands) => Growing(Follow(old, accepted))
    BY <1>1, <1>2, <1>4 DEF Sound, old
  <2> QED
    BY <1>1, <1>2, <1>4, <2>1, <2>2, <2>3, SoundNext
<1> QED
  BY <1>2, <1>4, <1>5, <1>6, <1>7, <1>8, <1>9 DEF old

\* The index is moved on by a fast-forward, or not at all.
LEMMA PushCheckpointIs ==
    ASSUME RegisterInv, NEW c \in Contributors, PushCheckpoint(c)
    PROVE  /\ Typed' /\ OthersRun(c) /\ OthersSee(c) /\ Holds(c)'
           /\ step[c] = "publish" /\ filed' = filed /\ hands' = hands /\ seen' = seen /\ sure' = sure
           /\ \/ index' = Published(c) /\ IsPrefix(index, Published(c)) /\ known'[c].index \in {Published(c), known[c].index}
              \/ index' = index /\ known' = known
<1> DEFINE new == Append(known[c].index, [by |-> c, chk |-> made[c]])
<1>0. Typed /\ Holds(c) /\ TypedRun /\ step[c] = "publish" /\ known[c] \in [filed : Filings, index : Tips]
  BY RunTyped, KnownIs DEF RegisterInv, PushCheckpoint
<1>1. /\ \/ /\ IsPrefix(index, new) /\ index' = new /\ known' = [known EXCEPT ![c].index = new]
            /\ step' = [step EXCEPT ![c] = "remember"] /\ UNCHANGED <<own, route, base, tries, made>>
         \/ IsPrefix(index, new) /\ index' = new /\ known' = known /\ Again(c, "check")
         \/ index' = index /\ known' = known /\ Again(c, "check")
      /\ UNCHANGED <<filed, seen, sure, hands>>
  BY DEF PushCheckpoint, Takes
<1>2. new = Published(c) /\ new \in Tips /\ new # <<>> /\ (~Withdrawn(hands) => own[c] \in Covered(Chain(new)))
  BY <1>0, NewIndex
<1> HIDE DEF new
<1>3. CASE /\ index' = new /\ known' = [known EXCEPT ![c].index = new]
           /\ step' = [step EXCEPT ![c] = "remember"] /\ UNCHANGED <<own, route, base, made>>
  <2>1. Typed' /\ OthersRun(c) /\ OthersSee(c) /\ known'[c].index = new
    BY <1>0, <1>1, <1>2, <1>3 DEF Typed, OthersRun, OthersSee
  <2>2. step'[c] = "remember" /\ own'[c] = own[c] /\ route'[c] = route[c]
    BY <1>0, <1>3 DEF Typed
  <2>3. Holds(c)'
    BY <1>0, <1>1, <1>2, <2>1, <2>2 DEF Holds
  <2> QED
    BY <1>0, <1>1, <1>2, <1>3, <2>1, <2>3
<1>4. CASE (index' = new \/ index' = index) /\ known' = known /\ Again(c, "check")
  <2>1. /\ TypedRun' /\ OthersRun(c)
        /\ \/ step'[c] = "idle"
           \/ step'[c] = "check" /\ own'[c] = own[c] /\ route'[c] = route[c] /\ base'[c] = base[c]
    <3>1. "check" \in {"file", "check"}
      OBVIOUS
    <3> QED
      BY <1>0, <1>4, <3>1, AgainRun
  <2>2. Typed' /\ OthersSee(c)
    BY <1>0, <1>1, <1>2, <1>4, <2>1 DEF Typed, TypedRun, OthersSee
  <2>3. Holds(c)'
    <3>1. CASE step'[c] = "idle"
      BY <1>1, <1>4, <3>1, HoldsFetched
    <3>2. CASE step'[c] = "check" /\ own'[c] = own[c] /\ route'[c] = route[c] /\ base'[c] = base[c]
      BY <1>0, <1>1, <1>4, <3>2 DEF Holds
    <3> QED
      BY <2>1, <3>1, <3>2
  <2> QED
    BY <1>0, <1>1, <1>2, <1>4, <2>1, <2>2, <2>3
<1> QED
  BY <1>1, <1>3, <1>4

LEMMA RememberIs ==
    ASSUME RegisterInv, NEW c \in Contributors, Remember(c)
    PROVE  Typed' /\ OthersRun(c) /\ OthersSee(c) /\ Holds(c)'
<1>0. Typed /\ Holds(c) /\ TypedRun /\ step[c] = "remember" /\ known[c].index \in Tips
  BY RunTyped, KnownIs DEF RegisterInv, Remember
<1>1. /\ seen' = [seen EXCEPT ![c] = IF known[c].index = <<>> THEN @ ELSE known[c].index]
      /\ Ends(c) /\ known' = known /\ filed' = filed /\ index' = index /\ hands' = hands
  BY DEF Remember, remote
<1>2. TypedRun' /\ OthersRun(c) /\ step'[c] = "idle"
  BY <1>0, <1>1, EndsRun
<1>3. Typed' /\ OthersSee(c)
  BY <1>0, <1>1, <1>2 DEF Typed, TypedRun, OthersSee
<1>4. seen'[c] # <<>> => known'[c].index # <<>>
  BY <1>0, <1>1 DEF Typed, Holds
<1>5. Holds(c)'
  BY <1>2, <1>4 DEF Holds
<1> QED
  BY <1>2, <1>3, <1>5

LEMMA CrashIs ==
    ASSUME RegisterInv, NEW c \in Contributors, Crash(c)
    PROVE  Typed' /\ OthersRun(c) /\ OthersSee(c) /\ Holds(c)'
<1>0. Typed /\ TypedRun
  BY RunTyped DEF RegisterInv
<1>1. Ends(c) /\ known' = known /\ seen' = seen /\ filed' = filed /\ index' = index /\ hands' = hands
  BY DEF Crash, remote
<1>2. TypedRun' /\ OthersRun(c) /\ step'[c] = "idle"
  BY <1>0, <1>1, EndsRun
<1>3. Typed' /\ OthersSee(c)
  BY <1>0, <1>1, <1>2 DEF Typed, TypedRun, OthersSee
<1>4. Holds(c)'
  BY <1>1, <1>2, HoldsFetched
<1> QED
  BY <1>2, <1>3, <1>4

LEMMA VerifyIs ==
    ASSUME RegisterInv, NEW c \in Contributors, NEW r \in Own, Verify(c, r)
    PROVE  Typed' /\ OthersRun(c) /\ OthersSee(c) /\ Holds(c)'
<1>0. Typed /\ Fetched(c) \in [filed : Filings, index : Tips]
  BY FetchedIs DEF RegisterInv
<1>1. /\ step[c] = "idle" /\ known' = [known EXCEPT ![c] = Fetched(c)]
      /\ step' = step /\ own' = own /\ route' = route /\ base' = base /\ made' = made
      /\ seen' = seen /\ filed' = filed /\ index' = index /\ hands' = hands
  BY DEF Verify, mine, remote
<1>2. Typed' /\ OthersRun(c) /\ OthersSee(c)
  BY <1>0, <1>1 DEF Typed, OthersRun, OthersSee
<1>3. known'[c].index = Fetched(c).index
  BY <1>0, <1>1 DEF Typed
<1>4. Holds(c)'
  BY <1>1, <1>3, HoldsFetched
<1> QED
  BY <1>2, <1>4

LEMMA TidyIs ==
    ASSUME RegisterInv, NEW c \in Contributors, Tidy(c)
    PROVE  Typed' /\ OthersRun(c) /\ OthersSee(c) /\ Holds(c)'
<1>1. /\ known' = known /\ step' = step /\ own' = own /\ route' = route /\ base' = base /\ made' = made
      /\ seen' = seen /\ filed' = filed /\ index' = index /\ hands' = hands
  BY DEF Tidy, remote
<1>2. Typed' /\ OthersRun(c) /\ OthersSee(c)
  BY <1>1 DEF Typed, OthersRun, OthersSee, RegisterInv
<1>3. Holds(c)'
  BY <1>1, HoldsLater DEF RegisterInv
<1> QED
  BY <1>2, <1>3

-----------------------------------------------------------------------------
(* What is done by hand *)

\* What plain git does to the branches of the projects.
LEMMA HandFiles ==
    ASSUME Typed, NEW h \in Hands, NEW r \in Records,
           \/ h = "propose"  /\ Propose(r)
           \/ h = "misfile"  /\ Misfile(r)
           \/ h = "copy"     /\ Copy(r)
           \/ h = "withdraw" /\ Withdraw(r)
           \/ h = "vanish"   /\ Vanish(r)
    PROVE  /\ filed' \in Filings /\ index' = index
           /\ h # "withdraw" => \A b \in Branches : filed[b].files \subseteq filed'[b].files
           /\ \E at \in Branches : \A b \in Branches, s \in Records :
                 s \in filed'[b].files /\ s \notin filed[b].files =>
                    /\ s = r /\ b = at
                    /\ \/ h = "propose" /\ r \notin Own /\ b = Home[r]
                       \/ h = "misfile" /\ r \notin Own /\ \A d \in Branches : r \notin filed[d].files
                       \/ h = "copy"
<1>0. filed \in Filings /\ Home[r] \in Branches
  BY HomeIs DEF Typed
<1>1. ASSUME NEW at \in Branches, Put(at, r)
      PROVE  /\ filed' \in Filings /\ index' = index
             /\ \A b \in Branches : filed[b].files \subseteq filed'[b].files
             /\ \A b \in Branches, s \in Records : s \in filed'[b].files /\ s \notin filed[b].files => s = r /\ b = at
  <2> DEFINE tip == [n |-> filed[at].n + 1, files |-> filed[at].files \cup {r}]
  <2>1. filed' = [filed EXCEPT ![at] = tip] /\ index' = index
    BY <1>1 DEF Put
  <2>2. tip \in [n : Nat, files : Files] /\ tip.files = filed[at].files \cup {r}
    BY <1>0 DEF Filings, Files
  <2> HIDE DEF tip
  <2>3. filed' \in Filings
    BY <1>0, <2>1, <2>2 DEF Filings
  <2>4. \A b \in Branches : filed'[b] = filed[b] \/ (b = at /\ filed'[b] = tip)
    BY <1>0, <2>1 DEF Filings
  <2> QED
    BY <2>1, <2>2, <2>3, <2>4
<1>2. CASE h = "propose" /\ Propose(r)
  <2>1. Put(Home[r], r) /\ r \notin Own
    BY <1>2 DEF Propose
  <2> QED
    BY <1>0, <1>1, <1>2, <2>1
<1>3. CASE h = "misfile" /\ Misfile(r)
  <2>1. PICK b \in Branches : Put(b, r) /\ r \notin Own /\ FiledAt([filed |-> filed], r) = {}
    BY <1>3 DEF Misfile
  <2>2. \A d \in Branches : r \notin filed[d].files
    BY <2>1 DEF FiledAt
  <2> QED
    BY <1>1, <1>3, <2>1, <2>2
<1>4. CASE h = "copy" /\ Copy(r)
  <2>1. PICK b \in Branches : Put(b, r)
    BY <1>4 DEF Copy
  <2> QED
    BY <1>1, <1>4, <2>1
<1>5. CASE h = "withdraw" /\ Withdraw(r)
  <2> DEFINE tip == [n |-> filed[Home[r]].n + 1, files |-> filed[Home[r]].files \ {r}]
  <2>1. filed' = [filed EXCEPT ![Home[r]] = tip] /\ index' = index
    BY <1>5 DEF Withdraw
  <2>2. tip \in [n : Nat, files : Files] /\ tip.files = filed[Home[r]].files \ {r}
    BY <1>0 DEF Filings, Files
  <2> HIDE DEF tip
  <2>3. filed' \in Filings
    BY <1>0, <2>1, <2>2 DEF Filings
  <2>4. \A b \in Branches : filed'[b] = filed[b] \/ (b = Home[r] /\ filed'[b] = tip)
    BY <1>0, <2>1 DEF Filings
  <2> QED
    BY <1>0, <1>5, <2>1, <2>2, <2>3, <2>4
<1>6. CASE h = "vanish" /\ Vanish(r)
  BY <1>0, <1>6 DEF Vanish
<1> QED
  BY <1>2, <1>3, <1>4, <1>5, <1>6

\* What plain git does to the index, and that it stays sound but for what is replaced.
LEMMA HandIndex ==
    ASSUME Typed, Sound(index, filed, hands), NEW h \in Hands, hands' = hands \cup {h}, filed' = filed,
           \/ h = "rewind"  /\ Rewind
           \/ h = "replace" /\ Replace
           \/ h = "fork"    /\ Fork
           \/ h = "drop"    /\ Drop
    PROVE  /\ index' \in Tips /\ Sound(index', filed', hands') /\ h # "withdraw"
           /\ ~Rewound(hands') => Replaced(hands') /\ Len(index) <= Len(index')
<1>0. index \in Tips /\ Len(index) \in Nat
  BY TipIs DEF Typed
<1>1. ASSUME index # <<>>
      PROVE  /\ Front(index) \in Tips /\ Len(Front(index)) = Len(index) - 1 /\ IsPrefix(Front(index), index)
             /\ Last(index) \in Commit
  BY <1>0, <1>1, FrontIs DEF Tips
<1>2. ASSUME NEW tip \in Tips, Sound(tip, filed, hands), h # "withdraw"
      PROVE  Sound(tip, filed', hands')
  <2>1. ~Withdrawn(hands') => ~Withdrawn(hands) /\ \A r \in Records : AtHome(r, filed) => AtHome(r, filed')
    BY DEF Withdrawn
  <2>2. ~Replaced(hands') => ~Replaced(hands)
    BY DEF Replaced
  <2> QED
    BY <1>2, <2>1, <2>2, SoundLater
<1>3. ASSUME index # <<>>, NEW tip \in Tips, Sound(tip, filed', hands'), Replaced(hands'),
             NEW new, new = Append(tip, [by |-> "hand", chk |-> Append(Front(Last(index).chk), {})])
      PROVE  new \in Tips /\ Sound(new, filed', hands') /\ Len(new) = Len(tip) + 1
  <2> DEFINE k == Append(Front(Last(index).chk), {})  e == [by |-> "hand", chk |-> k]
  <2>1. Last(index).chk \in Seq(SUBSET Records) /\ Last(index).chk # <<>>
    BY <1>1, <1>3 DEF Commit, Checks
  <2>2. Front(Last(index).chk) \in Seq(SUBSET Records) /\ {} \in SUBSET Records
    BY <2>1, FrontIs
  <2>3. k \in Seq(SUBSET Records) /\ k # <<>> /\ Last(k) = {}
    BY <2>2, FrontOfNext, AppendProperties
  <2>4. e \in Commit /\ e.by = "hand" /\ e.chk = k
    BY <2>3 DEF Commit, Checks
  <2> HIDE DEF k, e
  <2>5. /\ new \in Tips /\ Len(new) = Len(tip) + 1 /\ \A i \in 1..Len(tip) : new[i] = tip[i]
        /\ new[Len(tip) + 1] = e
    BY <1>3, <2>4, AppendProperties DEF Tips, e, k
  <2>6. new[Len(new)].by \notin Contributors /\ Last(new[Len(new)].chk) = {}
    BY <2>3, <2>4, <2>5, RegisterAssumption
  <2>7. Sound(new, filed', hands')
    BY <1>3, <2>5, <2>6, SoundNext
  <2> QED
    BY <2>5, <2>7
<1>4. CASE h = "rewind" /\ Rewind
  <2>1. index # <<>> /\ index' = Front(index)
    BY <1>4 DEF Rewind
  <2>2. Sound(Front(index), filed, hands)
    BY <1>0, <1>1, <2>1, SoundStart
  <2> QED
    BY <1>1, <1>2, <1>4, <2>1, <2>2 DEF Rewound
<1>5. CASE h = "drop" /\ Drop
  BY <1>5, EmptyTip DEF Drop, Rewound
<1>6. CASE h = "replace" /\ Replace
  <2>1. index # <<>> /\ index' = Append(Front(index), [by |-> "hand", chk |-> Append(Front(Last(index).chk), {})])
    BY <1>6 DEF Replace
  <2>2. Replaced(hands')
    BY <1>6 DEF Replaced
  <2>3. Sound(Front(index), filed', hands')
    BY <1>0, <1>1, <1>2, <1>6, <2>1, SoundStart
  <2>4. index' \in Tips /\ Sound(index', filed', hands') /\ Len(index') = Len(Front(index)) + 1
    BY <1>1, <1>3, <2>1, <2>2, <2>3
  <2>5. Len(index) <= Len(index')
    BY <1>0, <1>1, <2>1, <2>4
  <2> QED
    BY <1>6, <2>2, <2>4, <2>5
<1>7. CASE h = "fork" /\ Fork
  <2>1. index # <<>> /\ index' = Append(index, [by |-> "hand", chk |-> Append(Front(Last(index).chk), {})])
    BY <1>7 DEF Fork
  <2>2. Replaced(hands')
    BY <1>7 DEF Replaced
  <2>3. Sound(index, filed', hands')
    BY <1>0, <1>2, <1>7
  <2>4. index' \in Tips /\ Sound(index', filed', hands') /\ Len(index') = Len(index) + 1
    BY <1>0, <1>3, <2>1, <2>2, <2>3
  <2>5. Len(index) <= Len(index')
    BY <1>0, <2>4
  <2> QED
    BY <1>7, <2>2, <2>4, <2>5
<1> QED
  BY <1>4, <1>5, <1>6, <1>7

\* Nothing anybody does by hand but a withdrawal, a rewind or a replacement breaks the register.
LEMMA ByHandKeeps ==
    ASSUME RegisterInv, ByHand
    PROVE  RegisterInv'
<1>1. PICK h \in Hands :
        /\ h \notin hands /\ hands' = hands \cup {h}
        /\ \/ \E r \in Records :
                \/ h = "propose"  /\ Propose(r)
                \/ h = "misfile"  /\ Misfile(r)
                \/ h = "copy"     /\ Copy(r)
                \/ h = "withdraw" /\ Withdraw(r)
                \/ h = "vanish"   /\ Vanish(r)
           \/ h = "rewind"  /\ Rewind
           \/ h = "replace" /\ Replace
           \/ h = "fork"    /\ Fork
           \/ h = "drop"    /\ Drop
        /\ UNCHANGED <<known, cloned, seen, mine, sure, runs, faults>>
  BY DEF ByHand
<1>2. /\ known' = known /\ seen' = seen /\ sure' = sure /\ step' = step /\ own' = own
      /\ route' = route /\ base' = base /\ made' = made
  BY <1>1 DEF mine
<1>3. Typed /\ (\A c \in Contributors : Holds(c)) /\ AllSound /\ Kept /\ OnOneBranch
  BY DEF RegisterInv
<1>4. (\A s \in {"withdraw", "rewind", "drop", "replace", "fork", "copy", "misfile", "propose"} : s \in hands => s \in hands')
      /\ (h \in hands')
  BY <1>1
<1>5. IsFiniteSet(hands') /\ hands' \subseteq Hands
  BY <1>1, <1>3, FS_AddElement DEF Typed
<1>6. CASE \E r \in Records :
                \/ h = "propose"  /\ Propose(r)
                \/ h = "misfile"  /\ Misfile(r)
                \/ h = "copy"     /\ Copy(r)
                \/ h = "withdraw" /\ Withdraw(r)
                \/ h = "vanish"   /\ Vanish(r)
  <2>1. PICK r \in Records :
          /\ filed' \in Filings /\ index' = index
          /\ h # "withdraw" => \A b \in Branches : filed[b].files \subseteq filed'[b].files
          /\ \E at \in Branches : \A b \in Branches, s \in Records :
                s \in filed'[b].files /\ s \notin filed[b].files =>
                   /\ s = r /\ b = at
                   /\ \/ h = "propose" /\ r \notin Own /\ b = Home[r]
                      \/ h = "misfile" /\ r \notin Own /\ \A d \in Branches : r \notin filed[d].files
                      \/ h = "copy"
    <3>1. PICK r \in Records :
                \/ h = "propose"  /\ Propose(r)
                \/ h = "misfile"  /\ Misfile(r)
                \/ h = "copy"     /\ Copy(r)
                \/ h = "withdraw" /\ Withdraw(r)
                \/ h = "vanish"   /\ Vanish(r)
      BY <1>6
    <3> HIDE DEF Propose, Misfile, Copy, Withdraw, Vanish
    <3> QED
      BY <1>3, <3>1, HandFiles
  <2>2. ~Withdrawn(hands') => ~Withdrawn(hands) /\ \A s \in Records : AtHome(s, filed) => AtHome(s, filed')
    BY <1>4, <2>1, HomeIs DEF Withdrawn, AtHome
  <2>3. (~Replaced(hands') => ~Replaced(hands)) /\ (~Rewound(hands') => ~Rewound(hands))
    BY <1>4 DEF Replaced, Rewound
  <2>4. Typed'
    BY <1>2, <1>3, <1>5, <2>1 DEF Typed
  <2>5. \A c \in Contributors : Holds(c)'
    BY <1>2, <1>3, <2>2, HoldsLater
  <2>6. AllSound'
    <3>1. ASSUME NEW tip \in Tips, Sound(tip, filed, hands) PROVE Sound(tip, filed', hands')
      BY <2>2, <2>3, <3>1, SoundLater
    <3>2. Sound(index, filed', hands')
      BY <1>3, <3>1 DEF AllSound, Typed
    <3>3. \A c \in Contributors : Sound(known[c].index, filed', hands')
      BY <1>3, <3>1, KnownIs DEF AllSound
    <3> QED
      BY <1>2, <2>1, <3>2, <3>3 DEF AllSound
  <2>7. Kept'
    <3>1. Withdrawn(hands) => Withdrawn(hands')
      BY <1>4 DEF Withdrawn
    <3> QED
      BY <1>2, <1>3, <2>1, <2>3, <3>1 DEF Kept
  <2>8. OnOneBranch'
    <3> SUFFICES ASSUME "copy" \notin hands' PROVE
          /\ \A s \in Own, b \in Branches : s \in filed'[b].files => b = Home[s]
          /\ "misfile" \notin hands' =>
                \A s \in Records, b \in Branches : s \in filed'[b].files => b = Home[s]
          /\ ~({"misfile", "propose"} \subseteq hands') =>
                \A s \in Records, b, d \in Branches : s \in filed'[b].files /\ s \in filed'[d].files => b = d
      BY DEF OnOneBranch
    <3>1. "copy" \notin hands /\ h # "copy"
      BY <1>4
    <3>2. PICK at \in Branches : \A b \in Branches, s \in Records :
                s \in filed'[b].files /\ s \notin filed[b].files =>
                   /\ s = r /\ b = at
                   /\ \/ h = "propose" /\ r \notin Own /\ b = Home[r]
                      \/ h = "misfile" /\ r \notin Own /\ \A d \in Branches : r \notin filed[d].files
      BY <2>1, <3>1
    <3>3. ASSUME NEW s \in Own, NEW b \in Branches, s \in filed'[b].files PROVE b = Home[s]
      <4>1. s \in Records
        BY RegisterAssumption
      <4>2. s \in filed[b].files
        BY <3>2, <3>3, <4>1
      <4> QED
        BY <1>3, <3>1, <4>1, <4>2 DEF OnOneBranch
    <3>4. ASSUME "misfile" \notin hands', NEW s \in Records, NEW b \in Branches, s \in filed'[b].files PROVE b = Home[s]
      <4>1. "misfile" \notin hands /\ h # "misfile"
        BY <1>4, <3>4
      <4>2. s \in filed[b].files => b = Home[s]
        BY <1>3, <3>1, <4>1 DEF OnOneBranch
      <4> QED
        BY <3>2, <3>4, <4>1, <4>2
    <3>5. ASSUME ~({"misfile", "propose"} \subseteq hands'), NEW s \in Records, NEW b \in Branches, NEW d \in Branches,
                 s \in filed'[b].files, s \in filed'[d].files
          PROVE  b = d
      <4>1. s \in filed[b].files /\ s \in filed[d].files => b = d
        BY <1>3, <1>4, <3>1, <3>5 DEF OnOneBranch
      <4>2. CASE h = "propose"
        <5>1. "misfile" \notin hands'
          BY <1>4, <3>5, <4>2
        <5> QED
          BY <3>4, <3>5, <5>1
      <4>3. CASE h = "misfile"
        BY <3>2, <3>5, <4>1, <4>3
      <4>4. CASE h # "propose" /\ h # "misfile"
        BY <3>2, <3>5, <4>1, <4>4
      <4> QED
        BY <4>2, <4>3, <4>4
    <3> QED
      BY <3>3, <3>4, <3>5
  <2> QED
    BY <2>4, <2>5, <2>6, <2>7, <2>8 DEF RegisterInv
<1>7. CASE \/ h = "rewind"  /\ Rewind
           \/ h = "replace" /\ Replace
           \/ h = "fork"    /\ Fork
           \/ h = "drop"    /\ Drop
  <2>1. filed' = filed
    BY <1>7 DEF Rewind, Replace, Fork, Drop
  <2>2. /\ index' \in Tips /\ Sound(index', filed', hands') /\ h # "withdraw"
        /\ ~Rewound(hands') => Replaced(hands') /\ Len(index) <= Len(index')
    <3> HIDE DEF Rewind, Replace, Fork, Drop
    <3> QED
      BY <1>1, <1>3, <1>7, <2>1, HandIndex DEF AllSound
  <2>3. ~Withdrawn(hands') => ~Withdrawn(hands) /\ \A s \in Records : AtHome(s, filed) => AtHome(s, filed')
    BY <1>4, <2>1 DEF Withdrawn
  <2>4. (~Replaced(hands') => ~Replaced(hands)) /\ (~Rewound(hands') => ~Rewound(hands))
    BY <1>4 DEF Replaced, Rewound
  <2>5. Typed'
    BY <1>2, <1>3, <1>5, <2>1, <2>2 DEF Typed
  <2>6. \A c \in Contributors : Holds(c)'
    BY <1>2, <1>3, <2>3, HoldsLater
  <2>7. AllSound'
    <3>1. \A c \in Contributors : Sound(known[c].index, filed', hands')
      BY <1>3, <2>3, <2>4, KnownIs, SoundLater DEF AllSound
    <3> QED
      BY <1>2, <2>2, <3>1 DEF AllSound
  <2>8. Kept'
    <3> SUFFICES ASSUME ~Rewound(hands') PROVE \A c \in Contributors : Len(known'[c].index) <= Len(index')
      BY <2>2 DEF Kept
    <3>1. \A c \in Contributors : Len(known[c].index) <= Len(index) /\ Len(known[c].index) \in Nat
      BY <1>3, <2>4, KnownIs, TipIs DEF Kept
    <3>2. Len(index) \in Nat /\ Len(index') \in Nat /\ Len(index) <= Len(index')
      BY <1>3, <2>2, <2>5, TipIs DEF Typed
    <3> QED
      BY <1>2, <3>1, <3>2
  <2>9. OnOneBranch'
    <3>1. "copy" \in hands => "copy" \in hands'
      BY <1>4
    <3>2. "misfile" \in hands => "misfile" \in hands'
      BY <1>4
    <3>3. {"misfile", "propose"} \subseteq hands => {"misfile", "propose"} \subseteq hands'
      BY <1>4
    <3> QED
      BY <1>3, <2>1, <3>1, <3>2, <3>3 DEF OnOneBranch
  <2> QED
    BY <2>5, <2>6, <2>7, <2>8, <2>9 DEF RegisterInv
<1> QED
  BY <1>1, <1>6, <1>7

-----------------------------------------------------------------------------
(* The commands keep the invariant *)

LEMMA PrefixFits ==
    ASSUME NEW s \in Tips, NEW t \in Tips, IsPrefix(s, t)
    PROVE  Len(s) <= Len(t)
BY PrefixIs DEF Tips

\* What a fetch brings is the index, unless it was dropped by hand.
LEMMA FetchedKept ==
    ASSUME RegisterInv, NEW c \in Contributors
    PROVE  /\ ~Rewound(hands) => Fetched(c).index = index
           /\ ~Rewound(hands) /\ ~Replaced(hands) =>
                 ChainHolds(Chain(index)) /\ IsPrefix(index, index) /\ IsPrefix(seen[c], index)
<1>1. Typed /\ Kept /\ index \in Tips /\ known[c].index \in Tips /\ seen[c] \in Tips
  BY KnownIs DEF RegisterInv, Typed
<1>2. ASSUME ~Rewound(hands) PROVE Fetched(c).index = index
  <2>1. Fetched(c).index = index \/ (index = <<>> /\ Fetched(c).index = known[c].index)
    BY <1>1, FetchedIs
  <2>2. ASSUME index = <<>> PROVE known[c].index = <<>>
    <3>1. Len(known[c].index) <= Len(index) /\ Len(index) = 0 /\ Len(known[c].index) \in Nat
      BY <1>1, <1>2, <2>2, EmptyTip, TipIs DEF Kept
    <3>2. Len(known[c].index) = 0
      BY <3>1
    <3> QED
      BY <1>1, <3>2 DEF Tips
  <2> QED
    BY <2>1, <2>2
<1>3. ASSUME ~Rewound(hands), ~Replaced(hands)
      PROVE  ChainHolds(Chain(index)) /\ IsPrefix(index, index) /\ IsPrefix(seen[c], index)
  <2>1. ChainHolds(Chain(index)) /\ IsPrefix(known[c].index, index) /\ IsPrefix(seen[c], known[c].index)
    BY <1>1, <1>3 DEF Kept
  <2> QED
    BY <1>1, <2>1, PrefixSelf, PrefixTrans DEF Tips
<1> QED
  BY <1>2, <1>3

\* What a command has to do for the register to stay sound.
LEMMA CommandKeeps ==
    ASSUME RegisterInv, NEW c \in Contributors,
           Typed', OthersRun(c), OthersSee(c), Holds(c)', hands' = hands,
           \A b \in Branches : filed[b].files \subseteq filed'[b].files,
           \A b \in Branches, r \in Records :
               r \in filed'[b].files => r \in filed[b].files \/ (r \in Own /\ b = Home[r]),
           Sound(index', filed, hands), Sound(known'[c].index, filed, hands),
           ~Rewound(hands) => Len(index) <= Len(index') /\ Len(known'[c].index) <= Len(index'),
           ~Rewound(hands) /\ ~Replaced(hands) =>
              /\ ChainHolds(Chain(index')) /\ IsPrefix(index, index')
              /\ IsPrefix(known'[c].index, index') /\ IsPrefix(seen'[c], known'[c].index),
           ~Rewound(hands) /\ ~Replaced(hands) /\ ~Withdrawn(hands) =>
              sure' \subseteq sure \cup Covered(Chain(index')) \cup Contributors
    PROVE  RegisterInv'
<1>1. Typed /\ (\A d \in Contributors : Holds(d)) /\ AllSound /\ Kept /\ OnOneBranch
  BY DEF RegisterInv
<1>2. index \in Tips /\ index' \in Tips /\ \A d \in Contributors : known'[d].index \in Tips /\ known[d].index \in Tips
  BY <1>1 DEF Typed
<1>3. \A r \in Records : AtHome(r, filed) => AtHome(r, filed')
  BY HomeIs DEF AtHome
<1>4. \A d \in Contributors : Holds(d)'
  <2>1. ASSUME NEW d \in Contributors \ {c} PROVE Holds(d)'
    BY <1>1, <1>3, HoldsLater DEF OthersRun, OthersSee
  <2> QED
    BY <2>1
<1>5. AllSound'
  <2>1. \A d \in Contributors : Sound(known'[d].index, filed, hands)
    BY <1>1 DEF AllSound, OthersSee
  <2>2. \A tip \in Tips : Sound(tip, filed, hands) => Sound(tip, filed', hands')
    BY <1>3, SoundLater
  <2> QED
    BY <1>2, <2>1, <2>2 DEF AllSound
<1>6. Kept'
  <2>1. ASSUME ~Rewound(hands), NEW d \in Contributors PROVE Len(known'[d].index) <= Len(index')
    <3>1. Len(known[d].index) <= Len(index) /\ Len(known[d].index) \in Nat /\ Len(index) \in Nat /\ Len(index') \in Nat
      BY <1>1, <1>2, <2>1, TipIs DEF Kept
    <3>2. Len(known[d].index) <= Len(index')
      BY <2>1, <3>1
    <3> QED
      BY <2>1, <3>2 DEF OthersSee
  <2>2. ASSUME ~Rewound(hands), ~Replaced(hands), NEW d \in Contributors
        PROVE  IsPrefix(known'[d].index, index') /\ IsPrefix(seen'[d], known'[d].index)
    <3>1. CASE d = c
      BY <2>2, <3>1
    <3>2. CASE d # c
      <4>1. IsPrefix(known[d].index, index) /\ IsPrefix(seen[d], known[d].index) /\ IsPrefix(index, index')
        BY <1>1, <2>2 DEF Kept
      <4>2. IsPrefix(known[d].index, index')
        BY <1>2, <4>1, PrefixTrans DEF Tips
      <4> QED
        BY <3>2, <4>1, <4>2 DEF OthersSee
    <3> QED
      BY <3>1, <3>2
  <2>3. ASSUME ~Rewound(hands), ~Replaced(hands), ~Withdrawn(hands)
        PROVE  sure' \subseteq Covered(Chain(index')) \cup Contributors
    <3>1. sure \subseteq Covered(Chain(index)) \cup Contributors
      BY <1>1, <2>3 DEF Kept
    <3>2. Covered(Chain(index)) \subseteq Covered(Chain(index'))
      BY <1>2, <2>3, CoveredKept
    <3> QED
      BY <2>3, <3>1, <3>2
  <2> QED
    BY <2>1, <2>2, <2>3 DEF Kept
<1>7. OnOneBranch'
  <2> SUFFICES ASSUME "copy" \notin hands PROVE
        /\ \A r \in Own, b \in Branches : r \in filed'[b].files => b = Home[r]
        /\ "misfile" \notin hands =>
              \A r \in Records, b \in Branches : r \in filed'[b].files => b = Home[r]
        /\ ~({"misfile", "propose"} \subseteq hands) =>
              \A r \in Records, b, d \in Branches : r \in filed'[b].files /\ r \in filed'[d].files => b = d
    BY DEF OnOneBranch
  <2>1. ASSUME NEW r \in Own, NEW b \in Branches, r \in filed'[b].files PROVE b = Home[r]
    BY <1>1, <2>1, RegisterAssumption DEF OnOneBranch
  <2>2. ASSUME "misfile" \notin hands, NEW r \in Records, NEW b \in Branches, r \in filed'[b].files PROVE b = Home[r]
    BY <1>1, <2>2 DEF OnOneBranch
  <2>3. ASSUME ~({"misfile", "propose"} \subseteq hands), NEW r \in Records, NEW b \in Branches, NEW d \in Branches,
               r \in filed'[b].files, r \in filed'[d].files
        PROVE  b = d
    <3>1. CASE r \in Own
      BY <2>1, <2>3, <3>1
    <3>2. CASE r \notin Own
      <4>1. r \in filed[b].files /\ r \in filed[d].files
        BY <2>3, <3>2
      <4> QED
        BY <1>1, <2>3, <4>1 DEF OnOneBranch
    <3> QED
      BY <3>1, <3>2
  <2> QED
    BY <2>1, <2>2, <2>3
<1> QED
  BY <1>4, <1>5, <1>6, <1>7 DEF RegisterInv

\* A command that reads, or stops.
LEMMA QuietKeeps ==
    ASSUME RegisterInv, NEW c \in Contributors,
           Typed', OthersRun(c), OthersSee(c), Holds(c)', hands' = hands, filed' = filed, index' = index, seen' = seen,
           known'[c].index = known[c].index \/ known'[c].index = Fetched(c).index,
           ~Rewound(hands) /\ ~Replaced(hands) /\ ~Withdrawn(hands) =>
              sure' \subseteq sure \cup Covered(Chain(index)) \cup Contributors
    PROVE  RegisterInv'
<1>1. Typed /\ AllSound /\ Kept /\ index \in Tips /\ Len(index) \in Nat
  BY TipIs DEF RegisterInv, Typed
<1>2. Sound(index', filed, hands) /\ Sound(known'[c].index, filed, hands)
  BY <1>1, SoundFetched DEF AllSound
<1>3. ~Rewound(hands) => Len(index) <= Len(index') /\ Len(known'[c].index) <= Len(index')
  <2> SUFFICES ASSUME ~Rewound(hands) PROVE Len(index) <= Len(index') /\ Len(known'[c].index) <= Len(index')
    OBVIOUS
  <2>1. Len(known[c].index) <= Len(index) /\ Fetched(c).index = index
    BY <1>1, FetchedKept DEF Kept
  <2> QED
    BY <1>1, <2>1
<1>4. ~Rewound(hands) /\ ~Replaced(hands) =>
         /\ ChainHolds(Chain(index')) /\ IsPrefix(index, index')
         /\ IsPrefix(known'[c].index, index') /\ IsPrefix(seen'[c], known'[c].index)
  <2> SUFFICES ASSUME ~Rewound(hands), ~Replaced(hands)
               PROVE  /\ ChainHolds(Chain(index)) /\ IsPrefix(index, index)
                      /\ IsPrefix(known'[c].index, index) /\ IsPrefix(seen[c], known'[c].index)
    OBVIOUS
  <2>1. IsPrefix(known[c].index, index) /\ IsPrefix(seen[c], known[c].index) /\ Fetched(c).index = index
        /\ ChainHolds(Chain(index)) /\ IsPrefix(index, index) /\ IsPrefix(seen[c], index)
    BY <1>1, FetchedKept DEF Kept
  <2> QED
    BY <2>1
<1>5. /\ \A b \in Branches : filed[b].files \subseteq filed'[b].files
      /\ \A b \in Branches, r \in Records :
            r \in filed'[b].files => r \in filed[b].files \/ (r \in Own /\ b = Home[r])
  OBVIOUS
<1>6. ~Rewound(hands) /\ ~Replaced(hands) /\ ~Withdrawn(hands) =>
         sure' \subseteq sure \cup Covered(Chain(index')) \cup Contributors
  OBVIOUS
<1> QED
  BY <1>2, <1>3, <1>4, <1>5, <1>6, CommandKeeps

LEMMA KnownFetched ==
    ASSUME Typed, NEW c \in Contributors, known' = known \/ known' = [known EXCEPT ![c] = Fetched(c)]
    PROVE  known'[c].index = known[c].index \/ known'[c].index = Fetched(c).index
<1> DEFINE k == Fetched(c)
<1>1. c \in DOMAIN known
  BY DEF Typed
<1> HIDE DEF k
<1>2. known' = [known EXCEPT ![c] = k] => known'[c].index = k.index
  BY <1>1
<1> QED
  BY <1>2 DEF k

LEMMA PushFileKeeps ==
    ASSUME RegisterInv, NEW c \in Contributors, PushFile(c)
    PROVE  RegisterInv'
<1>1. /\ Typed' /\ OthersRun(c) /\ OthersSee(c) /\ Holds(c)' /\ known'[c].index = known[c].index
      /\ \A b \in Branches : filed[b].files \subseteq filed'[b].files
      /\ \A b \in Branches, r \in Records :
            r \in filed'[b].files => r \in filed[b].files \/ (r \in Own /\ b = Home[r])
  BY PushFileIs
<1>2. index' = index /\ seen' = seen /\ sure' = sure /\ hands' = hands
  BY DEF PushFile
<1>3. Typed /\ AllSound /\ Kept /\ index \in Tips /\ Len(index) \in Nat
  BY TipIs DEF RegisterInv, Typed
<1>4. Sound(index', filed, hands) /\ Sound(known'[c].index, filed, hands)
  BY <1>1, <1>2, <1>3 DEF AllSound
<1>5. ~Rewound(hands) => Len(index) <= Len(index') /\ Len(known'[c].index) <= Len(index')
  BY <1>1, <1>2, <1>3 DEF Kept
<1>6. ~Rewound(hands) /\ ~Replaced(hands) =>
         /\ ChainHolds(Chain(index')) /\ IsPrefix(index, index')
         /\ IsPrefix(known'[c].index, index') /\ IsPrefix(seen'[c], known'[c].index)
  <2> SUFFICES ASSUME ~Rewound(hands), ~Replaced(hands)
               PROVE  /\ ChainHolds(Chain(index)) /\ IsPrefix(index, index)
                      /\ IsPrefix(known[c].index, index) /\ IsPrefix(seen[c], known[c].index)
    BY <1>1, <1>2
  <2> QED
    BY <1>3, FetchedKept DEF Kept
<1>7. ~Rewound(hands) /\ ~Replaced(hands) /\ ~Withdrawn(hands) =>
         sure' \subseteq sure \cup Covered(Chain(index')) \cup Contributors
  BY <1>2
<1> QED
  BY <1>1, <1>2, <1>4, <1>5, <1>6, <1>7, CommandKeeps

LEMMA PushCheckpointKeeps ==
    ASSUME RegisterInv, NEW c \in Contributors, PushCheckpoint(c)
    PROVE  RegisterInv'
<1>1. /\ Typed' /\ OthersRun(c) /\ OthersSee(c) /\ Holds(c)'
      /\ step[c] = "publish" /\ filed' = filed /\ hands' = hands /\ seen' = seen /\ sure' = sure
      /\ \/ index' = Published(c) /\ IsPrefix(index, Published(c)) /\ known'[c].index \in {Published(c), known[c].index}
         \/ index' = index /\ known' = known
  BY PushCheckpointIs
<1>2. Typed /\ AllSound /\ Kept /\ index \in Tips /\ Len(index) \in Nat /\ known[c].index \in Tips /\ Len(known[c].index) \in Nat
  BY KnownIs, TipIs DEF RegisterInv, Typed
<1>3. CASE index' = index /\ known' = known
  <2>1. ~Rewound(hands) /\ ~Replaced(hands) /\ ~Withdrawn(hands) =>
           sure' \subseteq sure \cup Covered(Chain(index)) \cup Contributors
    BY <1>1
  <2> QED
    BY <1>1, <1>3, <2>1, QuietKeeps
<1>4. CASE index' = Published(c) /\ IsPrefix(index, Published(c)) /\ known'[c].index \in {Published(c), known[c].index}
  <2>1. /\ Published(c) \in Tips /\ Len(Published(c)) = Len(known[c].index) + 1
        /\ IsPrefix(known[c].index, Published(c)) /\ IsPrefix(seen[c], Published(c))
        /\ ChainHolds(Chain(Published(c))) /\ Sound(Published(c), filed, hands)
    BY <1>1, NewIndex
  <2>2. Sound(index', filed, hands) /\ Sound(known'[c].index, filed, hands)
    BY <1>2, <1>4, <2>1 DEF AllSound
  <2>3. Len(index) <= Len(index') /\ Len(known'[c].index) <= Len(index')
    <3>1. Len(index) <= Len(Published(c)) /\ Len(Published(c)) \in Nat
      BY <1>2, <1>4, <2>1, PrefixFits, TipIs
    <3> QED
      BY <1>2, <1>4, <2>1, <3>1
  <2>4. ~Rewound(hands) /\ ~Replaced(hands) =>
           /\ ChainHolds(Chain(index')) /\ IsPrefix(index, index')
           /\ IsPrefix(known'[c].index, index') /\ IsPrefix(seen'[c], known'[c].index)
    <3> SUFFICES ASSUME ~Rewound(hands), ~Replaced(hands)
                 PROVE  IsPrefix(known'[c].index, Published(c)) /\ IsPrefix(seen[c], known'[c].index)
      BY <1>1, <1>4, <2>1
    <3>1. IsPrefix(seen[c], known[c].index) /\ IsPrefix(Published(c), Published(c))
      BY <1>2, <2>1, PrefixSelf DEF Kept, Tips
    <3> QED
      BY <1>4, <2>1, <3>1
  <2>5. ~Rewound(hands) /\ ~Replaced(hands) /\ ~Withdrawn(hands) =>
           sure' \subseteq sure \cup Covered(Chain(index')) \cup Contributors
    BY <1>1
  <2>6. /\ \A b \in Branches : filed[b].files \subseteq filed'[b].files
        /\ \A b \in Branches, r \in Records :
              r \in filed'[b].files => r \in filed[b].files \/ (r \in Own /\ b = Home[r])
    BY <1>1
  <2> QED
    BY <1>1, <2>2, <2>3, <2>4, <2>5, <2>6, CommandKeeps
<1> QED
  BY <1>1, <1>3, <1>4

LEMMA RememberKeeps ==
    ASSUME RegisterInv, NEW c \in Contributors, Remember(c)
    PROVE  RegisterInv'
<1>1. Typed' /\ OthersRun(c) /\ OthersSee(c) /\ Holds(c)'
  BY RememberIs
<1>2. /\ step[c] = "remember"
      /\ seen' = [seen EXCEPT ![c] = IF known[c].index = <<>> THEN @ ELSE known[c].index]
      /\ sure' = sure \cup {own[c]}
      /\ filed' = filed /\ index' = index /\ hands' = hands /\ known' = known
  BY DEF Remember, remote
<1>3. Typed /\ Holds(c) /\ AllSound /\ Kept /\ index \in Tips /\ Len(index) \in Nat /\ known[c].index \in Tips
  BY KnownIs, TipIs DEF RegisterInv, Typed
<1>4. Sound(index', filed, hands) /\ Sound(known'[c].index, filed, hands)
  BY <1>2, <1>3 DEF AllSound
<1>5. ~Rewound(hands) => Len(index) <= Len(index') /\ Len(known'[c].index) <= Len(index')
  BY <1>2, <1>3 DEF Kept
<1>6. ~Rewound(hands) /\ ~Replaced(hands) =>
         /\ ChainHolds(Chain(index')) /\ IsPrefix(index, index')
         /\ IsPrefix(known'[c].index, index') /\ IsPrefix(seen'[c], known'[c].index)
  <2> SUFFICES ASSUME ~Rewound(hands), ~Replaced(hands)
               PROVE  /\ ChainHolds(Chain(index)) /\ IsPrefix(index, index)
                      /\ IsPrefix(known[c].index, index) /\ IsPrefix(seen'[c], known[c].index)
    BY <1>2
  <2>1. /\ ChainHolds(Chain(index)) /\ IsPrefix(index, index)
        /\ IsPrefix(known[c].index, index) /\ IsPrefix(seen[c], known[c].index)
    BY <1>3, FetchedKept DEF Kept
  <2>2. IsPrefix(known[c].index, known[c].index)
    BY <1>3, PrefixSelf DEF Tips
  <2>3. seen'[c] = seen[c] \/ seen'[c] = known[c].index
    BY <1>2, <1>3 DEF Typed
  <2> QED
    BY <2>1, <2>2, <2>3
<1>7. ~Rewound(hands) /\ ~Replaced(hands) /\ ~Withdrawn(hands) =>
         sure' \subseteq sure \cup Covered(Chain(index')) \cup Contributors
  <2> SUFFICES ASSUME ~Rewound(hands), ~Replaced(hands), ~Withdrawn(hands)
               PROVE  own[c] \in Covered(Chain(index))
    BY <1>2
  <2>1. own[c] \in Covered(Chain(known[c].index))
    BY <1>2, <1>3 DEF Holds
  <2>2. Covered(Chain(known[c].index)) \subseteq Covered(Chain(index))
    BY <1>3, CoveredKept DEF Kept, AllSound
  <2> QED
    BY <2>1, <2>2
<1>8. /\ \A b \in Branches : filed[b].files \subseteq filed'[b].files
      /\ \A b \in Branches, r \in Records :
            r \in filed'[b].files => r \in filed[b].files \/ (r \in Own /\ b = Home[r])
  BY <1>2
<1> QED
  BY <1>1, <1>2, <1>4, <1>5, <1>6, <1>7, <1>8, CommandKeeps

LEMMA VerifyKeeps ==
    ASSUME RegisterInv, NEW c \in Contributors, NEW r \in Own, Verify(c, r)
    PROVE  RegisterInv'
<1>1. Typed' /\ OthersRun(c) /\ OthersSee(c) /\ Holds(c)'
  BY VerifyIs
<1>2. /\ known' = [known EXCEPT ![c] = Fetched(c)]
      /\ sure' = IF Verdict(c, Fetched(c), r) = "verified" THEN sure \cup {r} ELSE sure
      /\ filed' = filed /\ index' = index /\ hands' = hands /\ seen' = seen
  BY DEF Verify, remote
<1>3. known'[c].index = known[c].index \/ known'[c].index = Fetched(c).index
  BY <1>2, KnownFetched DEF RegisterInv
<1>4. ~Rewound(hands) => sure' \subseteq sure \cup Covered(Chain(index)) \cup Contributors
  <2> SUFFICES ASSUME ~Rewound(hands), Verdict(c, Fetched(c), r) = "verified" PROVE r \in Covered(Chain(index))
    BY <1>2
  <2>1. Fetched(c).index = index
    BY FetchedKept
  <2>2. r \in Covered(Chain(Fetched(c).index))
    BY DEF Verdict
  <2> QED
    BY <2>1, <2>2
<1> QED
  BY <1>1, <1>2, <1>3, <1>4, QuietKeeps

LEMMA ReadingKeeps ==
    ASSUME RegisterInv, NEW c \in Contributors,
           \/ File(c) \/ Check(c) \/ Crash(c) \/ Observe(c) \/ Tidy(c)
           \/ \E r \in Own : Begin(c, r)
    PROVE  RegisterInv'
<1>1. Typed' /\ OthersRun(c) /\ OthersSee(c) /\ Holds(c)'
  BY FileIs, CheckIs, CrashIs, ObserveIs, TidyIs, BeginIs
<1>2. /\ filed' = filed /\ index' = index /\ hands' = hands /\ seen' = seen /\ sure' = sure
      /\ (known' = known \/ known' = [known EXCEPT ![c] = Fetched(c)])
  <2>1. CASE File(c)
    BY <2>1 DEF File, remote
  <2>2. CASE Check(c)
    BY <2>2 DEF Check, remote
  <2>3. CASE Crash(c)
    BY <2>3 DEF Crash, remote
  <2>4. CASE Observe(c)
    BY <2>4 DEF Observe, Starts, remote
  <2>5. CASE Tidy(c)
    BY <2>5 DEF Tidy, remote
  <2>6. CASE \E r \in Own : Begin(c, r)
    BY <2>6 DEF Begin, Starts, remote
  <2> QED
    BY <2>1, <2>2, <2>3, <2>4, <2>5, <2>6
<1>3. known'[c].index = known[c].index \/ known'[c].index = Fetched(c).index
  BY <1>2, KnownFetched DEF RegisterInv
<1>4. sure' \subseteq sure \cup Covered(Chain(index)) \cup Contributors
  BY <1>2
<1> QED
  BY <1>1, <1>2, <1>3, <1>4, QuietKeeps

\* Every step keeps the invariant.
LEMMA NextKeeps == ASSUME RegisterInv, Next PROVE RegisterInv'
BY PushFileKeeps, PushCheckpointKeeps, RememberKeeps, VerifyKeeps, ReadingKeeps, ByHandKeeps DEF Next, Step

LEMMA StutterKeeps == ASSUME RegisterInv, UNCHANGED vars PROVE RegisterInv'
<1>1. /\ filed' = filed /\ index' = index /\ hands' = hands /\ seen' = seen /\ sure' = sure /\ known' = known
      /\ step' = step /\ own' = own /\ route' = route /\ base' = base /\ made' = made
  BY DEF vars, remote, mine
<1>2. Typed' /\ (\A c \in Contributors : Holds(c)')
  BY <1>1, HoldsLater DEF RegisterInv, Typed
<1> QED
  BY <1>1, <1>2 DEF RegisterInv, AllSound, Kept, OnOneBranch

-----------------------------------------------------------------------------
(* What is said of the register *)

\* One hand at most: nothing is done by hand after something else was.
OneHand == MaxHands <= 1 => \A g, h \in hands : g = h

\* Where one thing at most is done by hand, it is the only one.
LEMMA OneHandKept ==
    /\ Init => OneHand
    /\ RegisterInv /\ OneHand /\ Next => OneHand'
<1>1. Init => OneHand
  BY DEF Init, OneHand
<1>2. ASSUME RegisterInv, OneHand, Next PROVE OneHand'
  <2>1. CASE hands' = hands
    BY <1>2, <2>1 DEF OneHand
  <2>2. CASE ByHand
    <3> SUFFICES ASSUME MaxHands <= 1 PROVE \A g, h \in hands' : g = h
      BY DEF OneHand
    <3>1. PICK h \in Hands : hands' = hands \cup {h} /\ Cardinality(hands) < MaxHands
      BY <2>2 DEF ByHand
    <3>2. IsFiniteSet(hands) /\ Cardinality(hands) \in Nat
      BY <1>2, FS_CardinalityType DEF RegisterInv, Typed
    <3>3. Cardinality(hands) = 0
      BY <3>1, <3>2, RegisterAssumption
    <3>4. hands = {}
      BY <3>2, <3>3, FS_EmptySet
    <3> QED
      BY <3>1, <3>4
  <2>3. CASE \E c \in Contributors :
               Step(c) \/ Crash(c) \/ (\E r \in Own : Begin(c, r)) \/ (\E r \in Own : Verify(c, r)) \/ Observe(c) \/ Tidy(c)
    <3>1. hands' = hands
      BY <2>3 DEF Step, File, PushFile, Check, PushCheckpoint, Remember, Crash, Begin, Verify, Observe, Starts, Tidy
    <3> QED
      BY <2>1, <3>1
  <2> QED
    BY <1>2, <2>2, <2>3 DEF Next
<1> QED
  BY <1>1, <1>2

LEMMA Untouched ==
    ASSUME hands \cap {"withdraw", "rewind", "replace", "fork", "drop"} = {}
    PROVE  ~Withdrawn(hands) /\ ~Rewound(hands) /\ ~Replaced(hands)
BY DEF Withdrawn, Rewound, Replaced

\* extend() accepts what its contributor may accept.
LEMMA AcceptableAlways == RegisterInv => CoveredIsAcceptable
<1> SUFFICES ASSUME RegisterInv PROVE CoveredIsAcceptable
  OBVIOUS
<1>1. Sound(index, filed, hands)
  BY DEF RegisterInv, AllSound
<1>2. ASSUME NEW i \in 1..Len(index), index[i].by \in Contributors, NEW r \in Last(index[i].chk)
      PROVE  /\ "withdraw" \notin hands => r \in filed[Home[r]].files
             /\ r \in Reads[index[i].by] \/ \E j \in 1..i-1 : r \in Last(index[j].chk)
  BY <1>1, <1>2 DEF Sound, Withdrawn, AtHome
<1> QED
  BY <1>2 DEF CoveredIsAcceptable

\* What somebody was told stays so.
LEMMA ToldAlways == RegisterInv => ToldStaysRegistered
BY Untouched DEF RegisterInv, Kept, ToldStaysRegistered

\* A record that is on its branch only is read from there.
LEMMA FileIsHome ==
    ASSUME NEW k, NEW r \in Records, FiledAt(k, r) = {Home[r]}
    PROVE  FileOf(k, r) = Home[r]
<1> DEFINE P(i) == Order[i] \in FiledAt(k, r) /\ \A j \in i+1..Len(Order) : Order[j] \notin FiledAt(k, r)
<1>1. PICK n \in 1..Len(Order) : Order[n] = Home[r]
  BY RegisterAssumption
<1>2. \A j \in n+1..Len(Order) : j \in 1..Len(Order) /\ j # n
  BY RegisterAssumption
<1>3. P(n)
  BY <1>1, <1>2, RegisterAssumption
<1>4. \E i \in 1..Len(Order) : P(i)
  BY <1>3
<1> DEFINE i1 == CHOOSE i \in 1..Len(Order) : P(i)
<1>5. i1 \in 1..Len(Order) /\ P(i1)
  <2> HIDE DEF P
  <2> QED
    BY <1>4
<1>6. FileOf(k, r) = Order[i1]
  BY DEF FileOf
<1> QED
  BY <1>5, <1>6

\* What the index covers is answered for.
LEMMA AnsweredAlways ==
    ASSUME RegisterInv, "copy" \notin hands, ~({"misfile", "propose"} \subseteq hands)
    PROVE  CoveredIsAnswered
<1> SUFFICES ASSUME hands \cap {"withdraw", "rewind", "replace", "fork", "drop"} = {},
                    NEW c \in Contributors, NEW r \in Covered(Chain(index))
             PROVE  Verdict(c, Fetched(c), r) = "verified"
  BY DEF CoveredIsAnswered
<1> DEFINE k == Fetched(c)  ch == Chain(k.index)
<1>1. ~Withdrawn(hands) /\ ~Rewound(hands) /\ ~Replaced(hands)
  BY Untouched
<1>2. Typed /\ AllSound /\ OnOneBranch /\ index \in Tips /\ seen[c] \in Tips
  BY KnownIs DEF RegisterInv, Typed
<1>3. k.index = index /\ k.filed = filed /\ ChainHolds(Chain(index)) /\ IsPrefix(index, index) /\ IsPrefix(seen[c], index)
  BY <1>1, <1>2, FetchedKept, FetchedIs
<1>4. /\ Covered(Chain(index)) \in SUBSET Records
      /\ \A s \in Covered(Chain(index)) : AtHome(s, filed)
  BY <1>1, <1>2, CoveredIs, CoveredAtHome DEF AllSound
<1>5. ~Rewritten(Remembered(c, k), k.index)
  BY <1>3 DEF Rewritten, Remembered
<1>6. Covered(ch) \subseteq FiledIn(k)
  <2> SUFFICES ASSUME NEW s \in Covered(Chain(index)) PROVE s \in FiledIn(k)
    BY <1>3
  <2>1. Home[s] \in Branches /\ s \in k.filed[Home[s]].files
    BY <1>3, <1>4, HomeIs DEF AtHome
  <2> QED
    BY <2>1 DEF FiledIn
<1>7. ASSUME NEW s \in Covered(Chain(index)) PROVE FileOf(k, s) = Home[s]
  <2>1. s \in Records /\ Home[s] \in Branches /\ s \in filed[Home[s]].files
    BY <1>4, HomeIs DEF AtHome
  <2>2. \A b \in Branches : s \in filed[b].files => b = Home[s]
    BY <1>2, <2>1 DEF OnOneBranch
  <2>3. FiledAt(k, s) = {Home[s]}
    BY <1>3, <2>1, <2>2 DEF FiledAt
  <2> QED
    BY <2>1, <2>3, FileIsHome
<1> HIDE DEF k
<1>8. RegisterState(c, k) = "intact"
  BY <1>3, <1>5, <1>6, <1>7 DEF RegisterState
<1>9. Verdict(c, k, r) = "verified"
  BY <1>3, <1>8 DEF Verdict
<1> QED
  BY <1>9 DEF k

\* A file misfiled where its record was proposed as well is read from whichever branch is last.
NotBothFiled == MaxHands <= 1 \/ ~({"misfile", "propose"} \subseteq Hands)

\* The register is sound, unless one person misfiles what another proposes.
LEMMA SoundAlways ==
    ASSUME RegisterInv, OneHand, NotBothFiled
    PROVE  RegisterIsSound
<1>1. ~({"misfile", "propose"} \subseteq hands)
  <2>1. CASE MaxHands <= 1
    <3>1. "misfile" \in hands /\ "propose" \in hands => "misfile" = "propose"
      BY <2>1 DEF OneHand
    <3> QED
      BY <3>1
  <2>2. CASE ~({"misfile", "propose"} \subseteq Hands)
    BY <2>2 DEF RegisterInv, Typed
  <2> QED
    BY <2>1, <2>2 DEF NotBothFiled
<1> QED
  BY <1>1, AcceptableAlways, ToldAlways, AnsweredAlways DEF RegisterIsSound

\* An index that was shortened and whose last checkpoint was then replaced covers what a
\* contributor that saw neither does not.
NotBothEdited ==
    MaxHands <= 1 \/ Hands \cap {"rewind", "drop"} = {} \/ Hands \cap {"replace", "fork"} = {}

\* What a command publishes, whatever was done by hand.
LEMMA OnlyCommandsPublish ==
    ASSUME RegisterInv, Next, hands' = hands, index' # index
    PROVE  \E c \in Contributors : step[c] = "publish" /\ index' = Published(c) /\ IsPrefix(index, Published(c))
<1>1. ~ByHand
  BY DEF ByHand
<1>2. PICK c \in Contributors :
        Step(c) \/ Crash(c) \/ (\E r \in Own : Begin(c, r)) \/ (\E r \in Own : Verify(c, r)) \/ Observe(c) \/ Tidy(c)
  BY <1>1 DEF Next
<1>3. PushCheckpoint(c)
  BY <1>2 DEF Step, File, PushFile, Check, Remember, Crash, Begin, Verify, Observe, Starts, Tidy, remote
<1> QED
  BY <1>3, PushCheckpointIs

\* A step of a command only adds to the index.
LEMMA GrowsStep ==
    ASSUME RegisterInv, OneHand, NotBothEdited, Next
    PROVE  IndexOnlyGrows
<1> SUFFICES ASSUME hands' = hands, index' # index
             PROVE  /\ IsPrefix(index, index')
                    /\ ChainHolds(Chain(index'))
                    /\ Covered(Chain(index)) \subseteq Covered(Chain(index'))
                    /\ IsPrefix(seen[Last(index').by], index')
  BY DEF IndexOnlyGrows
<1>1. PICK c \in Contributors : step[c] = "publish" /\ index' = Published(c) /\ IsPrefix(index, Published(c))
  BY OnlyCommandsPublish
<1>2. /\ Published(c) \in Tips
      /\ Published(c) = Append(known[c].index, [by |-> c, chk |-> made[c]]) /\ [by |-> c, chk |-> made[c]] \in Commit
      /\ Last(Published(c)).by = c /\ IsPrefix(seen[c], Published(c))
      /\ ChainHolds(Chain(Published(c))) /\ Covered(Chain(known[c].index)) \subseteq Covered(Chain(Published(c)))
      /\ Sound(Published(c), filed, hands)
  BY <1>1, NewIndex
<1>3. Typed /\ Kept /\ index \in Tips /\ known[c].index \in Tips
  BY KnownIs DEF RegisterInv, Typed
<1>4. CASE ~Replaced(hands)
  <2>1. Covered(Chain(index)) \subseteq Covered(Chain(Published(c)))
    BY <1>1, <1>2, <1>3, <1>4, CoveredKept
  <2> QED
    BY <1>1, <1>2, <2>1
<1>5. CASE ~Rewound(hands)
  <2>1. Len(known[c].index) <= Len(index)
    BY <1>3, <1>5 DEF Kept
  <2>2. IsPrefix(index, known[c].index)
    BY <1>1, <1>2, <1>3, PrefixOfNext DEF Tips
  <2>3. index = known[c].index
    BY <1>3, <2>1, <2>2, PrefixSame DEF Tips
  <2> QED
    BY <1>1, <1>2, <2>3
<1>6. ~Replaced(hands) \/ ~Rewound(hands)
  <2>1. CASE MaxHands <= 1
    <3>1. \A g, h \in hands : g = h
      BY <2>1 DEF OneHand
    <3> QED
      BY <3>1 DEF Replaced, Rewound
  <2>2. hands \subseteq Hands
    BY <1>3 DEF Typed
  <2> QED
    BY <2>1, <2>2 DEF NotBothEdited, Replaced, Rewound
<1> QED
  BY <1>4, <1>5, <1>6

-----------------------------------------------------------------------------
(* The behaviours the configurations check *)

SharedInv == which = "register" => RegisterInv /\ OneHand

\* The behaviours of MCShared keep the register's invariant while the register runs.
LEMMA SharedKeeps == (InitOne => SharedInv) /\ (SharedInv /\ [OneRuns]_all => SharedInv')
<1>1. InitOne => SharedInv
  <2> SUFFICES ASSUME InitOne, which = "register" PROVE RegisterInv /\ OneHand
    BY DEF SharedInv
  <2>1. Init
    BY DEF InitOne
  <2> QED
    BY <2>1, InitInv, OneHandKept
<1>2. ASSUME SharedInv, [OneRuns]_all PROVE SharedInv'
  <2>1. CASE Registering
    BY <1>2, <2>1, NextKeeps, OneHandKept DEF SharedInv, Registering
  <2>2. CASE Travelling \/ Adopting
    <3>1. which' = which /\ which # "register"
      BY <2>2 DEF Travelling, Adopting
    <3> QED
      BY <3>1 DEF SharedInv
  <2>3. CASE UNCHANGED all
    <3>1. UNCHANGED vars /\ which' = which
      BY <2>3 DEF all, bounds, registerOnly, vars
    <3>2. hands' = hands
      BY <3>1 DEF vars
    <3> QED
      BY <1>2, <3>1, <3>2, StutterKeeps DEF SharedInv, OneHand
  <2> QED
    BY <1>2, <2>1, <2>2, <2>3 DEF OneRuns
<1> QED
  BY <1>1, <1>2

\* The invariant holds of every register, whoever the contributors are and whatever is done by hand.
THEOREM RegisterInvariant == Shared => [](which = "register" => RegisterInv)
<1>1. SharedInv => (which = "register" => RegisterInv)
  BY DEF SharedInv
<1> QED
  BY <1>1, SharedKeeps, PTL DEF Shared

\* Whatever is done by hand, the index accepts only what its writer may accept and what was
\* accepted before it, and nobody is told of a record what stops being so.
THEOREM RegisterTold ==
    Shared => [](which = "register" => CoveredIsAcceptable /\ ToldStaysRegistered)
<1>1. SharedInv => (which = "register" => CoveredIsAcceptable /\ ToldStaysRegistered)
  BY AcceptableAlways, ToldAlways DEF SharedInv
<1> QED
  BY <1>1, SharedKeeps, PTL DEF Shared

\* Every reader is also told of every covered record that it is verified, unless one person
\* misfiles a record that another then proposes.
THEOREM RegisterAlwaysAnswers ==
    ASSUME NotBothFiled
    PROVE  Shared => []RegisterAnswers
<1>1. SharedInv => RegisterAnswers
  BY SoundAlways DEF SharedInv, RegisterAnswers
<1> QED
  BY <1>1, SharedKeeps, PTL DEF Shared

\* A command only ever adds to the index it finds, and to what its contributor last found sound,
\* unless the index was both shortened and replaced by hand.
THEOREM IndexAlwaysGrows ==
    ASSUME NotBothEdited
    PROVE  Shared => IndexGrows
<1>1. SharedInv /\ [OneRuns]_all => [which = "register" => IndexOnlyGrows]_all
  <2> SUFFICES ASSUME SharedInv, OneRuns, which = "register" PROVE IndexOnlyGrows
    OBVIOUS
  <2>1. Registering
    BY DEF OneRuns, Travelling, Adopting
  <2> QED
    BY <2>1, GrowsStep DEF SharedInv, Registering
<1> QED
  BY <1>1, SharedKeeps, PTL DEF Shared, IndexGrows

-----------------------------------------------------------------------------
(* Submodules: the tree, and the walk of it *)

Inner == {r \in Subs!Repos : Subs!Children(r) # {}}
Size  == Len(Holder)

LEMMA HolderIs ==
    /\ Size \in Nat \ {0} /\ Subs!Repos = 1..Size /\ Holder[1] = 0
    /\ \A r \in Subs!Repos \ {1} : Holder[r] \in Subs!Repos /\ Holder[r] < r /\ Holder[r] \in Inner
    /\ \A r \in Subs!Repos : \A c \in Subs!Children(r) : c \in Subs!Repos /\ c # 1 /\ Holder[c] = r /\ r < c
<1>1. Size \in Nat /\ Subs!Repos = 1..Size
  BY ConversionAssumption DEF Subs!Nested, Size, Subs!Repos
<1>2. Size # 0 /\ Holder[1] = 0
  BY <1>1, ConversionAssumption DEF Subs!Nested
<1>3. ASSUME NEW r \in Subs!Repos \ {1} PROVE Holder[r] \in Subs!Repos /\ Holder[r] < r /\ r \in Subs!Children(Holder[r])
  BY <1>1, ConversionAssumption DEF Subs!Nested, Subs!Children
<1>4. ASSUME NEW r \in Subs!Repos, NEW c \in Subs!Children(r) PROVE c \in Subs!Repos /\ c # 1 /\ Holder[c] = r /\ r < c
  <2>1. c \in Subs!Repos /\ Holder[c] = r
    BY DEF Subs!Children
  <2>2. c # 1
    BY <1>1, <1>2, <2>1
  <2> QED
    BY <1>3, <2>1, <2>2
<1> QED
  BY <1>1, <1>2, <1>3, <1>4 DEF Inner

\* A subset of 1..n that holds 1 and climbs holds n.
LEMMA Climb ==
    ASSUME NEW n \in Nat, NEW S \in SUBSET (1..n), 1 \in S, \A m \in S : m < n => m + 1 \in S
    PROVE  n \in S
<1> SUFFICES ASSUME n \notin S PROVE FALSE
  OBVIOUS
<1> DEFINE up == [m \in S |-> m + 1]
<1>1. IsFiniteSet(S)
  <2>1. IsFiniteSet(1..n)
    BY FS_Interval
  <2> QED
    BY <2>1, FS_Subset
<1>2. \A m \in S : m \in Nat /\ m < n /\ m >= 1
  OBVIOUS
<1>3. up \in Injection(S, S)
  BY <1>2 DEF Injection, IsInjective
<1>4. up \in Surjection(S, S)
  BY <1>1, <1>3, FS_Injection
<1>5. \E m \in S : up[m] = 1
  BY <1>4 DEF Surjection
<1> QED
  BY <1>2, <1>5

\* What holds of a repository when it holds of those inside it holds of all, and ...
LEMMA FromLeaves ==
    ASSUME NEW S \in SUBSET Subs!Repos, \A r \in Subs!Repos : (\A k \in Subs!Repos : k > r => k \in S) => r \in S
    PROVE  S = Subs!Repos
<1> DEFINE T == {m \in 1..Size : \A k \in Subs!Repos : k > Size - m => k \in S}
<1>1. Size \in Nat /\ Size >= 1 /\ Subs!Repos = 1..Size
  BY HolderIs
<1>2. 1 \in T
  BY <1>1
<1>3. \A m \in T : m < Size => m + 1 \in T
  <2> SUFFICES ASSUME NEW m \in T, m < Size PROVE m + 1 \in T
    OBVIOUS
  <2>1. \A k \in Subs!Repos : k > Size - m => k \in S
    OBVIOUS
  <2>2. Size - m \in Subs!Repos
    BY <1>1
  <2>3. Size - m \in S
    BY <1>1, <2>1, <2>2
  <2>4. \A k \in Subs!Repos : k > Size - (m + 1) => k \in S
    BY <1>1, <2>1, <2>3
  <2> QED
    BY <1>1, <2>4
<1>4. Size \in T
  <2>1. T \in SUBSET (1..Size)
    OBVIOUS
  <2> HIDE DEF T
  <2> QED
    BY <1>1, <1>2, <1>3, <2>1, Climb
<1>5. \A k \in Subs!Repos : k > Size - Size => k \in S
  BY <1>4
<1>6. Size - Size = 0 /\ \A k \in Subs!Repos : k > 0
  BY <1>1
<1> QED
  BY <1>5, <1>6

\* ... what holds of it when it holds of the one it sits in.
LEMMA FromRoot ==
    ASSUME NEW S \in SUBSET Subs!Repos, 1 \in S, \A r \in Subs!Repos \ {1} : Holder[r] \in S => r \in S
    PROVE  S = Subs!Repos
<1> DEFINE T == {m \in 1..Size : \A k \in Subs!Repos : k <= m => k \in S}
<1>1. Size \in Nat /\ Size >= 1 /\ Subs!Repos = 1..Size
  BY HolderIs
<1>2. 1 \in T
  BY <1>1
<1>3. \A m \in T : m < Size => m + 1 \in T
  <2> SUFFICES ASSUME NEW m \in T, m < Size PROVE m + 1 \in T
    OBVIOUS
  <2>1. \A k \in Subs!Repos : k <= m => k \in S
    OBVIOUS
  <2>2. m + 1 \in Subs!Repos \ {1}
    BY <1>1
  <2>3. Holder[m + 1] \in Subs!Repos /\ Holder[m + 1] <= m
    BY <1>1, <2>2, HolderIs
  <2>4. m + 1 \in S
    BY <2>1, <2>2, <2>3
  <2>5. \A k \in Subs!Repos : k <= m + 1 => k \in S
    BY <1>1, <2>1, <2>4
  <2> QED
    BY <1>1, <2>5
<1>4. Size \in T
  <2>1. T \in SUBSET (1..Size)
    OBVIOUS
  <2> HIDE DEF T
  <2> QED
    BY <1>1, <1>2, <1>3, <2>1, Climb
<1>5. \A k \in Subs!Repos : k <= Size => k \in S
  BY <1>4
<1>6. \A k \in Subs!Repos : k <= Size
  BY <1>1
<1> HIDE DEF T
<1>7. \A k \in Subs!Repos : k \in S
  BY <1>5, <1>6
<1> QED
  BY <1>7

\* What sits in a repository, at any depth, and the repository.
Closed(S)  == \A r \in S : Subs!Children(r) \subseteq S
Beneath(r) == {x \in Subs!Repos : \A S \in SUBSET Subs!Repos : r \in S /\ Closed(S) => x \in S}

LEMMA BeneathIs ==
    ASSUME NEW r \in Subs!Repos
    PROVE  /\ r \in Beneath(r) /\ Beneath(r) \in SUBSET Subs!Repos /\ Closed(Beneath(r))
           /\ \A S \in SUBSET Subs!Repos : r \in S /\ Closed(S) => Beneath(r) \subseteq S
<1>1. Closed(Beneath(r))
  <2> SUFFICES ASSUME NEW x \in Beneath(r), NEW c \in Subs!Children(x), NEW S \in SUBSET Subs!Repos, r \in S, Closed(S)
               PROVE  c \in S /\ c \in Subs!Repos
    BY DEF Closed, Beneath, Subs!Children
  <2>1. x \in S
    BY DEF Beneath
  <2> QED
    BY <2>1 DEF Closed, Subs!Children
<1> QED
  BY <1>1 DEF Beneath

\* What is in a repository is under it, or is in one that is.
LEMMA BeneathOf ==
    ASSUME NEW r \in Subs!Repos
    PROVE  \A x \in Beneath(r) : x >= r /\ (x # r => x # 1 /\ Holder[x] \in Beneath(r))
<1> DEFINE S == {x \in Beneath(r) : x >= r /\ (x # r => x # 1 /\ Holder[x] \in Beneath(r))}
<1>1. S \in SUBSET Subs!Repos /\ r \in S
  BY BeneathIs, HolderIs
<1>2. Closed(S)
  <2> SUFFICES ASSUME NEW x \in S, NEW c \in Subs!Children(x) PROVE c \in S
    BY DEF Closed
  <2>1. x \in Beneath(r) /\ x \in Subs!Repos /\ x >= r
    BY <1>1
  <2>2. c \in Subs!Repos /\ c # 1 /\ Holder[c] = x /\ x < c
    BY <2>1, HolderIs
  <2>3. c \in Beneath(r)
    BY <2>1, BeneathIs DEF Closed
  <2>4. c >= r
    BY <2>1, <2>2, HolderIs
  <2> QED
    BY <2>1, <2>2, <2>3, <2>4
<1>3. Beneath(r) \subseteq S
  BY <1>1, <1>2, BeneathIs
<1> QED
  BY <1>3

LEMMA RootHoldsAll == Beneath(1) = Subs!Repos
<1>1. 1 \in Subs!Repos
  BY HolderIs
<1>2. Beneath(1) \in SUBSET Subs!Repos /\ 1 \in Beneath(1)
  BY <1>1, BeneathIs
<1>3. ASSUME NEW r \in Subs!Repos \ {1}, Holder[r] \in Beneath(1) PROVE r \in Beneath(1)
  <2>1. r \in Subs!Children(Holder[r])
    BY DEF Subs!Children
  <2> QED
    BY <1>1, <1>3, <2>1, BeneathIs DEF Closed
<1> QED
  BY <1>2, <1>3, FromRoot

\* What is in a repository is in one of those that sit in it, and in one only.
LEMMA BeneathChildren ==
    ASSUME NEW r \in Subs!Repos
    PROVE  /\ Beneath(r) = {r} \cup UNION {Beneath(c) : c \in Subs!Children(r)}
           /\ \A c \in Subs!Children(r) : r \notin Beneath(c)
           /\ \A c, d \in Subs!Children(r) : c # d => Beneath(c) \cap Beneath(d) = {}
<1>1. \A c \in Subs!Children(r) : c \in Subs!Repos /\ c # 1 /\ Holder[c] = r /\ r < c /\ c \in Beneath(r)
  BY HolderIs, BeneathIs DEF Closed
<1>2. \A c \in Subs!Children(r) : Beneath(c) \subseteq Beneath(r)
  BY <1>1, BeneathIs
<1> DEFINE S == {r} \cup UNION {Beneath(c) : c \in Subs!Children(r)}
<1>3. Beneath(r) \subseteq S
  <2>1. S \in SUBSET Subs!Repos /\ r \in S
    BY <1>1, BeneathIs
  <2>2. Closed(S)
    <3> SUFFICES ASSUME NEW x \in S, NEW y \in Subs!Children(x) PROVE y \in S
      BY DEF Closed
    <3>1. CASE x = r
      BY <1>1, <3>1, BeneathIs
    <3>2. CASE x # r
      <4>1. PICK c \in Subs!Children(r) : x \in Beneath(c)
        BY <3>2
      <4>2. y \in Beneath(c)
        BY <1>1, <4>1, BeneathIs DEF Closed
      <4> QED
        BY <4>2
    <3> QED
      BY <3>1, <3>2
  <2> QED
    BY <2>1, <2>2, BeneathIs
<1>4. \A c \in Subs!Children(r) : r \notin Beneath(c)
  BY <1>1, BeneathOf, HolderIs
<1>5. ASSUME NEW c \in Subs!Children(r), NEW d \in Subs!Children(r), c # d PROVE Beneath(c) \cap Beneath(d) = {}
  <2> DEFINE T == Beneath(c) \ Beneath(d)
  <2>1. Beneath(c) \in SUBSET Subs!Repos /\ c \in Beneath(c)
    BY <1>1, BeneathIs
  <2>2. c \notin Beneath(d)
    BY <1>1, <1>4, <1>5, BeneathOf
  <2>3. Closed(T)
    <3> SUFFICES ASSUME NEW x \in T, NEW y \in Subs!Children(x), y \in Beneath(d) PROVE FALSE
      BY <1>1, BeneathIs DEF Closed
    <3>1. Holder[y] = x
      BY DEF Subs!Children
    <3>2. y = d
      BY <1>1, <3>1, BeneathOf
    <3>3. x = r
      BY <1>1, <3>1, <3>2
    <3> QED
      BY <1>4, <3>3
  <2>4. Beneath(c) \subseteq T
    BY <1>1, <2>1, <2>2, <2>3, BeneathIs
  <2> QED
    BY <2>4
<1> QED
  BY <1>2, <1>3, <1>4, <1>5, BeneathIs

-----------------------------------------------------------------------------
(* Sequences that are put together *)

\* A function on 1..n is a sequence of length n.
LEMMA Functional ==
    ASSUME NEW T, NEW n \in Nat, NEW f \in [1..n -> T]
    PROVE  f \in Seq(T) /\ Len(f) = n
<1>1. f \in Seq(T)
  <2>1. f \in UNION {[1..i -> T] : i \in Nat}
    BY Zenon
  <2> QED
    BY Zenon, <2>1, SeqDef
<1>2. Len(f) \in Nat /\ DOMAIN f = 1..Len(f)
  BY Zenon, <1>1, LenProperties
<1>3. DOMAIN f = 1..n
  BY Zenon
<1> QED
  BY <1>1, <1>2, <1>3

\* g[i] is f[1] \o ... \o f[i].
Sums(g, f, n, T) ==
    /\ g \in [1..n -> Seq(T)]
    /\ g[1] = f[1]
    /\ \A i \in 2..n : g[i] = g[i - 1] \o f[i]

\* FlattenSeq is the last of its partial concatenations.
LEMMA Flattened ==
    ASSUME NEW T, NEW n \in Nat \ {0}, NEW f \in [1..n -> Seq(T)]
    PROVE  \E g : Sums(g, f, n, T) /\ Subs!FlattenSeq(f) = g[n]
<1> DEFINE Part(g, m) == g[1] = f[1] /\ \A i \in 2..m : g[i] = g[i - 1] \o f[i]
           S == {m \in 1..n : \E g \in [1..m -> Seq(T)] : Part(g, m)}
<1>1. 1 \in S
  <2>1. [i \in 1..1 |-> f[1]] \in [1..1 -> Seq(T)]
    OBVIOUS
  <2>2. Part([i \in 1..1 |-> f[1]], 1)
    OBVIOUS
  <2>3. 1 \in 1..n
    OBVIOUS
  <2> HIDE DEF Part
  <2> QED
    BY Zenon, <2>1, <2>2, <2>3
<1>2. \A m \in S : m < n => m + 1 \in S
  <2> SUFFICES ASSUME NEW m \in S, m < n PROVE m + 1 \in S
    OBVIOUS
  <2>1. PICK g \in [1..m -> Seq(T)] : Part(g, m)
    OBVIOUS
  <2> DEFINE h == [i \in 1..m + 1 |-> IF i = m + 1 THEN g[m] \o f[m + 1] ELSE g[i]]
  <2>2. g[m] \o f[m + 1] \in Seq(T)
    <3>1. g[m] \in Seq(T) /\ f[m + 1] \in Seq(T)
      OBVIOUS
    <3> HIDE DEF S
    <3> QED
      BY <3>1, ConcatProperties
  <2>3. h \in [1..m + 1 -> Seq(T)]
    BY <2>2
  <2>4. Part(h, m + 1)
    <3>1. h[1] = f[1]
      BY <2>1
    <3>2. ASSUME NEW i \in 2..m + 1 PROVE h[i] = h[i - 1] \o f[i]
      <4>1. CASE i = m + 1
        <5>1. h[m + 1] = g[m] \o f[m + 1]
          OBVIOUS
        <5>2. h[m] = g[m]
          OBVIOUS
        <5>3. i - 1 = m
          BY <4>1
        <5> HIDE DEF h
        <5> QED
          BY <4>1, <5>1, <5>2, <5>3
      <4>2. CASE i \in 2..m
        <5>1. h[i] = g[i] /\ h[i - 1] = g[i - 1]
          BY <4>2
        <5>2. g[i] = g[i - 1] \o f[i]
          BY <4>2, <2>1
        <5> QED
          BY <5>1, <5>2
      <4>3. i = m + 1 \/ i \in 2..m
        OBVIOUS
      <4> QED
        BY <4>1, <4>2, <4>3
    <3> QED
      BY <3>1, <3>2
  <2>5. m + 1 \in 1..n
    OBVIOUS
  <2> HIDE DEF Part, h
  <2> QED
    BY Zenon, <2>3, <2>4, <2>5
<1>3. n \in S
  <2>1. S \in SUBSET (1..n)
    OBVIOUS
  <2> HIDE DEF S
  <2> QED
    BY <1>1, <1>2, <2>1, Climb
<1>4. PICK g \in [1..n -> Seq(T)] : Part(g, n)
  BY <1>3
<1> DEFINE Def(h) == [i \in 1..n |-> IF i = 1 THEN f[i] ELSE h[i - 1] \o f[i]]
           flatten == CHOOSE h : h = Def(h)
<1>5. g = Def(g)
  <2>1. \A i \in 1..n : g[i] = IF i = 1 THEN f[i] ELSE g[i - 1] \o f[i]
    <3> SUFFICES ASSUME NEW i \in 1..n PROVE g[i] = IF i = 1 THEN f[i] ELSE g[i - 1] \o f[i]
      OBVIOUS
    <3>1. i = 1 \/ i \in 2..n
      OBVIOUS
    <3> QED
      BY <1>4, <3>1
  <2>2. g = [i \in 1..n |-> g[i]]
    OBVIOUS
  <2> QED
    BY <2>1, <2>2
<1>6. flatten = Def(flatten)
  <2> HIDE DEF Def
  <2> QED
    BY Zenon, <1>5
<1>7. Len(f) = n
  BY Functional
<1>8. Subs!FlattenSeq(f) = flatten[n]
  BY <1>7, Zenon DEF Subs!FlattenSeq
<1>9. flatten[n] = g[n]
  <2> DEFINE Q == {m \in 1..n : flatten[m] = g[m]}
  <2> HIDE DEF flatten
  <2>1. \A i \in 1..n : flatten[i] = IF i = 1 THEN f[i] ELSE flatten[i - 1] \o f[i]
    BY <1>6, Zenon
  <2>2. 1 \in Q
    BY <1>4, <2>1
  <2>3. ASSUME NEW m \in Q, m < n PROVE m + 1 \in Q
    <3>1. m + 1 \in 2..n /\ m + 1 \in 1..n /\ m + 1 # 1 /\ (m + 1) - 1 = m
      BY <2>3
    <3>2. g[m + 1] = g[m] \o f[m + 1]
      BY <1>4, <3>1
    <3>3. flatten[m + 1] = flatten[m] \o f[m + 1]
      BY <2>1, <3>1
    <3> QED
      BY <3>1, <3>2, <3>3
  <2>4. Q \in SUBSET (1..n)
    OBVIOUS
  <2>5. n \in Q
    <3> HIDE DEF Q
    <3> QED
      BY <2>2, <2>3, <2>4, Climb
  <2> QED
    BY <2>5
<1> HIDE DEF flatten
<1>10. Sums(g, f, n, T)
  BY <1>4 DEF Sums
<1> QED
  BY <1>8, <1>9, <1>10

\* What is flattened is a sequence of the same elements.
LEMMA FlatSeq ==
    ASSUME NEW T, NEW n \in Nat, NEW f \in [1..n -> Seq(T)]
    PROVE  Subs!FlattenSeq(f) \in Seq(T)
<1>1. CASE n = 0
  <2>1. f \in [1..n -> T]
    BY <1>1
  <2>2. f \in Seq(T) /\ Len(f) = 0
    BY <1>1, <2>1, Functional
  <2> QED
    BY <2>2, Zenon DEF Subs!FlattenSeq
<1>2. CASE n # 0
  <2>1. PICK g : Sums(g, f, n, T) /\ Subs!FlattenSeq(f) = g[n]
    BY <1>2, Flattened
  <2> QED
    BY <1>2, <2>1 DEF Sums
<1> QED
  BY <1>1, <1>2


\* A walk: every repository once, one that holds others before those of them that do.
Ordered(s) ==
    /\ s \in Seq(Inner)
    /\ \A i, j \in 1..Len(s) : s[i] = s[j] => i = j
    /\ \A i \in 1..Len(s) : \A c \in Subs!Children(s[i]) \cap Inner : \E j \in 1..Len(s) : j > i /\ s[j] = c
Places(s) == {s[i] : i \in 1..Len(s)}

LEMMA OrderedNone == Ordered(<<>>) /\ Places(<<>>) = {}
BY DEF Ordered, Places

LEMMA OrderedBoth ==
    ASSUME NEW a, NEW b, Ordered(a), Ordered(b), Places(a) \cap Places(b) = {}
    PROVE  Ordered(a \o b) /\ Places(a \o b) = Places(a) \cup Places(b)
<1> DEFINE c == a \o b
<1>1. /\ c \in Seq(Inner) /\ Len(c) = Len(a) + Len(b) /\ Len(a) \in Nat /\ Len(b) \in Nat
      /\ \A i \in 1..Len(c) : c[i] = IF i <= Len(a) THEN a[i] ELSE b[i - Len(a)]
  BY ConcatProperties, LenProperties DEF Ordered
<1> HIDE DEF c
<1>2. \A i \in 1..Len(a) : i \in 1..Len(c) /\ c[i] = a[i]
  BY <1>1
<1>3. \A i \in 1..Len(b) : Len(a) + i \in 1..Len(c) /\ c[Len(a) + i] = b[i]
  BY <1>1
<1>4. \A k \in 1..Len(c) : k \in 1..Len(a) \/ \E i \in 1..Len(b) : k = Len(a) + i
  <2> SUFFICES ASSUME NEW k \in 1..Len(c), k \notin 1..Len(a) PROVE \E i \in 1..Len(b) : k = Len(a) + i
    OBVIOUS
  <2>1. k - Len(a) \in 1..Len(b) /\ k = Len(a) + (k - Len(a))
    BY <1>1
  <2> QED
    BY <2>1
<1>5. Places(c) = Places(a) \cup Places(b)
  <2>1. Places(a) \cup Places(b) \subseteq Places(c)
    BY <1>2, <1>3 DEF Places
  <2>2. ASSUME NEW k \in 1..Len(c) PROVE c[k] \in Places(a) \cup Places(b)
    <3>1. CASE k \in 1..Len(a)
      BY <1>2, <3>1 DEF Places
    <3>2. CASE k \notin 1..Len(a)
      BY <1>3, <1>4, <3>2 DEF Places
    <3> QED
      BY <3>1, <3>2
  <2>3. Places(c) \subseteq Places(a) \cup Places(b)
    BY <2>2 DEF Places
  <2> QED
    BY <2>1, <2>3
<1>6. ASSUME NEW i \in 1..Len(c), NEW j \in 1..Len(c), c[i] = c[j] PROVE i = j
  <2>1. CASE i \in 1..Len(a) /\ j \in 1..Len(a)
    BY <1>2, <1>6, <2>1 DEF Ordered
  <2>2. ASSUME NEW x \in 1..Len(a), NEW y \in 1..Len(b) PROVE c[x] # c[Len(a) + y]
    <3>1. c[x] \in Places(a) /\ c[Len(a) + y] \in Places(b)
      BY <1>2, <1>3 DEF Places
    <3> QED
      BY <3>1
  <2>3. CASE i \in 1..Len(a) /\ j \notin 1..Len(a)
    <3>1. PICK y \in 1..Len(b) : j = Len(a) + y
      BY <1>4, <2>3
    <3> QED
      BY <1>6, <2>2, <2>3, <3>1
  <2>4. CASE i \notin 1..Len(a) /\ j \in 1..Len(a)
    <3>1. PICK y \in 1..Len(b) : i = Len(a) + y
      BY <1>4, <2>4
    <3> QED
      BY <1>6, <2>2, <2>4, <3>1
  <2>5. CASE i \notin 1..Len(a) /\ j \notin 1..Len(a)
    <3>1. PICK x \in 1..Len(b) : i = Len(a) + x
      BY <1>4, <2>5
    <3>2. PICK y \in 1..Len(b) : j = Len(a) + y
      BY <1>4, <2>5
    <3>3. b[x] = b[y]
      BY <1>3, <1>6, <3>1, <3>2
    <3>4. x = y
      BY <3>3 DEF Ordered
    <3> QED
      BY <3>1, <3>2, <3>4
  <2> QED
    BY <2>1, <2>3, <2>4, <2>5
<1>7. ASSUME NEW k \in 1..Len(c), NEW x \in Subs!Children(c[k]) \cap Inner
      PROVE  \E j \in 1..Len(c) : j > k /\ c[j] = x
  <2>1. CASE k \in 1..Len(a)
    <3>1. PICK j \in 1..Len(a) : j > k /\ a[j] = x
      BY <1>2, <2>1 DEF Ordered
    <3> QED
      BY <1>2, <3>1
  <2>2. CASE k \notin 1..Len(a)
    <3>1. PICK i \in 1..Len(b) : k = Len(a) + i
      BY <1>4, <2>2
    <3>2. PICK j \in 1..Len(b) : j > i /\ b[j] = x
      BY <1>3, <3>1 DEF Ordered
    <3>3. Len(a) + j > k
      BY <1>1, <3>1, <3>2
    <3> QED
      BY <1>3, <3>2, <3>3
  <2> QED
    BY <2>1, <2>2
<1>8. Ordered(c)
  BY <1>1, <1>6, <1>7 DEF Ordered
<1> QED
  BY <1>5, <1>8 DEF c

\* A repository, and then all that is under it.
LEMMA OrderedUnder ==
    ASSUME NEW r \in Inner, NEW b, Ordered(b), r \notin Places(b), Subs!Children(r) \cap Inner \subseteq Places(b)
    PROVE  Ordered(<<r>> \o b) /\ Places(<<r>> \o b) = {r} \cup Places(b) /\ (<<r>> \o b)[1] = r /\ Len(<<r>> \o b) = Len(b) + 1
<1> DEFINE c == <<r>> \o b
<1>0. <<r>> \in Seq(Inner) /\ Len(<<r>>) = 1 /\ <<r>>[1] = r
  OBVIOUS
<1>1. /\ c \in Seq(Inner) /\ Len(c) = Len(b) + 1 /\ Len(b) \in Nat
      /\ \A i \in 1..Len(c) : c[i] = IF i <= 1 THEN r ELSE b[i - 1]
  BY <1>0, ConcatProperties, LenProperties DEF Ordered
<1> HIDE DEF c
<1>2. c[1] = r /\ 1 \in 1..Len(c)
  BY <1>1
<1>3. \A i \in 1..Len(b) : i + 1 \in 1..Len(c) /\ c[i + 1] = b[i] /\ i + 1 > 1
  BY <1>1
<1>4. \A k \in 1..Len(c) : k = 1 \/ \E i \in 1..Len(b) : k = i + 1
  <2> SUFFICES ASSUME NEW k \in 1..Len(c), k # 1 PROVE \E i \in 1..Len(b) : k = i + 1
    OBVIOUS
  <2>1. k - 1 \in 1..Len(b) /\ k = (k - 1) + 1
    BY <1>1
  <2> QED
    BY <2>1
<1>5. Places(c) = {r} \cup Places(b)
  BY <1>2, <1>3, <1>4 DEF Places
<1>6. ASSUME NEW i \in 1..Len(c), NEW j \in 1..Len(c), c[i] = c[j] PROVE i = j
  <2>1. \A y \in 1..Len(b) : c[y + 1] # c[1]
    BY <1>2, <1>3 DEF Places
  <2>2. CASE i = 1 \/ j = 1
    BY <1>4, <1>6, <2>1, <2>2
  <2>3. CASE i # 1 /\ j # 1
    <3>1. PICK x \in 1..Len(b) : i = x + 1
      BY <1>4, <2>3
    <3>2. PICK y \in 1..Len(b) : j = y + 1
      BY <1>4, <2>3
    <3>3. b[x] = b[y]
      BY <1>3, <1>6, <3>1, <3>2
    <3>4. x = y
      BY <3>3 DEF Ordered
    <3> QED
      BY <3>1, <3>2, <3>4
  <2> QED
    BY <2>2, <2>3
<1>7. ASSUME NEW k \in 1..Len(c), NEW x \in Subs!Children(c[k]) \cap Inner
      PROVE  \E j \in 1..Len(c) : j > k /\ c[j] = x
  <2>1. CASE k = 1
    <3>1. PICK i \in 1..Len(b) : b[i] = x
      BY <1>2, <2>1 DEF Places
    <3> QED
      BY <1>3, <2>1, <3>1
  <2>2. CASE k # 1
    <3>1. PICK i \in 1..Len(b) : k = i + 1
      BY <1>4, <2>2
    <3>2. PICK j \in 1..Len(b) : j > i /\ b[j] = x
      BY <1>3, <3>1 DEF Ordered
    <3>3. j + 1 > k
      BY <3>1, <3>2
    <3> QED
      BY <1>3, <3>2, <3>3
  <2> QED
    BY <2>1, <2>2
<1>8. Ordered(c)
  BY <1>1, <1>6, <1>7 DEF Ordered
<1> QED
  BY <1>1, <1>2, <1>5, <1>8 DEF c

\* Walks of parts that have nothing in common, one after the other.
LEMMA OrderedAll ==
    ASSUME NEW n \in Nat, NEW f \in [1..n -> Seq(Inner)], \A i \in 1..n : Ordered(f[i]),
           \A i, j \in 1..n : i # j => Places(f[i]) \cap Places(f[j]) = {}
    PROVE  Ordered(Subs!FlattenSeq(f)) /\ Places(Subs!FlattenSeq(f)) = UNION {Places(f[i]) : i \in 1..n}
<1>1. CASE n = 0
  <2>1. f \in [1..n -> Inner]
    BY <1>1
  <2>2. f \in Seq(Inner) /\ Len(f) = 0
    BY <1>1, <2>1, Functional
  <2>3. Subs!FlattenSeq(f) = f
    BY <2>2, Zenon DEF Subs!FlattenSeq
  <2>4. f = <<>>
    BY <2>2
  <2> QED
    BY <1>1, <2>3, <2>4, OrderedNone
<1>2. CASE n # 0
  <2>0. PICK g : Sums(g, f, n, Inner) /\ Subs!FlattenSeq(f) = g[n]
    BY <1>2, Flattened
  <2>1. g[1] = f[1] /\ \A i \in 2..n : g[i] = g[i - 1] \o f[i]
    BY <2>0 DEF Sums
  <2> DEFINE S == {m \in 1..n : Ordered(g[m]) /\ Places(g[m]) = UNION {Places(f[i]) : i \in 1..m}}
  <2>2. 1 \in S
    <3>1. 1 \in 1..n
      BY <1>2
    <3>2. UNION {Places(f[i]) : i \in 1..1} = Places(f[1])
      OBVIOUS
    <3> QED
      BY <2>1, <3>1, <3>2
  <2>3. ASSUME NEW m \in S, m < n PROVE m + 1 \in S
    <3>1. m \in 1..n /\ m + 1 \in 2..n /\ (m + 1) - 1 = m /\ m + 1 \in 1..n /\ (1..m + 1) = (1..m) \cup {m + 1} /\ m + 1 \notin 1..m
      BY <2>3
    <3>2. g[m + 1] = g[m] \o f[m + 1]
      BY <2>1, <3>1
    <3>3. Ordered(g[m]) /\ Places(g[m]) = UNION {Places(f[i]) : i \in 1..m}
      OBVIOUS
    <3>4. Places(g[m]) \cap Places(f[m + 1]) = {}
      <4>1. \A i \in 1..m : i \in 1..n /\ i # m + 1
        BY <3>1
      <4> QED
        BY <3>1, <3>3, <4>1
    <3>5. Ordered(g[m + 1]) /\ Places(g[m + 1]) = Places(g[m]) \cup Places(f[m + 1])
      BY <3>1, <3>2, <3>3, <3>4, OrderedBoth
    <3>6. UNION {Places(f[i]) : i \in 1..m + 1} = Places(g[m]) \cup Places(f[m + 1])
      BY <3>1, <3>3
    <3> QED
      BY <3>1, <3>5, <3>6
  <2>4. n \in S
    <3>1. S \in SUBSET (1..n)
      OBVIOUS
    <3> HIDE DEF S
    <3> QED
      BY <2>2, <2>3, <3>1, Climb
  <2> QED
    BY <2>0, <2>4
<1> QED
  BY <1>1, <1>2

LEMMA SizeIs == \A S : Subs!Cardinality(S) = Cardinality(S)
BY Zenon DEF Subs!Cardinality, Cardinality

\* The submodules of a repository, in some order.
LEMMA InOrderIs ==
    ASSUME NEW r \in Subs!Repos
    PROVE  /\ Subs!Cardinality(Subs!Children(r)) \in Nat
           /\ Subs!InOrder(Subs!Children(r)) \in [1..Subs!Cardinality(Subs!Children(r)) -> Subs!Children(r)]
           /\ Subs!InOrder(Subs!Children(r)) \in Seq(Subs!Children(r))
           /\ Len(Subs!InOrder(Subs!Children(r))) = Subs!Cardinality(Subs!Children(r))
           /\ \A i, j \in 1..Subs!Cardinality(Subs!Children(r)) :
                 Subs!InOrder(Subs!Children(r))[i] = Subs!InOrder(Subs!Children(r))[j] => i = j
           /\ \A c \in Subs!Children(r) : \E i \in 1..Subs!Cardinality(Subs!Children(r)) : Subs!InOrder(Subs!Children(r))[i] = c
<1> DEFINE C == Subs!Children(r)
           n == Cardinality(C)
           s == Subs!InOrder(C)
<1>1. IsFiniteSet(C)
  <2>1. IsFiniteSet(1..Size) /\ C \subseteq 1..Size
    BY HolderIs, FS_Interval DEF Subs!Children
  <2> QED
    BY <2>1, FS_Subset
<1> HIDE DEF C
<1>2. n \in Nat /\ ExistsBijection(1..n, C)
  BY <1>1, FS_CardinalityType
<1>3. \E f \in [1..n -> C] : IsInjective(f)
  BY <1>2 DEF ExistsBijection, Bijection, Injection
<1>4. s \in [1..n -> C] /\ IsInjective(s)
  BY <1>3, SizeIs DEF Subs!InOrder, Subs!SetToSeq, Subs!IsInjective, IsInjective
<1> HIDE DEF s
<1>5. Cardinality(1..n) = n
  BY <1>2, FS_Interval
<1>6. s \in Surjection(1..n, C)
  <2>1. s \in Injection(1..n, C)
    BY <1>4 DEF Injection
  <2> HIDE DEF n
  <2>2. Cardinality(1..n) = Cardinality(C)
    BY <1>5 DEF n
  <2> QED
    BY <1>1, <2>1, <2>2, FS_Injection
<1>7. \A i, j \in 1..n : s[i] = s[j] => i = j
  BY <1>4 DEF IsInjective
<1>8. \A c \in C : \E i \in 1..n : s[i] = c
  BY <1>6 DEF Surjection
<1>9. s \in Seq(C) /\ Len(s) = n
  <2> HIDE DEF n
  <2> QED
    BY <1>2, <1>4, Functional
<1> QED
  BY SizeIs, <1>2, <1>4, <1>7, <1>8, <1>9 DEF C, s

\* What a walk has of a repository, with what it has of those in it.
Under(h, r) == Subs!FlattenSeq([i \in 1..Subs!Cardinality(Subs!Children(r)) |-> h[Subs!InOrder(Subs!Children(r))[i]]])
Walk(h, r)  == IF r \in Inner THEN <<r>> \o Under(h, r) ELSE <<>>
Right(s, r) == Ordered(s) /\ Places(s) = Beneath(r) \cap Inner

LEMMA WalkIn ==
    ASSUME NEW h, NEW r \in Subs!Repos, \A c \in Subs!Children(r) : h[c] \in Seq(Inner)
    PROVE  Walk(h, r) \in Seq(Inner)
<1> DEFINE n == Subs!Cardinality(Subs!Children(r))
           f == [i \in 1..n |-> h[Subs!InOrder(Subs!Children(r))[i]]]
<1>1. n \in Nat /\ f \in [1..n -> Seq(Inner)]
  BY InOrderIs
<1>2. Subs!FlattenSeq(f) \in Seq(Inner)
  <2> HIDE DEF f, n
  <2> QED
    BY <1>1, FlatSeq
<1>3. Under(h, r) \in Seq(Inner)
  BY <1>2 DEF Under
<1> QED
  BY <1>3, ConcatProperties DEF Walk

LEMMA WalkRight ==
    ASSUME NEW h, NEW r \in Subs!Repos, \A c \in Subs!Children(r) : Right(h[c], c)
    PROVE  Right(Walk(h, r), r) /\ (r \in Inner => Walk(h, r) # <<>> /\ Walk(h, r)[1] = r)
<1>1. CASE r \notin Inner
  <2>1. Beneath(r) = {r}
    BY <1>1, BeneathChildren DEF Inner
  <2> QED
    BY <1>1, <2>1, OrderedNone DEF Walk, Right
<1>2. CASE r \in Inner
  <2> DEFINE n == Subs!Cardinality(Subs!Children(r))
             f == [i \in 1..n |-> h[Subs!InOrder(Subs!Children(r))[i]]]
  <2>1. /\ n \in Nat /\ \A i \in 1..n : Subs!InOrder(Subs!Children(r))[i] \in Subs!Children(r)
        /\ \A i, j \in 1..n : Subs!InOrder(Subs!Children(r))[i] = Subs!InOrder(Subs!Children(r))[j] => i = j
        /\ \A c \in Subs!Children(r) : \E i \in 1..n : Subs!InOrder(Subs!Children(r))[i] = c
    BY InOrderIs
  <2>2. \A i \in 1..n : f[i] = h[Subs!InOrder(Subs!Children(r))[i]] /\ Right(f[i], Subs!InOrder(Subs!Children(r))[i])
    BY <2>1
  <2>3. f \in [1..n -> Seq(Inner)]
    BY <2>2 DEF Right, Ordered
  <2>4. \A i, j \in 1..n : i # j => Places(f[i]) \cap Places(f[j]) = {}
    <3> SUFFICES ASSUME NEW i \in 1..n, NEW j \in 1..n, i # j PROVE Places(f[i]) \cap Places(f[j]) = {}
      OBVIOUS
    <3>1. Subs!InOrder(Subs!Children(r))[i] # Subs!InOrder(Subs!Children(r))[j]
      BY <2>1
    <3>2. Beneath(Subs!InOrder(Subs!Children(r))[i]) \cap Beneath(Subs!InOrder(Subs!Children(r))[j]) = {}
      BY <2>1, <3>1, BeneathChildren
    <3> QED
      BY <2>2, <3>2 DEF Right
  <2>5. Ordered(Subs!FlattenSeq(f)) /\ Places(Subs!FlattenSeq(f)) = UNION {Places(f[i]) : i \in 1..n}
    <3>1. \A i \in 1..n : Ordered(f[i])
      BY <2>2 DEF Right
    <3> HIDE DEF f, n
    <3> QED
      BY <2>1, <2>3, <2>4, <3>1, OrderedAll
  <2>6. UNION {Places(f[i]) : i \in 1..n} = (UNION {Beneath(c) : c \in Subs!Children(r)}) \cap Inner
    <3>1. \A i \in 1..n : Places(f[i]) = Beneath(Subs!InOrder(Subs!Children(r))[i]) \cap Inner
      BY <2>2 DEF Right
    <3> HIDE DEF f
    <3>2. ASSUME NEW c \in Subs!Children(r) PROVE \E i \in 1..n : Places(f[i]) = Beneath(c) \cap Inner
      BY <2>1, <3>1
    <3> QED
      BY <2>1, <3>1, <3>2
  <2>7. Under(h, r) = Subs!FlattenSeq(f)
    BY DEF Under
  <2> HIDE DEF f, n
  <2>8. Ordered(Under(h, r)) /\ Places(Under(h, r)) = (UNION {Beneath(c) : c \in Subs!Children(r)}) \cap Inner
    BY <2>5, <2>6, <2>7
  <2>9. r \notin Places(Under(h, r)) /\ Subs!Children(r) \cap Inner \subseteq Places(Under(h, r))
    <3>1. \A c \in Subs!Children(r) : c \in Beneath(c) /\ r \notin Beneath(c)
      BY HolderIs, BeneathIs, BeneathChildren
    <3> QED
      BY <2>8, <3>1
  <2>10. /\ Ordered(Walk(h, r)) /\ Places(Walk(h, r)) = {r} \cup Places(Under(h, r))
         /\ Walk(h, r)[1] = r /\ Len(Walk(h, r)) = Len(Under(h, r)) + 1
    BY <1>2, <2>8, <2>9, OrderedUnder DEF Walk
  <2>11. Len(Under(h, r)) \in Nat
    BY <2>8 DEF Ordered
  <2>12. Walk(h, r) # <<>>
    BY <2>10, <2>11
  <2>13. {r} \cup Places(Under(h, r)) = Beneath(r) \cap Inner
    BY <1>2, <2>8, BeneathChildren
  <2> QED
    BY <2>10, <2>12, <2>13 DEF Right
<1> QED
  BY <1>1, <1>2

\* There is a walk.
LEMMA WalkExists == \E h \in [Subs!Repos -> Seq(Inner)] : \A r \in Subs!Repos : h[r] = Walk(h, r)
<1> DEFINE From(h, r) == \A k \in Subs!Repos : k >= r => h[k] = Walk(h, k)
           T == {r \in Subs!Repos : \E h \in [Subs!Repos -> Seq(Inner)] : From(h, r)}
<1>1. ASSUME NEW r \in Subs!Repos, \A k \in Subs!Repos : k > r => k \in T PROVE r \in T
  <2>1. PICK h \in [Subs!Repos -> Seq(Inner)] : \A k \in Subs!Repos : k > r => h[k] = Walk(h, k)
    <3>1. CASE r = Size
      <4>1. \A k \in Subs!Repos : ~(k > r)
        BY <3>1, HolderIs
      <4>2. [k \in Subs!Repos |-> <<>>] \in [Subs!Repos -> Seq(Inner)]
        OBVIOUS
      <4> QED
        BY <4>1, <4>2
    <3>2. CASE r # Size
      <4>1. r + 1 \in Subs!Repos /\ r + 1 > r
        BY <3>2, HolderIs
      <4>2. r + 1 \in T
        BY <1>1, <4>1
      <4>3. \A k \in Subs!Repos : k > r => k >= r + 1
        BY <4>1, HolderIs
      <4> QED
        BY <4>2, <4>3
    <3> QED
      BY <3>1, <3>2
  <2> DEFINE g == [h EXCEPT ![r] = Walk(h, r)]
  <2>2. Walk(h, r) \in Seq(Inner)
    BY HolderIs, WalkIn
  <2>3. g \in [Subs!Repos -> Seq(Inner)] /\ g[r] = Walk(h, r) /\ \A k \in Subs!Repos : k # r => g[k] = h[k]
    BY <2>2
  <2> HIDE DEF g
  <2>4. ASSUME NEW k \in Subs!Repos, k >= r PROVE g[k] = Walk(g, k)
    <3>1. \A c \in Subs!Children(k) : c \in Subs!Repos /\ c # r
      BY <2>4, HolderIs
    <3>2. \A i \in 1..Subs!Cardinality(Subs!Children(k)) :
                g[Subs!InOrder(Subs!Children(k))[i]] = h[Subs!InOrder(Subs!Children(k))[i]]
      BY <2>3, <3>1, InOrderIs
    <3>3. Under(g, k) = Under(h, k)
      <4>1. [i \in 1..Subs!Cardinality(Subs!Children(k)) |-> g[Subs!InOrder(Subs!Children(k))[i]]]
            = [i \in 1..Subs!Cardinality(Subs!Children(k)) |-> h[Subs!InOrder(Subs!Children(k))[i]]]
        BY <3>2
      <4> QED
        BY <4>1 DEF Under
    <3>4. Walk(g, k) = Walk(h, k)
      BY <3>3 DEF Walk
    <3>5. CASE k = r
      BY <2>3, <3>4, <3>5
    <3>6. CASE k # r
      <4>1. k > r
        BY <2>4, <3>6, HolderIs
      <4> QED
        BY <2>1, <2>3, <3>4, <3>6, <4>1
    <3> QED
      BY <3>5, <3>6
  <2>5. From(g, r)
    BY <2>4
  <2> HIDE DEF From
  <2> QED
    BY <2>3, <2>5
<1>2. T = Subs!Repos
  <2>1. T \in SUBSET Subs!Repos
    OBVIOUS
  <2> HIDE DEF T
  <2> QED
    BY <1>1, <2>1, FromLeaves
<1>3. 1 \in Subs!Repos /\ \A k \in Subs!Repos : k >= 1
  BY HolderIs
<1>4. 1 \in T
  <2> HIDE DEF T
  <2> QED
    BY <1>2, <1>3
<1> QED
  BY <1>3, <1>4

\* The walk of a tree that is not converted visits every repository that has submodules.
LEMMA LevelsAre ==
    ASSUME NEW tree, \A r \in Subs!Repos : tree[r].modules <=> r \in Inner
    PROVE  /\ Ordered(Subs!Levels(tree)) /\ Places(Subs!Levels(tree)) = Inner
           /\ 1 \in Inner => Subs!Levels(tree) # <<>> /\ Subs!Levels(tree)[1] = 1
           /\ 1 \notin Inner => Subs!Levels(tree) = <<>>
<1> DEFINE Def(h) == [r \in Subs!Repos |->
               IF ~tree[r].modules THEN <<>>
               ELSE <<r>> \o Subs!FlattenSeq([i \in 1..Subs!Cardinality(Subs!Children(r)) |->
                                h[Subs!InOrder(Subs!Children(r))[i]]])]
           from == CHOOSE h : h = Def(h)
<1>1. \A h : Def(h) = [r \in Subs!Repos |-> Walk(h, r)]
  BY DEF Walk, Under
<1>2. \E h : h = Def(h)
  <2> HIDE DEF Def
  <2>1. PICK h \in [Subs!Repos -> Seq(Inner)] : \A r \in Subs!Repos : h[r] = Walk(h, r)
    BY WalkExists
  <2>2. h = [r \in Subs!Repos |-> Walk(h, r)]
    BY <2>1
  <2> QED
    BY <1>1, <2>2
<1>3. from = Def(from)
  <2> HIDE DEF Def
  <2> QED
    BY Zenon, <1>2
<1>4. Subs!Levels(tree) = from[1]
  BY Zenon DEF Subs!Levels
<1> HIDE DEF from, Def
<1>5. \A r \in Subs!Repos : from[r] = Walk(from, r)
  <2>1. from = [r \in Subs!Repos |-> Walk(from, r)]
    BY <1>1, <1>3
  <2> QED
    BY <2>1
<1> DEFINE S == {r \in Subs!Repos : Right(from[r], r)}
<1>6. ASSUME NEW r \in Subs!Repos, \A k \in Subs!Repos : k > r => k \in S PROVE r \in S
  <2>1. \A c \in Subs!Children(r) : Right(from[c], c)
    BY <1>6, HolderIs
  <2> QED
    BY <1>5, <2>1, WalkRight
<1>7. S = Subs!Repos
  <2>1. S \in SUBSET Subs!Repos
    OBVIOUS
  <2> HIDE DEF S
  <2> QED
    BY <1>6, <2>1, FromLeaves
<1>8. 1 \in Subs!Repos /\ Right(from[1], 1)
  BY <1>7, HolderIs
<1>9. Ordered(from[1]) /\ Places(from[1]) = Inner
  <2>1. Inner \subseteq Subs!Repos
    BY DEF Inner
  <2> QED
    BY <1>8, <2>1, RootHoldsAll DEF Right
<1>10. (1 \in Inner => from[1] # <<>> /\ from[1][1] = 1) /\ (1 \notin Inner => from[1] = <<>>)
  <2>1. \A c \in Subs!Children(1) : Right(from[c], c)
    BY <1>7, <1>8, HolderIs
  <2>2. CASE 1 \in Inner
    BY <1>5, <1>8, <2>1, <2>2, WalkRight
  <2>3. CASE 1 \notin Inner
    BY <1>5, <1>8, <2>3 DEF Walk
  <2> QED
    BY <2>2, <2>3
<1> QED
  BY <1>4, <1>9, <1>10

\* The walk of one that is converted visits none.
LEMMA LevelsNone == ASSUME NEW tree, \A r \in Subs!Repos : ~tree[r].modules PROVE Subs!Levels(tree) = <<>>
<1> DEFINE Def(h) == [r \in Subs!Repos |->
               IF ~tree[r].modules THEN <<>>
               ELSE <<r>> \o Subs!FlattenSeq([i \in 1..Subs!Cardinality(Subs!Children(r)) |->
                                h[Subs!InOrder(Subs!Children(r))[i]]])]
           from == CHOOSE h : h = Def(h)
<1>1. \A h : Def(h) = [r \in Subs!Repos |-> <<>>]
  OBVIOUS
<1>2. from = Def(from)
  <2> HIDE DEF Def
  <2>1. [r \in Subs!Repos |-> <<>>] = Def([r \in Subs!Repos |-> <<>>])
    BY <1>1
  <2> QED
    BY Zenon, <2>1
<1>3. Subs!Levels(tree) = from[1]
  BY Zenon DEF Subs!Levels
<1> HIDE DEF from, Def
<1>4. from = [r \in Subs!Repos |-> <<>>]
  BY <1>1, <1>2
<1> QED
  BY <1>3, <1>4, HolderIs

-----------------------------------------------------------------------------
(* What git status shows of a submodule *)

Showing(h, r) ==
    IF checkout[r].linked
    THEN checkout[r].moved \/ checkout[r].dirt # {} \/ \E d \in Subs!Children(r) : h[d]
    ELSE ~checkout[r].listed

Marks    == {"work", "ignore", "staged"}
Checkout == [linked : BOOLEAN, listed : BOOLEAN, modules : BOOLEAN, dirt : SUBSET Marks, ahead : BOOLEAN, moved : BOOLEAN]

LEMMA ShowingExists ==
    ASSUME checkout \in [Subs!Repos -> Checkout]
    PROVE  \E h \in [Subs!Repos -> BOOLEAN] : \A r \in Subs!Repos : h[r] = Showing(h, r)
<1> DEFINE From(h, r) == \A k \in Subs!Repos : k >= r => h[k] = Showing(h, k)
           T == {r \in Subs!Repos : \E h \in [Subs!Repos -> BOOLEAN] : From(h, r)}
<1>1. ASSUME NEW r \in Subs!Repos, \A k \in Subs!Repos : k > r => k \in T PROVE r \in T
  <2>1. PICK h \in [Subs!Repos -> BOOLEAN] : \A k \in Subs!Repos : k > r => h[k] = Showing(h, k)
    <3>1. CASE r = Size
      <4>1. \A k \in Subs!Repos : ~(k > r)
        BY <3>1, HolderIs
      <4>2. [k \in Subs!Repos |-> FALSE] \in [Subs!Repos -> BOOLEAN]
        OBVIOUS
      <4> QED
        BY <4>1, <4>2
    <3>2. CASE r # Size
      <4>1. r + 1 \in Subs!Repos /\ r + 1 > r
        BY <3>2, HolderIs
      <4>2. r + 1 \in T
        BY <1>1, <4>1
      <4>3. \A k \in Subs!Repos : k > r => k >= r + 1
        BY <4>1, HolderIs
      <4> QED
        BY <4>2, <4>3
    <3> QED
      BY <3>1, <3>2
  <2> DEFINE g == [h EXCEPT ![r] = Showing(h, r)]
  <2>2. Showing(h, r) \in BOOLEAN
    BY DEF Checkout, Showing
  <2>3. g \in [Subs!Repos -> BOOLEAN] /\ g[r] = Showing(h, r) /\ \A k \in Subs!Repos : k # r => g[k] = h[k]
    BY <2>2
  <2> HIDE DEF g
  <2>4. ASSUME NEW k \in Subs!Repos, k >= r PROVE g[k] = Showing(g, k)
    <3>1. \A c \in Subs!Children(k) : c \in Subs!Repos /\ c # r
      BY <2>4, HolderIs
    <3>2. \A c \in Subs!Children(k) : g[c] = h[c]
      BY <2>3, <3>1
    <3>3. Showing(g, k) = Showing(h, k)
      <4>1. (\E d \in Subs!Children(k) : g[d]) <=> \E d \in Subs!Children(k) : h[d]
        BY <3>2
      <4> QED
        BY <4>1 DEF Showing
    <3>4. CASE k = r
      BY <2>3, <3>3, <3>4
    <3>5. CASE k # r
      <4>1. k > r
        BY <2>4, <3>5, HolderIs
      <4> QED
        BY <2>1, <2>3, <3>3, <3>5, <4>1
    <3> QED
      BY <3>4, <3>5
  <2>5. From(g, r)
    BY <2>4
  <2> HIDE DEF From
  <2> QED
    BY <2>3, <2>5
<1>2. T = Subs!Repos
  <2>1. T \in SUBSET Subs!Repos
    OBVIOUS
  <2> HIDE DEF T
  <2> QED
    BY <1>1, <2>1, FromLeaves
<1>3. 1 \in Subs!Repos /\ \A k \in Subs!Repos : k >= 1
  BY HolderIs
<1>4. 1 \in T
  <2> HIDE DEF T
  <2> QED
    BY <1>2, <1>3
<1> QED
  BY <1>3, <1>4

LEMMA ShowsIs ==
    ASSUME checkout \in [Subs!Repos -> Checkout]
    PROVE  \A r \in Subs!Repos : Subs!Shows[r] = Showing(Subs!Shows, r)
<1> DEFINE Def(h) == [r \in Subs!Repos |-> Showing(h, r)]
<1>1. \E h : h = Def(h)
  <2>1. PICK h \in [Subs!Repos -> BOOLEAN] : \A r \in Subs!Repos : h[r] = Showing(h, r)
    BY ShowingExists
  <2>2. h = [r \in Subs!Repos |-> Showing(h, r)]
    BY <2>1
  <2> QED
    BY <2>2
<1>2. Subs!Shows = CHOOSE h : h = Def(h)
  BY Zenon DEF Subs!Shows, Showing
<1>3. Subs!Shows = Def(Subs!Shows)
  <2> HIDE DEF Def
  <2> QED
    BY Zenon, <1>1, <1>2
<1> QED
  BY <1>3

\* Nothing shows where everything is linked and clean, down to the leaves.
LEMMA CleanShowsNot ==
    ASSUME checkout \in [Subs!Repos -> Checkout], NEW S \in SUBSET Subs!Repos, Closed(S),
           \A r \in S : checkout[r].linked /\ ~checkout[r].moved /\ checkout[r].dirt = {}
    PROVE  \A r \in S : ~Subs!Shows[r]
<1> DEFINE T == {r \in Subs!Repos : r \in S => ~Subs!Shows[r]}
<1>1. ASSUME NEW r \in Subs!Repos, \A k \in Subs!Repos : k > r => k \in T PROVE r \in T
  <2> SUFFICES ASSUME r \in S PROVE ~Subs!Shows[r]
    OBVIOUS
  <2>1. \A d \in Subs!Children(r) : d \in Subs!Repos /\ d > r /\ d \in S
    BY HolderIs DEF Closed
  <2>2. \A d \in Subs!Children(r) : ~Subs!Shows[d]
    BY <1>1, <2>1
  <2> QED
    BY <2>2, ShowsIs DEF Showing
<1>2. T = Subs!Repos
  <2>1. T \in SUBSET Subs!Repos
    OBVIOUS
  <2> HIDE DEF T
  <2> QED
    BY <1>1, <2>1, FromLeaves
<1> QED
  BY <1>2

\* ... and nothing below the submodules of the root is dirty when none of them shows it.
LEMMA ShowsNotClean ==
    ASSUME checkout \in [Subs!Repos -> Checkout], \A c \in Subs!Children(1) : ~Subs!Blocks(c),
           \A r \in Subs!Repos \ {1} : checkout[r].linked
    PROVE  \A r \in Subs!Repos \ {1} : Holder[r] # 1 => checkout[r].dirt = {} /\ ~checkout[r].moved
<1> DEFINE T == {r \in Subs!Repos : r # 1 /\ Holder[r] # 1 => ~Subs!Shows[r]}
<1>1. 1 \in T
  BY HolderIs
<1>2. ASSUME NEW r \in Subs!Repos \ {1}, Holder[r] \in T PROVE r \in T
  <2> SUFFICES ASSUME Holder[r] # 1 PROVE ~Subs!Shows[r]
    OBVIOUS
  <2> DEFINE h == Holder[r]
  <2>1. h \in Subs!Repos \ {1} /\ r \in Subs!Children(h)
    BY HolderIs DEF Subs!Children
  <2>2. CASE Holder[h] = 1
    <3>1. h \in Subs!Children(1)
      BY <2>1, <2>2 DEF Subs!Children
    <3> QED
      BY <2>1, <3>1 DEF Subs!Blocks, Subs!Dirty
  <2>3. CASE Holder[h] # 1
    <3>1. ~Subs!Shows[h] /\ checkout[h].linked
      BY <1>2, <2>1, <2>3
    <3> HIDE DEF h
    <3> QED
      BY <2>1, <3>1, ShowsIs DEF Showing
  <2> QED
    BY <2>2, <2>3
<1>3. T = Subs!Repos
  <2>1. T \in SUBSET Subs!Repos
    OBVIOUS
  <2> HIDE DEF T
  <2> QED
    BY <1>1, <1>2, <2>1, FromRoot
<1>4. ASSUME NEW r \in Subs!Repos \ {1}, Holder[r] # 1 PROVE checkout[r].dirt = {} /\ ~checkout[r].moved
  <2>1. ~Subs!Shows[r] /\ checkout[r].linked
    BY <1>3, <1>4
  <2> QED
    BY <2>1, ShowsIs DEF Showing
<1> QED
  BY <1>4

-----------------------------------------------------------------------------
(* The conversion is whole *)

Distinct(s) == \A i, j \in 1..Len(s) : s[i] = s[j] => i = j

LEMMA TailIs ==
    ASSUME NEW T, NEW s \in Seq(T), s # <<>>, Distinct(s)
    PROVE  /\ Head(s) \in T /\ Head(s) \in Places(s) /\ Head(s) = s[1]
           /\ Tail(s) \in Seq(T) /\ Places(Tail(s)) = Places(s) \ {Head(s)} /\ Distinct(Tail(s))
           /\ Len(Tail(s)) = Len(s) - 1 /\ Len(s) \in Nat \ {0} /\ \A i \in 1..Len(Tail(s)) : Tail(s)[i] = s[i + 1]
<1>1. /\ Head(s) = s[1] /\ Tail(s) \in Seq(T) /\ Len(Tail(s)) = Len(s) - 1 /\ Len(s) \in Nat \ {0} /\ s[1] \in T
      /\ \A i \in 1..Len(Tail(s)) : Tail(s)[i] = s[i + 1]
  BY HeadTailProperties, LenProperties, EmptySeq
<1> DEFINE t == Tail(s)
<1> HIDE DEF t
<1>2. \A i \in 1..Len(t) : t[i] = s[i + 1] /\ i + 1 \in 1..Len(s) /\ i + 1 # 1
  BY <1>1 DEF t
<1>3. 1 \in 1..Len(s) /\ \A k \in 1..Len(s) : k # 1 => \E i \in 1..Len(t) : k = i + 1
  <2> SUFFICES ASSUME NEW k \in 1..Len(s), k # 1 PROVE \E i \in 1..Len(t) : k = i + 1
    BY <1>1
  <2>1. k - 1 \in 1..Len(t) /\ k = (k - 1) + 1
    BY <1>1 DEF t
  <2> QED
    BY <2>1
<1>4. Distinct(t)
  <2> SUFFICES ASSUME NEW i \in 1..Len(t), NEW j \in 1..Len(t), t[i] = t[j] PROVE i = j
    BY DEF Distinct
  <2>1. s[i + 1] = s[j + 1]
    BY <1>2
  <2>2. i + 1 = j + 1
    BY <1>2, <2>1 DEF Distinct
  <2> QED
    BY <1>1, <2>2
<1>5. Places(t) \subseteq Places(s) \ {s[1]}
  <2> SUFFICES ASSUME NEW i \in 1..Len(t) PROVE t[i] \in Places(s) /\ t[i] # s[1]
    BY DEF Places
  <2> QED
    BY <1>2, <1>3 DEF Places, Distinct
<1>6. Places(s) \ {s[1]} \subseteq Places(t)
  <2> SUFFICES ASSUME NEW k \in 1..Len(s), s[k] # s[1] PROVE s[k] \in Places(t)
    BY DEF Places
  <2>1. PICK i \in 1..Len(t) : k = i + 1
    BY <1>3
  <2> QED
    BY <1>2, <2>1 DEF Places
<1>7. s[1] \in Places(s)
  BY <1>3 DEF Places
<1> QED
  BY <1>1, <1>4, <1>5, <1>6, <1>7 DEF t

\* The first level of a walk, and what is left of it.
LEMMA OrderedTail ==
    ASSUME NEW s, Ordered(s), s # <<>>
    PROVE  /\ Head(s) \in Inner /\ Head(s) \in Places(s) /\ Head(s) \in Subs!Repos
           /\ Ordered(Tail(s)) /\ Tail(s) \in Seq(Inner) /\ Places(Tail(s)) = Places(s) \ {Head(s)}
           /\ Places(s) \subseteq Inner
           /\ \A r \in Places(s) : \A c \in Subs!Children(r) \cap Inner : c \in Places(s) /\ c # Head(s)
           /\ Len(s) = 1 => Places(s) = {Head(s)}
           /\ Len(s) # 1 => Tail(s) # <<>>
<1>1. s \in Seq(Inner) /\ Distinct(s)
  BY DEF Ordered, Distinct
<1>2. /\ Head(s) \in Inner /\ Head(s) \in Places(s) /\ Head(s) = s[1]
      /\ Tail(s) \in Seq(Inner) /\ Places(Tail(s)) = Places(s) \ {Head(s)} /\ Distinct(Tail(s))
      /\ Len(Tail(s)) = Len(s) - 1 /\ Len(s) \in Nat \ {0} /\ \A i \in 1..Len(Tail(s)) : Tail(s)[i] = s[i + 1]
  BY <1>1, TailIs
<1> DEFINE t == Tail(s)
<1>3. ASSUME NEW i \in 1..Len(t), NEW c \in Subs!Children(t[i]) \cap Inner PROVE \E j \in 1..Len(t) : j > i /\ t[j] = c
  <2>1. t[i] = s[i + 1] /\ i + 1 \in 1..Len(s)
    BY <1>2
  <2>2. PICK k \in 1..Len(s) : k > i + 1 /\ s[k] = c
    BY <2>1 DEF Ordered
  <2>3. k - 1 \in 1..Len(t) /\ k - 1 > i /\ (k - 1) + 1 = k
    BY <1>2, <2>2
  <2>4. t[k - 1] = c
    BY <1>2, <2>2, <2>3
  <2> QED
    BY <2>3, <2>4
<1>4. Ordered(t)
  BY <1>2, <1>3 DEF Ordered, Distinct
<1>5. Places(s) \subseteq Inner
  BY <1>1 DEF Places
<1>6. ASSUME NEW r \in Places(s), NEW c \in Subs!Children(r) \cap Inner PROVE c \in Places(s) /\ c # Head(s)
  <2>1. PICK i \in 1..Len(s) : s[i] = r
    BY DEF Places
  <2>2. PICK j \in 1..Len(s) : j > i /\ s[j] = c
    BY <2>1 DEF Ordered
  <2>3. j # 1 /\ 1 \in 1..Len(s)
    BY <1>2, <2>1, <2>2
  <2> QED
    BY <1>1, <1>2, <2>2, <2>3 DEF Distinct, Places
<1>7. Len(s) = 1 => Places(s) = {Head(s)}
  BY <1>2 DEF Places
<1>8. Len(s) # 1 => t # <<>>
  <2>1. Len(s) # 1 => Len(t) # 0
    BY <1>2
  <2> HIDE DEF t
  <2> QED
    BY <2>1
<1> QED
  BY <1>2, <1>4, <1>5, <1>6, <1>7, <1>8 DEF Inner

-----------------------------------------------------------------------------
(* The inductive invariant *)

Over  == [at : {"idle"}, how : {"nothing", "not adoptable", "guarded", "refused", "killed", "done"}]
Going == [at : {"preflight", "convert", "ignore"}, cmd : {"init", "import"}, levels : Seq(Inner), left : Seq(Subs!Repos),
          was : [Subs!Repos -> BOOLEAN]]
ConversionTyped == checkout \in [Subs!Repos -> Checkout] /\ conv \in Over \cup Going /\ ~checkout[1].linked

\* Between commands: nothing is converted, or everything is.
Unconverted(tree) == \A r \in Subs!Repos : (tree[r].linked <=> r # 1) /\ (tree[r].modules <=> r \in Inner)
AllConverted == Subs!Converted /\ \A r \in Subs!Repos : ~checkout[r].modules
Between == Subs!Idle => (Unconverted(checkout) \/ AllConverted) /\ (conv.how = "done" => AllConverted)

\* The levels that are left, the first of which is under way.
Levels1 == Places(conv.levels)
Later   == Levels1 \ {Subs!Level}

\* Those behind the walk are converted, those ahead of it are not, and the root is first.
Walked ==
    /\ conv.levels # <<>> /\ Ordered(conv.levels)
    /\ conv.was = [r \in Subs!Repos |-> r # 1]
    /\ \A r \in Subs!Repos : checkout[r].modules <=> r \in Levels1
    /\ \A r \in Subs!Repos \ {1} : /\ Holder[r] \notin Levels1 => ~checkout[r].linked /\ checkout[r].listed
                                   /\ Holder[r] \in Later => checkout[r].linked
    /\ (1 \in Levels1 => Subs!Level = 1) /\ (Subs!Level = 1 => Levels1 = Inner)

\* The submodules of the level under way.
OneLevel ==
    /\ conv.at = "preflight" => \A c \in Subs!Children(Subs!Level) : checkout[c].linked
    /\ conv.at \in {"convert", "ignore"} =>
         /\ conv.left \in Seq(Subs!Children(Subs!Level)) /\ Distinct(conv.left)
         /\ \A c \in Subs!Children(Subs!Level) \ Places(conv.left) : ~checkout[c].linked /\ checkout[c].listed
    /\ conv.at = "convert" => \A c \in Places(conv.left) : checkout[c].linked
    /\ conv.at = "ignore" => /\ conv.left # <<>> /\ ~checkout[Head(conv.left)].linked
                             /\ \A c \in Places(conv.left) \ {Head(conv.left)} : checkout[c].linked

\* Once the submodules of the root were asked, those below them are clean until they are reached.
Ahead == {r \in Subs!Repos \ {1} : Holder[r] \in Later \/ (conv.at = "preflight" /\ Holder[r] = Subs!Level)}
Asked == ~disturbed /\ (conv.at # "preflight" \/ Subs!Level # 1) =>
             \A r \in Ahead : checkout[r].dirt = {} /\ ~checkout[r].moved

Midway == Walked /\ OneLevel /\ Asked
Whole  == ConversionTyped /\ Between /\ (~Subs!Idle => Midway)

ConversionInv ==
    /\ disturbed \in BOOLEAN /\ torn \in BOOLEAN
    /\ torn => disturbed
    /\ ~torn => Whole

LEMMA ConversionSays == ConversionInv => Subs!ConversionIsWhole
BY DEF ConversionInv, Whole, Subs!ConversionIsWhole, Between, AllConverted

-----------------------------------------------------------------------------
(* The steps *)

LEMMA WalkedIs ==
    ASSUME Walked, NEW r \in Subs!Repos \ {1}
    PROVE  /\ Holder[r] \notin Levels1 => ~checkout[r].linked /\ checkout[r].listed
           /\ Holder[r] \in Later => checkout[r].linked
<1>1. /\ \A x \in Subs!Repos \ {1} : /\ Holder[x] \notin Levels1 => ~checkout[x].linked /\ checkout[x].listed
                                     /\ Holder[x] \in Later => checkout[x].linked
  BY DEF Walked
<1> QED
  BY <1>1

LEMMA MidwayIs ==
    ASSUME Whole, ~Subs!Idle
    PROVE  /\ checkout \in [Subs!Repos -> Checkout] /\ conv \in Going /\ ~checkout[1].linked /\ Walked /\ OneLevel /\ Asked
           /\ Subs!Level \in Levels1 /\ Subs!Level \in Subs!Repos /\ Subs!Level \in Inner
           /\ Levels1 \subseteq Inner /\ Ordered(Tail(conv.levels))
           /\ Tail(conv.levels) \in Seq(Inner) /\ Places(Tail(conv.levels)) = Later
           /\ Len(conv.levels) = 1 => Levels1 = {Subs!Level}
           /\ Len(conv.levels) # 1 => Tail(conv.levels) # <<>>
           /\ \A r \in Subs!Repos \ {1} : r \in Levels1 /\ Holder[r] \in Levels1 => r # Subs!Level
           /\ \A r \in Levels1 : \A c \in Subs!Children(r) \cap Inner : c \in Levels1
<1>1. checkout \in [Subs!Repos -> Checkout] /\ ~checkout[1].linked /\ Walked /\ OneLevel /\ Asked
  BY DEF Whole, Midway, ConversionTyped
<1>2. conv \in Going
  BY DEF Whole, ConversionTyped, Over, Subs!Idle
<1>3. conv.levels # <<>> /\ Ordered(conv.levels)
  BY <1>1 DEF Walked
<1>4. /\ Subs!Level \in Inner /\ Subs!Level \in Levels1 /\ Subs!Level \in Subs!Repos
      /\ Ordered(Tail(conv.levels)) /\ Tail(conv.levels) \in Seq(Inner) /\ Places(Tail(conv.levels)) = Later
      /\ Levels1 \subseteq Inner
      /\ \A r \in Levels1 : \A c \in Subs!Children(r) \cap Inner : c \in Levels1 /\ c # Subs!Level
      /\ Len(conv.levels) = 1 => Levels1 = {Subs!Level}
      /\ Len(conv.levels) # 1 => Tail(conv.levels) # <<>>
  BY <1>3, OrderedTail DEF Subs!Level, Levels1, Later
<1>5. ASSUME NEW r \in Subs!Repos \ {1}, r \in Levels1, Holder[r] \in Levels1 PROVE r # Subs!Level
  <2>1. r \in Subs!Children(Holder[r]) \cap Inner
    BY <1>4, <1>5 DEF Subs!Children
  <2> QED
    BY <1>4, <1>5, <2>1
<1> QED
  BY <1>1, <1>2, <1>4, <1>5

\* A walk that left the root behind has converted something.
LEMMA BegunIsSeen ==
    ASSUME Whole, ~Subs!Idle, Subs!Links = conv.was
    PROVE  Unconverted(checkout)
<1>1. /\ checkout \in [Subs!Repos -> Checkout] /\ Walked /\ Subs!Level \in Inner
  BY MidwayIs
<1>2. \A r \in Subs!Repos : checkout[r].linked <=> r # 1
  <2> SUFFICES ASSUME NEW r \in Subs!Repos PROVE checkout[r].linked <=> r # 1
    OBVIOUS
  <2>1. Subs!Links[r] = checkout[r].linked /\ conv.was[r] = (r # 1) /\ checkout[r].linked \in BOOLEAN
    BY <1>1 DEF Subs!Links, Walked, Checkout
  <2> QED
    BY <2>1
<1>3. \E c \in Subs!Repos \ {1} : Holder[c] = 1
  <2>1. PICK c \in Subs!Repos : c \in Subs!Children(Subs!Level)
    BY <1>1 DEF Inner, Subs!Children
  <2>2. c # 1 /\ Subs!Level < c
    BY <1>1, <2>1, HolderIs DEF Inner
  <2>3. 2 \in Subs!Repos /\ 2 # 1
    BY <1>1, <2>1, <2>2, HolderIs DEF Inner
  <2>4. Holder[2] \in Subs!Repos /\ Holder[2] < 2
    BY <2>3, HolderIs
  <2>5. Holder[2] = 1
    BY <2>4, HolderIs
  <2> QED
    BY <2>3, <2>5
<1>4. 1 \in Levels1
  <2>1. PICK c \in Subs!Repos \ {1} : Holder[c] = 1
    BY <1>3
  <2>2. checkout[c].linked
    BY <1>2, <2>1
  <2>3. Holder[c] \notin Levels1 => ~checkout[c].linked
    BY <1>1, <2>1, WalkedIs
  <2> QED
    BY <2>1, <2>2, <2>3
<1>5. Levels1 = Inner
  BY <1>1, <1>4 DEF Walked
<1> QED
  BY <1>1, <1>2, <1>5 DEF Unconverted, Walked

\* A command that stops where it had begun to convert leaves that to be seen.
LEMMA Stops ==
    ASSUME ConversionInv, ~torn, ~Subs!Idle, NEW how \in {"refused", "killed"}, Subs!End(how),
           checkout' = checkout, disturbed' \in BOOLEAN,
           Subs!Links # conv.was => disturbed'
    PROVE  ConversionInv'
<1>1. Whole
  BY DEF ConversionInv
<1>2. /\ conv' = [at |-> "idle", how |-> how]
      /\ torn' \in BOOLEAN /\ (torn' => disturbed') /\ (~torn' => Subs!Links = conv.was)
  BY DEF Subs!End, Subs!Ended, ConversionInv
<1>3. conv' \in Over /\ conv'.at = "idle" /\ conv'.how # "done"
  BY <1>2 DEF Over
<1>4. ASSUME Subs!Links = conv.was PROVE Whole'
  <2>1. Unconverted(checkout)
    BY <1>1, <1>4, BegunIsSeen
  <2> QED
    BY <1>1, <1>3, <2>1 DEF Whole, ConversionTyped, Unconverted, Between, Subs!Idle
<1> QED
  BY <1>2, <1>4 DEF ConversionInv

\* Once the submodules of the root were asked and nobody disturbs, none of a later level blocks.
LEMMA NoneBlocks ==
    ASSUME Whole, conv.at = "preflight", ~disturbed, Subs!Level # 1
    PROVE  \A c \in Subs!Children(Subs!Level) : ~Subs!Blocks(c)
<1> DEFINE S == {r \in Subs!Repos \ {1} : Holder[r] \in Levels1}
<1>1. ~Subs!Idle
  BY DEF Subs!Idle
<1>2. /\ checkout \in [Subs!Repos -> Checkout] /\ Walked /\ OneLevel /\ Asked /\ Subs!Level \in Levels1 /\ Subs!Level \in Subs!Repos
      /\ \A r \in Levels1 : \A c \in Subs!Children(r) \cap Inner : c \in Levels1
  BY <1>1, MidwayIs
<1>3. Closed(S)
  <2> SUFFICES ASSUME NEW r \in S, NEW d \in Subs!Children(r) PROVE d \in S
    BY DEF Closed
  <2>1. d \in Subs!Repos \ {1} /\ Holder[d] = r
    BY HolderIs
  <2>2. r \in Subs!Children(Holder[r]) \cap Inner
    BY <2>1 DEF Subs!Children, Inner
  <2> QED
    BY <1>2, <2>1, <2>2
<1>4. ASSUME NEW r \in S PROVE checkout[r].linked /\ ~checkout[r].moved /\ checkout[r].dirt = {}
  <2>1. Holder[r] \in Later \/ (Holder[r] = Subs!Level /\ r \in Subs!Children(Subs!Level))
    BY DEF Later, Subs!Children
  <2>2. checkout[r].linked
    BY <1>2, <2>1 DEF Walked, OneLevel
  <2>3. r \in Ahead
    BY <2>1 DEF Ahead
  <2> QED
    BY <1>2, <2>2, <2>3 DEF Asked
<1>5. S \in SUBSET Subs!Repos
  OBVIOUS
<1>6. \A r \in S : ~Subs!Shows[r]
  <2> HIDE DEF S
  <2> QED
    BY <1>2, <1>3, <1>4, <1>5, CleanShowsNot
<1>7. \A c \in Subs!Children(Subs!Level) : c \in S
  BY <1>2, HolderIs
<1>8. \A c \in Subs!Children(Subs!Level) : \A d \in Subs!Children(c) : ~Subs!Shows[d]
  <2> HIDE DEF S
  <2> QED
    BY <1>3, <1>6, <1>7 DEF Closed
<1>9. \A c \in Subs!Children(Subs!Level) : checkout[c].dirt = {}
  <2> HIDE DEF S
  <2> QED
    BY <1>4, <1>7
<1> QED
  BY <1>8, <1>9 DEF Subs!Blocks, Subs!Dirty

LEMMA InOrderPlaces ==
    ASSUME NEW r \in Subs!Repos
    PROVE  /\ Subs!InOrder(Subs!Children(r)) \in Seq(Subs!Children(r)) /\ Distinct(Subs!InOrder(Subs!Children(r)))
           /\ Places(Subs!InOrder(Subs!Children(r))) = Subs!Children(r)
<1> DEFINE s == Subs!InOrder(Subs!Children(r))
           n == Subs!Cardinality(Subs!Children(r))
<1>1. /\ n \in Nat /\ s \in [1..n -> Subs!Children(r)] /\ s \in Seq(Subs!Children(r)) /\ Len(s) = n
      /\ \A i, j \in 1..n : s[i] = s[j] => i = j
      /\ \A c \in Subs!Children(r) : \E i \in 1..n : s[i] = c
  BY InOrderIs
<1> HIDE DEF s, n
<1>2. Distinct(s) /\ Places(s) = Subs!Children(r)
  BY <1>1 DEF Distinct, Places
<1> QED
  BY <1>1, <1>2 DEF s

LEMMA PreflightWhole ==
    ASSUME ConversionInv, ~torn, Subs!Preflight
    PROVE  ConversionInv'
<1>1. Whole /\ conv.at = "preflight" /\ ~Subs!Idle /\ checkout' = checkout /\ disturbed' = disturbed /\ disturbed \in BOOLEAN
  BY DEF ConversionInv, Subs!Preflight, Subs!Quiet, Subs!Idle
<1>0. disturbed' \in BOOLEAN  /\ "refused" \in {"refused", "killed"}
  BY <1>1
<1>2. /\ checkout \in [Subs!Repos -> Checkout] /\ conv \in Going /\ ~checkout[1].linked /\ Walked /\ OneLevel /\ Asked
      /\ Subs!Level \in Subs!Repos /\ Subs!Level \in Levels1 /\ Levels1 \subseteq Inner
  BY <1>1, MidwayIs
<1>3. ASSUME Subs!Level = 1 PROVE \A r \in Subs!Repos \ {1} : checkout[r].linked
  <2> SUFFICES ASSUME NEW r \in Subs!Repos \ {1} PROVE checkout[r].linked
    OBVIOUS
  <2>1. Holder[r] \in Levels1
    BY <1>2, <1>3, HolderIs DEF Walked
  <2>2. Holder[r] \in Later \/ r \in Subs!Children(Subs!Level)
    BY <2>1 DEF Later, Subs!Children
  <2>3. Holder[r] \in Later => checkout[r].linked
    BY <1>2, WalkedIs
  <2>4. r \in Subs!Children(Subs!Level) => checkout[r].linked
    BY <1>1, <1>2 DEF OneLevel
  <2> QED
    BY <2>2, <2>3, <2>4
<1>4. CASE \E c \in Subs!Children(Subs!Level) : Subs!Blocks(c)
  <2>1. Subs!End("refused")
    BY <1>4 DEF Subs!Preflight
  <2>2. CASE Subs!Level = 1
    <3>1. Subs!Links = conv.was
      <4>1. \A r \in Subs!Repos : checkout[r].linked \in BOOLEAN /\ (checkout[r].linked <=> r # 1)
        BY <1>2, <1>3, <2>2 DEF Checkout
      <4>2. \A r \in Subs!Repos : checkout[r].linked = (r # 1)
        BY <4>1
      <4> QED
        BY <1>2, <4>2 DEF Subs!Links, Walked
    <3> QED
      BY <1>0, <1>1, <2>1, <3>1, Stops
  <2>3. CASE Subs!Level # 1
    <3>1. disturbed'
      BY <1>1, <1>4, <2>3, NoneBlocks
    <3> QED
      BY <1>0, <1>1, <2>1, <3>1, Stops
  <2> QED
    BY <2>2, <2>3
<1>5. CASE ~\E c \in Subs!Children(Subs!Level) : Subs!Blocks(c)
  <2> DEFINE s == Subs!InOrder(Subs!Children(Subs!Level))
  <2>1. conv' = [conv EXCEPT !.at = "convert", !.left = s] /\ UNCHANGED torn
    BY <1>5 DEF Subs!Preflight
  <2>2. s \in Seq(Subs!Children(Subs!Level)) /\ Distinct(s) /\ Places(s) = Subs!Children(Subs!Level)
    BY <1>2, InOrderPlaces
  <2> HIDE DEF s
  <2>3. /\ conv'.at = "convert" /\ conv'.levels = conv.levels /\ conv'.left = s /\ conv'.was = conv.was
        /\ conv'.cmd = conv.cmd /\ conv' \in Going
    <3>1. s \in Seq(Subs!Repos)
      <4>1. Subs!Children(Subs!Level) \subseteq Subs!Repos
        BY DEF Subs!Children
      <4> QED
        BY <2>2, <4>1
    <3> QED
      BY <1>2, <2>1, <3>1 DEF Going
  <2>4. Subs!Level' = Subs!Level /\ Levels1' = Levels1 /\ Later' = Later /\ ~Subs!Idle'
    BY <2>3 DEF Subs!Level, Levels1, Later, Places, Subs!Idle
  <2>5. Walked'
    BY <1>1, <1>2, <2>3, <2>4 DEF Walked
  <2>6. OneLevel'
    BY <1>1, <1>2, <2>2, <2>3, <2>4 DEF OneLevel, Subs!Children
  <2>7. Asked'
    <3>1. Ahead' = {r \in Subs!Repos \ {1} : Holder[r] \in Later}
      BY <2>3, <2>4 DEF Ahead
    <3>2. CASE Subs!Level = 1
      <4>1. \A r \in Subs!Repos \ {1} : Holder[r] # 1 => checkout[r].dirt = {} /\ ~checkout[r].moved
        BY <1>2, <1>3, <1>5, <3>2, ShowsNotClean
      <4>2. \A r \in Ahead' : r \in Subs!Repos \ {1} /\ Holder[r] # 1
        BY <3>1, <3>2 DEF Later
      <4> QED
        BY <1>1, <4>1, <4>2 DEF Asked
    <3>3. CASE Subs!Level # 1
      <4>1. Ahead' \subseteq Ahead
        BY <3>1 DEF Ahead
      <4> QED
        BY <1>1, <1>2, <3>3, <4>1 DEF Asked
    <3> QED
      BY <3>2, <3>3
  <2>8. Whole'
    BY <1>1, <1>2, <2>3, <2>4, <2>5, <2>6, <2>7 DEF Whole, ConversionTyped, Between, Midway
  <2> QED
    BY <1>1, <2>1, <2>8 DEF ConversionInv
<1> QED
  BY <1>4, <1>5

\* What stays as a submodule is taken out of the index: within the level, and of a repository that is not the root.
LEMMA UnlinkWhole ==
    ASSUME ConversionInv, ~torn, Subs!Unlink
    PROVE  ConversionInv'
<1>1. /\ Whole /\ conv.at = "convert" /\ conv.left # <<>> /\ ~Subs!Idle /\ disturbed' = disturbed /\ disturbed \in BOOLEAN
      /\ torn \in BOOLEAN
  BY DEF ConversionInv, Subs!Unlink, Subs!Quiet, Subs!Idle
<1>2. /\ checkout \in [Subs!Repos -> Checkout] /\ conv \in Going /\ ~checkout[1].linked /\ Walked /\ OneLevel /\ Asked
      /\ Subs!Level \in Subs!Repos /\ Subs!Level \in Levels1 /\ Subs!Level \in Inner
      /\ \A r \in Subs!Repos \ {1} : r \in Levels1 /\ Holder[r] \in Levels1 => r # Subs!Level
  BY <1>1, MidwayIs
<1> DEFINE c == Head(conv.left)
<1>3. /\ conv.left \in Seq(Subs!Children(Subs!Level)) /\ Distinct(conv.left)
      /\ \A d \in Subs!Children(Subs!Level) \ Places(conv.left) : ~checkout[d].linked /\ checkout[d].listed
      /\ \A d \in Places(conv.left) : checkout[d].linked
  BY <1>1, <1>2 DEF OneLevel
<1>4. c \in Subs!Children(Subs!Level) /\ c \in Places(conv.left)
  BY <1>1, <1>3, TailIs
<1>5. c \in Subs!Repos /\ c # 1 /\ Holder[c] = Subs!Level /\ c # Subs!Level
  BY <1>2, <1>4, HolderIs
<1>6. /\ checkout' = [checkout EXCEPT ![c].linked = FALSE, ![Subs!Level].dirt = @ \cup {"staged"}]
      /\ conv' = [conv EXCEPT !.at = "ignore"] /\ torn' = torn
  BY <1>3, <1>4 DEF Subs!Unlink
<1> HIDE DEF c
<1>7. /\ checkout' \in [Subs!Repos -> Checkout] /\ ~checkout'[c].linked
      /\ \A r \in Subs!Repos : /\ checkout'[r].modules = checkout[r].modules /\ checkout'[r].listed = checkout[r].listed
                               /\ checkout'[r].moved = checkout[r].moved
                               /\ (r # c => checkout'[r].linked = checkout[r].linked)
                               /\ (r # Subs!Level => checkout'[r].dirt = checkout[r].dirt)
  <2> DEFINE x == [checkout[c] EXCEPT !.linked = FALSE]
             y == [checkout[Subs!Level] EXCEPT !.dirt = @ \cup {"staged"}]
  <2>1. checkout[Subs!Level].dirt \cup {"staged"} \in SUBSET Marks /\ checkout[Subs!Level] \in Checkout /\ checkout[c] \in Checkout
    BY <1>2, <1>5 DEF Checkout, Marks
  <2>2. /\ x \in Checkout /\ ~x.linked /\ x.listed = checkout[c].listed /\ x.modules = checkout[c].modules
        /\ x.moved = checkout[c].moved /\ x.dirt = checkout[c].dirt
    BY <2>1 DEF Checkout
  <2>3. /\ y \in Checkout /\ y.listed = checkout[Subs!Level].listed /\ y.linked = checkout[Subs!Level].linked
        /\ y.modules = checkout[Subs!Level].modules /\ y.moved = checkout[Subs!Level].moved
    BY <2>1 DEF Checkout
  <2>4. checkout' = [checkout EXCEPT ![c] = x, ![Subs!Level] = y]
    BY <1>2, <1>5, <1>6
  <2> HIDE DEF x, y
  <2> QED
    BY <1>2, <1>5, <2>2, <2>3, <2>4
<1>8. /\ conv'.at = "ignore" /\ conv'.levels = conv.levels /\ conv'.left = conv.left /\ conv'.was = conv.was /\ conv' \in Going
  BY <1>2, <1>6 DEF Going
<1>9. Subs!Level' = Subs!Level /\ Levels1' = Levels1 /\ Later' = Later /\ ~Subs!Idle'
  BY <1>8 DEF Subs!Level, Levels1, Later, Places, Subs!Idle
<1>10. Walked'
  <2>1. \A r \in Subs!Repos \ {1} : Holder[r] \notin Levels1 \/ Holder[r] \in Later => r # c
    BY <1>2, <1>5 DEF Later
  <2>2. /\ \A r \in Subs!Repos : checkout'[r].modules <=> r \in Levels1
        /\ \A r \in Subs!Repos \ {1} : /\ Holder[r] \notin Levels1 => ~checkout'[r].linked /\ checkout'[r].listed
                                       /\ Holder[r] \in Later => checkout'[r].linked
    BY <1>2, <1>7, <2>1 DEF Walked
  <2> QED
    BY <1>2, <1>8, <1>9, <2>2 DEF Walked
<1>11. OneLevel'
  <2>1. \A d \in Subs!Children(Subs!Level) : d \in Subs!Repos
    BY DEF Subs!Children
  <2>2. \A d \in Subs!Children(Subs!Level) \ Places(conv.left) : ~checkout'[d].linked /\ checkout'[d].listed
    BY <1>3, <1>4, <1>7, <2>1
  <2>3. \A d \in Places(conv.left) \ {c} : checkout'[d].linked
    <3>1. Places(conv.left) \subseteq Subs!Children(Subs!Level)
      BY <1>3 DEF Places
    <3> QED
      BY <1>3, <1>7, <2>1, <3>1
  <2> QED
    BY <1>1, <1>3, <1>7, <1>8, <1>9, <2>2, <2>3 DEF OneLevel, Subs!Children, c
<1>12. Asked'
  <2>1. Ahead' = {r \in Subs!Repos \ {1} : Holder[r] \in Later} /\ Ahead' \subseteq Ahead
    BY <1>8, <1>9 DEF Ahead
  <2>2. \A r \in Ahead' : r # Subs!Level /\ r \in Subs!Repos
    BY <1>2, <2>1 DEF Later
  <2> QED
    BY <1>1, <1>2, <1>7, <2>1, <2>2 DEF Asked
<1>13. Whole'
  BY <1>2, <1>5, <1>7, <1>8, <1>9, <1>10, <1>11, <1>12, HolderIs DEF Whole, ConversionTyped, Between, Midway
<1> QED
  BY <1>1, <1>6, <1>13 DEF ConversionInv

LEMMA IgnoreWhole ==
    ASSUME ConversionInv, ~torn, Subs!Ignore
    PROVE  ConversionInv'
<1>1. Whole /\ conv.at = "ignore" /\ ~Subs!Idle /\ disturbed' = disturbed /\ disturbed \in BOOLEAN /\ torn \in BOOLEAN /\ torn' = torn
  BY DEF ConversionInv, Subs!Ignore, Subs!Quiet, Subs!Idle
<1>2. /\ checkout \in [Subs!Repos -> Checkout] /\ conv \in Going /\ ~checkout[1].linked /\ Walked /\ OneLevel /\ Asked
      /\ Subs!Level \in Subs!Repos /\ Subs!Level \in Levels1 /\ Subs!Level \in Inner
      /\ \A r \in Subs!Repos \ {1} : r \in Levels1 /\ Holder[r] \in Levels1 => r # Subs!Level
  BY <1>1, MidwayIs
<1> DEFINE c == Head(conv.left)
           t == Tail(conv.left)
<1>3. /\ conv.left \in Seq(Subs!Children(Subs!Level)) /\ Distinct(conv.left) /\ conv.left # <<>>
      /\ \A d \in Subs!Children(Subs!Level) \ Places(conv.left) : ~checkout[d].linked /\ checkout[d].listed
      /\ \A d \in Places(conv.left) \ {c} : checkout[d].linked
      /\ ~checkout[c].linked
  BY <1>1, <1>2 DEF OneLevel
<1>4. /\ c \in Subs!Children(Subs!Level) /\ c \in Places(conv.left)
      /\ t \in Seq(Subs!Children(Subs!Level)) /\ Distinct(t) /\ Places(t) = Places(conv.left) \ {c}
  BY <1>3, TailIs
<1>5. c \in Subs!Repos /\ c # 1 /\ Holder[c] = Subs!Level /\ c # Subs!Level
  BY <1>2, <1>4, HolderIs
<1>6. /\ checkout' = IF checkout[c].listed THEN checkout
                     ELSE [checkout EXCEPT ![c].listed = TRUE, ![Subs!Level].dirt = @ \cup {"ignore"}]
      /\ conv' = [conv EXCEPT !.at = "convert", !.left = t]
  BY DEF Subs!Ignore
<1> HIDE DEF c, t
<1>7. /\ checkout' \in [Subs!Repos -> Checkout] /\ checkout'[c].listed
      /\ \A r \in Subs!Repos : /\ checkout'[r].modules = checkout[r].modules /\ checkout'[r].linked = checkout[r].linked
                               /\ checkout'[r].moved = checkout[r].moved
                               /\ (r # c => checkout'[r].listed = checkout[r].listed)
                               /\ (r # Subs!Level => checkout'[r].dirt = checkout[r].dirt)
  <2>1. CASE checkout[c].listed
    BY <1>2, <1>6, <2>1
  <2>2. CASE ~checkout[c].listed
    <3> DEFINE x == [checkout[c] EXCEPT !.listed = TRUE]
               y == [checkout[Subs!Level] EXCEPT !.dirt = @ \cup {"ignore"}]
    <3>1. checkout[Subs!Level].dirt \cup {"ignore"} \in SUBSET Marks /\ checkout[Subs!Level] \in Checkout /\ checkout[c] \in Checkout
      BY <1>2, <1>5 DEF Checkout, Marks
    <3>2. /\ x \in Checkout /\ x.listed /\ x.linked = checkout[c].linked /\ x.modules = checkout[c].modules
          /\ x.moved = checkout[c].moved /\ x.dirt = checkout[c].dirt
      BY <3>1 DEF Checkout
    <3>3. /\ y \in Checkout /\ y.listed = checkout[Subs!Level].listed /\ y.linked = checkout[Subs!Level].linked
          /\ y.modules = checkout[Subs!Level].modules /\ y.moved = checkout[Subs!Level].moved
      BY <3>1 DEF Checkout
    <3>4. checkout' = [checkout EXCEPT ![c] = x, ![Subs!Level] = y]
      BY <1>2, <1>5, <1>6, <2>2
    <3> HIDE DEF x, y
    <3> QED
      BY <1>2, <1>5, <3>2, <3>3, <3>4
  <2> QED
    BY <2>1, <2>2
<1>8. /\ conv'.at = "convert" /\ conv'.levels = conv.levels /\ conv'.left = t /\ conv'.was = conv.was /\ conv' \in Going
  <2>1. t \in Seq(Subs!Repos)
    <3>1. Subs!Children(Subs!Level) \subseteq Subs!Repos
      BY DEF Subs!Children
    <3> QED
      BY <1>4, <3>1
  <2> QED
    BY <1>2, <1>6, <2>1 DEF Going
<1>9. Subs!Level' = Subs!Level /\ Levels1' = Levels1 /\ Later' = Later /\ ~Subs!Idle'
  BY <1>8 DEF Subs!Level, Levels1, Later, Places, Subs!Idle
<1>10. Walked'
  <2>1. \A r \in Subs!Repos \ {1} : Holder[r] \notin Levels1 => r # c
    BY <1>2, <1>5
  <2>2. /\ \A r \in Subs!Repos : checkout'[r].modules <=> r \in Levels1
        /\ \A r \in Subs!Repos \ {1} : /\ Holder[r] \notin Levels1 => ~checkout'[r].linked /\ checkout'[r].listed
                                       /\ Holder[r] \in Later => checkout'[r].linked
    BY <1>2, <1>7, <2>1 DEF Walked
  <2> QED
    BY <1>2, <1>8, <1>9, <2>2 DEF Walked
<1>11. OneLevel'
  <2>1. \A d \in Subs!Children(Subs!Level) : d \in Subs!Repos
    BY DEF Subs!Children
  <2>2. \A d \in Subs!Children(Subs!Level) \ Places(t) : ~checkout'[d].linked /\ checkout'[d].listed
    BY <1>3, <1>4, <1>7, <2>1
  <2>3. \A d \in Places(t) : checkout'[d].linked
    <3>1. Places(t) \subseteq Subs!Children(Subs!Level)
      BY <1>4 DEF Places
    <3> QED
      BY <1>3, <1>4, <1>7, <2>1, <3>1
  <2> QED
    BY <1>4, <1>8, <1>9, <2>2, <2>3 DEF OneLevel, Subs!Children
<1>12. Asked'
  <2>1. Ahead' = {r \in Subs!Repos \ {1} : Holder[r] \in Later} /\ Ahead' \subseteq Ahead
    BY <1>8, <1>9 DEF Ahead
  <2>2. \A r \in Ahead' : r # Subs!Level /\ r \in Subs!Repos
    BY <1>2, <2>1 DEF Later
  <2> QED
    BY <1>1, <1>2, <1>7, <2>1, <2>2 DEF Asked
<1>13. Whole'
  BY <1>2, <1>5, <1>7, <1>8, <1>9, <1>10, <1>11, <1>12, HolderIs DEF Whole, ConversionTyped, Between, Midway
<1> QED
  BY <1>1, <1>13 DEF ConversionInv

-----------------------------------------------------------------------------
LEMMA DropWhole ==
    ASSUME ConversionInv, ~torn, Subs!Drop
    PROVE  ConversionInv'
<1>1. /\ Whole /\ conv.at = "convert" /\ conv.left = <<>> /\ ~Subs!Idle /\ disturbed' = disturbed /\ disturbed \in BOOLEAN
      /\ torn \in BOOLEAN
  BY DEF ConversionInv, Subs!Drop, Subs!Quiet, Subs!Idle
<1>2. /\ checkout \in [Subs!Repos -> Checkout] /\ conv \in Going /\ ~checkout[1].linked /\ Walked /\ OneLevel /\ Asked
      /\ Subs!Level \in Subs!Repos /\ Subs!Level \in Levels1 /\ Subs!Level \in Inner /\ Levels1 \subseteq Inner
      /\ Ordered(Tail(conv.levels)) /\ Tail(conv.levels) \in Seq(Inner) /\ Places(Tail(conv.levels)) = Later
      /\ Len(conv.levels) = 1 => Levels1 = {Subs!Level}
      /\ Len(conv.levels) # 1 => Tail(conv.levels) # <<>>
      /\ \A r \in Subs!Repos \ {1} : r \in Levels1 /\ Holder[r] \in Levels1 => r # Subs!Level
  BY <1>1, MidwayIs
<1>3. \A d \in Subs!Children(Subs!Level) : ~checkout[d].linked /\ checkout[d].listed
  <2>1. Places(conv.left) = {}
    BY <1>1, OrderedNone
  <2> QED
    BY <1>1, <1>2, <2>1 DEF OneLevel
<1>4. checkout' = [checkout EXCEPT ![Subs!Level].modules = FALSE, ![Subs!Level].dirt = @ \cup {"staged"}]
  BY DEF Subs!Drop
<1>5. /\ checkout' \in [Subs!Repos -> Checkout]
      /\ \A r \in Subs!Repos : /\ checkout'[r].linked = checkout[r].linked /\ checkout'[r].listed = checkout[r].listed
                               /\ checkout'[r].moved = checkout[r].moved
                               /\ (r # Subs!Level => checkout'[r] = checkout[r])
      /\ ~checkout'[Subs!Level].modules
  <2> DEFINE x == [checkout[Subs!Level] EXCEPT !.modules = FALSE, !.dirt = @ \cup {"staged"}]
  <2>1. checkout[Subs!Level].dirt \cup {"staged"} \in SUBSET Marks /\ checkout[Subs!Level] \in Checkout
    BY <1>2 DEF Checkout, Marks
  <2>2. /\ x \in Checkout /\ x.listed = checkout[Subs!Level].listed /\ x.linked = checkout[Subs!Level].linked
        /\ ~x.modules /\ x.moved = checkout[Subs!Level].moved
    BY <2>1 DEF Checkout
  <2>3. checkout' = [checkout EXCEPT ![Subs!Level] = x]
    BY <1>2, <1>4
  <2> HIDE DEF x
  <2> QED
    BY <1>2, <2>2, <2>3
<1>6. \A r \in Subs!Repos : checkout'[r].modules <=> r \in Later
  <2> SUFFICES ASSUME NEW r \in Subs!Repos PROVE checkout'[r].modules <=> r \in Later
    OBVIOUS
  <2>1. CASE r = Subs!Level
    BY <1>5, <2>1 DEF Later
  <2>2. CASE r # Subs!Level
    BY <1>2, <1>5, <2>2 DEF Later, Walked
  <2> QED
    BY <2>1, <2>2
<1>7. ASSUME NEW r \in Subs!Repos \ {1}
      PROVE  /\ Holder[r] \notin Later => ~checkout'[r].linked /\ checkout'[r].listed
             /\ Holder[r] \in Later => checkout'[r].linked
  <2>1. /\ Holder[r] \notin Levels1 => ~checkout[r].linked /\ checkout[r].listed
        /\ Holder[r] \in Later => checkout[r].linked
    BY <1>2, WalkedIs
  <2>2. Holder[r] = Subs!Level => ~checkout[r].linked /\ checkout[r].listed
    BY <1>3 DEF Subs!Children
  <2>3. Holder[r] \in Later \/ Holder[r] \notin Levels1 \/ Holder[r] = Subs!Level
    BY DEF Later
  <2>4. Holder[r] = Subs!Level \/ Holder[r] \notin Levels1 => Holder[r] \notin Later
    BY DEF Later
  <2>5. checkout'[r].linked = checkout[r].linked /\ checkout'[r].listed = checkout[r].listed
    BY <1>5
  <2> QED
    BY <2>1, <2>2, <2>3, <2>4, <2>5
<1>8. CASE Len(conv.levels) = 1
  <2>1. conv' = [at |-> "idle", how |-> "done"] /\ torn' = torn
    BY <1>8, <1>1 DEF Subs!Drop, Subs!End, Subs!Ended
  <2>2. Later = {}
    BY <1>2, <1>8 DEF Later
  <2>3. AllConverted'
    BY <1>6, <1>7, <2>2 DEF AllConverted, Subs!Converted
  <2>4. conv' \in Over /\ conv'.at = "idle"
    BY <2>1 DEF Over
  <2>5. Whole'
    BY <1>2, <1>5, <2>3, <2>4, HolderIs DEF Whole, ConversionTyped, Between, Subs!Idle
  <2> QED
    BY <1>1, <2>1, <2>5 DEF ConversionInv
<1>9. CASE Len(conv.levels) # 1
  <2> DEFINE t == Tail(conv.levels)
  <2>1. conv' = [conv EXCEPT !.at = "preflight", !.levels = t] /\ torn' = torn
    BY <1>9 DEF Subs!Drop
  <2>2. t # <<>> /\ Ordered(t) /\ t \in Seq(Inner) /\ Places(t) = Later
    BY <1>2, <1>9
  <2> HIDE DEF t
  <2>3. /\ conv'.at = "preflight" /\ conv'.levels = t /\ conv'.left = conv.left /\ conv'.was = conv.was /\ conv' \in Going
    BY <1>2, <2>1, <2>2 DEF Going
  <2>4. Subs!Level' = Head(t) /\ Levels1' = Later /\ ~Subs!Idle' /\ Subs!Level' \in Later
    <3>1. Head(t) \in Places(t)
      BY <2>2, OrderedTail
    <3> QED
      BY <2>2, <2>3, <3>1 DEF Subs!Level, Levels1, Places, Subs!Idle
  <2>5. Subs!Level' # 1 /\ 1 \notin Later
    BY <1>2, <2>4 DEF Later, Walked
  <2>6. Walked'
    <3>1. Later' \subseteq Later
      BY <2>4 DEF Later
    <3> QED
      BY <1>2, <1>6, <1>7, <2>2, <2>3, <2>4, <2>5, <3>1 DEF Walked
  <2>7. OneLevel'
    <3>1. \A c \in Subs!Children(Subs!Level') : c \in Subs!Repos \ {1} /\ Holder[c] \in Later
      BY <1>2, <2>4, HolderIs DEF Inner, Later
    <3> QED
      BY <1>7, <2>3, <3>1 DEF OneLevel, Subs!Children
  <2>8. Asked'
    <3>1. \A r \in Ahead' : r \in Subs!Repos \ {1} /\ Holder[r] \in Later
      BY <2>3, <2>4 DEF Ahead, Later
    <3>2. \A r \in Ahead' : r # Subs!Level /\ r \in Ahead
      BY <1>2, <3>1 DEF Later, Ahead
    <3> QED
      BY <1>1, <1>2, <1>5, <3>1, <3>2 DEF Asked
  <2>9. Whole'
    BY <1>2, <1>5, <2>3, <2>4, <2>6, <2>7, <2>8, HolderIs DEF Whole, ConversionTyped, Between, Midway
  <2> QED
    BY <1>1, <2>1, <2>9 DEF ConversionInv
<1> QED
  BY <1>8, <1>9

LEMMA KillWhole ==
    ASSUME ConversionInv, ~torn, Subs!Kill
    PROVE  ConversionInv'
<1>1. ~Subs!Idle /\ Subs!End("killed") /\ disturbed' = TRUE /\ checkout' = checkout /\ "killed" \in {"refused", "killed"}
  BY DEF Subs!Kill
<1> QED
  BY <1>1, Stops

\* What somebody does to the checkouts that leaves the index, the ignores and .gitmodules as they are.
LEMMA PeopleWhole ==
    ASSUME ConversionInv, ~torn, Subs!Acts, checkout' \in [Subs!Repos -> Checkout],
           \A r \in Subs!Repos : /\ checkout'[r].linked = checkout[r].linked /\ checkout'[r].listed = checkout[r].listed
                                 /\ checkout'[r].modules = checkout[r].modules
    PROVE  ConversionInv'
<1>1. /\ Whole /\ conv' = conv /\ torn' = torn /\ disturbed' = (disturbed \/ ~Subs!Idle) /\ disturbed \in BOOLEAN /\ torn \in BOOLEAN
  BY DEF ConversionInv, Subs!Acts
<1>2. Subs!Level' = Subs!Level /\ Levels1' = Levels1 /\ Later' = Later /\ Subs!Idle' = Subs!Idle /\ Subs!Idle \in BOOLEAN
  BY <1>1 DEF Subs!Level, Levels1, Later, Places, Subs!Idle
<1>3. ConversionTyped'
  BY <1>1, HolderIs DEF Whole, ConversionTyped
<1>4. CASE Subs!Idle
  <2>1. Between'
    BY <1>1, <1>2, <1>4 DEF Whole, Between, Unconverted, AllConverted, Subs!Converted
  <2> QED
    BY <1>1, <1>2, <1>3, <1>4, <2>1 DEF ConversionInv, Whole
<1>5. CASE ~Subs!Idle
  <2>1. disturbed'
    BY <1>1, <1>5
  <2>2. Walked /\ OneLevel /\ conv \in Going /\ Subs!Level \in Subs!Repos
    BY <1>1, <1>5, MidwayIs
  <2>3. Walked'
    BY <1>1, <1>2, <2>2 DEF Walked
  <2>4. OneLevel'
    <3>1. Subs!Children(Subs!Level) \subseteq Subs!Repos
      BY DEF Subs!Children
    <3>2. conv.left \in Seq(Subs!Children(Subs!Level)) => Places(conv.left) \subseteq Subs!Children(Subs!Level)
      BY DEF Places
    <3>3. conv.at = "preflight" => \A c \in Subs!Children(Subs!Level) : checkout'[c].linked
      BY <2>2, <3>1 DEF OneLevel
    <3>4. ASSUME conv.at \in {"convert", "ignore"}
          PROVE  /\ conv.left \in Seq(Subs!Children(Subs!Level)) /\ Distinct(conv.left)
                 /\ \A c \in Subs!Children(Subs!Level) \ Places(conv.left) : ~checkout'[c].linked /\ checkout'[c].listed
      BY <2>2, <3>1, <3>4 DEF OneLevel
    <3>5. conv.at = "convert" => \A c \in Places(conv.left) : checkout'[c].linked
      BY <2>2, <3>1, <3>2, <3>4 DEF OneLevel
    <3>6. ASSUME conv.at = "ignore"
          PROVE  /\ conv.left # <<>> /\ ~checkout'[Head(conv.left)].linked
                 /\ \A c \in Places(conv.left) \ {Head(conv.left)} : checkout'[c].linked
      <4>1. /\ conv.left # <<>> /\ ~checkout[Head(conv.left)].linked
            /\ \A c \in Places(conv.left) \ {Head(conv.left)} : checkout[c].linked
        BY <2>2, <3>6 DEF OneLevel
      <4>2. Head(conv.left) \in Places(conv.left)
        BY <3>4, <3>6, <4>1, TailIs
      <4> QED
        BY <3>1, <3>2, <3>4, <3>6, <4>1, <4>2
    <3> QED
      BY <1>1, <1>2, <3>3, <3>4, <3>5, <3>6 DEF OneLevel, Subs!Children
  <2>5. Asked'
    BY <2>1 DEF Asked
  <2>6. Whole'
    BY <1>2, <1>3, <1>5, <2>3, <2>4, <2>5 DEF Whole, Between, Midway
  <2> QED
    BY <1>1, <2>1, <2>6 DEF ConversionInv
<1> QED
  BY <1>4, <1>5

LEMMA WorkWhole ==
    ASSUME ConversionInv, ~torn, NEW r \in Subs!Repos, Subs!Work(r)
    PROVE  ConversionInv'
<1>1. Subs!Acts /\ checkout' = [checkout EXCEPT ![r].dirt = @ \cup {"work"}]
  BY DEF Subs!Work
<1>2. checkout \in [Subs!Repos -> Checkout]
  BY DEF ConversionInv, Whole, ConversionTyped
<1>3. /\ checkout' \in [Subs!Repos -> Checkout]
      /\ \A x \in Subs!Repos : /\ checkout'[x].linked = checkout[x].linked /\ checkout'[x].listed = checkout[x].listed
                               /\ checkout'[x].modules = checkout[x].modules
  <2> DEFINE y == [checkout[r] EXCEPT !.dirt = @ \cup {"work"}]
  <2>1. checkout[r].dirt \cup {"work"} \in SUBSET Marks /\ checkout[r] \in Checkout
    BY <1>2 DEF Checkout, Marks
  <2>2. y \in Checkout /\ y.listed = checkout[r].listed /\ y.linked = checkout[r].linked /\ y.modules = checkout[r].modules
    BY <2>1 DEF Checkout
  <2>3. checkout' = [checkout EXCEPT ![r] = y]
    BY <1>1, <1>2
  <2> HIDE DEF y
  <2> QED
    BY <1>2, <2>2, <2>3
<1> QED
  BY <1>1, <1>3, PeopleWhole

LEMMA CommitWhole ==
    ASSUME ConversionInv, ~torn, NEW r \in Subs!Repos, Subs!Commit(r)
    PROVE  ConversionInv'
<1>1. checkout \in [Subs!Repos -> Checkout]
  BY DEF ConversionInv, Whole, ConversionTyped
<1> DEFINE y(x) == IF x = r THEN [checkout[r] EXCEPT !.dirt = {}, !.ahead = TRUE, !.moved = checkout[r].linked]
                   ELSE IF Holder[x] = r THEN [checkout[x] EXCEPT !.moved = FALSE] ELSE checkout[x]
<1>2. Subs!Acts /\ checkout' = [x \in Subs!Repos |-> y(x)]
  BY DEF Subs!Commit
<1>3. ASSUME NEW x \in Subs!Repos
      PROVE  /\ y(x) \in Checkout
             /\ y(x).linked = checkout[x].linked /\ y(x).listed = checkout[x].listed /\ y(x).modules = checkout[x].modules
  <2>1. checkout[x] \in Checkout /\ checkout[r] \in Checkout /\ {} \in SUBSET Marks /\ checkout[r].linked \in BOOLEAN
    BY <1>1 DEF Checkout
  <2> QED
    BY <2>1 DEF Checkout
<1> HIDE DEF y
<1>4. checkout' \in [Subs!Repos -> Checkout] /\ \A x \in Subs!Repos : checkout'[x] = y(x)
  BY <1>2, <1>3
<1> QED
  BY <1>2, <1>3, <1>4, PeopleWhole

-----------------------------------------------------------------------------
\* What a command begins on a tree of which nothing is converted, or everything.
LEMMA BeginWhole ==
    ASSUME NEW cmd \in {"init", "import"}, NEW tree \in [Subs!Repos -> Checkout], checkout' = tree, Subs!Begin(tree, cmd),
           Unconverted(tree) \/ AllConverted', \A r \in Subs!Repos : AllConverted' => ~tree[r].modules,
           ~tree[1].linked
    PROVE  Whole'
<1>1. CASE Unconverted(tree) /\ 1 \in Inner
  <2> DEFINE s == Subs!RootFirst(tree)
             w == [r \in Subs!Repos |-> tree[r].linked]
  <2>1. Ordered(s) /\ Places(s) = Inner /\ s # <<>> /\ s[1] = 1
    BY <1>1, LevelsAre DEF Unconverted, Subs!RootFirst
  <2>2. conv' = [at |-> "preflight", cmd |-> cmd, levels |-> s, left |-> <<>>, was |-> w]
    BY <2>1 DEF Subs!Begin
  <2>3. w = [r \in Subs!Repos |-> r # 1] /\ w \in [Subs!Repos -> BOOLEAN]
    <3>1. \A r \in Subs!Repos : tree[r].linked = (r # 1) /\ tree[r].linked \in BOOLEAN
      BY <1>1 DEF Unconverted, Checkout
    <3> QED
      BY <3>1
  <2> HIDE DEF s, w
  <2>4. Head(s) = 1 /\ s \in Seq(Inner)
    BY <2>1 DEF Ordered
  <2>5. <<>> \in Seq(Subs!Repos)
    OBVIOUS
  <2>6. /\ conv' \in Going /\ conv'.at = "preflight" /\ conv'.levels = s /\ conv'.was = w
    BY <2>2, <2>3, <2>4, <2>5 DEF Going
  <2>7. Subs!Level' = 1 /\ Levels1' = Inner /\ ~Subs!Idle'
    BY <2>1, <2>4, <2>6 DEF Subs!Level, Levels1, Places, Subs!Idle
  <2>8. Walked'
    <3>1. /\ \A r \in Subs!Repos : tree[r].modules <=> r \in Inner
          /\ \A r \in Subs!Repos \ {1} : Holder[r] \in Inner /\ tree[r].linked
      BY <1>1, HolderIs DEF Unconverted
    <3> QED
      BY <2>1, <2>3, <2>6, <2>7, <3>1 DEF Walked
  <2>9. OneLevel'
    <3>1. \A c \in Subs!Children(1) : tree[c].linked
      BY <1>1, HolderIs DEF Unconverted
    <3> QED
      BY <2>6, <2>7, <3>1 DEF OneLevel, Subs!Children
  <2>10. Asked'
    BY <2>6, <2>7 DEF Asked
  <2> QED
    BY <2>6, <2>7, <2>8, <2>9, <2>10 DEF Whole, ConversionTyped, Between, Midway
<1>2. CASE ~(Unconverted(tree) /\ 1 \in Inner)
  <2>1. Subs!RootFirst(tree) = <<>>
    <3>1. CASE Unconverted(tree)
      BY <1>2, <3>1, LevelsAre DEF Unconverted, Subs!RootFirst
    <3>2. CASE ~Unconverted(tree)
      <4>1. \A r \in Subs!Repos : ~tree[r].modules
        BY <3>2 DEF Unconverted
      <4> QED
        BY <4>1, LevelsNone DEF Subs!RootFirst
    <3> QED
      BY <3>1, <3>2
  <2>2. conv' = [at |-> "idle", how |-> "nothing"]
    BY <2>1 DEF Subs!Begin, Subs!Ended
  <2>3. conv' \in Over /\ conv'.at = "idle" /\ conv'.how # "done"
    BY <2>2 DEF Over
  <2> QED
    BY <2>3 DEF Whole, ConversionTyped, Between, Subs!Idle, Unconverted
<1> QED
  BY <1>1, <1>2

LEMMA ImportWhole ==
    ASSUME ConversionInv, ~torn, Subs!Import
    PROVE  ConversionInv'
<1>1. /\ Subs!Idle /\ Subs!Begin(checkout, "import") /\ checkout' = checkout /\ disturbed' = disturbed /\ torn' = torn
      /\ disturbed \in BOOLEAN /\ torn \in BOOLEAN
  BY DEF Subs!Import, ConversionInv
<1>2. checkout \in [Subs!Repos -> Checkout] /\ ~checkout[1].linked /\ (Unconverted(checkout) \/ AllConverted)
  BY <1>1 DEF ConversionInv, Whole, ConversionTyped, Between
<1>3. \A r \in Subs!Repos : AllConverted' => ~checkout[r].modules
  BY <1>1 DEF AllConverted
<1>4. Unconverted(checkout) \/ AllConverted'
  BY <1>1, <1>2 DEF AllConverted, Subs!Converted
<1>5. Whole'
  BY <1>1, <1>2, <1>3, <1>4, BeginWhole
<1> QED
  BY <1>1, <1>5 DEF ConversionInv

\* What init installs is a tree of which nothing is converted.
LEMMA InstalledIs ==
    ASSUME checkout \in [Subs!Repos -> Checkout], Unconverted(checkout)
    PROVE  Subs!Installed \in [Subs!Repos -> Checkout] /\ Unconverted(Subs!Installed) /\ ~Subs!Installed[1].linked
<1>1. ASSUME NEW r \in Subs!Repos
      PROVE  /\ Subs!Installed[r] \in Checkout
             /\ (Subs!Installed[r].linked <=> r # 1) /\ (Subs!Installed[r].modules <=> r \in Inner)
  <2>1. CASE r = 1
    <3> DEFINE d == IF \A c \in Subs!Children(1) : checkout[c].listed THEN checkout[1].dirt ELSE checkout[1].dirt \cup {"ignore"}
    <3>1. Subs!Installed[1] = [checkout[1] EXCEPT !.dirt = d] /\ checkout[1] \in Checkout
      BY <2>1 DEF Subs!Installed
    <3>2. d \in SUBSET Marks
      BY <3>1 DEF Checkout, Marks
    <3> HIDE DEF d
    <3>3. /\ Subs!Installed[1] \in Checkout /\ Subs!Installed[1].linked = checkout[1].linked
          /\ Subs!Installed[1].modules = checkout[1].modules
      BY <3>1, <3>2 DEF Checkout
    <3> QED
      BY <2>1, <3>3 DEF Unconverted
  <2>2. CASE r # 1
    <3> DEFINE d == IF Subs!Children(r) = {} THEN {} ELSE {"ignore"}
               l == Holder[r] = 1 => checkout[r].linked
               m == r \in Behind
    <3>1. Subs!Installed[r] = [Subs!Pristine(r) EXCEPT !.linked = l, !.listed = TRUE, !.moved = m, !.dirt = d]
      BY <2>2 DEF Subs!Installed
    <3>2. d \in SUBSET Marks /\ l = TRUE /\ m \in BOOLEAN
      BY <2>2 DEF Marks, Unconverted
    <3> HIDE DEF d, l, m
    <3>3. Subs!Installed[r] = [linked |-> l, listed |-> TRUE, modules |-> Subs!Children(r) # {}, dirt |-> d, ahead |-> FALSE, moved |-> m]
      BY <3>1 DEF Subs!Pristine
    <3>4. /\ Subs!Installed[r] \in Checkout /\ Subs!Installed[r].linked /\ Subs!Installed[r].modules = (Subs!Children(r) # {})
      BY <3>2, <3>3 DEF Checkout
    <3> QED
      BY <2>2, <3>4 DEF Inner
  <2> QED
    BY <2>1, <2>2
<1>2. Subs!Installed \in [Subs!Repos -> Checkout]
  <2>1. Subs!Installed = [r \in Subs!Repos |-> Subs!Installed[r]]
    BY DEF Subs!Installed
  <2> QED
    BY <1>1, <2>1
<1> QED
  BY <1>1, <1>2, HolderIs DEF Unconverted

LEMMA AdoptWhole ==
    ASSUME ConversionInv, ~torn, Subs!Adopt
    PROVE  ConversionInv'
<1>1. Subs!Idle /\ disturbed' = disturbed /\ torn' = torn /\ disturbed \in BOOLEAN /\ torn \in BOOLEAN
  BY DEF Subs!Adopt, ConversionInv
<1>2. checkout \in [Subs!Repos -> Checkout] /\ ~checkout[1].linked /\ (Unconverted(checkout) \/ AllConverted)
  BY <1>1 DEF ConversionInv, Whole, ConversionTyped, Between
<1>3. CASE checkout' = checkout /\ (conv' = Subs!Ended("not adoptable") \/ conv' = Subs!Ended("guarded"))
  <2>0. conv' = [at |-> "idle", how |-> "not adoptable"] \/ conv' = [at |-> "idle", how |-> "guarded"]
    BY <1>3 DEF Subs!Ended
  <2>1. conv' \in Over /\ conv'.at = "idle" /\ conv'.how # "done"
    <3>1. CASE conv' = [at |-> "idle", how |-> "not adoptable"]
      BY <3>1 DEF Over
    <3>2. CASE conv' = [at |-> "idle", how |-> "guarded"]
      BY <3>2 DEF Over
    <3> QED
      BY <2>0, <3>1, <3>2
  <2>2. Whole'
    BY <1>2, <1>3, <2>1 DEF Whole, ConversionTyped, Between, Subs!Idle, Unconverted, AllConverted, Subs!Converted
  <2> QED
    BY <1>1, <2>2 DEF ConversionInv
<1>4. CASE Subs!Adoptable /\ checkout' = Subs!Installed /\ Subs!Begin(Subs!Installed, "init")
  <2>1. Unconverted(checkout)
    BY <1>2, <1>4, HolderIs DEF Subs!Adoptable, AllConverted
  <2>2. Subs!Installed \in [Subs!Repos -> Checkout] /\ Unconverted(Subs!Installed) /\ ~Subs!Installed[1].linked
    BY <1>2, <2>1, InstalledIs
  <2>3. \A r \in Subs!Repos : AllConverted' => ~Subs!Installed[r].modules
    BY <1>4 DEF AllConverted
  <2>4. Whole'
    BY <1>4, <2>2, <2>3, BeginWhole
  <2> QED
    BY <1>1, <2>4 DEF ConversionInv
<1> QED
  BY <1>3, <1>4 DEF Subs!Adopt

LEMMA StartsWhole == Subs!Init => ConversionInv
<1> SUFFICES ASSUME Subs!Init PROVE ConversionInv
  OBVIOUS
<1>1. checkout = [r \in Subs!Repos |-> Subs!Pristine(r)] /\ conv = [at |-> "idle", how |-> "nothing"] /\ disturbed = FALSE /\ torn = FALSE
  BY DEF Subs!Init, Subs!Ended
<1>2. \A r \in Subs!Repos : Subs!Pristine(r) \in Checkout
  BY DEF Subs!Pristine, Checkout
<1>3. checkout \in [Subs!Repos -> Checkout] /\ ~checkout[1].linked /\ Unconverted(checkout)
  <2>1. \A r \in Subs!Repos : checkout[r] = Subs!Pristine(r)
    BY <1>1
  <2>2. \A r \in Subs!Repos : (Subs!Pristine(r).linked <=> r # 1) /\ (Subs!Pristine(r).modules <=> r \in Inner)
    BY DEF Subs!Pristine, Inner
  <2>3. checkout \in [Subs!Repos -> Checkout]
    BY <1>1, <1>2
  <2> HIDE DEF Subs!Pristine
  <2> QED
    BY <2>1, <2>2, <2>3, HolderIs DEF Unconverted
<1>4. conv \in Over /\ conv.at = "idle" /\ conv.how # "done"
  BY <1>1 DEF Over
<1> QED
  BY <1>1, <1>3, <1>4 DEF ConversionInv, Whole, ConversionTyped, Between, Subs!Idle

\* What was cut stays cut.
LEMMA CutStays ==
    ASSUME ConversionInv, torn, Subs!Next
    PROVE  ConversionInv'
<1>1. disturbed \in BOOLEAN /\ disturbed = TRUE /\ torn = TRUE
  BY DEF ConversionInv
<1>2. disturbed' = TRUE
  BY <1>1 DEF Subs!Next, Subs!Import, Subs!Adopt, Subs!Preflight, Subs!Unlink, Subs!Ignore, Subs!Drop, Subs!Kill, Subs!Work,
     Subs!Commit, Subs!Acts, Subs!Quiet
<1>3. torn' = TRUE
  BY <1>1 DEF Subs!Next, Subs!Import, Subs!Adopt, Subs!Preflight, Subs!Unlink, Subs!Ignore, Subs!Drop, Subs!Kill, Subs!Work,
     Subs!Commit, Subs!Acts, Subs!End
<1> QED
  BY <1>2, <1>3 DEF ConversionInv

LEMMA ConversionStep == ASSUME ConversionInv, Subs!Next PROVE ConversionInv'
<1>1. CASE torn
  BY <1>1, CutStays
<1>2. CASE ~torn
  BY <1>2, ImportWhole, AdoptWhole, PreflightWhole, UnlinkWhole, IgnoreWhole, DropWhole, KillWhole, WorkWhole,
     CommitWhole DEF Subs!Next
<1> QED
  BY <1>1, <1>2

LEMMA ConversionRests == ASSUME ConversionInv, UNCHANGED Subs!vars PROVE ConversionInv'
BY DEF Subs!vars, ConversionInv, Whole, ConversionTyped, Between, Midway, Walked, OneLevel, Asked, Ahead, Later, Levels1,
   Subs!Level,
       Unconverted, AllConverted, Subs!Converted, Subs!Idle

-----------------------------------------------------------------------------
(* A checkout beside the others *)

ConversionShared == which = "submodules" => ConversionInv

LEMMA ConversionKeeps == (InitOne => ConversionShared) /\ (ConversionShared /\ [OneRuns]_all => ConversionShared')
<1>1. InitOne => ConversionShared
  BY StartsWhole DEF InitOne, ConversionShared
<1>2. ASSUME ConversionShared, [OneRuns]_all PROVE ConversionShared'
  <2>1. CASE Adopting
    BY <1>2, <2>1, ConversionStep DEF ConversionShared, Adopting
  <2>2. CASE Registering \/ Travelling
    <3>1. which' = which /\ which # "submodules"
      BY <2>2 DEF Registering, Travelling
    <3> QED
      BY <3>1 DEF ConversionShared
  <2>3. CASE UNCHANGED all
    <3>1. UNCHANGED Subs!vars /\ which' = which
      BY <2>3 DEF all, submodulesOnly, Subs!vars
    <3> QED
      BY <1>2, <3>1, ConversionRests DEF ConversionShared
  <2> QED
    BY <1>2, <2>1, <2>2, <2>3 DEF OneRuns
<1> QED
  BY <1>1, <1>2

\* However the repositories are nested and whatever people do in between: a conversion nobody
\* disturbs does every submodule at every depth or none, and one that says it is done left each
\* ignored by its holder and no .gitmodules, unless an earlier command was cut.
THEOREM ConversionsAreWhole == Shared => []ConversionIsWhole
<1>1. ConversionShared => ConversionIsWhole
  BY ConversionSays DEF ConversionShared, ConversionIsWhole
<1> QED
  BY <1>1, ConversionKeeps, PTL DEF Shared

-----------------------------------------------------------------------------
(* One memory on several machines: its ledgers *)

\* A bounded set of numbers has a highest.
LEMMA HasMax ==
  ASSUME NEW S, S \subseteq Nat, S # {}, NEW n \in Nat, \A x \in S : x <= n
  PROVE  Mem!Max(S) \in S /\ \A x \in S : Mem!Max(S) >= x
<1> DEFINE U == {k \in Nat : \A x \in S : x <= k}
<1>1. U \subseteq Nat /\ U # {}
  OBVIOUS
<1>2. PICK k \in U : \A y \in U : <<y, k>> \notin OpToRel(<, Nat)
  BY <1>1, WFMin, NatLessThanWellFounded
<1>3. \A y \in U : ~(y < k)
  BY <1>2 DEF OpToRel
<1>4. k \in S
  <2> SUFFICES ASSUME k \notin S PROVE FALSE
    OBVIOUS
  <2>1. PICK x \in S : TRUE
    OBVIOUS
  <2>2. \A y \in S : y \in Nat /\ y < k
    OBVIOUS
  <2>3. k - 1 \in Nat /\ \A y \in S : y <= k - 1
    BY <2>1, <2>2
  <2>4. k - 1 \in U
    BY <2>3
  <2> QED
    BY <2>4, <1>3
<1> QED
  BY <1>4 DEF Mem!Max

\* A sequence, of whatever its elements are.
Entry(e) == e \in Seq({e[i] : i \in DOMAIN e})
\* The files of a ledger: finitely many entries, so their numbers have a highest.
Sheaf(L) ==
    /\ IsFiniteSet(L)
    /\ \A e \in L : Entry(e)
    /\ \E n \in Nat : \A e \in L : Len(e) <= n

LEMMA EntryLen == ASSUME NEW e, Entry(e) PROVE Len(e) \in Nat
BY DEF Entry

LEMMA EntryOf == ASSUME NEW S, NEW e \in Seq(S) PROVE Entry(e)
<1> DEFINE V == {e[i] : i \in DOMAIN e}
<1>1. e \in [1..Len(e) -> V] /\ Len(e) \in Nat
  OBVIOUS
<1> QED
  BY <1>1 DEF Entry

LEMMA EntryNone == Entry(<< >>) /\ Len(<< >>) = 0
<1>1. << >> \in Seq({}) /\ Len(<< >>) = 0
  OBVIOUS
<1> QED
  BY <1>1, EntryOf

LEMMA EntryNext ==
  ASSUME NEW e, Entry(e), NEW r
  PROVE  /\ Entry(Append(e, r))
         /\ Len(Append(e, r)) = Len(e) + 1
         /\ Mem!OwnRecord(Append(e, r)) = r
<1> DEFINE V == {e[i] : i \in DOMAIN e} \cup {r}
<1>1. e \in Seq(V)
  BY DEF Entry
<1>2. Append(e, r) \in Seq(V) /\ Len(Append(e, r)) = Len(e) + 1 /\ Append(e, r)[Len(e) + 1] = r
  BY <1>1
<1> QED
  BY <1>2, EntryOf DEF Mem!OwnRecord

LEMMA SheafNone == Sheaf({})
BY FS_EmptySet DEF Sheaf

LEMMA SheafOne == ASSUME NEW e, Entry(e) PROVE Sheaf({e})
<1>1. IsFiniteSet({e}) /\ Len(e) \in Nat /\ Len(e) <= Len(e)
  BY FS_Singleton, EntryLen
<1> QED
  BY <1>1 DEF Sheaf

LEMMA SheafPart == ASSUME NEW L, NEW M, Sheaf(L), M \subseteq L PROVE Sheaf(M)
BY FS_Subset DEF Sheaf

LEMMA SheafBoth == ASSUME NEW L, NEW M, Sheaf(L), Sheaf(M) PROVE Sheaf(L \cup M)
<1>1. IsFiniteSet(L \cup M) /\ \A e \in L \cup M : Entry(e)
  BY FS_Union DEF Sheaf
<1>2. PICK n \in Nat : \A e \in L : Len(e) <= n
  BY DEF Sheaf
<1>3. PICK k \in Nat : \A e \in M : Len(e) <= k
  BY DEF Sheaf
<1>4. \A e \in L \cup M : Len(e) \in Nat
  BY EntryLen DEF Sheaf
<1>5. \A e \in L \cup M : Len(e) <= n + k
  BY <1>2, <1>3, <1>4
<1> QED
  BY <1>1, <1>5 DEF Sheaf

LEMMA SheafFolded == ASSUME NEW L, NEW M, Sheaf(L), Sheaf(M) PROVE Sheaf(Mem!Folded(L, M))
BY SheafBoth, SheafPart DEF Mem!Folded

\* The last entry of two halves is one of theirs, or none, and no other has a higher number.
LEMMA LastIs ==
  ASSUME NEW L, NEW M, Sheaf(L), Sheaf(M)
  PROVE  /\ Entry(Mem!LastEntry(L, M))
         /\ \A e \in L \cup M : Len(e) <= Len(Mem!LastEntry(L, M))
<1> DEFINE S == {Len(e) : e \in L \cup M} \cup {0}
           top == Mem!Max(S)
<1>1. Sheaf(L \cup M)
  BY SheafBoth
<1>2. \A e \in L \cup M : Entry(e) /\ Len(e) \in Nat
  BY <1>1, EntryLen DEF Sheaf
<1>3. PICK n \in Nat : \A e \in L \cup M : Len(e) <= n
  BY <1>1 DEF Sheaf
<1>4. S \subseteq Nat /\ S # {} /\ \A x \in S : x <= n
  BY <1>2, <1>3
<1>5. top \in S /\ \A x \in S : top >= x
  <2> HIDE DEF S
  <2> QED
    BY <1>4, HasMax
<1>6. top \in Nat /\ \A e \in L \cup M : Len(e) <= top
  BY <1>5, <1>4, <1>2
<1>7. CASE top = 0
  <2>1. Mem!LastEntry(L, M) = << >>
    BY <1>7 DEF Mem!LastEntry
  <2> QED
    BY <2>1, EntryNone, <1>6, <1>7
<1>8. CASE top # 0
  <2> DEFINE from == IF \E p \in M : Len(p) = top THEN M ELSE L
  <2>1. Mem!LastEntry(L, M) = CHOOSE e \in from : Len(e) = top
    BY <1>8 DEF Mem!LastEntry
  <2>2. \E e \in L \cup M : Len(e) = top
    BY <1>5, <1>8
  <2>3. \E e \in from : Len(e) = top
    BY <2>2
  <2>4. from \subseteq L \cup M
    OBVIOUS
  <2>5. Mem!LastEntry(L, M) \in from /\ Len(Mem!LastEntry(L, M)) = top
    BY <2>1, <2>3
  <2> QED
    BY <2>4, <2>5, <1>2, <1>6
<1> QED
  BY <1>7, <1>8

\* Its front is what an entry is chained to; records are the last elements.
LEMMA SheafPicked ==
  ASSUME NEW b, NEW h, NEW t, Sheaf(b), Sheaf(h), Sheaf(t)
  PROVE  Sheaf(Mem!MergedAll(b, h, t))
<1>1. Mem!MergedAll(b, h, t) \subseteq h \cup t
  BY DEF Mem!MergedAll, Mem!Merged, Mem!At
<1> QED
  BY <1>1, SheafBoth, SheafPart

LEMMA ImageFinite == ASSUME NEW S, NEW f, f = [x \in S |-> f[x]], IsFiniteSet(S) PROVE IsFiniteSet({f[x] : x \in S})
<1> DEFINE T == {f[x] : x \in S}
<1>1. f \in Surjection(S, T)
  BY DEF Surjection
<1> QED
  BY <1>1, FS_Surjection

LEMMA NewFinite == ASSUME NEW b, NEW h, NEW side, Sheaf(h) PROVE IsFiniteSet(Mem!NewOn(b, h, side))
<1> DEFINE S == {x \in h : Mem!At(b, Len(x)) = {}}
           f == [e \in S |-> <<Mem!OwnRecord(e), side>>]
<1>1. IsFiniteSet(S)
  BY FS_Subset DEF Sheaf
<1>2. Mem!NewOn(b, h, side) = {f[e] : e \in S}
  BY DEF Mem!NewOn
<1>3. f = [e \in S |-> f[e]]
  OBVIOUS
<1> HIDE DEF S, f
<1> QED
  BY <1>1, <1>2, <1>3, ImageFinite

LEMMA CountIs == \A S : Mem!Cardinality(S) = Cardinality(S)
BY Zenon DEF Mem!Cardinality, Cardinality

\* A splice is finite: its records are those of the two sides, counted.
LEMMA SheafSpliced ==
  ASSUME NEW b, NEW h, NEW t, Sheaf(b), Sheaf(h), Sheaf(t)
  PROVE  Sheaf(Mem!Spliced(b, h, t))
<1> DEFINE last == Mem!LastEntry(b, {})
           new  == Mem!NewOn(b, h, 1) \cup Mem!NewOn(b, t, 2)
           olds == Mem!Originals(b, h, t)
           size == Cardinality(new)
           recs == [i \in DOMAIN olds |-> olds[i][1]]
           woven  == {last \o SubSeq(recs, 1, k) : k \in DOMAIN recs}
<1>1. Entry(last)
  BY LastIs, SheafNone
<1>2. size \in Nat
  BY NewFinite, FS_Union, FS_CardinalityType
<1>3. DOMAIN olds = 1..size
  BY CountIs DEF Mem!Originals
<1>4. DOMAIN recs = 1..size
  BY <1>3
<1>5. PICK V : recs \in [1..size -> V] /\ last \in Seq(V)
  <2> DEFINE V == {recs[i] : i \in DOMAIN recs} \cup {last[i] : i \in DOMAIN last}
  <2>1. recs \in [1..size -> V]
    BY <1>4
  <2>2. last \in Seq(V)
    BY <1>1 DEF Entry
  <2> QED
    BY <2>1, <2>2
<1> HIDE DEF olds, recs, last, size
<1>6. recs \in Seq(V)
  BY <1>2, <1>5
<1>7. \A k \in 1..size : /\ last \o SubSeq(recs, 1, k) \in Seq(V)
                         /\ Len(last \o SubSeq(recs, 1, k)) = Len(last) + k
  BY <1>2, <1>4, <1>5, <1>6
<1>8. IsFiniteSet(woven)
  <2> DEFINE f == [k \in 1..size |-> last \o SubSeq(recs, 1, k)]
  <2>1. woven = {f[k] : k \in 1..size}
    BY <1>4
  <2>2. IsFiniteSet(1..size)
    BY <1>2, FS_Interval
  <2>3. f = [k \in 1..size |-> f[k]]
    OBVIOUS
  <2> HIDE DEF f, woven
  <2> QED
    BY <2>1, <2>2, <2>3, ImageFinite
<1>9. Sheaf(woven)
  <2>1. \A e \in woven : Entry(e)
    BY <1>7, <1>4, EntryOf
  <2>2. \A e \in woven : Len(e) <= Len(last) + size
    BY <1>2, <1>7, <1>4, <1>5
  <2>3. Len(last) + size \in Nat
    BY <1>2, <1>5
  <2> QED
    BY <1>8, <2>1, <2>2, <2>3 DEF Sheaf
<1>10. Sheaf(woven \cup Mem!MergedAll(b, h, t))
  BY <1>9, SheafPicked, SheafBoth
<1>11. Mem!Spliced(b, h, t) \subseteq woven \cup Mem!MergedAll(b, h, t)
  BY DEF Mem!Spliced, recs, olds, last
<1> QED
  BY <1>10, <1>11, SheafPart

-----------------------------------------------------------------------------
(* Its commits, and what a machine is in the middle of *)

\* What a commit's history and ledger are among given commits.
Past(cs, c)  == IF c = 0 THEN {} ELSE cs[c].past
FilesAt(cs, c) == IF c = 0 THEN {} ELSE cs[c].lgr
Reached(cs, refs) == UNION {Past(cs, refs[b]) : b \in Mem!Names}

\* A commit is in its own history, after what it descends from; the first is empty.
CommitsOk(cs) ==
    /\ Entry(cs) /\ Len(cs) \in Nat \ {0}
    /\ \A c \in 1..Len(cs) :
           /\ c \in cs[c].past /\ cs[c].past \subseteq 1..c
           /\ \A d \in cs[c].past : cs[d].past \subseteq cs[c].past
           /\ Sheaf(cs[c].lgr)
    /\ cs[1].lgr = {}

\* What was committed stays as it was.
Grown(cs, ct) ==
    /\ Len(ct) \in Nat /\ Len(cs) <= Len(ct)
    /\ \A c \in 1..Len(cs) : ct[c] = cs[c]

Refs(n) == [Mem!Names -> 0..n]

\* The fields of a machine.
Shaped(x) ==
    x = [git |-> x.git, tree |-> x.tree, declared |-> x.declared, on |-> x.on, local |-> x.local,
         track |-> x.track, up |-> x.up, remote |-> x.remote, wt |-> x.wt, pend |-> x.pend, at |-> x.at]

MachineTyped(x, n) ==
    /\ Shaped(x)
    /\ x.git \in {"none", "defaulted", "published"}
    /\ x.tree \in Mem!Projects
    /\ x.on \in Mem!Live \cup {Mem!Base}
    /\ x.local \in Refs(n) /\ x.track \in Refs(n)
    /\ x.up \in [Mem!Names -> Mem!Names \cup {None}]
    /\ Sheaf(x.wt) /\ Sheaf(x.pend)

Committed(x, cs) == x.wt = FilesAt(cs, x.local[x.on])
\* A fold into these files replaces none.
Spares(x) == \A e \in x.wt, p \in x.pend : Len(e) < Len(p)

IsMerge(job) ==
    /\ job = [op |-> "merge", source |-> job.source, target |-> job.target, keep |-> job.keep]
    /\ job.source \in Mem!Live /\ job.target \in Mem!Live

\* A kept memory under adoption is what it was, but for its name, its remote and its marker.
Renamed(x, was, n) ==
    /\ was.git = "defaulted" /\ was.on \in Mem!Live \cup {Mem!Base} /\ was.local \in Refs(n)
    /\ x.wt = was.wt /\ x.pend = was.pend
    /\ x.local = [was.local EXCEPT ![was.on] = 0, ![x.on] = was.local[was.on]]
    /\ x.on # was.on => was.local[x.on] = 0
    /\ x.track = Mem!NoRef

\* What the machine is in the middle of.
Amid(x, cs) ==
    \/ x.at = Mem!Idle
    \/ /\ x.at = [op |-> "send", branch |-> x.at.branch, track |-> x.at.track, then |-> x.at.then]
       /\ x.git = "published" /\ x.at.branch \in Mem!Live
       /\ \/ x.at.then = Mem!Idle
          \/ IsMerge(x.at.then) /\ Committed(x, cs)
          \/ x.at.then = [op |-> "archive", branch |-> x.on] /\ x.at.branch = x.on /\ Committed(x, cs)
    \/ IsMerge(x.at) /\ Committed(x, cs) /\ x.git # "none"
    \/ /\ x.at \in [op : {"archive", "delete", "orphan"}, branch : {x.on}]
       /\ x.on \in Mem!Live /\ x.git = "published" /\ Committed(x, cs)
       /\ x.at.op # "archive" => x.local[Mem!Archive(x.on)] = 0
    \/ /\ x.at = [op |-> "join", kept |-> x.at.kept, reboot |-> x.at.reboot, was |-> x.at.was]
       /\ x.git = "published" /\ x.at.kept \in BOOLEAN /\ x.on \in Mem!Live
       /\ IF x.at.kept THEN Renamed(x, x.at.was, Len(cs)) ELSE x.wt = {} /\ x.local = Mem!NoRef

MachineOk(x, cs) ==
    /\ Committed(x, cs) \/ Spares(x)
    /\ x.git = "none" => x.wt = {} /\ x.local = Mem!NoRef /\ x.track = Mem!NoRef /\ x.at = Mem!Idle
    /\ x.git = "defaulted" => x.track = Mem!NoRef /\ (x.at = Mem!Idle \/ IsMerge(x.at))
    /\ Amid(x, cs)

\* The records a machine has.
RecordsOn(x, cs) ==
    {Mem!OwnRecord(e) : e \in x.wt \cup x.pend \cup UNION {FilesAt(cs, c) : c \in Reached(cs, x.local)}}

\* A memory nobody has published yet.
Private(x) == x.git = "defaulted" \/ (x.at.op = "join" /\ x.at.kept)

\* Nothing of an unpublished memory is on another machine.
Apart(p, o, cs) ==
    Reached(cs, mach[p].local) \cap (Reached(cs, mach[o].local) \cup Reached(cs, mach[o].track)) = {}

\* Every record is on some machine, and nobody else has a commit of a memory nobody published.
MachinesInv ==
    /\ CommitsOk(commits)
    /\ origin \in Refs(Len(commits)) /\ origin[Mem!Base] = 1
    /\ records \in Nat
    /\ mach = [m \in Machines |-> mach[m]]
    /\ \A m \in Machines : MachineTyped(mach[m], Len(commits)) /\ MachineOk(mach[m], commits)
    /\ 1..records \subseteq UNION {RecordsOn(mach[m], commits) : m \in Machines}
    /\ \A p \in Machines : Private(mach[p]) =>
           /\ Reached(commits, mach[p].local) \cap Reached(commits, origin) = {}
           /\ \A o \in Machines \ {p} : Apart(p, o, commits)

\* One step of one machine, its new record and what it does to what the others see.
Moved(x, y, cs, ct, rs) ==
    /\ CommitsOk(ct) /\ Grown(cs, ct)
    /\ MachineTyped(y, Len(ct)) /\ MachineOk(y, ct)
    /\ RecordsOn(x, cs) \subseteq RecordsOn(y, ct)
    /\ rs = records \/ (rs = records + 1 /\ records + 1 \in RecordsOn(y, ct))
    /\ Private(y) => Private(x) \/ x.git = "none"
    /\ \A c \in Reached(ct, y.local) \cup Reached(ct, y.track) :
           \/ c > Len(cs)
           \/ c \in Reached(cs, x.local)
           \/ ~Private(y) /\ c \in Reached(cs, x.track) \cup Reached(cs, origin)
\* And what it does to origin: nothing, or a branch of its own published memory.
Moves(m, y) ==
    /\ mach' = [mach EXCEPT ![m] = y]
    /\ Moved(mach[m], y, commits, commits', records')
    /\ origin' \in Refs(Len(commits)) /\ origin'[Mem!Base] = 1
    /\ \/ origin' = origin
       \/ /\ ~Private(mach[m]) /\ ~Private(y)
          /\ Reached(commits, origin') \subseteq Reached(commits, origin) \cup Reached(commits, mach[m].local)

-----------------------------------------------------------------------------
(* Histories *)

LEMMA HistoryIs == \A c : Mem!History(c) = Past(commits, c) /\ Mem!Ledger(c) = FilesAt(commits, c)
BY DEF Mem!History, Past, Mem!Ledger, FilesAt

LEMMA NamesAre ==
  /\ Mem!Live \subseteq Mem!Names /\ Mem!Base \in Mem!Names /\ Mem!Base \notin Mem!Live
  /\ \A b \in Mem!Live : Mem!Archive(b) \in Mem!Names /\ Mem!Archive(b) \notin Mem!Live /\ Mem!Archive(b) # Mem!Base
  /\ \A b \in Mem!Projects : Mem!Derived(b) \in Mem!Live
BY DEF Mem!Live, Mem!Names, Mem!Base, Mem!Archive, Mem!Projects, Mem!Derived

LEMMA PastIn ==
  ASSUME NEW cs, CommitsOk(cs), NEW c \in 0..Len(cs)
  PROVE  /\ Past(cs, c) \subseteq 1..c
         /\ Past(cs, c) \subseteq 1..Len(cs)
         /\ c # 0 => c \in Past(cs, c)
         /\ Sheaf(FilesAt(cs, c))
         /\ \A d \in Past(cs, c) : Past(cs, d) \subseteq Past(cs, c)
BY SheafNone DEF CommitsOk, Past, FilesAt

LEMMA LaterIs ==
  ASSUME NEW cs, NEW ct, CommitsOk(cs), Grown(cs, ct)
  PROVE  /\ \A c \in 0..Len(cs) : Past(ct, c) = Past(cs, c) /\ FilesAt(ct, c) = FilesAt(cs, c)
         /\ \A refs \in Refs(Len(cs)) : refs \in Refs(Len(ct)) /\ Reached(ct, refs) = Reached(cs, refs)
<1>1. \A c \in 0..Len(cs) : Past(ct, c) = Past(cs, c) /\ FilesAt(ct, c) = FilesAt(cs, c)
  BY DEF CommitsOk, Grown, Past, FilesAt
<1>2. ASSUME NEW refs \in Refs(Len(cs)) PROVE refs \in Refs(Len(ct)) /\ Reached(ct, refs) = Reached(cs, refs)
  <2>1. \A b \in Mem!Names : refs[b] \in 0..Len(cs)
    BY DEF Refs
  <2>2. refs \in Refs(Len(ct))
    BY DEF Refs, Grown, CommitsOk
  <2> QED
    BY <2>1, <2>2, <1>1 DEF Reached
<1> QED
  BY <1>1, <1>2

LEMMA SameLater == ASSUME NEW cs, CommitsOk(cs) PROVE Grown(cs, cs)
BY DEF CommitsOk, Grown

LEMMA ReachedIn ==
  ASSUME NEW cs, CommitsOk(cs), NEW refs \in Refs(Len(cs))
  PROVE  Reached(cs, refs) \subseteq 1..Len(cs)
BY PastIn DEF Reached, Refs

\* Branches reach what each of them does, and no more.
LEMMA ReachedHas ==
  ASSUME NEW cs, NEW refs, NEW n \in Mem!Names
  PROVE  Past(cs, refs[n]) \subseteq Reached(cs, refs)
BY DEF Reached

LEMMA ReachedUp ==
  ASSUME NEW cs, NEW refs, NEW S, \A n \in Mem!Names : Past(cs, refs[n]) \subseteq S
  PROVE  Reached(cs, refs) \subseteq S
BY DEF Reached

\* A branch that takes the place of another.
LEMMA TakesPlace ==
  ASSUME NEW k \in Nat, NEW f \in Refs(k), NEW a \in Mem!Names, NEW b \in Mem!Names, NEW h \in 0..k,
         NEW g, g = [f EXCEPT ![a] = 0, ![b] = h]
  PROVE  /\ g \in Refs(k) /\ g[b] = h
         /\ \A n \in Mem!Names : g[n] = IF n = b THEN h ELSE IF n = a THEN 0 ELSE f[n]
BY DEF Refs

\* A new commit is after its parents and all they descend from.
LEMMA MadeIs ==
  ASSUME CommitsOk(commits), NEW P \in SUBSET (0..Len(commits)), NEW L, Sheaf(L), NEW ct, ct = Mem!Made(P, L)
  PROVE  /\ CommitsOk(ct) /\ Grown(commits, ct)
         /\ Mem!Next1 = Len(commits) + 1 /\ Len(ct) = Mem!Next1
         /\ Past(ct, Mem!Next1) = {Mem!Next1} \cup UNION {Past(commits, c) : c \in P}
         /\ FilesAt(ct, Mem!Next1) = L
<1> DEFINE new == [past |-> {Mem!Next1} \cup UNION {Past(commits, c) : c \in P}, lgr |-> L]
           n   == Len(commits)
           V   == {commits[i] : i \in DOMAIN commits} \cup {new}
<1>1. ct = Append(commits, new)
  BY HistoryIs DEF Mem!Made
<1>2. commits \in Seq(V) /\ new \in V /\ n \in Nat
  BY DEF CommitsOk, Entry
<1> HIDE DEF V, new
<1>3. ct \in Seq(V) /\ Len(ct) = n + 1 /\ ct[n + 1] = new /\ \A c \in 1..n : ct[c] = commits[c]
  BY <1>1, <1>2
<1> USE DEF new
<1>4. Mem!Next1 = n + 1 /\ Grown(commits, ct)
  BY <1>2, <1>3 DEF Mem!Next1, Grown
<1>5. Past(ct, Mem!Next1) = {Mem!Next1} \cup UNION {Past(commits, c) : c \in P} /\ FilesAt(ct, Mem!Next1) = L
  BY <1>2, <1>3, <1>4 DEF Past, FilesAt
<1>6. Entry(ct)
  BY <1>3, EntryOf
<1>7. ASSUME NEW c \in 1..Len(ct)
      PROVE  /\ c \in ct[c].past /\ ct[c].past \subseteq 1..c
             /\ \A d \in ct[c].past : ct[d].past \subseteq ct[c].past
             /\ Sheaf(ct[c].lgr)
  <2>1. CASE c # n + 1
    <3>1. c \in 1..n /\ ct[c] = commits[c]
      BY <1>2, <1>3, <2>1
    <3>2. /\ c \in commits[c].past /\ commits[c].past \subseteq 1..c
          /\ \A d \in commits[c].past : commits[d].past \subseteq commits[c].past
          /\ Sheaf(commits[c].lgr)
      BY <3>1 DEF CommitsOk
    <3>3. \A d \in commits[c].past : ct[d] = commits[d]
      BY <3>1, <3>2, <1>2, <1>3
    <3> QED
      BY <3>1, <3>2, <3>3
  <2>2. CASE c = n + 1
    <3>1. \A p \in P : /\ Past(commits, p) \subseteq 1..n
                       /\ \A d \in Past(commits, p) : Past(commits, d) \subseteq Past(commits, p)
      BY PastIn
    <3>2. ct[c].past = {n + 1} \cup UNION {Past(commits, p) : p \in P} /\ ct[c].lgr = L
      BY <1>3, <1>4, <2>2
    <3>3. ct[c].past \subseteq 1..c
      BY <3>1, <3>2, <2>2, <1>2
    <3>4. ASSUME NEW d \in ct[c].past PROVE ct[d].past \subseteq ct[c].past
      <4>1. CASE d = c
        BY <4>1
      <4>2. CASE d # c
        <5>1. PICK p \in P : d \in Past(commits, p)
          BY <3>2, <4>2, <2>2
        <5>2. d \in 1..n /\ ct[d] = commits[d]
          BY <5>1, <3>1, <1>3
        <5>3. ct[d].past = Past(commits, d)
          BY <5>2, <1>2 DEF Past
        <5> QED
          BY <5>1, <5>3, <3>1, <3>2
      <4> QED
        BY <4>1, <4>2
    <3> QED
      BY <3>2, <3>3, <3>4, <2>2
  <2> QED
    BY <2>1, <2>2
<1>8. ct[1].lgr = {}
  BY <1>3, <1>2 DEF CommitsOk
<1> QED
  BY <1>2, <1>3, <1>4, <1>5, <1>6, <1>7, <1>8 DEF CommitsOk

-----------------------------------------------------------------------------
(* A step of one machine, as the others see it *)

\* A machine that does nothing keeps what it has when others commit.
LEMMA RestsOk ==
  ASSUME NEW x, NEW cs, NEW ct, CommitsOk(cs), Grown(cs, ct), MachineTyped(x, Len(cs)), MachineOk(x, cs)
  PROVE  MachineTyped(x, Len(ct)) /\ MachineOk(x, ct) /\ RecordsOn(x, ct) = RecordsOn(x, cs)
<1>1. x.local \in Refs(Len(cs)) /\ x.track \in Refs(Len(cs)) /\ x.on \in Mem!Names
  BY NamesAre DEF MachineTyped
<1>2. \A c \in 0..Len(cs) : FilesAt(ct, c) = FilesAt(cs, c)
  BY LaterIs
<1>3. \A r \in Refs(Len(cs)) : r \in Refs(Len(ct)) /\ Reached(ct, r) = Reached(cs, r)
  BY LaterIs
<1>4. MachineTyped(x, Len(ct))
  BY <1>1, <1>3 DEF MachineTyped
<1>5. Committed(x, ct) <=> Committed(x, cs)
  BY <1>1, <1>2 DEF Committed, Refs
<1>6. \A y, was : Renamed(y, was, Len(cs)) => Renamed(y, was, Len(ct))
  BY <1>3 DEF Renamed
<1>7. MachineOk(x, ct)
  BY <1>5, <1>6 DEF MachineOk, Amid
<1>8. RecordsOn(x, ct) = RecordsOn(x, cs)
  <2>1. Reached(cs, x.local) \subseteq 1..Len(cs)
    BY <1>1, ReachedIn
  <2>2. \A c \in Reached(cs, x.local) : FilesAt(ct, c) = FilesAt(cs, c)
    BY <2>1, <1>2
  <2>3. Reached(ct, x.local) = Reached(cs, x.local)
    BY <1>1, <1>3
  <2> QED
    BY <2>2, <2>3 DEF RecordsOn
<1> QED
  BY <1>4, <1>7, <1>8

\* Such a step keeps the invariant: the others stand where they stood.
LEMMA MovesKeep ==
  ASSUME MachinesInv, NEW m \in Machines, NEW y, Moves(m, y)
  PROVE  MachinesInv'
<1> DEFINE n == Len(commits)
           x == mach[m]
<1>1. CommitsOk(commits) /\ CommitsOk(commits)' /\ Grown(commits, commits')
  BY DEF MachinesInv, Moves, Moved
<1>2. origin' \in Refs(Len(commits)) /\ origin' \in Refs(Len(commits'))
      /\ Reached(commits', origin') = Reached(commits, origin')
  BY <1>1, LaterIs DEF Moves
<1>3. mach'[m] = y /\ \A o \in Machines \ {m} : mach'[o] = mach[o]
  BY DEF MachinesInv, Moves
<1>4. (mach = [o \in Machines |-> mach[o]])'
  BY DEF MachinesInv, Moves
<1>5. ASSUME NEW o \in Machines \ {m}
      PROVE  /\ MachineTyped(mach[o], Len(commits')) /\ MachineOk(mach[o], commits')
             /\ RecordsOn(mach[o], commits') = RecordsOn(mach[o], commits)
             /\ Reached(commits', mach[o].local) = Reached(commits, mach[o].local)
             /\ Reached(commits', mach[o].track) = Reached(commits, mach[o].track)
             /\ Reached(commits, mach[o].local) \cup Reached(commits, mach[o].track) \subseteq 1..n
  <2>1. MachineTyped(mach[o], n) /\ MachineOk(mach[o], commits)
    BY DEF MachinesInv
  <2>2. mach[o].local \in Refs(n) /\ mach[o].track \in Refs(n)
    BY <2>1 DEF MachineTyped
  <2> QED
    BY <2>1, <2>2, <1>1, RestsOk, LaterIs, ReachedIn
<1>6. MachineTyped(y, Len(commits')) /\ MachineOk(y, commits')
  BY DEF Moves, Moved
<1>7. (\A o \in Machines : MachineTyped(mach[o], Len(commits)) /\ MachineOk(mach[o], commits))'
  BY <1>3, <1>5, <1>6
<1>8. (1..records \subseteq UNION {RecordsOn(mach[o], commits) : o \in Machines})' /\ records' \in Nat
  <2> DEFINE new(o) == RecordsOn(mach'[o], commits')
  <2>1. \A o \in Machines : RecordsOn(mach[o], commits) \subseteq new(o)
    BY <1>3, <1>5 DEF Moves, Moved
  <2>2. 1..records \subseteq UNION {RecordsOn(mach[o], commits) : o \in Machines} /\ records \in Nat
    BY DEF MachinesInv
  <2>3. records' = records \/ (records' = records + 1 /\ records + 1 \in new(m))
    BY <1>3 DEF Moves, Moved
  <2> HIDE DEF new
  <2>4. \A r \in 1..records : \E o \in Machines : r \in new(o)
    BY <2>1, <2>2
  <2>5. \A r \in 1..records' : \E o \in Machines : r \in new(o)
    BY <2>2, <2>3, <2>4
  <2> USE DEF new
  <2> QED
    BY <2>2, <2>3, <2>5
<1>9. x.git = "none" => Reached(commits, x.local) = {}
  <2>1. MachineTyped(x, n) /\ MachineOk(x, commits)
    BY DEF MachinesInv
  <2>2. x.git = "none" => x.local = Mem!NoRef
    BY <2>1 DEF MachineOk
  <2> QED
    BY <2>1, <2>2 DEF MachineTyped, Reached, Mem!NoRef, Past
<1>10. Reached(commits, origin) \cup Reached(commits, origin') \cup Reached(commits, x.local)
           \cup Reached(commits, x.track) \subseteq 1..n
  BY <1>1, <1>2, ReachedIn DEF MachinesInv, MachineTyped
<1>11. Private(y) => /\ Reached(commits', y.track) = {}
                     /\ \A c \in Reached(commits', y.local) : c > n \/ c \in Reached(commits, x.local)
  <2> SUFFICES ASSUME Private(y) PROVE Reached(commits', y.track) = {}
                     /\ \A c \in Reached(commits', y.local) : c > n \/ c \in Reached(commits, x.local)
    OBVIOUS
  <2>1. y.track = Mem!NoRef
    BY <1>6 DEF Private, MachineOk, Amid, IsMerge, Mem!Idle, Renamed
  <2> QED
    BY <2>1 DEF Moves, Moved, Reached, Mem!NoRef, Past
<1>12. \A c \in Reached(commits', y.local) \cup Reached(commits', y.track) :
           c > n \/ c \in Reached(commits, x.local) \cup Reached(commits, x.track) \cup Reached(commits, origin)
  BY DEF Moves, Moved
<1>13. ASSUME NEW p \in Machines, NEW q \in Machines, p # q, Private(mach[p])
       PROVE  /\ Reached(commits, mach[p].local) \cap Reached(commits, origin) = {}
              /\ Reached(commits, mach[p].local) \cap (Reached(commits, mach[q].local)
                     \cup Reached(commits, mach[q].track)) = {}
  BY <1>13 DEF MachinesInv, Apart
<1>14. ASSUME NEW p \in Machines, Private(mach'[p])
       PROVE  /\ Reached(commits', mach'[p].local) \cap Reached(commits', origin') = {}
              /\ \A o \in Machines \ {p} :
                     Reached(commits', mach'[p].local)
                         \cap (Reached(commits', mach'[o].local) \cup Reached(commits', mach'[o].track)) = {}
  <2>1. CASE p = m
    <3>1. Private(y) /\ mach'[p] = y
      BY <2>1, <1>3, <1>14
    <3>2. Private(x) \/ Reached(commits, x.local) = {}
      BY <3>1, <1>9 DEF Moves, Moved
    <3>3. origin' = origin
      BY <3>1 DEF Moves
    <3>4. Reached(commits, x.local) \cap Reached(commits, origin) = {}
      BY <3>2 DEF MachinesInv
    <3>5. \A c \in Reached(commits, origin) : c \in 1..n
      BY <1>10
    <3>6. Reached(commits', mach'[p].local) \cap Reached(commits', origin') = {}
      BY <3>1, <3>3, <3>4, <3>5, <1>2, <1>11
    <3>7. ASSUME NEW o \in Machines \ {p}
          PROVE  Reached(commits', mach'[p].local)
                     \cap (Reached(commits', mach'[o].local) \cup Reached(commits', mach'[o].track)) = {}
      <4>1. mach'[o] = mach[o]
        BY <2>1, <1>3
      <4>2. Reached(commits, x.local) \cap (Reached(commits, mach[o].local) \cup Reached(commits, mach[o].track)) = {}
        BY <3>2, <1>13, <2>1
      <4>3. /\ Reached(commits', mach[o].local) = Reached(commits, mach[o].local)
            /\ Reached(commits', mach[o].track) = Reached(commits, mach[o].track)
            /\ \A c \in Reached(commits, mach[o].local) \cup Reached(commits, mach[o].track) : c \in 1..n
        BY <1>5, <2>1
      <4> QED
        BY <4>1, <4>2, <4>3, <3>1, <1>11
    <3> QED
      BY <3>6, <3>7
  <2>2. CASE p # m
    <3>1. mach'[p] = mach[p] /\ Private(mach[p])
      BY <2>2, <1>3, <1>14
    <3>2. /\ Reached(commits', mach[p].local) = Reached(commits, mach[p].local)
          /\ \A c \in Reached(commits, mach[p].local) : c \in 1..n
      BY <1>5, <2>2
    <3>3. /\ Reached(commits, mach[p].local) \cap Reached(commits, origin) = {}
          /\ Reached(commits, mach[p].local) \cap (Reached(commits, x.local) \cup Reached(commits, x.track)) = {}
      BY <3>1, <1>13, <2>2
    <3>4. Reached(commits', mach'[p].local) \cap Reached(commits', origin') = {}
      BY <3>1, <3>2, <3>3, <1>2 DEF Moves
    <3>5. Reached(commits', mach'[p].local) \cap (Reached(commits', y.local) \cup Reached(commits', y.track)) = {}
      BY <3>1, <3>2, <3>3, <1>12
    <3>6. ASSUME NEW o \in Machines \ {p}
          PROVE  Reached(commits', mach'[p].local)
                     \cap (Reached(commits', mach'[o].local) \cup Reached(commits', mach'[o].track)) = {}
      <4>1. CASE o = m
        BY <4>1, <3>5, <1>3
      <4>2. CASE o # m
        <5>1. mach'[o] = mach[o]
          BY <4>2, <1>3
        <5>2. Reached(commits, mach[p].local) \cap (Reached(commits, mach[o].local)
                  \cup Reached(commits, mach[o].track)) = {}
          BY <3>1, <1>13, <3>6
        <5> QED
          BY <5>1, <5>2, <3>1, <3>2, <1>5, <4>2
      <4> QED
        BY <4>1, <4>2
    <3> QED
      BY <3>4, <3>6
  <2> QED
    BY <2>1, <2>2
<1> QED
  BY <1>1, <1>2, <1>4, <1>7, <1>8, <1>14 DEF MachinesInv, Moves, Apart

-----------------------------------------------------------------------------
(* Declaring, recording, sending *)

\* What a machine has when it and its refs hold at least what they held.
LEMMA HoldsGrow ==
  ASSUME NEW cs, NEW ct, CommitsOk(cs), Grown(cs, ct), NEW x, NEW y, x.local \in Refs(Len(cs)),
         Reached(cs, x.local) \subseteq Reached(ct, y.local),
         \A e \in x.wt \cup x.pend :
             e \in y.wt \cup y.pend \/ \E c \in Reached(ct, y.local) : e \in FilesAt(ct, c)
  PROVE  RecordsOn(x, cs) \subseteq RecordsOn(y, ct)
<1>1. \A c \in Reached(cs, x.local) : c \in 0..Len(cs)
  BY ReachedIn
<1>2. \A c \in Reached(cs, x.local) : FilesAt(ct, c) = FilesAt(cs, c)
  BY <1>1, LaterIs
<1>3. ASSUME NEW e \in x.wt \cup x.pend \cup UNION {FilesAt(cs, c) : c \in Reached(cs, x.local)}
      PROVE  e \in y.wt \cup y.pend \cup UNION {FilesAt(ct, c) : c \in Reached(ct, y.local)}
  <2>1. CASE e \in x.wt \cup x.pend
    BY <2>1
  <2>2. CASE e \notin x.wt \cup x.pend
    <3>1. PICK c \in Reached(cs, x.local) : e \in FilesAt(cs, c)
      BY <2>2
    <3> QED
      BY <3>1, <1>2
  <2> QED
    BY <2>1, <2>2
<1> QED
  BY <1>3 DEF RecordsOn

\* The files of a committed ledger are among those of the head it was committed to.
LEMMA CommittedIs ==
  ASSUME NEW x, NEW cs, CommitsOk(cs), MachineTyped(x, Len(cs)), Committed(x, cs), NEW e \in x.wt
  PROVE  \E c \in Reached(cs, x.local) : e \in FilesAt(cs, c)
<1>1. x.on \in Mem!Names /\ x.local[x.on] \in 0..Len(cs)
  BY NamesAre DEF MachineTyped, Refs
<1>2. x.local[x.on] # 0 /\ e \in FilesAt(cs, x.local[x.on])
  BY DEF Committed, FilesAt
<1>3. x.local[x.on] \in Past(cs, x.local[x.on])
  BY <1>1, <1>2, PastIn
<1> QED
  BY <1>1, <1>2, <1>3 DEF Reached

\* A private memory follows no remote.
LEMMA PrivateHidden ==
  ASSUME NEW y, NEW cs, MachineOk(y, cs), Private(y)
  PROVE  y.track = Mem!NoRef /\ Reached(cs, y.track) = {}
<1>1. y.track = Mem!NoRef
  BY DEF Private, MachineOk, Amid, IsMerge, Mem!Idle, Renamed
<1> QED
  BY <1>1 DEF Reached, Mem!NoRef, Past

\* A step that only says what the machine is in the middle of, or what it is told.
LEMMA TellsMoves ==
  ASSUME MachinesInv, NEW m \in Machines, NEW y, mach' = [mach EXCEPT ![m] = y],
         Shaped(y), y.git = mach[m].git, y.tree = mach[m].tree, y.on = mach[m].on, y.local = mach[m].local,
         y.track = mach[m].track, y.up = mach[m].up, y.wt = mach[m].wt, y.pend = mach[m].pend,
         MachineOk(y, commits), Private(y) => Private(mach[m]),
         commits' = commits, origin' = origin, records' = records
  PROVE  MachinesInv'
<1>1. CommitsOk(commits) /\ Grown(commits, commits)
  BY SameLater DEF MachinesInv
<1>2. MachineTyped(mach[m], Len(commits)) /\ MachineTyped(y, Len(commits))
  BY DEF MachinesInv, MachineTyped
<1>3. RecordsOn(y, commits) = RecordsOn(mach[m], commits)
  BY DEF RecordsOn
<1>4. Private(y) => Reached(commits, y.track) = {}
  BY PrivateHidden
<1>5. Moved(mach[m], y, commits, commits', records')
  BY <1>1, <1>2, <1>3, <1>4 DEF Moved
<1>6. Moves(m, y)
  BY <1>5 DEF Moves, MachinesInv
<1> QED
  BY <1>6, MovesKeep

LEMMA Declares ==
  ASSUME NEW x, Shaped(x), NEW v, NEW y, y = [x EXCEPT !.declared = v]
  PROVE  /\ Shaped(y) /\ y.git = x.git /\ y.tree = x.tree /\ y.on = x.on /\ y.local = x.local
         /\ y.track = x.track /\ y.up = x.up /\ y.wt = x.wt /\ y.pend = x.pend /\ y.at = x.at
BY DEF Shaped

LEMMA DeclareKeeps == ASSUME MachinesInv, NEW m \in Machines, Mem!Declare(m) PROVE MachinesInv'
<1> DEFINE x == mach[m]
           y == [x EXCEPT !.declared = TRUE]
<1>1. mach' = [mach EXCEPT ![m] = y] /\ commits' = commits /\ origin' = origin /\ records' = records
  BY DEF Mem!Declare
<1>2. MachineTyped(x, Len(commits)) /\ MachineOk(x, commits)
  BY DEF MachinesInv
<1>3. /\ Shaped(y) /\ y.git = x.git /\ y.tree = x.tree /\ y.on = x.on /\ y.local = x.local
      /\ y.track = x.track /\ y.up = x.up /\ y.wt = x.wt /\ y.pend = x.pend /\ y.at = x.at
  <2>1. Shaped(x)
    BY <1>2 DEF MachineTyped
  <2> QED
    BY <2>1, Declares
<1> HIDE DEF y
<1>4. MachineOk(y, commits) /\ (Private(y) => Private(x))
  BY <1>2, <1>3 DEF MachineOk, Committed, Spares, Amid, Renamed, Private
<1> QED
  BY <1>1, <1>3, <1>4, TellsMoves

LEMMA AddRemoteKeeps == ASSUME MachinesInv, NEW m \in Machines, Mem!AddRemote(m) PROVE MachinesInv'
<1> DEFINE x == mach[m]
           y == [x EXCEPT !.remote = "hand"]
<1>1. mach' = [mach EXCEPT ![m] = y] /\ commits' = commits /\ origin' = origin /\ records' = records
  BY DEF Mem!AddRemote
<1>2. MachineTyped(x, Len(commits)) /\ MachineOk(x, commits)
  BY DEF MachinesInv
<1>3. /\ Shaped(y) /\ y.git = x.git /\ y.tree = x.tree /\ y.on = x.on /\ y.local = x.local
      /\ y.track = x.track /\ y.up = x.up /\ y.wt = x.wt /\ y.pend = x.pend /\ y.at = x.at
  BY <1>2 DEF MachineTyped, Shaped
<1> HIDE DEF y
<1>4. MachineOk(y, commits) /\ (Private(y) => Private(x))
  BY <1>2, <1>3 DEF MachineOk, Committed, Spares, Amid, Renamed, Private
<1> QED
  BY <1>1, <1>3, <1>4, TellsMoves

\* A command that ends where it stands: one that is refused, stopped or killed.
LEMMA EndsKeeps ==
  ASSUME MachinesInv, NEW m \in Machines, mach' = [mach EXCEPT ![m].at = Mem!Idle],
         commits' = commits, origin' = origin, records' = records
  PROVE  MachinesInv'
<1> DEFINE x == mach[m]
           y == [x EXCEPT !.at = Mem!Idle]
<1>1. mach' = [mach EXCEPT ![m] = y]
  OBVIOUS
<1>2. MachineTyped(x, Len(commits)) /\ MachineOk(x, commits)
  BY DEF MachinesInv
<1>3. /\ Shaped(y) /\ y.git = x.git /\ y.tree = x.tree /\ y.on = x.on /\ y.local = x.local
      /\ y.track = x.track /\ y.up = x.up /\ y.wt = x.wt /\ y.pend = x.pend /\ y.at = Mem!Idle
  BY <1>2 DEF MachineTyped, Shaped
<1> HIDE DEF y
<1>4. MachineOk(y, commits) /\ (Private(y) => Private(x))
  BY <1>2, <1>3 DEF MachineOk, Committed, Spares, Amid, Private, Mem!Idle
<1> QED
  BY <1>1, <1>3, <1>4, TellsMoves

LEMMA RefusedKeeps == ASSUME MachinesInv, NEW m \in Machines, Mem!SendRefused(m) PROVE MachinesInv'
BY EndsKeeps DEF Mem!SendRefused

LEMMA StopsKeeps == ASSUME MachinesInv, NEW m \in Machines, Mem!MergeStops(m) PROVE MachinesInv'
BY EndsKeeps DEF Mem!MergeStops

LEMMA KillKeeps == ASSUME MachinesInv, NEW m \in Machines, Mem!Kill(m) PROVE MachinesInv'
BY EndsKeeps DEF Mem!Kill

\* A State is noted above everything the machine has.
LEMMA NotedIs ==
  ASSUME MachinesInv, NEW x, Shaped(x), Sheaf(x.wt), Sheaf(x.pend), NEW y, y = Mem!Noted(x)
  PROVE  /\ Shaped(y) /\ y.git = x.git /\ y.tree = x.tree /\ y.on = x.on /\ y.local = x.local
         /\ y.track = x.track /\ y.up = x.up /\ y.wt = x.wt /\ y.at = x.at /\ y.remote = x.remote
         /\ y.declared = x.declared
         /\ x.pend \subseteq y.pend /\ Sheaf(y.pend)
         /\ Spares(x) => Spares(y)
         /\ \A cs : records + 1 \in RecordsOn(y, cs)
<1> DEFINE last == Mem!LastEntry(x.wt, x.pend)
           e == Append(last, records + 1)
<1>1. Entry(last) /\ \A f \in x.wt \cup x.pend : Len(f) <= Len(last)
  BY LastIs
<1>2. Entry(e) /\ Len(e) = Len(last) + 1 /\ Mem!OwnRecord(e) = records + 1
  BY <1>1, EntryNext
<1>3. y = [x EXCEPT !.pend = @ \cup {e}]
  BY DEF Mem!Noted
<1> HIDE DEF e, last
<1>4. /\ Shaped(y) /\ y.git = x.git /\ y.tree = x.tree /\ y.on = x.on /\ y.local = x.local
      /\ y.track = x.track /\ y.up = x.up /\ y.wt = x.wt /\ y.at = x.at /\ y.remote = x.remote
      /\ y.declared = x.declared /\ y.pend = x.pend \cup {e}
  BY <1>3 DEF Shaped
<1>5. Sheaf(y.pend)
  <2>1. Sheaf({e})
    BY <1>2, SheafOne
  <2>2. Sheaf(x.pend \cup {e})
    BY <2>1, SheafBoth
  <2> QED
    BY <2>2, <1>4
<1>6. Spares(x) => Spares(y)
  <2>1. \A f \in x.wt : Len(f) \in Nat /\ Len(f) <= Len(last)
    BY <1>1, EntryLen DEF Sheaf
  <2>2. Len(last) \in Nat
    BY <1>1, EntryLen
  <2> QED
    BY <2>1, <2>2, <1>2, <1>4 DEF Spares
<1>7. \A cs : records + 1 \in RecordsOn(y, cs)
  BY <1>2, <1>4 DEF RecordsOn
<1> QED
  BY <1>4, <1>5, <1>6, <1>7

\* A machine that notes a State, and else only follows the tree to a branch.
LEMMA NotesKeeps ==
  ASSUME MachinesInv, NEW m \in Machines, mach[m].at = Mem!Idle, NEW b \in Mem!Projects,
         mach' = [mach EXCEPT ![m] = Mem!Noted([mach[m] EXCEPT !.tree = b])],
         commits' = commits, origin' = origin, records' = records + 1
  PROVE  MachinesInv'
<1> DEFINE x == mach[m]
           z == [x EXCEPT !.tree = b]
           y == Mem!Noted(z)
<1>1. MachineTyped(x, Len(commits)) /\ MachineOk(x, commits)
  BY DEF MachinesInv
<1>2. /\ Shaped(z) /\ z.git = x.git /\ z.tree = b /\ z.on = x.on /\ z.local = x.local /\ z.remote = x.remote
      /\ z.track = x.track /\ z.up = x.up /\ z.wt = x.wt /\ z.pend = x.pend /\ z.at = Mem!Idle
  BY <1>1 DEF MachineTyped, Shaped
<1> HIDE DEF z
<1>3. /\ Shaped(y) /\ y.git = z.git /\ y.tree = z.tree /\ y.on = z.on /\ y.local = z.local
      /\ y.track = z.track /\ y.up = z.up /\ y.wt = z.wt /\ y.at = z.at
      /\ z.pend \subseteq y.pend /\ Sheaf(y.pend) /\ (Spares(z) => Spares(y))
      /\ records + 1 \in RecordsOn(y, commits)
  BY <1>1, <1>2, NotedIs DEF MachineTyped
<1> HIDE DEF y
<1>4. MachineTyped(y, Len(commits))
  BY <1>1, <1>2, <1>3 DEF MachineTyped
<1>5. MachineOk(y, commits) /\ (Private(y) => Private(x))
  BY <1>1, <1>2, <1>3 DEF MachineOk, Committed, Spares, Amid, Private, Mem!Idle
<1>6. CommitsOk(commits) /\ Grown(commits, commits)
  BY SameLater DEF MachinesInv
<1>7. RecordsOn(x, commits) \subseteq RecordsOn(y, commits)
  BY <1>2, <1>3 DEF RecordsOn
<1>8. Private(y) => Reached(commits, y.track) = {}
  BY <1>5, PrivateHidden
<1>9. Moved(x, y, commits, commits', records')
  BY <1>2, <1>3, <1>4, <1>5, <1>6, <1>7, <1>8 DEF Moved
<1>10. Moves(m, y)
  <2>1. mach' = [mach EXCEPT ![m] = y]
    BY DEF y, z
  <2> QED
    BY <2>1, <1>9 DEF Moves, MachinesInv
<1> QED
  BY <1>10, MovesKeep

LEMMA RecordKeeps ==
  ASSUME MachinesInv, NEW m \in Machines, NEW b \in Mem!Projects, Mem!Record(m, b)
  PROVE  MachinesInv'
<1> DEFINE x == mach[m]
           z == [x EXCEPT !.tree = b]
           w == Mem!Noted(z)
           to == Mem!Derived(b)
           y == [w EXCEPT !.git = "defaulted", !.on = to, !.local[to] = Mem!Next1]
<1>1. MachineTyped(x, Len(commits)) /\ MachineOk(x, commits) /\ x.at = Mem!Idle
  BY DEF MachinesInv, Mem!Record
<1>2. /\ Shaped(z) /\ z.git = x.git /\ z.tree = b /\ z.on = x.on /\ z.local = x.local /\ z.declared = x.declared
      /\ z.track = x.track /\ z.up = x.up /\ z.wt = x.wt /\ z.pend = x.pend /\ z.at = Mem!Idle
  BY <1>1 DEF MachineTyped, Shaped
<1>3. records' = records + 1 /\ origin' = origin
  BY DEF Mem!Record, Mem!Notes
<1>4. CASE commits' = commits
  <2>1. z.git # "none" \/ z.declared \/ mach' = [mach EXCEPT ![m] = Mem!Noted(z)]
    <3>1. PICK ct : ct = Mem!Made({}, {})
      OBVIOUS
    <3>2. CommitsOk(commits) /\ Len(commits) \in Nat
      BY DEF MachinesInv, CommitsOk
    <3>3. Len(ct) = Len(commits) + 1
      BY <3>1, <3>2, MadeIs, SheafNone
    <3> QED
      BY <1>4, <3>1, <3>2, <3>3 DEF Mem!Record
  <2>2. mach' = [mach EXCEPT ![m] = Mem!Noted(z)]
    BY <2>1 DEF Mem!Record
  <2> QED
    BY <1>1, <1>3, <1>4, <2>2, NotesKeeps
<1>5. CASE commits' # commits
  <2>1. /\ z.git = "none" /\ commits' = Mem!Made({}, {}) /\ mach' = [mach EXCEPT ![m] = y]
    BY <1>5 DEF Mem!Record
  <2> HIDE DEF z
  <2>2. /\ Shaped(w) /\ w.git = z.git /\ w.tree = z.tree /\ w.on = z.on /\ w.local = z.local
        /\ w.track = z.track /\ w.up = z.up /\ w.wt = z.wt /\ w.at = z.at
        /\ z.pend \subseteq w.pend /\ Sheaf(w.pend)
        /\ \A cs : records + 1 \in RecordsOn(w, cs)
    BY <1>1, <1>2, NotedIs DEF MachineTyped
  <2> HIDE DEF w
  <2>3. x.local = Mem!NoRef /\ x.track = Mem!NoRef /\ x.wt = {}
    BY <1>2, <2>1, <1>1 DEF MachineOk
  <2>4. /\ Shaped(y) /\ y.git = "defaulted" /\ y.tree = b /\ y.on = to /\ y.local = [w.local EXCEPT ![to] = Mem!Next1]
        /\ y.track = w.track /\ y.up = w.up /\ y.wt = w.wt /\ y.pend = w.pend /\ y.at = w.at
    <3>1. Shaped(w) /\ w.tree = b
      BY <1>2, <2>2
    <3>2. y = [w EXCEPT !.git = "defaulted", !.on = to, !.local[to] = Mem!Next1]
      OBVIOUS
    <3> HIDE DEF y, to
    <3> QED
      BY <3>1, <3>2 DEF Shaped
  <2> HIDE DEF y
  <2>5. /\ CommitsOk(commits) /\ CommitsOk(commits') /\ Grown(commits, commits') /\ Mem!Next1 = Len(commits) + 1
        /\ Len(commits') = Mem!Next1 /\ Past(commits', Mem!Next1) = {Mem!Next1} /\ FilesAt(commits', Mem!Next1) = {}
    <3>1. CommitsOk(commits) /\ {} \in SUBSET (0..Len(commits)) /\ UNION {Past(commits, c) : c \in {}} = {}
      BY DEF MachinesInv
    <3>2. /\ CommitsOk(commits') /\ Grown(commits, commits') /\ Mem!Next1 = Len(commits) + 1
          /\ Len(commits') = Mem!Next1
          /\ Past(commits', Mem!Next1) = {Mem!Next1} \cup UNION {Past(commits, c) : c \in {}}
          /\ FilesAt(commits', Mem!Next1) = {}
      BY <2>1, <3>1, MadeIs, SheafNone
    <3> QED
      BY <3>1, <3>2
  <2>6. to \in Mem!Live /\ to \in Mem!Names /\ Mem!Next1 \in 0..Len(commits')
    BY <2>5, NamesAre DEF CommitsOk
  <2>7. y.local = [Mem!NoRef EXCEPT ![to] = Mem!Next1] /\ y.track = Mem!NoRef /\ y.wt = {} /\ y.at = Mem!Idle
        /\ y.git = "defaulted"
    BY <1>2, <2>2, <2>3, <2>4
  <2>8. y.local \in Refs(Len(commits')) /\ y.track \in Refs(Len(commits'))
    BY <2>6, <2>7 DEF Refs, Mem!NoRef
  <2>9. MachineTyped(y, Len(commits'))
    BY <1>1, <1>2, <2>2, <2>4, <2>6, <2>8 DEF MachineTyped
  <2>10. MachineOk(y, commits')
    BY <2>7 DEF MachineOk, Amid, Spares
  <2>11. Reached(commits', y.local) = {Mem!Next1} /\ Reached(commits', y.track) = {} /\ Reached(commits, x.local) = {}
    <3>1. \A n \in Mem!Names : y.local[n] = IF n = to THEN Mem!Next1 ELSE 0
      BY <2>7 DEF Mem!NoRef
    <3>2. Reached(commits', y.local) = {Mem!Next1}
      BY <3>1, <2>5, <2>6 DEF Reached, Past
    <3> QED
      BY <2>3, <2>7, <3>2 DEF Reached, Past, Mem!NoRef
  <2>12. RecordsOn(x, commits) \subseteq RecordsOn(y, commits')
    BY <2>2, <2>3, <2>4, <1>2, <2>11 DEF RecordsOn
  <2>13. records + 1 \in RecordsOn(y, commits')
    <3>1. \E e \in w.wt \cup w.pend \cup UNION {FilesAt(commits', c) : c \in Reached(commits', w.local)} :
              records + 1 = Mem!OwnRecord(e)
      BY <2>2 DEF RecordsOn
    <3>2. Reached(commits', w.local) = {}
      BY <1>2, <2>2, <2>3 DEF Reached, Past, Mem!NoRef
    <3> QED
      BY <3>1, <3>2, <2>4 DEF RecordsOn
  <2>14. Moved(x, y, commits, commits', records')
    <3>1. Mem!Next1 > Len(commits) /\ x.git = "none"
      BY <2>5, <1>2, <2>1 DEF CommitsOk
    <3> QED
      BY <3>1, <1>3, <2>5, <2>9, <2>10, <2>11, <2>12, <2>13 DEF Moved
  <2>15. Moves(m, y)
    BY <2>1, <2>14, <1>3 DEF Moves, MachinesInv
  <2> QED
    BY <2>15, MovesKeep
<1> QED
  BY <1>4, <1>5

LEMMA SendKeeps == ASSUME MachinesInv, NEW m \in Machines, Mem!Send(m) PROVE MachinesInv'
<1> DEFINE x == mach[m]
           job == x.at
           c == x.local[job.branch]
           y == [x EXCEPT !.track[job.branch] = c, !.at = job.then,
                          !.up[job.branch] = IF job.track THEN job.branch ELSE @]
<1>1. /\ job.op = "send" /\ Mem!Takes(job.branch, c)
      /\ origin' = [origin EXCEPT ![job.branch] = c] /\ mach' = [mach EXCEPT ![m] = y]
      /\ commits' = commits /\ records' = records
  <2>1. job.op = "send" /\ Mem!Takes(job.branch, c) /\ commits' = commits /\ records' = records
    BY DEF Mem!Send
  <2>2. origin' = [origin EXCEPT ![job.branch] = c]
    BY DEF Mem!Send
  <2>3. mach' = [mach EXCEPT ![m] = y]
    BY Zenon DEF Mem!Send
  <2> QED
    BY <2>1, <2>2, <2>3
<1>2. MachineTyped(x, Len(commits)) /\ MachineOk(x, commits)
  BY DEF MachinesInv
<1>3. /\ x.git = "published" /\ job.branch \in Mem!Live
      /\ \/ job.then = Mem!Idle
         \/ IsMerge(job.then) /\ Committed(x, commits)
         \/ job.then = [op |-> "archive", branch |-> x.on] /\ job.branch = x.on /\ Committed(x, commits)
  BY <1>1, <1>2 DEF MachineOk, Amid, Mem!Idle, IsMerge
<1>4. \E v : y = [x EXCEPT !.track[job.branch] = c, !.at = job.then,
                           !.up[job.branch] = v] /\ v \in Mem!Names \cup {None}
  <2>1. x.up[job.branch] \in Mem!Names \cup {None} /\ job.branch \in Mem!Names
    BY <1>2, <1>3, NamesAre DEF MachineTyped
  <2> QED
    BY <2>1
<1>5. PICK v : y = [x EXCEPT !.track[job.branch] = c, !.at = job.then,
                             !.up[job.branch] = v] /\ v \in Mem!Names \cup {None}
  BY <1>4
<1> HIDE DEF y
<1>6. /\ Shaped(y) /\ y.git = x.git /\ y.tree = x.tree /\ y.on = x.on /\ y.local = x.local
      /\ y.track = [x.track EXCEPT ![job.branch] = c] /\ y.up = [x.up EXCEPT ![job.branch] = v]
      /\ y.wt = x.wt /\ y.pend = x.pend /\ y.at = job.then
  BY <1>2, <1>5 DEF MachineTyped, Shaped
<1>7. job.branch \in Mem!Names /\ job.branch # Mem!Base /\ c \in 0..Len(commits)
  BY <1>2, <1>3, NamesAre DEF MachineTyped, Refs
<1>8. MachineTyped(y, Len(commits))
  <2>1. y.track \in Refs(Len(commits)) /\ y.up \in [Mem!Names -> Mem!Names \cup {None}]
    BY <1>2, <1>5, <1>6, <1>7 DEF MachineTyped, Refs
  <2> QED
    BY <2>1, <1>2, <1>6 DEF MachineTyped
<1>9. MachineOk(y, commits) /\ ~Private(x) /\ ~Private(y)
  <2>1. x.at.op # "join" /\ y.at.op # "join" /\ y.at.op # "send"
    BY <1>1, <1>3, <1>6 DEF Mem!Idle, IsMerge
  <2>2. Committed(y, commits) <=> Committed(x, commits)
    BY <1>6 DEF Committed
  <2>3. Amid(y, commits)
    <3>1. CASE job.then = Mem!Idle
      BY <3>1, <1>6 DEF Amid
    <3>2. CASE IsMerge(job.then) /\ Committed(x, commits)
      BY <3>2, <1>3, <1>6, <2>2 DEF Amid
    <3>3. CASE job.then = [op |-> "archive", branch |-> x.on] /\ job.branch = x.on /\ Committed(x, commits)
      BY <3>3, <1>3, <1>6, <2>2 DEF Amid
    <3> QED
      BY <3>1, <3>2, <3>3, <1>3
  <2> QED
    BY <2>1, <2>2, <2>3, <1>2, <1>3, <1>6 DEF MachineOk, Spares, Private
<1>10. origin \in Refs(Len(commits)) /\ origin[Mem!Base] = 1 /\ CommitsOk(commits) /\ Grown(commits, commits)
  BY SameLater DEF MachinesInv
<1>11. Past(commits, c) \subseteq Reached(commits, x.local)
  BY <1>7 DEF Reached
<1>12. Reached(commits, y.track) \subseteq Reached(commits, x.track) \cup Reached(commits, x.local)
  <2>1. \A b \in Mem!Names : y.track[b] = IF b = job.branch THEN c ELSE x.track[b]
    BY <1>2, <1>6 DEF MachineTyped, Refs
  <2> QED
    BY <2>1, <1>11 DEF Reached
<1>13. Reached(commits, origin') \subseteq Reached(commits, origin) \cup Reached(commits, x.local)
  <2>1. \A b \in Mem!Names : origin'[b] = IF b = job.branch THEN c ELSE origin[b]
    BY <1>1, <1>10 DEF Refs
  <2> QED
    BY <2>1, <1>11 DEF Reached
<1>14. RecordsOn(y, commits) = RecordsOn(x, commits)
  BY <1>6 DEF RecordsOn
<1>15. Moved(x, y, commits, commits', records')
  BY <1>1, <1>6, <1>8, <1>9, <1>10, <1>12, <1>14 DEF Moved
<1>16. origin' \in Refs(Len(commits)) /\ origin'[Mem!Base] = 1
  BY <1>1, <1>7, <1>10, NamesAre DEF Refs
<1>17. Moves(m, y)
  BY <1>1, <1>9, <1>13, <1>15, <1>16 DEF Moves
<1> QED
  BY <1>17, MovesKeep

-----------------------------------------------------------------------------
(* Folding, merging, and the first step of a reboot *)

\* One branch of many is moved.
LEMMA RefMoved ==
  ASSUME NEW cs, NEW refs \in Refs(Len(cs)), NEW b \in Mem!Names, NEW c \in 0..Len(cs),
         NEW new, new = [refs EXCEPT ![b] = c]
  PROVE  /\ new \in Refs(Len(cs))
         /\ Reached(cs, new) \subseteq Reached(cs, refs) \cup Past(cs, c)
         /\ Past(cs, c) \subseteq Reached(cs, new)
         /\ Past(cs, refs[b]) \subseteq Past(cs, c) => Reached(cs, refs) \subseteq Reached(cs, new)
<1>1. \A n \in Mem!Names : new[n] = IF n = b THEN c ELSE refs[n]
  BY DEF Refs
<1>2. new \in Refs(Len(cs))
  BY DEF Refs
<1> QED
  BY <1>1, <1>2 DEF Reached

\* A step of one machine that takes one of its branches to a commit that contains it.
Advances(m, y, b, c) ==
    /\ mach' = [mach EXCEPT ![m] = y] /\ origin' = origin
    /\ CommitsOk(commits') /\ Grown(commits, commits')
    /\ records' = records \/ (records' = records + 1 /\ records + 1 \in RecordsOn(y, commits'))
    /\ MachineTyped(y, Len(commits')) /\ MachineOk(y, commits') /\ (Private(y) => Private(mach[m]))
    /\ b \in Mem!Names /\ c \in 0..Len(commits') /\ y.local = [mach[m].local EXCEPT ![b] = c]
    /\ Past(commits', mach[m].local[b]) \subseteq Past(commits', c)
    /\ \A d \in Past(commits', c) :
           \/ d > Len(commits)
           \/ d \in Reached(commits, mach[m].local)
           \/ ~Private(y) /\ d \in Reached(commits, mach[m].track) \cup Reached(commits, origin)
    /\ y.track = mach[m].track \/ \A n \in Mem!Names : y.track[n] \in {mach[m].track[n], origin[n]}
    /\ Committed(mach[m], commits) \/ mach[m].wt \subseteq y.wt
    /\ mach[m].pend \subseteq y.wt \cup y.pend

LEMMA AdvanceMoves ==
  ASSUME MachinesInv, NEW m \in Machines, NEW y, NEW b, NEW c, Advances(m, y, b, c)
  PROVE  MachinesInv'
<1> USE DEF Advances
<1> DEFINE x == mach[m]
<1>1. CommitsOk(commits) /\ MachineTyped(x, Len(commits)) /\ origin \in Refs(Len(commits))
  BY DEF MachinesInv
<1>2. /\ x.local \in Refs(Len(commits)) /\ x.local \in Refs(Len(commits'))
      /\ x.track \in Refs(Len(commits)) /\ x.track \in Refs(Len(commits')) /\ origin \in Refs(Len(commits'))
      /\ Reached(commits', x.local) = Reached(commits, x.local)
      /\ Reached(commits', x.track) = Reached(commits, x.track)
      /\ Reached(commits', origin) = Reached(commits, origin)
  BY <1>1, LaterIs DEF MachineTyped
<1>3. /\ Reached(commits', y.local) \subseteq Reached(commits, x.local) \cup Past(commits', c)
      /\ Reached(commits, x.local) \subseteq Reached(commits', y.local)
  BY <1>2, RefMoved
<1>4. RecordsOn(x, commits) \subseteq RecordsOn(y, commits')
  <2>1. ASSUME NEW e \in x.wt \cup x.pend
        PROVE  e \in y.wt \cup y.pend \/ \E d \in Reached(commits', y.local) : e \in FilesAt(commits', d)
    <3>1. CASE e \in x.pend \/ x.wt \subseteq y.wt
      BY <3>1
    <3>2. CASE e \in x.wt /\ Committed(x, commits)
      <4>1. PICK d \in Reached(commits, x.local) : e \in FilesAt(commits, d)
        BY <1>1, <3>2, CommittedIs
      <4>2. d \in 0..Len(commits)
        BY <1>1, <1>2, ReachedIn
      <4> QED
        BY <1>1, <1>3, <4>1, <4>2, LaterIs
    <3> QED
      BY <3>1, <3>2
  <2> QED
    BY <1>1, <1>2, <1>3, <2>1, HoldsGrow
<1>5. Reached(commits', y.track) \subseteq Reached(commits, x.track) \cup Reached(commits, origin)
  <2>1. CASE y.track = x.track
    BY <2>1, <1>2
  <2>2. CASE \A n \in Mem!Names : y.track[n] \in {x.track[n], origin[n]}
    <3>1. Reached(commits', y.track) \subseteq Reached(commits', x.track) \cup Reached(commits', origin)
      BY <2>2 DEF Reached
    <3> QED
      BY <3>1, <1>2
  <2> QED
    BY <2>1, <2>2
<1>6. Private(y) => Reached(commits', y.track) = {}
  BY PrivateHidden
<1>7. Moved(x, y, commits, commits', records')
  BY <1>3, <1>4, <1>5, <1>6 DEF Moved
<1>8. Moves(m, y)
  BY <1>7 DEF Moves, MachinesInv
<1> QED
  BY <1>8, MovesKeep

\* A fold replaces no record that is not committed.
LEMMA FoldedHas ==
  ASSUME NEW x, NEW cs, MachineOk(x, cs)
  PROVE  /\ x.pend \subseteq Mem!Folded(x.wt, x.pend)
         /\ Committed(x, cs) \/ x.wt \subseteq Mem!Folded(x.wt, x.pend)
<1>1. Committed(x, cs) \/ Spares(x)
  BY DEF MachineOk
<1>2. ASSUME Spares(x), NEW e \in x.wt PROVE e \in Mem!Folded(x.wt, x.pend)
  <2>1. \A p \in x.pend : Len(e) < Len(p)
    BY <1>2 DEF Spares
  <2>2. \A p \in x.pend : Len(p) # Len(e)
    BY <2>1
  <2> QED
    BY <2>2 DEF Mem!Folded
<1> QED
  BY <1>1, <1>2 DEF Mem!Folded

\* What a machine is in the middle of after it folded, committed and, if it sends, asked to send.
LEMMA FoldKeeps ==
  ASSUME MachinesInv, NEW m \in Machines, NEW then, Mem!PushFold(m, then),
         mach[m].at = Mem!Idle, then = Mem!Idle \/ IsMerge(then)
  PROVE  MachinesInv'
<1> DEFINE x   == mach[m]
           joined == Mem!Folded(x.wt, x.pend)
           new == joined # Mem!Ledger(Mem!HeadOf(m))
           hd  == x.local[x.on]
           c   == IF new THEN Mem!Next1 ELSE hd
           at  == IF Mem!Sends(m) THEN [op |-> "send", branch |-> x.on, track |-> TRUE, then |-> then] ELSE then
           y   == [x EXCEPT !.wt = joined, !.pend = {}, !.local[x.on] = c, !.at = at]
<1>1. /\ x.git # "none" /\ (Mem!Sends(m) => Mem!MayWrite(m))
      /\ commits' = IF new THEN Mem!Made({hd}, joined) ELSE commits
      /\ mach' = [mach EXCEPT ![m] = y] /\ origin' = origin /\ records' = records
  <2>1. x.git # "none" /\ (Mem!Sends(m) => Mem!MayWrite(m)) /\ origin' = origin /\ records' = records
    BY DEF Mem!PushFold
  <2>2. commits' = IF new THEN Mem!Made({hd}, joined) ELSE commits
    BY DEF Mem!PushFold, Mem!HeadOf
  <2>3. mach' = [mach EXCEPT ![m] = y]
    BY DEF Mem!PushFold, Mem!HeadOf
  <2> QED
    BY <2>1, <2>2, <2>3
<1>2. MachineTyped(x, Len(commits)) /\ MachineOk(x, commits) /\ CommitsOk(commits)
  BY DEF MachinesInv
<1>3. x.on \in Mem!Names /\ hd \in 0..Len(commits) /\ Len(commits) \in Nat /\ Shaped(x)
  BY <1>2, NamesAre DEF MachineTyped, Refs, CommitsOk
<1>4. Sheaf(joined) /\ Sheaf({})
  BY <1>2, SheafFolded, SheafNone DEF MachineTyped
<1>5. /\ CommitsOk(commits') /\ Grown(commits, commits') /\ c \in 0..Len(commits')
      /\ Past(commits', c) \subseteq {Mem!Next1} \cup Past(commits, hd)
      /\ Past(commits', hd) \subseteq Past(commits', c)
      /\ Mem!Next1 > Len(commits) /\ FilesAt(commits', c) = joined
  <2>1. CASE new
    <3>1. {hd} \in SUBSET (0..Len(commits))
      BY <1>3
    <3>2. /\ CommitsOk(commits') /\ Grown(commits, commits') /\ Mem!Next1 = Len(commits) + 1
          /\ Len(commits') = Mem!Next1
          /\ Past(commits', Mem!Next1) = {Mem!Next1} \cup UNION {Past(commits, d) : d \in {hd}}
          /\ FilesAt(commits', Mem!Next1) = joined
      <4>1. commits' = Mem!Made({hd}, joined)
        BY <1>1, <2>1
      <4> HIDE DEF joined, hd, new
      <4> QED
        BY <1>2, <1>4, <3>1, <4>1, MadeIs
    <3>3. Past(commits', hd) = Past(commits, hd)
      BY <1>2, <1>3, <3>2, LaterIs
    <3> QED
      BY <1>3, <2>1, <3>2, <3>3
  <2>2. CASE ~new
    BY <1>1, <1>2, <1>3, <2>2, SameLater, HistoryIs DEF Mem!HeadOf, Mem!Next1
  <2> QED
    BY <2>1, <2>2
<1> HIDE DEF c, at, joined
<1>6. /\ Shaped(y) /\ y.git = x.git /\ y.tree = x.tree /\ y.on = x.on /\ y.local = [x.local EXCEPT ![x.on] = c]
      /\ y.track = x.track /\ y.up = x.up /\ y.wt = joined /\ y.pend = {} /\ y.at = at
  <2>1. y = [x EXCEPT !.wt = joined, !.pend = {}, !.local[x.on] = c, !.at = at]
    OBVIOUS
  <2> HIDE DEF y
  <2> QED
    BY <1>3, <2>1 DEF Shaped
<1> HIDE DEF y
<1>7. x.local \in Refs(Len(commits')) /\ x.track \in Refs(Len(commits'))
  BY <1>2, <1>5, LaterIs DEF MachineTyped
<1>8. y.local \in Refs(Len(commits')) /\ Past(commits', c) \subseteq Reached(commits', y.local)
  BY <1>3, <1>5, <1>6, <1>7, RefMoved
<1>9. MachineTyped(y, Len(commits'))
  BY <1>2, <1>4, <1>6, <1>7, <1>8 DEF MachineTyped
<1>10. Committed(y, commits')
  <2>1. y.local[x.on] = c
    BY <1>3, <1>6, <1>2 DEF MachineTyped, Refs
  <2> QED
    BY <2>1, <1>5, <1>6 DEF Committed
<1>11. MachineOk(y, commits') /\ (Private(y) => Private(x))
  <2>1. CASE Mem!Sends(m)
    <3>1. x.git = "published" /\ x.on \in Mem!Live
      BY <2>1, <1>1, <1>2 DEF Mem!Sends, Mem!MayWrite, MachineTyped
    <3>2. y.at = [op |-> "send", branch |-> x.on, track |-> TRUE, then |-> then]
      BY <1>6, <2>1 DEF at
    <3>3. /\ y.at = [op |-> "send", branch |-> y.at.branch, track |-> y.at.track, then |-> y.at.then]
          /\ y.at.branch = x.on /\ y.at.then = then /\ y.at.op = "send"
      BY <3>2
    <3>4. Amid(y, commits')
      BY <3>1, <3>3, <1>6, <1>10 DEF Amid
    <3> QED
      BY <3>1, <3>3, <3>4, <1>6, <1>10 DEF MachineOk, Private
  <2>2. CASE ~Mem!Sends(m)
    <3>1. y.at = then /\ x.git = "defaulted" /\ y.git = "defaulted" /\ x.track = Mem!NoRef
      BY <2>2, <1>1, <1>2, <1>6 DEF Mem!Sends, at, MachineTyped, MachineOk
    <3>2. Amid(y, commits')
      BY <3>1, <1>10 DEF Amid
    <3> QED
      BY <3>1, <3>2, <1>6, <1>10 DEF MachineOk, Private
  <2> QED
    BY <2>1, <2>2
<1>12. Past(commits, hd) \subseteq Reached(commits, x.local)
  BY <1>3 DEF Reached
<1>13. /\ x.pend \subseteq y.wt \cup y.pend
       /\ Committed(x, commits) \/ x.wt \subseteq y.wt
  BY <1>2, <1>6, FoldedHas DEF joined
<1>14. \A d \in Past(commits', c) : d > Len(commits) \/ d \in Reached(commits, x.local)
  BY <1>5, <1>12
<1>15. Advances(m, y, x.on, c)
  BY <1>1, <1>3, <1>5, <1>6, <1>9, <1>11, <1>13, <1>14 DEF Advances
<1> QED
  BY <1>15, AdvanceMoves

LEMMA PushKeeps == ASSUME MachinesInv, NEW m \in Machines, Mem!MemoryPush(m) PROVE MachinesInv'
BY FoldKeeps DEF Mem!MemoryPush

LEMMA MergesKeeps ==
  ASSUME MachinesInv, NEW m \in Machines, NEW s \in Mem!Projects, NEW t \in Mem!Projects, NEW k,
         Mem!MemoryMerge(m, s, t, k)
  PROVE  MachinesInv'
<1> DEFINE job == [op |-> "merge", source |-> Mem!Derived(s), target |-> Mem!Derived(t), keep |-> k]
<1>1. IsMerge(job)
  BY NamesAre DEF IsMerge
<1> HIDE DEF job
<1>2. mach[m].at = Mem!Idle /\ Mem!PushFold(m, job)
  BY DEF Mem!MemoryMerge, job
<1> QED
  BY <1>1, <1>2, FoldKeeps

LEMMA RebootKeeps == ASSUME MachinesInv, NEW m \in Machines, Mem!Reboot(m) PROVE MachinesInv'
<1> DEFINE x   == mach[m]
           joined == Mem!Folded(x.wt, x.pend)
           hd  == x.local[x.on]
           c   == IF Mem!MayWrite(m) THEN Mem!Next1 ELSE hd
           at  == IF Mem!MayWrite(m)
                  THEN [op |-> "send", branch |-> x.on, track |-> TRUE, then |-> [op |-> "archive", branch |-> x.on]]
                  ELSE Mem!Idle
           y   == [x EXCEPT !.wt = joined, !.pend = {}, !.local[x.on] = c, !.at = at]
<1>1. MachineTyped(x, Len(commits)) /\ MachineOk(x, commits) /\ CommitsOk(commits)
  BY DEF MachinesInv
<1>2. x.on \in Mem!Names /\ hd \in 0..Len(commits) /\ Len(commits) \in Nat /\ Shaped(x)
  BY <1>1, NamesAre DEF MachineTyped, Refs, CommitsOk
<1>3. /\ x.git = "published" /\ x.at = Mem!Idle /\ origin' = origin /\ records' = records
      /\ commits' = IF Mem!MayWrite(m) THEN Mem!Made({hd}, joined) ELSE commits
      /\ mach' = [mach EXCEPT ![m] = y]
  <2>1. x.git = "published" /\ x.at = Mem!Idle /\ origin' = origin /\ records' = records
    BY DEF Mem!Reboot
  <2>2. CASE Mem!MayWrite(m)
    <3>1. commits' = Mem!Made({hd}, joined)
      BY <2>2 DEF Mem!Reboot, Mem!HeadOf
    <3>2. mach' = [mach EXCEPT ![m] = [x EXCEPT !.wt = joined, !.pend = {}, !.local[x.on] = Mem!Next1,
              !.at = [op |-> "send", branch |-> x.on, track |-> TRUE, then |-> [op |-> "archive", branch |-> x.on]]]]
      BY <2>2 DEF Mem!Reboot
    <3> QED
      BY <2>1, <2>2, <3>1, <3>2
  <2>3. CASE ~Mem!MayWrite(m)
    <3>1. commits' = commits /\ mach' = [mach EXCEPT ![m] = [x EXCEPT !.wt = joined, !.pend = {}]]
      BY <2>3 DEF Mem!Reboot
    <3>2. [x EXCEPT !.wt = joined, !.pend = {}] = y
      <4>1. x.at = Mem!Idle /\ x.local = [x.local EXCEPT ![x.on] = hd]
        BY <2>1, <1>1, <1>2 DEF MachineTyped, Refs
      <4>2. y = [x EXCEPT !.wt = joined, !.pend = {}, !.local[x.on] = hd, !.at = Mem!Idle]
        BY <2>3
      <4> HIDE DEF y, joined, hd
      <4> QED
        BY <4>1, <4>2, <1>2 DEF Shaped
    <3> QED
      BY <2>1, <2>3, <3>1, <3>2
  <2> QED
    BY <2>2, <2>3
<1>4. Sheaf(joined) /\ Sheaf({})
  BY <1>1, SheafFolded, SheafNone DEF MachineTyped
<1>5. /\ CommitsOk(commits') /\ Grown(commits, commits') /\ c \in 0..Len(commits')
      /\ Past(commits', c) \subseteq {Mem!Next1} \cup Past(commits, hd)
      /\ Past(commits', hd) \subseteq Past(commits', c)
      /\ Mem!Next1 > Len(commits) /\ (Mem!MayWrite(m) => FilesAt(commits', c) = joined)
  <2>1. CASE Mem!MayWrite(m)
    <3>1. {hd} \in SUBSET (0..Len(commits))
      BY <1>2
    <3>2. /\ CommitsOk(commits') /\ Grown(commits, commits') /\ Mem!Next1 = Len(commits) + 1
          /\ Len(commits') = Mem!Next1
          /\ Past(commits', Mem!Next1) = {Mem!Next1} \cup UNION {Past(commits, d) : d \in {hd}}
          /\ FilesAt(commits', Mem!Next1) = joined
      <4>1. commits' = Mem!Made({hd}, joined)
        BY <1>3, <2>1
      <4> HIDE DEF joined, hd
      <4> QED
        BY <1>1, <1>4, <3>1, <4>1, MadeIs
    <3>3. Past(commits', hd) = Past(commits, hd)
      BY <1>1, <1>2, <3>2, LaterIs
    <3> QED
      BY <1>2, <2>1, <3>2, <3>3
  <2>2. CASE ~Mem!MayWrite(m)
    BY <1>3, <1>1, <1>2, <2>2, SameLater DEF Mem!Next1
  <2> QED
    BY <2>1, <2>2
<1> HIDE DEF c, at, joined
<1>6. /\ Shaped(y) /\ y.git = x.git /\ y.tree = x.tree /\ y.on = x.on /\ y.local = [x.local EXCEPT ![x.on] = c]
      /\ y.track = x.track /\ y.up = x.up /\ y.wt = joined /\ y.pend = {} /\ y.at = at
  <2>1. y = [x EXCEPT !.wt = joined, !.pend = {}, !.local[x.on] = c, !.at = at]
    OBVIOUS
  <2> HIDE DEF y
  <2> QED
    BY <1>2, <2>1 DEF Shaped
<1> HIDE DEF y
<1>7. x.local \in Refs(Len(commits')) /\ x.track \in Refs(Len(commits'))
  BY <1>1, <1>5, LaterIs DEF MachineTyped
<1>8. y.local \in Refs(Len(commits')) /\ y.local[x.on] = c
  <2>1. y.local \in Refs(Len(commits'))
    BY <1>2, <1>5, <1>6, <1>7, RefMoved
  <2> QED
    BY <2>1, <1>2, <1>6, <1>7 DEF Refs
<1>9. MachineTyped(y, Len(commits'))
  BY <1>1, <1>4, <1>6, <1>7, <1>8 DEF MachineTyped
<1>10. MachineOk(y, commits') /\ ~Private(y)
  <2>1. CASE Mem!MayWrite(m)
    <3>1. x.on \in Mem!Live
      BY <2>1, <1>1 DEF Mem!MayWrite, MachineTyped
    <3>2. Committed(y, commits')
      BY <1>5, <1>6, <1>8, <2>1 DEF Committed
    <3>3. y.at = [op |-> "send", branch |-> x.on, track |-> TRUE, then |-> [op |-> "archive", branch |-> x.on]]
      BY <1>6, <2>1 DEF at
    <3>4. /\ y.at = [op |-> "send", branch |-> y.at.branch, track |-> y.at.track, then |-> y.at.then]
          /\ y.at.branch = x.on /\ y.at.then = [op |-> "archive", branch |-> x.on] /\ y.at.op = "send"
      BY <3>3
    <3>5. Amid(y, commits')
      BY <1>3, <1>6, <3>1, <3>2, <3>4 DEF Amid
    <3> QED
      BY <1>3, <1>6, <3>2, <3>4, <3>5 DEF MachineOk, Private
  <2>2. CASE ~Mem!MayWrite(m)
    <3>1. y.at = Mem!Idle /\ Spares(y)
      BY <2>2, <1>6 DEF at, Spares
    <3> QED
      BY <3>1, <1>3, <1>6 DEF MachineOk, Amid, Private, Mem!Idle
  <2> QED
    BY <2>1, <2>2
<1>11. \A d \in Past(commits', c) : d > Len(commits) \/ d \in Reached(commits, x.local)
  BY <1>2, <1>5 DEF Reached
<1>12. /\ x.pend \subseteq y.wt \cup y.pend
       /\ Committed(x, commits) \/ x.wt \subseteq y.wt
  BY <1>1, <1>6, FoldedHas DEF joined
<1>13. Advances(m, y, x.on, c)
  BY <1>2, <1>3, <1>5, <1>6, <1>9, <1>10, <1>11, <1>12 DEF Advances
<1> QED
  BY <1>13, AdvanceMoves

\* The newest of two copies contains both.
LEMMA NewestIs ==
  ASSUME MachinesInv, NEW m \in Machines, NEW b \in Mem!Names, NEW t, t = Mem!Tip(m, b), t \notin {0, None}
  PROVE  /\ t \in 1..Len(commits) /\ t \in {mach[m].local[b], mach[m].track[b]}
         /\ Past(commits, mach[m].local[b]) \subseteq Past(commits, t)
         /\ Past(commits, t) \subseteq Reached(commits, mach[m].local) \cup Reached(commits, mach[m].track)
         /\ mach[m].track = Mem!NoRef => Past(commits, t) \subseteq Reached(commits, mach[m].local)
<1> DEFINE here == mach[m].local[b]
           heard == mach[m].track[b]
<1>1. MachineTyped(mach[m], Len(commits)) /\ CommitsOk(commits)
  BY DEF MachinesInv
<1>2. here \in 0..Len(commits) /\ heard \in 0..Len(commits) /\ Len(commits) \in Nat
  BY <1>1 DEF MachineTyped, Refs, CommitsOk
<1>3. \/ t = heard /\ (here = 0 \/ here \in Past(commits, heard))
      \/ t = here
  BY HistoryIs DEF Mem!Tip
<1>4. Past(commits, here) \subseteq Past(commits, t)
  BY <1>1, <1>2, <1>3, PastIn DEF Past
<1> QED
  BY <1>2, <1>3, <1>4 DEF Reached, Mem!NoRef

LEMMA MergeKeeps == ASSUME MachinesInv, NEW m \in Machines, Mem!Merge(m) PROVE MachinesInv'
<1> DEFINE x    == mach[m]
           job  == x.at
           from == Mem!Tip(m, job.source)
           into == Mem!Tip(m, job.target)
           keep == IF job.keep = "ours" THEN Mem!Ledger(into) ELSE Mem!Ledger(from)
           ff   == job.keep = "theirs" /\ into \in Mem!History(from)
           c    == IF ff THEN from ELSE Mem!Next1
           wt   == IF x.on = job.target THEN keep ELSE x.wt
           at   == IF Mem!Sends(m) THEN [op |-> "send", branch |-> job.target, track |-> TRUE, then |-> Mem!Idle]
                       ELSE Mem!Idle
           y    == [x EXCEPT !.local[job.target] = c, !.wt = wt, !.at = at]
<1>1. /\ job.op = "merge" /\ Mem!Mergeable(m) /\ origin' = origin /\ records' = records
      /\ commits' = IF ff THEN commits ELSE Mem!Made({into, from}, keep)
      /\ mach' = [mach EXCEPT ![m] = y]
  <2>1. job.op = "merge" /\ Mem!Mergeable(m) /\ origin' = origin /\ records' = records
    BY DEF Mem!Merge
  <2>2. commits' = IF ff THEN commits ELSE Mem!Made({into, from}, keep)
    BY DEF Mem!Merge
  <2>3. mach' = [mach EXCEPT ![m] = y]
    BY DEF Mem!Merge
  <2> QED
    BY <2>1, <2>2, <2>3
<1>2. MachineTyped(x, Len(commits)) /\ MachineOk(x, commits) /\ CommitsOk(commits)
  BY DEF MachinesInv
<1>3. IsMerge(job) /\ Committed(x, commits) /\ x.git # "none"
  BY <1>1, <1>2 DEF MachineOk, Amid, Mem!Idle
<1>4. /\ job.source \in Mem!Live /\ job.target \in Mem!Live /\ job.source \in Mem!Names /\ job.target \in Mem!Names
      /\ x.on \in Mem!Names /\ Len(commits) \in Nat /\ Shaped(x)
  BY <1>2, <1>3, NamesAre DEF IsMerge, MachineTyped, CommitsOk
<1>5. from \notin {0, None} /\ into \notin {0, None}
  BY <1>1 DEF Mem!Mergeable
<1> DEFINE mount == Reached(commits, x.local)
           heard == Reached(commits, x.track)
<1>6. /\ from \in 1..Len(commits) /\ into \in 1..Len(commits)
      /\ Past(commits, x.local[job.target]) \subseteq Past(commits, into)
      /\ Past(commits, from) \cup Past(commits, into) \subseteq mount \cup heard
      /\ x.track = Mem!NoRef => Past(commits, from) \cup Past(commits, into) \subseteq mount
  <2> HIDE DEF from, into, mount, heard
  <2>1. from = Mem!Tip(m, job.source) /\ into = Mem!Tip(m, job.target)
    BY DEF from, into
  <2> USE DEF mount, heard
  <2> QED
    BY <2>1, <1>4, <1>5, NewestIs
<1> HIDE DEF from, into, mount, heard
<1>7. Sheaf(keep) /\ keep = IF job.keep = "ours" THEN FilesAt(commits, into) ELSE FilesAt(commits, from)
  BY <1>2, <1>6, PastIn, HistoryIs
<1> HIDE DEF keep
<1>8. /\ CommitsOk(commits') /\ Grown(commits, commits') /\ c \in 0..Len(commits')
      /\ Past(commits', c) \subseteq {Mem!Next1} \cup Past(commits, from) \cup Past(commits, into)
      /\ Past(commits', x.local[job.target]) \subseteq Past(commits', c)
      /\ Mem!Next1 > Len(commits) /\ FilesAt(commits', c) = keep
  <2>1. CASE ~ff
    <3>1. {into, from} \in SUBSET (0..Len(commits))
      BY <1>6
    <3>2. /\ CommitsOk(commits') /\ Grown(commits, commits') /\ Mem!Next1 = Len(commits) + 1
          /\ Len(commits') = Mem!Next1
          /\ Past(commits', Mem!Next1) = {Mem!Next1} \cup UNION {Past(commits, d) : d \in {into, from}}
          /\ FilesAt(commits', Mem!Next1) = keep
      <4>1. commits' = Mem!Made({into, from}, keep)
        BY <1>1, <2>1
      <4> QED
        BY <1>2, <1>7, <3>1, <4>1, MadeIs
    <3>3. Past(commits', x.local[job.target]) = Past(commits, x.local[job.target])
      BY <1>2, <1>4, <3>2, LaterIs DEF MachineTyped, Refs
    <3> QED
      BY <1>4, <1>6, <2>1, <3>2, <3>3
  <2>2. CASE ff
    <3>1. commits' = commits /\ c = from /\ into \in Past(commits, from) /\ job.keep = "theirs"
      BY <1>1, <2>2, HistoryIs
    <3>2. Past(commits, into) \subseteq Past(commits, from)
      BY <1>2, <1>6, <3>1, PastIn
    <3> QED
      BY <1>2, <1>4, <1>6, <1>7, <3>1, <3>2, SameLater DEF Mem!Next1
  <2> QED
    BY <2>1, <2>2
<1> HIDE DEF c, at, wt
<1>9. /\ Shaped(y) /\ y.git = x.git /\ y.tree = x.tree /\ y.on = x.on /\ y.local = [x.local EXCEPT ![job.target] = c]
      /\ y.track = x.track /\ y.up = x.up /\ y.wt = wt /\ y.pend = x.pend /\ y.at = at
  <2>1. y = [x EXCEPT !.local[job.target] = c, !.wt = wt, !.at = at]
    OBVIOUS
  <2> HIDE DEF y
  <2> QED
    BY <1>4, <2>1 DEF Shaped
<1> HIDE DEF y
<1>10. x.local \in Refs(Len(commits')) /\ x.track \in Refs(Len(commits'))
  BY <1>2, <1>8, LaterIs DEF MachineTyped
<1>11. y.local \in Refs(Len(commits')) /\ \A n \in Mem!Names : y.local[n] = IF n = job.target THEN c ELSE x.local[n]
  <2>1. y.local \in Refs(Len(commits'))
    BY <1>4, <1>8, <1>9, <1>10, RefMoved
  <2> QED
    BY <2>1, <1>9, <1>10 DEF Refs
<1>12. MachineTyped(y, Len(commits'))
  BY <1>2, <1>7, <1>9, <1>10, <1>11 DEF MachineTyped, wt
<1>13. Committed(y, commits')
  <2>1. FilesAt(commits', x.local[x.on]) = FilesAt(commits, x.local[x.on])
    BY <1>2, <1>4, <1>8, LaterIs DEF MachineTyped, Refs
  <2>2. CASE x.on = job.target
    BY <2>2, <1>4, <1>8, <1>9, <1>11 DEF Committed, wt
  <2>3. CASE x.on # job.target
    BY <2>1, <2>3, <1>3, <1>4, <1>9, <1>11 DEF Committed, wt
  <2> QED
    BY <2>2, <2>3
<1>14. MachineOk(y, commits') /\ (Private(y) <=> x.git = "defaulted") /\ (x.git = "defaulted" => x.track = Mem!NoRef)
  <2>1. CASE Mem!Sends(m)
    <3>1. x.git = "published"
      BY <2>1 DEF Mem!Sends
    <3>2. y.at = [op |-> "send", branch |-> job.target, track |-> TRUE, then |-> Mem!Idle]
      BY <1>9, <2>1 DEF at
    <3>3. /\ y.at = [op |-> "send", branch |-> y.at.branch, track |-> y.at.track, then |-> y.at.then]
          /\ y.at.branch = job.target /\ y.at.then = Mem!Idle /\ y.at.op = "send"
      BY <3>2
    <3>4. Amid(y, commits')
      BY <3>1, <3>3, <1>4, <1>9 DEF Amid
    <3> QED
      BY <3>1, <3>3, <3>4, <1>9, <1>13 DEF MachineOk, Private
  <2>2. CASE ~Mem!Sends(m)
    <3>1. y.at = Mem!Idle /\ x.git = "defaulted" /\ x.track = Mem!NoRef
      BY <2>2, <1>2, <1>3, <1>9 DEF Mem!Sends, at, MachineTyped, MachineOk
    <3> QED
      BY <3>1, <1>9, <1>13 DEF MachineOk, Amid, Private
  <2> QED
    BY <2>1, <2>2
<1>15. Private(y) => Private(x)
  BY <1>14 DEF Private
<1>16. \A d \in Past(commits', c) :
           d > Len(commits) \/ d \in mount \/ (~Private(y) /\ d \in heard \cup Reached(commits, origin))
  BY <1>6, <1>8, <1>14
<1>17. x.pend \subseteq y.wt \cup y.pend
  BY <1>9
<1>18. \A d \in Past(commits', c) :
           \/ d > Len(commits)
           \/ d \in Reached(commits, mach[m].local)
           \/ ~Private(y) /\ d \in Reached(commits, mach[m].track) \cup Reached(commits, origin)
  BY <1>16 DEF mount, heard
<1>19. /\ job.target \in Mem!Names /\ y.local = [mach[m].local EXCEPT ![job.target] = c] /\ c \in 0..Len(commits')
       /\ Past(commits', mach[m].local[job.target]) \subseteq Past(commits', c)
  BY <1>4, <1>8, <1>9
<1> HIDE DEF job
<1>20. Advances(m, y, job.target, c)
  BY <1>1, <1>3, <1>8, <1>9, <1>12, <1>14, <1>15, <1>17, <1>18, <1>19 DEF Advances
<1> QED
  BY <1>20, AdvanceMoves

-----------------------------------------------------------------------------
(* What the commands of the tree do to a mounted memory *)

LEMMA CheckoutKeeps ==
  ASSUME MachinesInv, NEW m \in Machines, NEW b \in Mem!Projects, Mem!Checkout(m, b)
  PROVE  MachinesInv'
<1> DEFINE x     == mach[m]
           to    == Mem!Derived(b)
           heard  == IF x.track[to] # 0 THEN x.track[to] ELSE origin[to]
           start == IF x.local[to] # 0 THEN x.local[to] ELSE IF heard # 0 THEN heard ELSE Mem!HeadOf(m)
           up    == IF x.up[to] = None /\ heard # 0 THEN to ELSE x.up[to]
           z     == [x EXCEPT !.tree = b, !.on = to, !.local[to] = start, !.wt = Mem!Ledger(start),
                              !.track[to] = heard, !.up[to] = up]
           y     == Mem!Noted(z)
<1>1. /\ x.at = Mem!Idle /\ Mem!Mounted(m) /\ Mem!Clean(m) /\ start # 0 /\ records' = records + 1
      /\ commits' = commits /\ origin' = origin
      /\ mach' = [mach EXCEPT ![m] = y]
  <2>1. /\ x.at = Mem!Idle /\ Mem!Mounted(m) /\ Mem!Clean(m) /\ start # 0 /\ records' = records + 1
        /\ commits' = commits /\ origin' = origin
    BY DEF Mem!Checkout, Mem!Notes
  <2>2. mach' = [mach EXCEPT ![m] = y]
    BY DEF Mem!Checkout
  <2> QED
    BY <2>1, <2>2
<1>2. MachineTyped(x, Len(commits)) /\ MachineOk(x, commits) /\ CommitsOk(commits) /\ origin \in Refs(Len(commits))
  BY DEF MachinesInv
<1>3. /\ to \in Mem!Live /\ to \in Mem!Names /\ x.on \in Mem!Names /\ Shaped(x)
      /\ x.local[to] \in 0..Len(commits) /\ Mem!HeadOf(m) = x.local[x.on] /\ Mem!HeadOf(m) \in 0..Len(commits)
      /\ x.track[to] \in 0..Len(commits) /\ origin[to] \in 0..Len(commits) /\ Len(commits) \in Nat
  BY <1>2, NamesAre DEF MachineTyped, Refs, Mem!HeadOf, CommitsOk
<1>4. /\ heard \in {x.track[to], origin[to]} /\ start \in 0..Len(commits)
      /\ start \in {x.local[to], x.track[to], origin[to], x.local[x.on]}
      /\ Past(commits, x.local[to]) \subseteq Past(commits, start)
      /\ Mem!Ledger(start) = FilesAt(commits, start)
  BY <1>3, HistoryIs DEF Past
<1>5. Sheaf(Mem!Ledger(start)) /\ up \in Mem!Names \cup {None}
  BY <1>2, <1>3, <1>4, PastIn DEF MachineTyped
<1> HIDE DEF to, heard, start, up
<1>6. /\ Shaped(z) /\ z.git = x.git /\ z.tree = b /\ z.on = to /\ z.local = [x.local EXCEPT ![to] = start]
      /\ z.track = [x.track EXCEPT ![to] = heard] /\ z.up = [x.up EXCEPT ![to] = up]
      /\ z.wt = Mem!Ledger(start) /\ z.pend = x.pend /\ z.at = Mem!Idle
  <2>1. z = [x EXCEPT !.tree = b, !.on = to, !.local[to] = start, !.wt = Mem!Ledger(start), !.track[to] = heard,
                      !.up[to] = up]
    OBVIOUS
  <2> HIDE DEF z
  <2> QED
    BY <1>1, <1>3, <2>1 DEF Shaped
<1> HIDE DEF z
<1>7. /\ Shaped(y) /\ y.git = z.git /\ y.tree = z.tree /\ y.on = z.on /\ y.local = z.local
      /\ y.track = z.track /\ y.up = z.up /\ y.wt = z.wt /\ y.at = z.at
      /\ z.pend \subseteq y.pend /\ Sheaf(y.pend) /\ records + 1 \in RecordsOn(y, commits)
  BY <1>2, <1>5, <1>6, NotedIs DEF MachineTyped
<1>8. mach' = [mach EXCEPT ![m] = y]
  BY <1>1 DEF z
<1> HIDE DEF y
<1>9. /\ y.local \in Refs(Len(commits)) /\ y.local[to] = start
      /\ y.track \in Refs(Len(commits)) /\ y.up \in [Mem!Names -> Mem!Names \cup {None}]
      /\ \A n \in Mem!Names : y.track[n] \in {x.track[n], origin[n]}
  BY <1>2, <1>3, <1>4, <1>5, <1>6, <1>7 DEF Refs, MachineTyped
<1>10. MachineTyped(y, Len(commits))
  BY <1>2, <1>3, <1>5, <1>6, <1>7, <1>9 DEF MachineTyped
<1>11. x.git = "published" /\ Committed(x, commits) /\ Committed(y, commits)
  BY <1>1, <1>3, <1>4, <1>6, <1>7, <1>9, HistoryIs DEF Mem!Mounted, Mem!Clean, Committed
<1>12. MachineOk(y, commits) /\ ~Private(y)
  BY <1>6, <1>7, <1>11 DEF MachineOk, Amid, Private, Mem!Idle
<1>13. \A d \in Past(commits, start) :
           d \in Reached(commits, x.local) \/ d \in Reached(commits, x.track) \cup Reached(commits, origin)
  BY <1>3, <1>4 DEF Reached
<1>14. y.local = [x.local EXCEPT ![to] = start] /\ x.pend \subseteq y.wt \cup y.pend
  BY <1>6, <1>7
<1>15. Advances(m, y, to, start)
  BY <1>1, <1>2, <1>3, <1>4, <1>7, <1>8, <1>9, <1>10, <1>11, <1>12, <1>13, <1>14, SameLater DEF Advances
<1> QED
  BY <1>15, AdvanceMoves

LEMMA PullKeeps == ASSUME MachinesInv, NEW m \in Machines, Mem!Pull(m) PROVE MachinesInv'
<1> DEFINE x    == mach[m]
           on   == x.on
           from == Mem!Known(m)[Mem!Derived(x.tree)]
           head == IF Mem!HeadOf(m) \in Mem!History(from) \cup {0} THEN from ELSE Mem!HeadOf(m)
           done == head = from \/ from \in Mem!History(head)
           up   == IF done /\ x.up[on] = None /\ Mem!Known(m)[on] # 0 THEN on ELSE x.up[on]
           z    == [x EXCEPT !.track = Mem!Known(m), !.local[on] = head, !.wt = Mem!Ledger(head), !.up[on] = up]
           y    == Mem!Noted(z)
<1>1. /\ x.at = Mem!Idle /\ Mem!Mounted(m) /\ Mem!Clean(m) /\ from # 0 /\ records' = records + 1
      /\ commits' = commits /\ origin' = origin
      /\ mach' = [mach EXCEPT ![m] = y]
  <2>1. /\ x.at = Mem!Idle /\ Mem!Mounted(m) /\ Mem!Clean(m) /\ from # 0 /\ records' = records + 1
        /\ commits' = commits /\ origin' = origin
    BY DEF Mem!Pull, Mem!Notes
  <2>2. mach' = [mach EXCEPT ![m] = y]
    BY DEF Mem!Pull
  <2> QED
    BY <2>1, <2>2
<1>2. MachineTyped(x, Len(commits)) /\ MachineOk(x, commits) /\ CommitsOk(commits) /\ origin \in Refs(Len(commits))
  BY DEF MachinesInv
<1> DEFINE to == Mem!Derived(x.tree)
<1>3. /\ on \in Mem!Names /\ to \in Mem!Names /\ Shaped(x) /\ Len(commits) \in Nat
      /\ Mem!HeadOf(m) = x.local[on] /\ Mem!HeadOf(m) \in 0..Len(commits)
  BY <1>2, NamesAre DEF MachineTyped, Refs, Mem!HeadOf, CommitsOk
<1>4. /\ Mem!Known(m) \in Refs(Len(commits)) /\ \A n \in Mem!Names : Mem!Known(m)[n] \in {x.track[n], origin[n]}
  BY <1>2 DEF Mem!Known, MachineTyped, Refs
<1>5. from \in 0..Len(commits) /\ from \in {x.track[to], origin[to]}
  BY <1>3, <1>4 DEF Refs
<1>6. /\ head \in 0..Len(commits) /\ head \in {x.track[to], origin[to], x.local[on]}
      /\ Past(commits, x.local[on]) \subseteq Past(commits, head)
      /\ Mem!Ledger(head) = FilesAt(commits, head)
  <2>1. CASE Mem!HeadOf(m) \in Past(commits, from) \cup {0}
    <3>1. head = from
      BY <2>1, HistoryIs
    <3>2. Past(commits, Mem!HeadOf(m)) \subseteq Past(commits, from)
      BY <2>1, <1>2, <1>5, PastIn DEF Past
    <3> QED
      BY <3>1, <3>2, <1>3, <1>5, HistoryIs
  <2>2. CASE Mem!HeadOf(m) \notin Past(commits, from) \cup {0}
    <3>1. head = Mem!HeadOf(m)
      BY <2>2, HistoryIs
    <3> QED
      BY <3>1, <1>3, HistoryIs
  <2> QED
    BY <2>1, <2>2
<1>7. Sheaf(Mem!Ledger(head)) /\ up \in Mem!Names \cup {None}
  BY <1>2, <1>3, <1>6, PastIn DEF MachineTyped
<1> HIDE DEF from, head, done, up, on
<1>8. /\ Shaped(z) /\ z.git = x.git /\ z.tree = x.tree /\ z.on = on /\ z.local = [x.local EXCEPT ![on] = head]
      /\ z.track = Mem!Known(m) /\ z.up = [x.up EXCEPT ![on] = up]
      /\ z.wt = Mem!Ledger(head) /\ z.pend = x.pend /\ z.at = Mem!Idle
  <2>1. z = [x EXCEPT !.track = Mem!Known(m), !.local[on] = head, !.wt = Mem!Ledger(head), !.up[on] = up]
    OBVIOUS
  <2>2. x.on = on
    BY DEF on
  <2> HIDE DEF z
  <2> QED
    BY <1>1, <1>3, <2>1, <2>2 DEF Shaped
<1> HIDE DEF z
<1>9. /\ Shaped(y) /\ y.git = z.git /\ y.tree = z.tree /\ y.on = z.on /\ y.local = z.local
      /\ y.track = z.track /\ y.up = z.up /\ y.wt = z.wt /\ y.at = z.at
      /\ z.pend \subseteq y.pend /\ Sheaf(y.pend) /\ records + 1 \in RecordsOn(y, commits)
  BY <1>2, <1>7, <1>8, NotedIs DEF MachineTyped
<1>10. mach' = [mach EXCEPT ![m] = y]
  BY <1>1 DEF z
<1> HIDE DEF y
<1>11. /\ y.local \in Refs(Len(commits)) /\ y.local[on] = head
       /\ y.track \in Refs(Len(commits)) /\ y.up \in [Mem!Names -> Mem!Names \cup {None}]
  BY <1>2, <1>3, <1>4, <1>6, <1>7, <1>8, <1>9 DEF Refs, MachineTyped
<1>12. MachineTyped(y, Len(commits))
  BY <1>2, <1>7, <1>8, <1>9, <1>11 DEF MachineTyped, on
<1>13. x.git = "published" /\ Committed(x, commits) /\ Committed(y, commits)
  <2>1. x.git = "published" /\ Committed(x, commits)
    BY <1>1, <1>3, HistoryIs DEF Mem!Mounted, Mem!Clean, Committed, on
  <2> QED
    BY <2>1, <1>6, <1>8, <1>9, <1>11 DEF Committed
<1>14. MachineOk(y, commits) /\ ~Private(y)
  BY <1>8, <1>9, <1>13 DEF MachineOk, Amid, Private, Mem!Idle
<1>15. \A d \in Past(commits, head) :
           d \in Reached(commits, x.local) \/ d \in Reached(commits, x.track) \cup Reached(commits, origin)
  BY <1>3, <1>6 DEF Reached
<1>16. y.local = [x.local EXCEPT ![on] = head] /\ x.pend \subseteq y.wt \cup y.pend /\ y.track = Mem!Known(m)
  BY <1>8, <1>9
<1>17. Advances(m, y, on, head)
  BY <1>1, <1>2, <1>3, <1>4, <1>6, <1>9, <1>10, <1>12, <1>13, <1>14, <1>15, <1>16, SameLater DEF Advances
<1> QED
  BY <1>17, AdvanceMoves

LEMMA BranchKeeps ==
  ASSUME MachinesInv, NEW m \in Machines, NEW b \in Mem!Projects, Mem!MemoryBranch(m, b)
  PROVE  MachinesInv'
<1> DEFINE x   == mach[m]
           new == Mem!Derived(b)
           hd  == x.local[x.on]
           on  == IF x.on = Mem!Base /\ x.tree = b THEN new ELSE x.on
           at  == [op |-> "send", branch |-> new, track |-> FALSE, then |-> Mem!Idle]
           y   == [x EXCEPT !.local[new] = hd, !.on = on, !.at = at]
<1>1. /\ x.at = Mem!Idle /\ x.git = "published" /\ hd # 0 /\ x.local[new] = 0
      /\ mach' = [mach EXCEPT ![m] = y] /\ commits' = commits /\ origin' = origin /\ records' = records
  <2>1. /\ x.at = Mem!Idle /\ x.git = "published" /\ hd # 0 /\ x.local[new] = 0
        /\ commits' = commits /\ origin' = origin /\ records' = records
    BY DEF Mem!MemoryBranch, Mem!HeadOf
  <2>2. mach' = [mach EXCEPT ![m] = y]
    BY DEF Mem!MemoryBranch, Mem!HeadOf
  <2> QED
    BY <2>1, <2>2
<1>2. MachineTyped(x, Len(commits)) /\ MachineOk(x, commits) /\ CommitsOk(commits)
  BY DEF MachinesInv
<1>3. /\ new \in Mem!Live /\ new \in Mem!Names /\ x.on \in Mem!Names /\ hd \in 0..Len(commits) /\ Shaped(x)
      /\ on \in {new, x.on} /\ Len(commits) \in Nat
  BY <1>2, NamesAre DEF MachineTyped, Refs, CommitsOk
<1> HIDE DEF at, new, on, hd
<1>4. /\ Shaped(y) /\ y.git = x.git /\ y.tree = x.tree /\ y.on = on /\ y.local = [x.local EXCEPT ![new] = hd]
      /\ y.track = x.track /\ y.up = x.up /\ y.wt = x.wt /\ y.pend = x.pend /\ y.at = at
  <2>1. y = [x EXCEPT !.local[new] = hd, !.on = on, !.at = at]
    OBVIOUS
  <2> HIDE DEF y
  <2> QED
    BY <1>3, <2>1 DEF Shaped
<1> HIDE DEF y
<1>5. y.local \in Refs(Len(commits)) /\ \A n \in Mem!Names : y.local[n] = IF n = new THEN hd ELSE x.local[n]
  BY <1>2, <1>3, <1>4 DEF MachineTyped, Refs
<1>6. MachineTyped(y, Len(commits))
  BY <1>2, <1>3, <1>4, <1>5 DEF MachineTyped
<1>7. y.local[y.on] = hd /\ (Committed(y, commits) <=> Committed(x, commits))
  BY <1>1, <1>3, <1>4, <1>5 DEF Committed, hd
<1>8. /\ y.at = [op |-> "send", branch |-> y.at.branch, track |-> y.at.track, then |-> y.at.then]
      /\ y.at.branch = new /\ y.at.then = Mem!Idle /\ y.at.op = "send"
  BY <1>4 DEF at
<1>9. Amid(y, commits)
  BY <1>1, <1>3, <1>4, <1>8 DEF Amid
<1>10. MachineOk(y, commits) /\ ~Private(y)
  BY <1>1, <1>2, <1>4, <1>7, <1>8, <1>9 DEF MachineOk, Spares, Private
<1>11. Past(commits, x.local[new]) \subseteq Past(commits, hd) /\ Past(commits, hd) \subseteq Reached(commits, x.local)
  BY <1>1, <1>3 DEF Past, Reached, hd
<1>12. Advances(m, y, new, hd)
  BY <1>1, <1>2, <1>3, <1>4, <1>6, <1>10, <1>11, SameLater DEF Advances
<1> QED
  BY <1>12, AdvanceMoves

-----------------------------------------------------------------------------
(* Adopting, cloning, joining *)

\* A step of one machine whose branches hold what they held, under whatever names.
LEMMA RenameMoves ==
  ASSUME MachinesInv, NEW m \in Machines, NEW y, mach' = [mach EXCEPT ![m] = y],
         CommitsOk(commits'), Grown(commits, commits'),
         records' = records \/ (records' = records + 1 /\ records + 1 \in RecordsOn(y, commits')),
         MachineTyped(y, Len(commits')), MachineOk(y, commits'), Private(y) => Private(mach[m]),
         Reached(commits, mach[m].local) \subseteq Reached(commits', y.local),
         \A d \in Reached(commits', y.local) : d > Len(commits) \/ d \in Reached(commits, mach[m].local),
         Reached(commits', y.track) \subseteq Reached(commits, mach[m].track) \cup Reached(commits, mach[m].local),
         Committed(mach[m], commits) \/ mach[m].wt \subseteq y.wt,
         mach[m].pend \subseteq y.wt \cup y.pend,
         origin' \in Refs(Len(commits)), origin'[Mem!Base] = 1,
         \/ origin' = origin
         \/ /\ ~Private(mach[m]) /\ ~Private(y)
            /\ Reached(commits, origin') \subseteq Reached(commits, origin) \cup Reached(commits, mach[m].local)
  PROVE  MachinesInv'
<1> DEFINE x == mach[m]
<1>1. CommitsOk(commits) /\ MachineTyped(x, Len(commits)) /\ x.local \in Refs(Len(commits))
  BY DEF MachinesInv, MachineTyped
<1>2. RecordsOn(x, commits) \subseteq RecordsOn(y, commits')
  <2>1. ASSUME NEW e \in x.wt \cup x.pend
        PROVE  e \in y.wt \cup y.pend \/ \E d \in Reached(commits', y.local) : e \in FilesAt(commits', d)
    <3>1. CASE e \in x.pend \/ x.wt \subseteq y.wt
      BY <3>1
    <3>2. CASE e \in x.wt /\ Committed(x, commits)
      <4>1. PICK d \in Reached(commits, x.local) : e \in FilesAt(commits, d)
        BY <1>1, <3>2, CommittedIs
      <4>2. d \in 0..Len(commits)
        BY <1>1, ReachedIn
      <4> QED
        BY <1>1, <4>1, <4>2, LaterIs
    <3> QED
      BY <3>1, <3>2
  <2> QED
    BY <1>1, <2>1, HoldsGrow
<1>3. Private(y) => Reached(commits', y.track) = {}
  BY PrivateHidden
<1>4. Moved(x, y, commits, commits', records')
  BY <1>2, <1>3 DEF Moved
<1>5. Moves(m, y)
  BY <1>4 DEF Moves
<1> QED
  BY <1>5, MovesKeep

LEMMA CloneKeeps == ASSUME MachinesInv, NEW m \in Machines, Mem!Clone(m) PROVE MachinesInv'
<1> DEFINE x == mach[m]
           b == Mem!Derived(x.tree)
           c == origin[b]
           track == [Mem!NoRef EXCEPT ![b] = c]
           up    == [Mem!NoUp EXCEPT ![b] = b]
           y == [x EXCEPT !.git = "published", !.on = b, !.remote = "origin", !.local = track, !.track = track,
                          !.up = up, !.wt = Mem!Ledger(c)]
<1>1. /\ x.at = Mem!Idle /\ x.git = "none" /\ c # 0
      /\ mach' = [mach EXCEPT ![m] = y] /\ commits' = commits /\ origin' = origin /\ records' = records
  <2>1. /\ x.at = Mem!Idle /\ x.git = "none" /\ c # 0
        /\ commits' = commits /\ origin' = origin /\ records' = records
    BY DEF Mem!Clone
  <2>2. mach' = [mach EXCEPT ![m] = y]
    BY DEF Mem!Clone
  <2> QED
    BY <2>1, <2>2
<1>2. MachineTyped(x, Len(commits)) /\ MachineOk(x, commits) /\ CommitsOk(commits) /\ origin \in Refs(Len(commits))
  BY DEF MachinesInv
<1>3. b \in Mem!Live /\ b \in Mem!Names /\ c \in 0..Len(commits) /\ Shaped(x) /\ Len(commits) \in Nat
  BY <1>2, NamesAre DEF MachineTyped, Refs, CommitsOk
<1>4. x.local = Mem!NoRef /\ x.track = Mem!NoRef /\ x.wt = {}
  BY <1>1, <1>2 DEF MachineOk
<1>5. /\ track \in Refs(Len(commits)) /\ \A n \in Mem!Names : track[n] = IF n = b THEN c ELSE 0
      /\ up \in [Mem!Names -> Mem!Names \cup {None}]
  BY <1>3 DEF Refs, Mem!NoRef, Mem!NoUp
<1>6. Sheaf(Mem!Ledger(c)) /\ Mem!Ledger(c) = FilesAt(commits, c)
  BY <1>2, <1>3, PastIn, HistoryIs
<1>7. track = [x.local EXCEPT ![b] = c] /\ \A n \in Mem!Names : track[n] \in {x.track[n], origin[n]}
  BY <1>4, <1>5 DEF Mem!NoRef
<1>8. Past(commits, c) \subseteq Reached(commits, origin) /\ Past(commits, x.local[b]) = {}
  BY <1>3, <1>4 DEF Reached, Past, Mem!NoRef
<1> HIDE DEF track, up, b, c
<1>9. /\ Shaped(y) /\ y.git = "published" /\ y.tree = x.tree /\ y.on = b /\ y.local = track
      /\ y.track = track /\ y.up = up /\ y.wt = Mem!Ledger(c) /\ y.pend = x.pend /\ y.at = Mem!Idle
  <2>1. y = [x EXCEPT !.git = "published", !.on = b, !.remote = "origin", !.local = track, !.track = track,
                      !.up = up, !.wt = Mem!Ledger(c)]
    OBVIOUS
  <2> HIDE DEF y
  <2> QED
    BY <1>1, <1>3, <2>1 DEF Shaped
<1> HIDE DEF y
<1>10. MachineTyped(y, Len(commits)) /\ Committed(y, commits)
  BY <1>2, <1>3, <1>5, <1>6, <1>9 DEF MachineTyped, Committed
<1>11. MachineOk(y, commits) /\ ~Private(y)
  BY <1>9, <1>10 DEF MachineOk, Amid, Private, Mem!Idle
<1>12. y.local = [mach[m].local EXCEPT ![b] = c] /\ mach[m].wt \subseteq y.wt /\ mach[m].pend \subseteq y.pend
       /\ \A n \in Mem!Names : y.track[n] \in {mach[m].track[n], origin[n]}
  BY <1>4, <1>7, <1>9
<1>13. /\ Past(commits, mach[m].local[b]) \subseteq Past(commits, c)
       /\ \A d \in Past(commits, c) : d \in Reached(commits, mach[m].track) \cup Reached(commits, origin)
  BY <1>8
<1>14. Advances(m, y, b, c)
  BY <1>1, <1>2, <1>3, <1>10, <1>11, <1>12, <1>13, SameLater DEF Advances
<1> QED
  BY <1>14, AdvanceMoves

LEMMA JobIs ==
  ASSUME NEW k \in BOOLEAN, NEW r, NEW w, NEW at, at = [op |-> "join", kept |-> k, reboot |-> r, was |-> w]
  PROVE  /\ at = [op |-> "join", kept |-> at.kept, reboot |-> at.reboot, was |-> at.was]
         /\ at.kept \in BOOLEAN /\ (at.kept <=> k) /\ at.was = w /\ at.op = "join"
OBVIOUS

LEMMA AdoptKeeps ==
  ASSUME MachinesInv, NEW m \in Machines, NEW reboot \in BOOLEAN, Mem!Adopt(m, reboot)
  PROVE  MachinesInv'
<1> DEFINE x     == mach[m]
           to    == Mem!Derived(x.tree)
           kept  == x.git = "defaulted"
           hd    == x.local[x.on]
           local == IF kept THEN [x.local EXCEPT ![x.on] = 0, ![to] = hd] ELSE Mem!NoRef
           at    == [op |-> "join", kept |-> kept, reboot |-> reboot, was |-> x]
           y     == [x EXCEPT !.git = "published", !.on = to, !.remote = "origin", !.local = local, !.at = at]
<1>1. /\ x.at = Mem!Idle /\ (kept \/ x.git = "none") /\ (kept /\ x.on # to => x.local[to] = 0)
      /\ mach' = [mach EXCEPT ![m] = y] /\ commits' = commits /\ origin' = origin /\ records' = records
  <2>1. /\ x.at = Mem!Idle /\ (kept \/ x.git = "none") /\ (kept /\ x.on # to => x.local[to] = 0)
        /\ commits' = commits /\ origin' = origin /\ records' = records
    BY DEF Mem!Adopt
  <2>2. mach' = [mach EXCEPT ![m] = y]
    BY DEF Mem!Adopt, Mem!HeadOf
  <2> QED
    BY <2>1, <2>2
<1>2. MachineTyped(x, Len(commits)) /\ MachineOk(x, commits) /\ CommitsOk(commits) /\ origin \in Refs(Len(commits))
  BY DEF MachinesInv
<1>3. to \in Mem!Live /\ to \in Mem!Names /\ x.on \in Mem!Names /\ hd \in 0..Len(commits) /\ Shaped(x)
      /\ Len(commits) \in Nat
  BY <1>2, NamesAre DEF MachineTyped, Refs, CommitsOk
<1>4. x.track = Mem!NoRef /\ (~kept => x.local = Mem!NoRef /\ x.wt = {})
  BY <1>1, <1>2 DEF MachineOk
<1>5. local \in Refs(Len(commits)) /\ local[to] = hd
      /\ \A n \in Mem!Names : local[n] = IF n = to THEN hd ELSE IF n = x.on THEN 0 ELSE x.local[n]
  <2>1. CASE kept
    <3>1. local = [x.local EXCEPT ![x.on] = 0, ![to] = hd]
      BY <2>1
    <3>2. x.local \in [Mem!Names -> 0..Len(commits)]
      BY <1>2 DEF MachineTyped, Refs
    <3> HIDE DEF local, to, hd, kept
    <3> QED
      BY <3>1, <3>2, <1>3, TakesPlace DEF Refs
  <2>2. CASE ~kept
    <3>1. local = Mem!NoRef /\ hd = 0 /\ x.local = Mem!NoRef
      BY <2>2, <1>3, <1>4 DEF Mem!NoRef
    <3> HIDE DEF local, to, hd, kept
    <3> QED
      BY <3>1, <1>3 DEF Refs, Mem!NoRef
  <2> QED
    BY <2>1, <2>2
<1>6. Reached(commits, local) = Reached(commits, x.local)
  <2>1. \A n \in Mem!Names : Past(commits, local[n]) \subseteq Reached(commits, x.local)
    BY <1>3, <1>5 DEF Reached, Past
  <2>2. \A n \in Mem!Names : Past(commits, x.local[n]) \subseteq Reached(commits, local)
    <3>1. ASSUME NEW n \in Mem!Names PROVE \E k \in Mem!Names : x.local[n] = 0 \/ local[k] = x.local[n]
      <4>1. CASE kept
        BY <4>1, <1>1, <1>3, <1>5
      <4>2. CASE ~kept
        BY <4>2, <1>4 DEF Mem!NoRef
      <4> QED
        BY <4>1, <4>2
    <3> QED
      BY <3>1 DEF Reached, Past
  <2> QED
    BY <2>1, <2>2 DEF Reached
<1> HIDE DEF local, at, to
<1>7. /\ Shaped(y) /\ y.git = "published" /\ y.tree = x.tree /\ y.on = to /\ y.local = local
      /\ y.track = x.track /\ y.up = x.up /\ y.wt = x.wt /\ y.pend = x.pend /\ y.at = at
  <2>1. y = [x EXCEPT !.git = "published", !.on = to, !.remote = "origin", !.local = local, !.at = at]
    OBVIOUS
  <2> HIDE DEF y, kept, hd
  <2> QED
    BY <1>3, <2>1 DEF Shaped
<1> HIDE DEF y
<1>8. MachineTyped(y, Len(commits))
  BY <1>2, <1>3, <1>5, <1>7 DEF MachineTyped
<1>9. /\ y.at = [op |-> "join", kept |-> y.at.kept, reboot |-> y.at.reboot, was |-> y.at.was]
      /\ y.at.kept \in BOOLEAN /\ (y.at.kept <=> kept) /\ y.at.was = x /\ y.at.op = "join"
  <2>1. PICK k \in BOOLEAN : k = kept
    OBVIOUS
  <2>2. y.at = [op |-> "join", kept |-> k, reboot |-> reboot, was |-> x]
    BY <1>7, <2>1 DEF at
  <2> HIDE DEF kept
  <2> QED
    BY <2>1, <2>2, JobIs
<1>10. kept => Renamed(y, x, Len(commits))
  BY <1>1, <1>2, <1>4, <1>7 DEF Renamed, local, MachineTyped
<1>11. ~kept => y.wt = {} /\ y.local = Mem!NoRef
  BY <1>4, <1>7 DEF local
<1>12. Amid(y, commits)
  BY <1>3, <1>7, <1>9, <1>10, <1>11 DEF Amid
<1>13. Committed(y, commits) <=> Committed(x, commits)
  BY <1>5, <1>7 DEF Committed
<1>14. MachineOk(y, commits) /\ (Private(y) => Private(x))
  BY <1>2, <1>7, <1>9, <1>12, <1>13 DEF MachineOk, Spares, Private
<1>15. origin[Mem!Base] = 1
  BY DEF MachinesInv
<1> QED
  BY <1>1, <1>2, <1>3, <1>6, <1>7, <1>8, <1>14, <1>15, SameLater, RenameMoves

\* Undone, a kept memory has its branch and its ledger back.
LEMMA UndoneIs ==
  ASSUME MachinesInv, NEW m \in Machines, mach[m].at.op = "join", mach[m].at.kept,
         NEW y, y = Mem!Undone(m)
  PROVE  /\ Shaped(y) /\ y.git = "defaulted" /\ y.tree = mach[m].tree /\ y.on = mach[m].at.was.on
         /\ y.local = mach[m].at.was.local /\ y.remote = mach[m].at.was.remote
         /\ y.track = Mem!NoRef /\ mach[m].track = Mem!NoRef
         /\ y.up = mach[m].up /\ y.wt = mach[m].wt /\ y.pend = mach[m].pend /\ y.at = Mem!Idle
         /\ Renamed(mach[m], mach[m].at.was, Len(commits))
<1> DEFINE x     == mach[m]
           was   == x.at.was
           local == [x.local EXCEPT ![x.on] = 0, ![was.on] = x.local[x.on]]
           track == IF was.remote = None THEN Mem!NoRef ELSE x.track
<1>1. MachineTyped(x, Len(commits)) /\ MachineOk(x, commits)
  BY DEF MachinesInv
<1>2. Renamed(x, was, Len(commits))
  BY <1>1 DEF MachineOk, Amid, Mem!Idle, IsMerge
<1>3. x.track = Mem!NoRef /\ track = Mem!NoRef
  BY <1>2 DEF Renamed
<1>4. local = was.local
  <2>1. /\ was.on \in Mem!Names /\ x.on \in Mem!Names /\ was.local \in Refs(Len(commits))
        /\ x.local = [was.local EXCEPT ![was.on] = 0, ![x.on] = was.local[was.on]]
        /\ x.on # was.on => was.local[x.on] = 0
    BY <1>1, <1>2, NamesAre DEF Renamed, MachineTyped
  <2> HIDE DEF x, was
  <2>2. was.local \in [Mem!Names -> 0..Len(commits)]
    BY <2>1 DEF Refs
  <2>3. x.local[x.on] = was.local[was.on]
    BY <2>1, <2>2
  <2>4. \A n \in Mem!Names : local[n] = was.local[n]
    BY <2>1, <2>2, <2>3
  <2>5. local \in [Mem!Names -> 0..Len(commits)]
    BY <2>1, <2>2, <2>3
  <2> QED
    BY <2>2, <2>4, <2>5
<1> HIDE DEF local, track
<1>5. y = [x EXCEPT !.git = "defaulted", !.at = Mem!Idle, !.on = was.on, !.local = local, !.remote = was.remote,
                    !.track = track]
  BY DEF Mem!Undone, Mem!HeadOf, local, track
<1>6. Shaped(x)
  BY <1>1 DEF MachineTyped
<1>7. /\ Shaped(y) /\ y.git = "defaulted" /\ y.tree = x.tree /\ y.on = was.on /\ y.local = local
      /\ y.remote = was.remote /\ y.track = track /\ y.up = x.up /\ y.wt = x.wt /\ y.pend = x.pend /\ y.at = Mem!Idle
  <2> HIDE DEF x, was
  <2> QED
    BY <1>5, <1>6 DEF Shaped
<1> QED
  BY <1>2, <1>3, <1>4, <1>7

LEMMA FailsKeeps == ASSUME MachinesInv, NEW m \in Machines, Mem!JoinFails(m) PROVE MachinesInv'
<1> DEFINE x   == mach[m]
           was == x.at.was
           y   == Mem!Undone(m)
<1>1. x.at.op = "join" /\ commits' = commits /\ origin' = origin /\ records' = records
  BY DEF Mem!JoinFails
<1>2. CASE ~x.at.kept
  <2>1. mach' = [mach EXCEPT ![m].at = Mem!Idle]
    BY <1>2 DEF Mem!JoinFails
  <2> QED
    BY <1>1, <2>1, EndsKeeps
<1>3. CASE x.at.kept
  <2>1. mach' = [mach EXCEPT ![m] = y]
    BY <1>3 DEF Mem!JoinFails
  <2> HIDE DEF y
  <2>2. /\ Shaped(y) /\ y.git = "defaulted" /\ y.tree = x.tree /\ y.on = was.on /\ y.local = was.local
        /\ y.track = Mem!NoRef /\ x.track = Mem!NoRef /\ y.up = x.up /\ y.wt = x.wt /\ y.pend = x.pend
        /\ y.at = Mem!Idle
        /\ Renamed(x, was, Len(commits))
    BY <1>1, <1>3, UndoneIs DEF y
  <2>3. MachineTyped(x, Len(commits)) /\ MachineOk(x, commits) /\ CommitsOk(commits) /\ origin \in Refs(Len(commits))
        /\ origin[Mem!Base] = 1
    BY DEF MachinesInv
  <2>4. /\ was.on \in Mem!Live \cup {Mem!Base} /\ was.on \in Mem!Names /\ x.on \in Mem!Names
        /\ was.local \in Refs(Len(commits))
        /\ x.local = [was.local EXCEPT ![was.on] = 0, ![x.on] = was.local[was.on]]
        /\ x.on # was.on => was.local[x.on] = 0
    BY <2>2, <2>3, NamesAre DEF Renamed, MachineTyped
  <2>5. MachineTyped(y, Len(commits))
    BY <2>2, <2>3, <2>4 DEF MachineTyped
  <2>6. \A n \in Mem!Names : x.local[n] = IF n = x.on THEN was.local[was.on] ELSE IF n = was.on THEN 0 ELSE was.local[n]
    BY <2>4 DEF Refs
  <2>7. Reached(commits, x.local) = Reached(commits, was.local)
    <3>1. \A n \in Mem!Names : Past(commits, x.local[n]) \subseteq Reached(commits, was.local)
      <4>1. \A n \in Mem!Names : \E k \in Mem!Names : x.local[n] = 0 \/ was.local[k] = x.local[n]
        BY <2>4, <2>6
      <4> QED
        BY <4>1 DEF Reached, Past
    <3>2. \A n \in Mem!Names : \E k \in Mem!Names : was.local[n] = 0 \/ x.local[k] = was.local[n]
      BY <2>4, <2>6
    <3>3. \A n \in Mem!Names : Past(commits, was.local[n]) \subseteq Reached(commits, x.local)
      BY <3>2 DEF Reached, Past
    <3> QED
      BY <3>1, <3>3 DEF Reached
  <2>8. Committed(y, commits) <=> Committed(x, commits)
    BY <2>2, <2>4, <2>6 DEF Committed
  <2>9. MachineOk(y, commits) /\ Private(x)
    BY <1>1, <1>3, <2>2, <2>3, <2>8 DEF MachineOk, Spares, Amid, Private
  <2>10. Reached(commits, y.track) \subseteq Reached(commits, x.track)
    BY <2>2
  <2> QED
    BY <1>1, <2>1, <2>2, <2>3, <2>5, <2>7, <2>9, <2>10, SameLater, RenameMoves
<1> QED
  BY <1>2, <1>3

LEMMA JoinKeeps == ASSUME MachinesInv, NEW m \in Machines, Mem!Join(m) PROVE MachinesInv'
<1> DEFINE x    == mach[m]
           job  == x.at
           join == origin[Mem!Base] # 0 /\ ~job.reboot
           hd   == x.local[x.on]
           ob   == origin[Mem!Base]
           joined  == Mem!Ledger(ob) \cup x.wt
           done == [x EXCEPT !.at = Mem!Idle, !.track = Mem!Known(m)]
<1>1. x.at.op = "join" /\ origin' = origin /\ records' = records
  BY DEF Mem!Join
<1>2. MachineTyped(x, Len(commits)) /\ MachineOk(x, commits) /\ CommitsOk(commits) /\ origin \in Refs(Len(commits))
  BY DEF MachinesInv
<1>3. /\ x.git = "published" /\ x.at.kept \in BOOLEAN
      /\ ~x.at.kept => x.wt = {} /\ x.local = Mem!NoRef
  BY <1>1, <1>2 DEF MachineOk, Amid, Mem!Idle, IsMerge
<1>4. /\ x.on \in Mem!Names /\ hd \in 0..Len(commits) /\ ob \in 0..Len(commits) /\ Len(commits) \in Nat
      /\ Mem!HeadOf(m) = hd /\ Shaped(x) /\ Mem!Known(m) \in Refs(Len(commits))
      /\ \A n \in Mem!Names : Mem!Known(m)[n] \in {x.track[n], origin[n]}
  BY <1>2, NamesAre DEF MachineTyped, Refs, CommitsOk, Mem!HeadOf, Mem!Known
<1>5. Sheaf(Mem!Ledger(ob)) /\ Mem!Ledger(ob) = FilesAt(commits, ob)
  BY <1>2, <1>4, PastIn, HistoryIs
<1>6. Sheaf(joined)
  BY <1>2, <1>5, SheafBoth DEF MachineTyped
<1>7. Past(commits, ob) \subseteq Reached(commits, origin) /\ Past(commits, hd) \subseteq Reached(commits, x.local)
  BY <1>4, NamesAre DEF Reached
\* What the record is in each of the three cases.
<1>8. ASSUME NEW c \in 0..Len(commits'), NEW wt, Sheaf(wt), NEW up \in [Mem!Names -> Mem!Names \cup {None}], NEW y,
             mach' = [mach EXCEPT ![m] = y],
             y = [x EXCEPT !.at = Mem!Idle, !.track = Mem!Known(m), !.local = [x.local EXCEPT ![x.on] = c],
                           !.up = up, !.wt = wt],
             CommitsOk(commits'), Grown(commits, commits'),
             Past(commits', hd) \subseteq Past(commits', c),
             \A d \in Past(commits', c) : d > Len(commits) \/ d \in Past(commits, hd) \/ d \in Past(commits, ob),
             (wt = x.wt /\ c = hd) \/ (x.wt \subseteq wt /\ wt = FilesAt(commits', c))
      PROVE  MachinesInv'
  <2>1. /\ Shaped(y) /\ y.git = x.git /\ y.tree = x.tree /\ y.on = x.on /\ y.local = [x.local EXCEPT ![x.on] = c]
        /\ y.track = Mem!Known(m) /\ y.up = up /\ y.wt = wt /\ y.pend = x.pend /\ y.at = Mem!Idle
    BY <1>4, <1>8 DEF Shaped
  <2>2. x.local \in Refs(Len(commits')) /\ Mem!Known(m) \in Refs(Len(commits'))
        /\ FilesAt(commits', hd) = FilesAt(commits, hd)
    BY <1>2, <1>4, <1>8, LaterIs DEF MachineTyped
  <2>3. y.local \in Refs(Len(commits')) /\ y.local[x.on] = c
    BY <1>4, <2>1, <2>2 DEF Refs
  <2>4. MachineTyped(y, Len(commits'))
    BY <1>2, <1>8, <2>1, <2>2, <2>3 DEF MachineTyped
  <2>5. Committed(y, commits') \/ Spares(y)
    <3>1. CASE wt = x.wt /\ c = hd
      BY <3>1, <1>2, <2>1, <2>2, <2>3 DEF MachineOk, Committed, Spares
    <3>2. CASE wt = FilesAt(commits', c)
      BY <3>2, <2>1, <2>3 DEF Committed
    <3> QED
      BY <3>1, <3>2, <1>8
  <2>6. MachineOk(y, commits') /\ ~Private(y)
    BY <2>1, <2>5, <1>3 DEF MachineOk, Amid, Private, Mem!Idle
  <2>7. \A d \in Past(commits', c) :
            \/ d > Len(commits)
            \/ d \in Reached(commits, mach[m].local)
            \/ d \in Reached(commits, mach[m].track) \cup Reached(commits, origin)
    BY <1>7, <1>8
  <2>8. /\ y.local = [mach[m].local EXCEPT ![x.on] = c] /\ mach[m].wt \subseteq y.wt /\ mach[m].pend \subseteq y.pend
        /\ \A n \in Mem!Names : y.track[n] \in {mach[m].track[n], origin[n]}
        /\ Past(commits', mach[m].local[x.on]) \subseteq Past(commits', c)
    BY <1>4, <1>8, <2>1
  <2>9. Advances(m, y, x.on, c)
    BY <1>1, <1>4, <1>8, <2>4, <2>6, <2>7, <2>8 DEF Advances
  <2> QED
    BY <2>9, AdvanceMoves
<1>9. CASE ~join
  <2>1. commits' = commits /\ mach' = [mach EXCEPT ![m] = done]
    BY <1>9 DEF Mem!Join
  <2>2. done = [x EXCEPT !.at = Mem!Idle, !.track = Mem!Known(m), !.local = [x.local EXCEPT ![x.on] = hd],
                         !.up = x.up, !.wt = x.wt]
    <3>1. x.local = [x.local EXCEPT ![x.on] = hd]
      BY <1>2, <1>4 DEF MachineTyped, Refs
    <3>2. done = [x EXCEPT !.at = Mem!Idle, !.track = Mem!Known(m)]
      OBVIOUS
    <3> HIDE DEF done, hd
    <3> QED
      BY <3>1, <3>2, <1>4 DEF Shaped
  <2>3. x.up \in [Mem!Names -> Mem!Names \cup {None}] /\ Sheaf(x.wt)
    BY <1>2 DEF MachineTyped
  <2>4. CommitsOk(commits') /\ Grown(commits, commits') /\ hd \in 0..Len(commits')
    BY <1>2, <1>4, <2>1, SameLater
  <2>5. PICK y : y = done
    OBVIOUS
  <2> HIDE DEF done, hd, ob, x
  <2> QED
    BY <1>8, <2>1, <2>2, <2>3, <2>4
<1>10. CASE join /\ ~job.kept
  <2> DEFINE up == [x.up EXCEPT ![x.on] = Mem!Base]
             y  == [done EXCEPT !.local[x.on] = ob, !.up[x.on] = Mem!Base, !.wt = Mem!Ledger(ob)]
  <2>1. commits' = commits /\ mach' = [mach EXCEPT ![m] = y]
    BY <1>10 DEF Mem!Join
  <2>2. y = [x EXCEPT !.at = Mem!Idle, !.track = Mem!Known(m), !.local = [x.local EXCEPT ![x.on] = ob], !.up = up,
                      !.wt = Mem!Ledger(ob)]
    <3>1. y = [done EXCEPT !.local[x.on] = ob, !.up[x.on] = Mem!Base, !.wt = Mem!Ledger(ob)]
      OBVIOUS
    <3>2. done = [x EXCEPT !.at = Mem!Idle, !.track = Mem!Known(m)]
      OBVIOUS
    <3> HIDE DEF done, ob, y
    <3> QED
      BY <3>1, <3>2, <1>4 DEF Shaped
  <2>3. up \in [Mem!Names -> Mem!Names \cup {None}] /\ hd = 0 /\ x.wt = {}
    BY <1>2, <1>3, <1>4, <1>10, NamesAre DEF MachineTyped, Mem!NoRef
  <2>4. CommitsOk(commits') /\ Grown(commits, commits') /\ ob \in 0..Len(commits') /\ Past(commits', hd) = {}
    BY <1>2, <1>4, <2>1, <2>3, SameLater DEF Past
  <2> HIDE DEF y, hd, ob, x, up
  <2> QED
    BY <1>5, <1>8, <2>1, <2>2, <2>3, <2>4
<1>11. CASE join /\ job.kept
  <2> DEFINE y == [done EXCEPT !.local[x.on] = Mem!Next1, !.wt = joined]
  <2>1. commits' = Mem!Made({hd, ob}, joined) /\ mach' = [mach EXCEPT ![m] = y]
    BY <1>11 DEF Mem!Join, Mem!HeadOf
  <2>2. y = [x EXCEPT !.at = Mem!Idle, !.track = Mem!Known(m), !.local = [x.local EXCEPT ![x.on] = Mem!Next1],
                      !.up = x.up, !.wt = joined]
    <3>1. y = [done EXCEPT !.local[x.on] = Mem!Next1, !.wt = joined]
      OBVIOUS
    <3>2. done = [x EXCEPT !.at = Mem!Idle, !.track = Mem!Known(m)]
      OBVIOUS
    <3> HIDE DEF done, joined, y
    <3> QED
      BY <3>1, <3>2, <1>4 DEF Shaped
  <2>3. x.up \in [Mem!Names -> Mem!Names \cup {None}]
    BY <1>2 DEF MachineTyped
  <2>4. {hd, ob} \in SUBSET (0..Len(commits))
    BY <1>4
  <2> HIDE DEF y, hd, ob, x, joined
  <2>5. /\ CommitsOk(commits') /\ Grown(commits, commits') /\ Mem!Next1 = Len(commits) + 1 /\ Len(commits') = Mem!Next1
        /\ Past(commits', Mem!Next1) = {Mem!Next1} \cup UNION {Past(commits, d) : d \in {hd, ob}}
        /\ FilesAt(commits', Mem!Next1) = joined
    BY <1>2, <1>6, <2>1, <2>4, MadeIs
  <2>6. Past(commits', hd) = Past(commits, hd) /\ Mem!Next1 \in 0..Len(commits') /\ Mem!Next1 > Len(commits)
    BY <1>2, <1>4, <2>5, LaterIs
  <2>7. Past(commits', hd) \subseteq Past(commits', Mem!Next1)
        /\ \A d \in Past(commits', Mem!Next1) : d > Len(commits) \/ d \in Past(commits, hd) \/ d \in Past(commits, ob)
    BY <2>5, <2>6
  <2>8. x.wt \subseteq joined
    BY DEF joined
  <2> QED
    BY <1>6, <1>8, <2>1, <2>2, <2>3, <2>5, <2>6, <2>7, <2>8
<1> QED
  BY <1>3, <1>9, <1>10, <1>11

-----------------------------------------------------------------------------
(* The steps of a reboot *)

\* A machine in the middle of a reboot.
LEMMA RebootingIs ==
  ASSUME MachinesInv, NEW m \in Machines, mach[m].at.op \in {"archive", "delete", "orphan"}
  PROVE  /\ mach[m].at = [op |-> mach[m].at.op, branch |-> mach[m].on] /\ mach[m].at.branch = mach[m].on
         /\ mach[m].on \in Mem!Live /\ mach[m].git = "published" /\ Committed(mach[m], commits)
         /\ mach[m].at.op # "archive" => mach[m].local[Mem!Archive(mach[m].on)] = 0
<1>1. MachineOk(mach[m], commits)
  BY DEF MachinesInv
<1>2. mach[m].at \in [op : {"archive", "delete", "orphan"}, branch : {mach[m].on}]
      /\ mach[m].on \in Mem!Live /\ mach[m].git = "published" /\ Committed(mach[m], commits)
      /\ (mach[m].at.op # "archive" => mach[m].local[Mem!Archive(mach[m].on)] = 0)
  BY <1>1 DEF MachineOk, Amid, Mem!Idle, IsMerge
<1> QED
  BY <1>2

\* A step of a reboot: what the machine is in the middle of, and one of the branches it saw.
LEMMA RebootMoves ==
  ASSUME MachinesInv, NEW m \in Machines, mach[m].at.op \in {"archive", "delete"},
         NEW op \in {"delete", "orphan"}, mach[m].local[Mem!Archive(mach[m].on)] = 0,
         NEW b \in Mem!Names \ {Mem!Base}, NEW k \in {0, mach[m].local[mach[m].on]},
         mach' = [mach EXCEPT ![m].at.op = op, ![m].track[b] = k],
         origin' = [origin EXCEPT ![b] = k],
         commits' = commits, records' = records
  PROVE  MachinesInv'
<1> DEFINE x == mach[m]
           y == [x EXCEPT !.at.op = op, !.track[b] = k]
<1>1. /\ MachineTyped(x, Len(commits)) /\ MachineOk(x, commits) /\ CommitsOk(commits)
      /\ origin \in Refs(Len(commits)) /\ origin[Mem!Base] = 1 /\ mach = [o \in Machines |-> mach[o]]
  BY DEF MachinesInv
<1>2. /\ x.at = [op |-> x.at.op, branch |-> x.on] /\ x.on \in Mem!Live /\ x.git = "published" /\ Committed(x, commits)
  BY RebootingIs
<1>3. x.on \in Mem!Names /\ k \in 0..Len(commits) /\ Shaped(x) /\ Len(commits) \in Nat
  BY <1>1, NamesAre DEF MachineTyped, Refs, CommitsOk
<1>4. mach' = [mach EXCEPT ![m] = y]
  BY <1>1, <1>3 DEF Shaped
<1>5. /\ Shaped(y) /\ y.git = x.git /\ y.tree = x.tree /\ y.on = x.on /\ y.local = x.local
      /\ y.track = [x.track EXCEPT ![b] = k] /\ y.up = x.up /\ y.wt = x.wt /\ y.pend = x.pend
      /\ y.at = [op |-> op, branch |-> x.on]
  <2>1. y = [x EXCEPT !.at = [x.at EXCEPT !.op = op], !.track = [x.track EXCEPT ![b] = k]]
    OBVIOUS
  <2>2. [x.at EXCEPT !.op = op] = [op |-> op, branch |-> x.on]
    BY <1>2
  <2> HIDE DEF y
  <2> QED
    BY <1>3, <2>1, <2>2 DEF Shaped
<1> HIDE DEF y
<1>6. y.track \in Refs(Len(commits)) /\ \A n \in Mem!Names : y.track[n] = IF n = b THEN k ELSE x.track[n]
  BY <1>1, <1>3, <1>5 DEF MachineTyped, Refs
<1>7. MachineTyped(y, Len(commits))
  BY <1>1, <1>5, <1>6 DEF MachineTyped
<1>8. MachineOk(y, commits) /\ ~Private(y) /\ ~Private(x)
  <2>1. y.at.op = op /\ y.at \in [op : {"archive", "delete", "orphan"}, branch : {y.on}]
    BY <1>5
  <2>2. Committed(y, commits)
    BY <1>2, <1>5 DEF Committed
  <2> QED
    BY <1>2, <1>5, <2>1, <2>2 DEF MachineOk, Amid, Private
<1>9. Past(commits, k) \subseteq Reached(commits, x.local)
  BY <1>3 DEF Reached, Past
<1>10. Reached(commits, y.track) \subseteq Reached(commits, x.track) \cup Reached(commits, x.local)
  BY <1>6, <1>9 DEF Reached
<1>11. origin' \in Refs(Len(commits)) /\ \A n \in Mem!Names : origin'[n] = IF n = b THEN k ELSE origin[n]
  BY <1>1, <1>3 DEF Refs
<1>12. origin'[Mem!Base] = 1
       /\ Reached(commits, origin') \subseteq Reached(commits, origin) \cup Reached(commits, x.local)
  BY <1>1, <1>9, <1>11, NamesAre DEF Reached
<1>13. \A d \in Reached(commits, y.local) : d \in Reached(commits, x.local)
  BY <1>5
<1>14. Reached(commits, x.local) \subseteq Reached(commits, y.local) /\ x.pend \subseteq y.pend
  BY <1>5
<1> QED
  BY <1>1, <1>2, <1>4, <1>7, <1>8, <1>10, <1>11, <1>12, <1>13, <1>14, SameLater, RenameMoves

LEMMA ArchivedKeeps == ASSUME MachinesInv, NEW m \in Machines, Mem!PushArchived(m) PROVE MachinesInv'
<1> DEFINE x == mach[m]
           b == x.at.branch
<1>1. x.at.op = "archive" /\ b = x.on /\ x.on \in Mem!Live
  BY RebootingIs DEF Mem!PushArchived, Mem!ArchivedFirst
<1>2. Mem!Archive(x.on) \in Mem!Names \ {Mem!Base}
  BY <1>1, NamesAre
<1>3. commits' = commits /\ records' = records
  BY DEF Mem!PushArchived, Mem!ArchivedFirst
<1>4. CASE origin[Mem!Archive(b)] = 0 /\ x.local[Mem!Archive(b)] = 0
  <2>1. /\ origin' = [origin EXCEPT ![Mem!Archive(b)] = x.local[b]]
        /\ mach' = [mach EXCEPT ![m].at.op = "delete", ![m].track[Mem!Archive(b)] = x.local[b]]
    BY <1>4 DEF Mem!PushArchived, Mem!ArchivedFirst
  <2> QED
    BY <1>1, <1>2, <1>3, <1>4, <2>1, RebootMoves
<1>5. CASE ~(origin[Mem!Archive(b)] = 0 /\ x.local[Mem!Archive(b)] = 0)
  <2>1. mach' = [mach EXCEPT ![m].at = Mem!Idle] /\ origin' = origin
    BY <1>5 DEF Mem!PushArchived, Mem!ArchivedFirst
  <2> QED
    BY <1>3, <2>1, EndsKeeps
<1> QED
  BY <1>4, <1>5

LEMMA DeleteKeeps == ASSUME MachinesInv, NEW m \in Machines, Mem!DeleteRemote(m) PROVE MachinesInv'
<1> DEFINE x == mach[m]
           b == x.at.branch
<1>1. x.at.op = "delete" /\ b = x.on /\ x.on \in Mem!Live /\ x.local[Mem!Archive(x.on)] = 0
  BY RebootingIs DEF Mem!DeleteRemote
<1>2. x.on \in Mem!Names \ {Mem!Base}
  BY <1>1, NamesAre
<1>3. /\ commits' = commits /\ records' = records /\ origin' = [origin EXCEPT ![x.on] = 0]
      /\ mach' = [mach EXCEPT ![m].at.op = "orphan", ![m].track[x.on] = 0]
  BY <1>1 DEF Mem!DeleteRemote
<1> QED
  BY <1>1, <1>2, <1>3, RebootMoves

LEMMA OrphanKeeps == ASSUME MachinesInv, NEW m \in Machines, Mem!Orphan(m) PROVE MachinesInv'
<1> DEFINE x     == mach[m]
           b     == x.at.branch
           a     == Mem!Archive(x.on)
           lgr   == {<<records + 1>>}
           local == [x.local EXCEPT ![a] = x.local[x.on], ![x.on] = Mem!Next1]
           up    == [x.up EXCEPT ![a] = x.up[x.on], ![x.on] = None]
           at    == [op |-> "send", branch |-> x.on, track |-> TRUE, then |-> Mem!Idle]
           y     == [x EXCEPT !.wt = lgr, !.local = local, !.up = up, !.at = at]
<1>1. /\ x.at.op = "orphan" /\ b = x.on /\ x.on \in Mem!Live /\ x.git = "published"
      /\ Committed(x, commits) /\ x.local[a] = 0
  BY RebootingIs DEF Mem!Orphan
<1>2. /\ records' = records + 1 /\ commits' = Mem!Made({}, lgr) /\ origin' = origin
      /\ mach' = [mach EXCEPT ![m] = y]
  <2>1. records' = records + 1 /\ commits' = Mem!Made({}, lgr) /\ origin' = origin
    BY DEF Mem!Orphan
  <2>2. mach' = [mach EXCEPT ![m] = y]
    BY <1>1 DEF Mem!Orphan
  <2> QED
    BY <2>1, <2>2
<1>3. /\ MachineTyped(x, Len(commits)) /\ CommitsOk(commits) /\ MachineOk(x, commits)
      /\ origin \in Refs(Len(commits)) /\ origin[Mem!Base] = 1 /\ records \in Nat
  BY DEF MachinesInv
<1>4. a \in Mem!Names /\ x.on \in Mem!Names /\ a # x.on /\ Shaped(x) /\ Len(commits) \in Nat
  BY <1>1, <1>3, NamesAre DEF MachineTyped, CommitsOk
<1>5. Sheaf(lgr) /\ Mem!OwnRecord(<<records + 1>>) = records + 1
  <2>1. <<records + 1>> \in Seq({records + 1}) /\ Len(<<records + 1>>) = 1
    OBVIOUS
  <2>2. Sheaf(lgr)
    BY <2>1, EntryOf, SheafOne
  <2> QED
    BY <2>1, <2>2 DEF Mem!OwnRecord
<1> HIDE DEF lgr
<1>6. /\ CommitsOk(commits') /\ Grown(commits, commits') /\ Mem!Next1 = Len(commits) + 1 /\ Len(commits') = Mem!Next1
      /\ Past(commits', Mem!Next1) = {Mem!Next1} \cup UNION {Past(commits, d) : d \in {}}
      /\ FilesAt(commits', Mem!Next1) = lgr
  BY <1>2, <1>3, <1>5, MadeIs
<1>7. /\ x.local \in Refs(Len(commits')) /\ x.track \in Refs(Len(commits'))
      /\ Reached(commits', x.local) = Reached(commits, x.local)
      /\ Reached(commits', x.track) = Reached(commits, x.track)
  BY <1>3, <1>6, LaterIs DEF MachineTyped
<1>8. local \in Refs(Len(commits')) /\ up \in [Mem!Names -> Mem!Names \cup {None}]
      /\ \A n \in Mem!Names : local[n] = IF n = x.on THEN Mem!Next1 ELSE IF n = a THEN x.local[x.on] ELSE x.local[n]
  <2>1. Mem!Next1 \in 0..Len(commits')
    BY <1>4, <1>6
  <2>2. local \in Refs(Len(commits'))
        /\ \A n \in Mem!Names : local[n] = IF n = x.on THEN Mem!Next1 ELSE IF n = a THEN x.local[x.on] ELSE x.local[n]
    BY <1>4, <1>7, <2>1 DEF Refs
  <2>3. up \in [Mem!Names -> Mem!Names \cup {None}]
    BY <1>3, <1>4 DEF MachineTyped
  <2> QED
    BY <2>2, <2>3
<1> HIDE DEF local, up, at, a
<1>9. /\ Shaped(y) /\ y.git = x.git /\ y.tree = x.tree /\ y.on = x.on /\ y.local = local
      /\ y.track = x.track /\ y.up = up /\ y.wt = lgr /\ y.pend = x.pend /\ y.at = at
  <2>1. y = [x EXCEPT !.wt = lgr, !.local = local, !.up = up, !.at = at]
    OBVIOUS
  <2> HIDE DEF y
  <2> QED
    BY <1>4, <2>1 DEF Shaped
<1> HIDE DEF y
<1>10. MachineTyped(y, Len(commits'))
  BY <1>3, <1>5, <1>7, <1>8, <1>9 DEF MachineTyped
<1>11. Committed(y, commits')
  BY <1>4, <1>6, <1>8, <1>9 DEF Committed
<1>12. MachineOk(y, commits') /\ ~Private(y)
  <2>1. y.at = [op |-> "send", branch |-> x.on, track |-> TRUE, then |-> Mem!Idle]
    BY <1>9 DEF at
  <2>2. /\ y.at = [op |-> "send", branch |-> y.at.branch, track |-> y.at.track, then |-> y.at.then]
        /\ y.at.branch = x.on /\ y.at.then = Mem!Idle /\ y.at.op = "send"
    BY <2>1
  <2> QED
    BY <1>1, <1>9, <1>11, <2>2 DEF MachineOk, Amid, Private
<1>13. Past(commits', Mem!Next1) = {Mem!Next1} /\ Mem!Next1 > Len(commits)
  BY <1>4, <1>6
<1>14. \A d \in Reached(commits', y.local) : d > Len(commits) \/ d \in Reached(commits, x.local)
  <2>1. \A n \in Mem!Names : Past(commits', local[n]) \subseteq {Mem!Next1} \cup Reached(commits', x.local)
    BY <1>4, <1>8, <1>13 DEF Reached
  <2>2. Reached(commits', local) \subseteq {Mem!Next1} \cup Reached(commits', x.local)
    BY <2>1, ReachedUp
  <2> QED
    BY <2>2, <1>7, <1>9, <1>13
<1>15. Reached(commits, x.local) \subseteq Reached(commits', y.local)
  <2>1. \A n \in Mem!Names : \E k \in Mem!Names : x.local[n] = 0 \/ local[k] = x.local[n]
    BY <1>1, <1>4, <1>8 DEF a
  <2>2. \A n \in Mem!Names : Past(commits', x.local[n]) \subseteq Reached(commits', local)
    BY <2>1 DEF Reached, Past
  <2>3. Reached(commits', x.local) \subseteq Reached(commits', local)
    BY <2>2, ReachedUp
  <2> QED
    BY <2>3, <1>7, <1>9
<1>16. records + 1 \in RecordsOn(y, commits')
  BY <1>5, <1>9 DEF RecordsOn, lgr
<1>17. Reached(commits', y.track) \subseteq Reached(commits, x.track) /\ x.pend \subseteq y.pend
  BY <1>7, <1>9
<1> QED
  BY <1>1, <1>2, <1>3, <1>6, <1>10, <1>12, <1>14, <1>15, <1>16, <1>17, RenameMoves

-----------------------------------------------------------------------------
(* Repairing, the first state, and what the invariant says *)

\* The base of a merge is a commit of both histories.
LEMMA MergeBaseIs ==
  ASSUME CommitsOk(commits), NEW c \in 0..Len(commits), NEW d \in 0..Len(commits)
  PROVE  Mem!MergeBase(c, d) \in 0..Len(commits)
<1> DEFINE common == Past(commits, c) \cap Past(commits, d)
           P(k) == \A e \in common : k \in Past(commits, e) => e = k
<1>2. common \subseteq 1..Len(commits) /\ Len(commits) \in Nat
  BY PastIn DEF CommitsOk
<1>3. ASSUME common # {} PROVE \E k \in common : P(k)
  <2>1. common \subseteq Nat /\ \A e \in common : e <= Len(commits)
    BY <1>2
  <2>2. Mem!Max(common) \in common /\ \A e \in common : Mem!Max(common) >= e
    <3> HIDE DEF common
    <3> QED
      BY <1>2, <1>3, <2>1, HasMax
  <2>3. \A e \in common : Past(commits, e) \subseteq 1..e
    BY <1>2, PastIn
  <2>4. P(Mem!Max(common))
    <3> HIDE DEF common
    <3>1. \A e \in common : e \in Nat /\ Mem!Max(common) \in Nat
      BY <2>1, <2>2
    <3> QED
      BY <2>2, <2>3, <3>1
  <2> QED
    BY <2>2, <2>4
<1>4. Mem!History(c) \cap Mem!History(d) = common /\ \A k : Mem!History(k) = Past(commits, k)
  BY HistoryIs
<1>5. common # {} => \E k \in Mem!History(c) \cap Mem!History(d) :
                        \A e \in Mem!History(c) \cap Mem!History(d) : k \in Mem!History(e) => e = k
  BY <1>3, <1>4
<1>6. common # {} => Mem!MergeBase(c, d) \in common
  <2> HIDE DEF common
  <2> QED
    BY <1>4, <1>5 DEF Mem!MergeBase
<1>7. common = {} => Mem!MergeBase(c, d) = 0
  BY <1>4 DEF Mem!MergeBase
<1> QED
  BY <1>2, <1>6, <1>7

LEMMA AutofixKeeps == ASSUME MachinesInv, NEW m \in Machines, Mem!Autofix(m) PROVE MachinesInv'
<1> DEFINE x     == mach[m]
           hd    == x.local[x.on]
           there == Mem!Known(m)[x.up[x.on]]
           root  == Mem!Ledger(Mem!MergeBase(Mem!HeadOf(m), there))
           here  == Mem!Ledger(Mem!HeadOf(m))
           clash == \/ Mem!Clashing(root, here, Mem!Ledger(there)) # {}
                    \/ Mem!Differ(Mem!LastEntry(root, {}), Mem!LastEntry(here, {}),
                                  Mem!LastEntry(Mem!Ledger(there), {}))
           lgr   == IF clash THEN Mem!Spliced(root, here, Mem!Ledger(there))
                        ELSE Mem!MergedAll(root, here, Mem!Ledger(there))
           y     == [x EXCEPT !.local[x.on] = Mem!Next1, !.wt = lgr, !.track = Mem!Known(m)]
<1>1. /\ x.at = Mem!Idle /\ Mem!Mounted(m) /\ Mem!Clean(m) /\ Mem!Repairable(m)
      /\ commits' = Mem!Made({Mem!HeadOf(m), there}, lgr) /\ mach' = [mach EXCEPT ![m] = y]
      /\ origin' = origin /\ records' = records
  <2>1. x.at = Mem!Idle /\ Mem!Mounted(m) /\ Mem!Clean(m) /\ Mem!Repairable(m) /\ origin' = origin /\ records' = records
    BY DEF Mem!Autofix
  <2>2. commits' = Mem!Made({Mem!HeadOf(m), there}, lgr)
    BY DEF Mem!Autofix
  <2>3. mach' = [mach EXCEPT ![m] = y]
    BY DEF Mem!Autofix
  <2> QED
    BY <2>1, <2>2, <2>3
<1>2. /\ MachineTyped(x, Len(commits)) /\ MachineOk(x, commits) /\ CommitsOk(commits)
      /\ origin \in Refs(Len(commits))
  BY DEF MachinesInv
<1>3. /\ x.on \in Mem!Names /\ hd \in 0..Len(commits) /\ Mem!HeadOf(m) = hd /\ Shaped(x) /\ Len(commits) \in Nat
      /\ Mem!Known(m) \in Refs(Len(commits)) /\ \A n \in Mem!Names : Mem!Known(m)[n] \in {x.track[n], origin[n]}
  BY <1>2, NamesAre DEF MachineTyped, Refs, CommitsOk, Mem!HeadOf, Mem!Known
<1>4. x.up[x.on] \in Mem!Names /\ there \in 0..Len(commits)
      /\ Past(commits, there) \subseteq Reached(commits, x.track) \cup Reached(commits, origin)
  <2>1. x.up[x.on] \in Mem!Names
    BY <1>1, <1>2, <1>3 DEF Mem!Repairable, MachineTyped
  <2> QED
    BY <2>1, <1>3 DEF Refs, Reached
<1>5. Sheaf(lgr)
  <2>1. Sheaf(root) /\ Sheaf(here) /\ Sheaf(Mem!Ledger(there))
    BY <1>2, <1>3, <1>4, MergeBaseIs, PastIn, HistoryIs
  <2> HIDE DEF root, here, there, clash
  <2> QED
    BY <2>1, SheafPicked, SheafSpliced
<1>6. {hd, there} \in SUBSET (0..Len(commits))
  BY <1>3, <1>4
<1> HIDE DEF lgr, there
<1>7. /\ CommitsOk(commits') /\ Grown(commits, commits') /\ Mem!Next1 = Len(commits) + 1 /\ Len(commits') = Mem!Next1
      /\ Past(commits', Mem!Next1) = {Mem!Next1} \cup UNION {Past(commits, d) : d \in {hd, there}}
      /\ FilesAt(commits', Mem!Next1) = lgr
  <2>1. commits' = Mem!Made({hd, there}, lgr)
    BY <1>1, <1>3
  <2> HIDE DEF hd
  <2> QED
    BY <1>2, <1>5, <1>6, <2>1, MadeIs
<1>8. Past(commits', hd) = Past(commits, hd) /\ Mem!Next1 \in 0..Len(commits') /\ Mem!Next1 > Len(commits)
  BY <1>2, <1>3, <1>7, LaterIs
<1>9. /\ Shaped(y) /\ y.git = x.git /\ y.tree = x.tree /\ y.on = x.on /\ y.local = [x.local EXCEPT ![x.on] = Mem!Next1]
      /\ y.track = Mem!Known(m) /\ y.up = x.up /\ y.wt = lgr /\ y.pend = x.pend /\ y.at = Mem!Idle
  <2>1. y = [x EXCEPT !.local[x.on] = Mem!Next1, !.wt = lgr, !.track = Mem!Known(m)]
    OBVIOUS
  <2> HIDE DEF y
  <2> QED
    BY <1>1, <1>3, <2>1 DEF Shaped
<1> HIDE DEF y
<1>10. x.local \in Refs(Len(commits')) /\ Mem!Known(m) \in Refs(Len(commits'))
  BY <1>2, <1>3, <1>7, LaterIs DEF MachineTyped
<1>11. y.local \in Refs(Len(commits')) /\ y.local[x.on] = Mem!Next1
  BY <1>3, <1>8, <1>9, <1>10 DEF Refs
<1>12. MachineTyped(y, Len(commits'))
  BY <1>2, <1>5, <1>9, <1>10, <1>11 DEF MachineTyped
<1>13. Committed(y, commits') /\ Committed(x, commits) /\ x.git = "published"
  BY <1>1, <1>3, <1>7, <1>9, <1>11, HistoryIs DEF Committed, Mem!Clean, Mem!Mounted
<1>14. MachineOk(y, commits') /\ ~Private(y)
  BY <1>9, <1>13 DEF MachineOk, Amid, Private, Mem!Idle
<1>15. Past(commits, hd) \subseteq Reached(commits, x.local)
  BY <1>3 DEF Reached
<1>16. /\ Past(commits', hd) \subseteq Past(commits', Mem!Next1)
       /\ \A d \in Past(commits', Mem!Next1) :
              \/ d > Len(commits)
              \/ d \in Reached(commits, x.local)
              \/ d \in Reached(commits, x.track) \cup Reached(commits, origin)
  BY <1>4, <1>7, <1>8, <1>15
<1>17. /\ y.local = [mach[m].local EXCEPT ![x.on] = Mem!Next1] /\ mach[m].pend \subseteq y.pend
       /\ \A n \in Mem!Names : y.track[n] \in {mach[m].track[n], origin[n]}
  BY <1>3, <1>9
<1>18. Advances(m, y, x.on, Mem!Next1)
  BY <1>1, <1>3, <1>7, <1>8, <1>12, <1>13, <1>14, <1>16, <1>17 DEF Advances
<1> QED
  BY <1>18, AdvanceMoves

\* A record with the fields of a machine.
LEMMA FieldsAre ==
  ASSUME NEW g, NEW tr, NEW d \in BOOLEAN, NEW o, NEW l, NEW t, NEW u, NEW r, NEW w, NEW p, NEW a, NEW x,
         x = [git |-> g, tree |-> tr, declared |-> d, on |-> o, local |-> l, track |-> t, up |-> u,
              remote |-> r, wt |-> w, pend |-> p, at |-> a]
  PROVE  /\ Shaped(x) /\ x.git = g /\ x.tree = tr /\ x.on = o /\ x.local = l /\ x.track = t /\ x.up = u
         /\ x.wt = w /\ x.pend = p /\ x.at = a
BY DEF Shaped

MadeWith(x, g, tr, o, c) ==
    /\ Shaped(x) /\ x.git = g /\ x.tree = tr /\ x.on = o /\ x.local = [Mem!NoRef EXCEPT ![o] = c]
    /\ x.track = [Mem!NoRef EXCEPT ![o] = c] /\ x.up = [Mem!NoUp EXCEPT ![o] = o]
    /\ x.wt = (IF c = 2 THEN {<<0>>} ELSE {}) /\ x.pend = {} /\ x.at = Mem!Idle

LEMMA MachineIs ==
  ASSUME NEW g, NEW tr, NEW o, NEW c
  PROVE  MadeWith(Mem!Machine(g, tr, o, c), g, tr, o, c)
<1> DEFINE x == Mem!Machine(g, tr, o, c)
           d == g = "published"
           r == IF g = "none" THEN None ELSE "origin"
           l == [Mem!NoRef EXCEPT ![o] = c]
           u == [Mem!NoUp EXCEPT ![o] = o]
           w == IF c = 2 THEN {<<0>>} ELSE {}
<1>1. x = [git |-> g, tree |-> tr, declared |-> d, on |-> o, local |-> l, track |-> l, up |-> u,
           remote |-> r, wt |-> w, pend |-> {}, at |-> Mem!Idle]
  BY Zenon DEF Mem!Machine
<1>3. d \in BOOLEAN
  OBVIOUS
<1> HIDE DEF d, r, l, u, w, x
<1>2. /\ Shaped(x) /\ x.git = g /\ x.tree = tr /\ x.on = o /\ x.local = l /\ x.track = l /\ x.up = u
      /\ x.wt = w /\ x.pend = {} /\ x.at = Mem!Idle
  BY <1>1, <1>3, FieldsAre
<1> QED
  BY <1>2, Zenon DEF l, u, w, x, MadeWith

LEMMA BareIs ==
  /\ Shaped(Mem!Bare) /\ Mem!Bare.git = "none" /\ Mem!Bare.tree = "main" /\ Mem!Bare.on = "P"
  /\ Mem!Bare.local = Mem!NoRef
  /\ Mem!Bare.track = Mem!NoRef /\ Mem!Bare.up = Mem!NoUp /\ Mem!Bare.wt = {} /\ Mem!Bare.pend = {}
  /\ Mem!Bare.at = Mem!Idle
<1> DEFINE x == Mem!Machine("none", "main", "P", 0)
<1>0. MadeWith(x, "none", "main", "P", 0)
  BY MachineIs
<1>1. /\ Shaped(x) /\ x.git = "none" /\ x.tree = "main" /\ x.on = "P" /\ x.local = [Mem!NoRef EXCEPT !["P"] = 0]
      /\ x.track = [Mem!NoRef EXCEPT !["P"] = 0] /\ x.wt = {} /\ x.pend = {}
      /\ x.at = Mem!Idle
  BY <1>0 DEF MadeWith
<1>2. [Mem!NoRef EXCEPT !["P"] = 0] = Mem!NoRef
  BY DEF Mem!NoRef
<1>3. Mem!Bare = [x EXCEPT !.up = Mem!NoUp]
  BY Zenon DEF Mem!Bare
<1> HIDE DEF x
<1> QED
  BY <1>1, <1>2, <1>3 DEF Shaped

LEMMA StartsKept == Mem!Init => MachinesInv
<1> SUFFICES ASSUME Mem!Init PROVE MachinesInv
  OBVIOUS
<1>1. /\ commits = <<[past |-> {1}, lgr |-> {}], [past |-> {1, 2}, lgr |-> {<<0>>}]>> /\ records = 0
      /\ \A m \in Machines :
             mach[m] \in {Mem!Machine("published", "main", "P", 2), Mem!Machine("published", "dev", Mem!Base, 1), Mem!Bare}
      /\ mach = [m \in Machines |-> mach[m]]
      /\ origin = [Mem!NoRef EXCEPT ![Mem!Base] = 1] \/ origin = [Mem!NoRef EXCEPT ![Mem!Base] = 1, !["P"] = 2]
  <2>1. CASE mach = [m \in Machines |-> Mem!Bare]
    BY <2>1 DEF Mem!Init
  <2>2. CASE mach \in [Machines -> {Mem!Machine("published", "main", "P", 2),
                                    Mem!Machine("published", "dev", Mem!Base, 1), Mem!Bare}]
    BY <2>2 DEF Mem!Init
  <2> QED
    BY <2>1, <2>2 DEF Mem!Init
<1>2. Len(commits) = 2 /\ commits[1] = [past |-> {1}, lgr |-> {}] /\ commits[2] = [past |-> {1, 2}, lgr |-> {<<0>>}]
  BY <1>1
<1>3. Sheaf({<<0>>}) /\ Sheaf({})
  <2>1. <<0>> \in Seq({0})
    OBVIOUS
  <2> QED
    BY <2>1, EntryOf, SheafOne, SheafNone
<1>4. Entry(commits)
  <2>1. commits \in Seq({commits[1], commits[2]})
    BY <1>1, <1>2
  <2> QED
    BY <2>1, EntryOf
<1>5. CommitsOk(commits)
  <2>1. \A c \in 1..Len(commits) : c = 1 \/ c = 2
    BY <1>2
  <2> QED
    BY <1>2, <1>3, <1>4, <2>1 DEF CommitsOk
<1>6. Past(commits, 0) = {} /\ Past(commits, 1) = {1} /\ Past(commits, 2) = {1, 2}
      /\ FilesAt(commits, 0) = {} /\ FilesAt(commits, 1) = {} /\ FilesAt(commits, 2) = {<<0>>}
  BY <1>2 DEF Past, FilesAt
<1>7. origin \in Refs(Len(commits)) /\ origin[Mem!Base] = 1
  BY <1>1, <1>2 DEF Refs, Mem!NoRef, Mem!Names, Mem!Base
<1>8. ASSUME NEW m \in Machines
      PROVE  MachineTyped(mach[m], Len(commits)) /\ MachineOk(mach[m], commits) /\ ~Private(mach[m])
  <2>1. \A c \in 0..2, b \in Mem!Names :
            [Mem!NoRef EXCEPT ![b] = c] \in Refs(Len(commits)) /\ [Mem!NoRef EXCEPT ![b] = c][b] = c
    BY <1>2 DEF Refs, Mem!NoRef
  <2>2. Mem!NoUp \in [Mem!Names -> Mem!Names \cup {None}]
        /\ \A b \in Mem!Names : [Mem!NoUp EXCEPT ![b] = b] \in [Mem!Names -> Mem!Names \cup {None}]
    BY DEF Mem!NoUp
  <2>3. "P" \in Mem!Live /\ "P" \in Mem!Names /\ Mem!Base \in Mem!Names /\ {"main", "dev"} \subseteq Mem!Projects
    BY DEF Mem!Live, Mem!Names, Mem!Base, Mem!Projects
  <2>4. CASE mach[m] = Mem!Machine("published", "main", "P", 2)
    <3>0. MadeWith(Mem!Machine("published", "main", "P", 2), "published", "main", "P", 2)
      BY MachineIs
    <3>1. /\ Shaped(mach[m]) /\ mach[m].git = "published" /\ mach[m].tree = "main" /\ mach[m].on = "P"
          /\ mach[m].local = [Mem!NoRef EXCEPT !["P"] = 2] /\ mach[m].track = [Mem!NoRef EXCEPT !["P"] = 2]
          /\ mach[m].up = [Mem!NoUp EXCEPT !["P"] = "P"] /\ mach[m].wt = {<<0>>}
          /\ mach[m].pend = {} /\ mach[m].at = Mem!Idle
      BY <2>4, <3>0 DEF MadeWith
    <3>2. MachineTyped(mach[m], Len(commits))
      BY <3>1, <2>1, <2>2, <2>3, <1>2, <1>3 DEF MachineTyped
    <3>3. [Mem!NoRef EXCEPT !["P"] = 2]["P"] = 2
      BY <2>3 DEF Mem!NoRef
    <3>4. Committed(mach[m], commits)
      BY <3>1, <3>3, <1>6 DEF Committed
    <3>5. mach[m].at = Mem!Idle /\ Mem!Idle.op # "join"
      BY <3>1 DEF Mem!Idle
    <3> QED
      BY <3>1, <3>2, <3>4, <3>5 DEF MachineOk, Amid, Private
  <2>5. CASE mach[m] = Mem!Machine("published", "dev", Mem!Base, 1)
    <3>0. MadeWith(Mem!Machine("published", "dev", Mem!Base, 1), "published", "dev", Mem!Base, 1)
      BY MachineIs
    <3>1. /\ Shaped(mach[m]) /\ mach[m].git = "published" /\ mach[m].tree = "dev" /\ mach[m].on = Mem!Base
          /\ mach[m].local = [Mem!NoRef EXCEPT ![Mem!Base] = 1] /\ mach[m].track = [Mem!NoRef EXCEPT ![Mem!Base] = 1]
          /\ mach[m].up = [Mem!NoUp EXCEPT ![Mem!Base] = Mem!Base] /\ mach[m].wt = {}
          /\ mach[m].pend = {} /\ mach[m].at = Mem!Idle
      BY <2>5, <3>0 DEF MadeWith
    <3>2. MachineTyped(mach[m], Len(commits))
      BY <3>1, <2>1, <2>2, <2>3, <1>2, <1>3 DEF MachineTyped
    <3>3. [Mem!NoRef EXCEPT ![Mem!Base] = 1][Mem!Base] = 1
      BY <2>3 DEF Mem!NoRef
    <3>4. Committed(mach[m], commits)
      BY <3>1, <3>3, <1>6 DEF Committed
    <3>5. mach[m].at = Mem!Idle /\ Mem!Idle.op # "join"
      BY <3>1 DEF Mem!Idle
    <3> QED
      BY <3>1, <3>2, <3>4, <3>5 DEF MachineOk, Amid, Private
  <2>6. CASE mach[m] = Mem!Bare
    <3>1. Mem!NoRef \in Refs(Len(commits))
      BY <1>2 DEF Refs, Mem!NoRef
    <3>2. MachineTyped(mach[m], Len(commits))
      BY <2>6, BareIs, <3>1, <2>2, <2>3, <1>3 DEF MachineTyped
    <3> QED
      BY <2>6, BareIs, <3>2 DEF MachineOk, Spares, Amid, Private, Mem!Idle
  <2> QED
    BY <1>1, <2>4, <2>5, <2>6
<1> QED
  BY <1>1, <1>5, <1>7, <1>8 DEF MachinesInv

\* Each step of one machine keeps the invariant.
LEMMA StepsKeep == ASSUME MachinesInv, Mem!Next PROVE MachinesInv'
<1>1. PICK m \in Machines : Mem!Everyday(m) \/ Mem!Keeping(m)
  BY DEF Mem!Next
<1>2. mach[m].tree \in Mem!Projects
  BY DEF MachinesInv, MachineTyped
<1>3. ASSUME Mem!Everyday(m) PROVE MachinesInv'
  <2>1. ASSUME NEW reboot \in BOOLEAN, Mem!Adopt(m, reboot) PROVE MachinesInv'
    BY <2>1, AdoptKeeps
  <2> QED
    BY <1>2, <1>3, <2>1, RecordKeeps, PushKeeps, SendKeeps, RefusedKeeps, JoinKeeps, FailsKeeps, CloneKeeps,
       PullKeeps, AutofixKeeps, KillKeeps DEF Mem!Everyday
<1>4. ASSUME Mem!Keeping(m) PROVE MachinesInv'
  <2>1. ASSUME NEW b \in Mem!Projects, Mem!Record(m, b) \/ Mem!Checkout(m, b) \/ Mem!MemoryBranch(m, b)
        PROVE  MachinesInv'
    BY <2>1, RecordKeeps, CheckoutKeeps, BranchKeeps
  <2>2. ASSUME NEW s \in Mem!Projects, NEW t \in Mem!Projects, NEW k \in {"ours", "theirs"}, Mem!MemoryMerge(m, s, t, k)
        PROVE  MachinesInv'
    BY <2>2, MergesKeeps
  <2> QED
    BY <1>4, <2>1, <2>2, DeclareKeeps, AddRemoteKeeps, MergeKeeps, StopsKeeps, RebootKeeps, ArchivedKeeps,
       DeleteKeeps, OrphanKeeps DEF Mem!Keeping
<1> QED
  BY <1>1, <1>3, <1>4

LEMMA StillKept == ASSUME MachinesInv, UNCHANGED Mem!vars PROVE MachinesInv'
BY DEF Mem!vars, MachinesInv, Apart

\* What a memory promises follows.
LEMMA KeptIs == MachinesInv => Mem!MemoryIsKept
<1> SUFFICES ASSUME MachinesInv PROVE Mem!MemoryIsKept
  OBVIOUS
<1>1. \A refs : Mem!Reaches(refs) = Reached(commits, refs)
  BY HistoryIs DEF Mem!Reaches, Reached
<1>2. Mem!NothingForgotten
  <2> SUFFICES ASSUME NEW r \in 1..records
               PROVE  r \in Mem!Recorded(Mem!Reaches(origin) \cup UNION {Mem!Reaches(mach[m].local) : m \in Machines})
                            \cup {Mem!OwnRecord(e) : e \in UNION {mach[m].pend \cup mach[m].wt : m \in Machines}}
    BY DEF Mem!NothingForgotten
  <2>1. PICK m \in Machines : r \in RecordsOn(mach[m], commits)
    BY DEF MachinesInv
  <2>2. PICK e \in mach[m].wt \cup mach[m].pend \cup UNION {FilesAt(commits, c) : c \in Reached(commits, mach[m].local)} :
             r = Mem!OwnRecord(e)
    BY <2>1 DEF RecordsOn
  <2>3. CASE e \in mach[m].wt \cup mach[m].pend
    BY <2>2, <2>3
  <2>4. CASE e \in UNION {FilesAt(commits, c) : c \in Reached(commits, mach[m].local)}
    <3>1. PICK c \in Reached(commits, mach[m].local) : e \in FilesAt(commits, c)
      BY <2>4
    <3>2. e \in Mem!Ledger(c) /\ c \in Mem!Reaches(mach[m].local)
      BY <3>1, <1>1, HistoryIs
    <3> QED
      BY <2>2, <3>2 DEF Mem!Recorded
  <2> QED
    BY <2>2, <2>3, <2>4
<1>3. Mem!DefaultedStaysHome
  BY <1>1 DEF Mem!DefaultedStaysHome, MachinesInv, Private
<1>4. Mem!BaseIsNobodys
  <2>1. origin[Mem!Base] = 1 /\ commits[1].lgr = {}
    BY DEF MachinesInv, CommitsOk
  <2> QED
    BY <2>1 DEF Mem!BaseIsNobodys, Mem!Ledger
<1> QED
  BY <1>2, <1>3, <1>4 DEF Mem!MemoryIsKept

-----------------------------------------------------------------------------
(* What a step does to origin, and an adoption undone *)

\* Between two steps of a reboot that origin sees.
Rebooting(x) == x.at.op \in {"archive", "delete"}

\* One step of machine m that leaves origin alone.
Quiet(m) ==
    /\ mach' = [mach EXCEPT ![m] = mach'[m]]
    /\ origin' = origin
    /\ commits' = commits \/ \E p, l : commits' = Mem!Made(p, l)
    /\ ~Rebooting(mach'[m])
    /\ mach[m].git = "published" => mach'[m].git = "published"

LEMMA Still == ASSUME NEW m \in Machines, MachinesInv
               PROVE  /\ mach = [o \in Machines |-> mach[o]]
                      /\ DOMAIN mach[m] = {"git", "tree", "declared", "on", "local", "track", "up", "remote",
                                           "wt", "pend", "at"}
<1>1. Shaped(mach[m]) /\ mach = [o \in Machines |-> mach[o]]
  BY DEF MachinesInv, MachineTyped
<1> QED
  BY <1>1 DEF Shaped

LEMMA QuietIs ==
  ASSUME MachinesInv, NEW m \in Machines, NEW y, mach' = [mach EXCEPT ![m] = y], origin' = origin,
         commits' = commits \/ \E p, l : commits' = Mem!Made(p, l),
         y.at.op \notin {"archive", "delete"}, mach[m].git = "published" => y.git = "published"
  PROVE  Quiet(m)
BY Still DEF Quiet, Rebooting

LEMMA EndsQuietly ==
  ASSUME MachinesInv, NEW m \in Machines, mach' = [mach EXCEPT ![m].at = Mem!Idle], UNCHANGED <<commits, origin>>
  PROVE  Quiet(m)
BY Still DEF Quiet, Rebooting, Mem!Idle

LEMMA RecordQuiet == ASSUME MachinesInv, NEW m \in Machines, NEW b \in Mem!Projects, Mem!Record(m, b) PROVE Quiet(m)
<1> DEFINE mount == [mach[m] EXCEPT !.tree = b]
           y    == Mem!Noted(mount)
           z    == [y EXCEPT !.git = "defaulted", !.on = Mem!Derived(b), !.local[Mem!Derived(b)] = Mem!Next1]
<1>1. /\ origin' = origin /\ mach[m].at = Mem!Idle
      /\ \/ mach' = [mach EXCEPT ![m] = y] /\ commits' = commits
         \/ mach' = [mach EXCEPT ![m] = z] /\ commits' = Mem!Made({}, {}) /\ mach[m].git = "none"
  <2>1. mount.at = mach[m].at /\ mount.git = mach[m].git
    BY Still
  <2> QED
    BY <2>1 DEF Mem!Record
<1>2. y.at = Mem!Idle /\ y.git = mach[m].git
  BY <1>1, Still DEF Mem!Noted
<1>3. z.at = Mem!Idle
  BY <1>1, Still DEF Mem!Noted
<1>4. Mem!Idle.op = "idle"
  BY DEF Mem!Idle
<1> HIDE DEF y, z
<1>5. CASE mach' = [mach EXCEPT ![m] = y] /\ commits' = commits
  BY <1>1, <1>2, <1>4, <1>5, QuietIs
<1>6. CASE mach' = [mach EXCEPT ![m] = z] /\ commits' = Mem!Made({}, {}) /\ mach[m].git = "none"
  BY <1>1, <1>3, <1>4, <1>6, QuietIs
<1> QED
  BY <1>1, <1>5, <1>6

LEMMA FoldQuiet ==
  ASSUME MachinesInv, NEW m \in Machines, NEW then, Mem!PushFold(m, then), then.op \notin {"archive", "delete"}
  PROVE  Quiet(m)
BY Still DEF Quiet, Rebooting, Mem!PushFold

LEMMA AdoptQuiet == ASSUME MachinesInv, NEW m \in Machines, NEW reboot, Mem!Adopt(m, reboot) PROVE Quiet(m)
BY Still DEF Quiet, Rebooting, Mem!Adopt

LEMMA JoinQuiet == ASSUME MachinesInv, NEW m \in Machines, Mem!Join(m) PROVE Quiet(m)
<1>1. PICK y : /\ mach' = [mach EXCEPT ![m] = y] /\ origin' = origin
               /\ commits' = commits \/ \E p, l : commits' = Mem!Made(p, l)
               /\ y.at = Mem!Idle /\ y.git = mach[m].git
  <2> DEFINE done == [mach[m] EXCEPT !.at = Mem!Idle, !.track = Mem!Known(m)]
             new  == [done EXCEPT !.local[mach[m].on] = origin[Mem!Base], !.up[mach[m].on] = Mem!Base,
                                  !.wt = Mem!Ledger(origin[Mem!Base])]
             joined  == Mem!Ledger(origin[Mem!Base]) \cup mach[m].wt
             both == [done EXCEPT !.local[mach[m].on] = Mem!Next1, !.wt = joined]
  <2>1. /\ origin' = origin
        /\ \/ mach' = [mach EXCEPT ![m] = done] /\ commits' = commits
           \/ mach' = [mach EXCEPT ![m] = new] /\ commits' = commits
           \/ mach' = [mach EXCEPT ![m] = both] /\ commits' = Mem!Made({Mem!HeadOf(m), origin[Mem!Base]}, joined)
    BY DEF Mem!Join
  <2>2. \A y \in {done, new, both} : y.at = Mem!Idle /\ y.git = mach[m].git
    BY Still
  <2> HIDE DEF done, new, both, joined
  <2> QED
    BY <2>1, <2>2
<1>2. Mem!Idle.op = "idle"
  BY DEF Mem!Idle
<1> QED
  BY <1>1, <1>2, QuietIs

LEMMA CloneQuiet == ASSUME MachinesInv, NEW m \in Machines, Mem!Clone(m) PROVE Quiet(m)
<1> DEFINE b == Mem!Derived(mach[m].tree)
           y == [mach[m] EXCEPT !.git = "published", !.on = b, !.remote = "origin",
                        !.local = [Mem!NoRef EXCEPT ![b] = origin[b]], !.track = [Mem!NoRef EXCEPT ![b] = origin[b]],
                        !.up = [Mem!NoUp EXCEPT ![b] = b], !.wt = Mem!Ledger(origin[b])]
<1>1. mach' = [mach EXCEPT ![m] = y] /\ UNCHANGED <<commits, origin>> /\ mach[m].at = Mem!Idle
  BY DEF Mem!Clone
<1>2. y.at.op = "idle" /\ y.git = "published"
  BY <1>1, Still DEF Mem!Idle
<1> HIDE DEF y
<1> QED
  BY <1>1, <1>2, QuietIs

LEMMA NotedQuiet ==
  ASSUME MachinesInv, NEW m \in Machines, NEW x, mach' = [mach EXCEPT ![m] = Mem!Noted(x)],
         UNCHANGED <<commits, origin>>, {"at", "git", "pend"} \subseteq DOMAIN x, x.at = Mem!Idle, x.git = mach[m].git
  PROVE  Quiet(m)
<1> DEFINE y == Mem!Noted(x)
<1>1. y.at = Mem!Idle /\ y.git = mach[m].git /\ Mem!Idle.op = "idle"
  BY DEF Mem!Noted, Mem!Idle
<1> HIDE DEF y
<1> QED
  BY <1>1, QuietIs DEF y

LEMMA PullQuiet == ASSUME MachinesInv, NEW m \in Machines, Mem!Pull(m) PROVE Quiet(m)
<1> DEFINE on   == mach[m].on
           from == Mem!Known(m)[Mem!Derived(mach[m].tree)]
           head == IF Mem!HeadOf(m) \in Mem!History(from) \cup {0} THEN from ELSE Mem!HeadOf(m)
           done == head = from \/ from \in Mem!History(head)
           here == [mach[m] EXCEPT !.track = Mem!Known(m), !.local[on] = head, !.wt = Mem!Ledger(head),
                     !.up[on] = IF done /\ mach[m].up[on] = None /\ Mem!Known(m)[on] # 0 THEN on ELSE mach[m].up[on]]
<1>1. mach' = [mach EXCEPT ![m] = Mem!Noted(here)] /\ UNCHANGED <<commits, origin>> /\ mach[m].at = Mem!Idle
  BY DEF Mem!Pull
<1> HIDE DEF on, head, done
<1>2. {"at", "git", "pend"} \subseteq DOMAIN here /\ here.at = mach[m].at /\ here.git = mach[m].git
  BY Still
<1> HIDE DEF here
<1> QED
  BY <1>1, <1>2, NotedQuiet

LEMMA CheckoutQuiet == ASSUME MachinesInv, NEW m \in Machines, NEW b, Mem!Checkout(m, b) PROVE Quiet(m)
<1> DEFINE to    == Mem!Derived(b)
           heard  == IF mach[m].track[to] # 0 THEN mach[m].track[to] ELSE origin[to]
           start == IF mach[m].local[to] # 0 THEN mach[m].local[to] ELSE IF heard # 0 THEN heard ELSE Mem!HeadOf(m)
           moved == [mach[m] EXCEPT !.tree = b, !.on = to, !.local[to] = start, !.wt = Mem!Ledger(start),
                         !.track[to] = heard, !.up[to] = IF mach[m].up[to] = None /\ heard # 0 THEN to
                                                       ELSE mach[m].up[to]]
<1>1. mach' = [mach EXCEPT ![m] = Mem!Noted(moved)] /\ UNCHANGED <<commits, origin>> /\ mach[m].at = Mem!Idle
  BY DEF Mem!Checkout
<1> HIDE DEF to, heard, start
<1>2. {"at", "git", "pend"} \subseteq DOMAIN moved /\ moved.at = mach[m].at /\ moved.git = mach[m].git
  BY Still
<1> HIDE DEF moved
<1> QED
  BY <1>1, <1>2, NotedQuiet

LEMMA AutofixQuiet == ASSUME MachinesInv, NEW m \in Machines, Mem!Autofix(m) PROVE Quiet(m)
<1> DEFINE there == Mem!Known(m)[mach[m].up[mach[m].on]]
           root  == Mem!Ledger(Mem!MergeBase(Mem!HeadOf(m), there))
           here  == Mem!Ledger(Mem!HeadOf(m))
           clash == \/ Mem!Clashing(root, here, Mem!Ledger(there)) # {}
                    \/ Mem!Differ(Mem!LastEntry(root, {}), Mem!LastEntry(here, {}),
                                  Mem!LastEntry(Mem!Ledger(there), {}))
           lgr   == IF clash THEN Mem!Spliced(root, here, Mem!Ledger(there))
                        ELSE Mem!MergedAll(root, here, Mem!Ledger(there))
           y     == [mach[m] EXCEPT !.local[mach[m].on] = Mem!Next1, !.wt = lgr, !.track = Mem!Known(m)]
<1>1. mach[m].at = Mem!Idle /\ origin' = origin
  BY DEF Mem!Autofix
<1>2. commits' = Mem!Made({Mem!HeadOf(m), there}, lgr)
  BY DEF Mem!Autofix
<1>3. mach' = [mach EXCEPT ![m] = y]
  BY DEF Mem!Autofix
<1> HIDE DEF there, lgr
<1>4. y.at = mach[m].at /\ y.git = mach[m].git /\ Mem!Idle.op = "idle"
  BY Still DEF Mem!Idle
<1> HIDE DEF y
<1> QED
  BY <1>1, <1>2, <1>3, <1>4, QuietIs

LEMMA DeclareQuiet == ASSUME MachinesInv, NEW m \in Machines, Mem!Declare(m) PROVE Quiet(m)
<1> DEFINE y == [mach[m] EXCEPT !.declared = TRUE]
<1>1. mach' = [mach EXCEPT ![m] = y] /\ UNCHANGED <<commits, origin>> /\ mach[m].at = Mem!Idle
  BY DEF Mem!Declare
<1>2. Shaped(mach[m]) /\ Mem!Idle.op = "idle"
  BY DEF MachinesInv, MachineTyped, Mem!Idle
<1>3. y.at = mach[m].at /\ y.git = mach[m].git
  BY <1>2, Declares
<1> HIDE DEF y
<1> QED
  BY <1>1, <1>2, <1>3, QuietIs

LEMMA AddRemoteQuiet == ASSUME MachinesInv, NEW m \in Machines, Mem!AddRemote(m) PROVE Quiet(m)
<1> DEFINE y == [mach[m] EXCEPT !.remote = "hand"]
<1>1. mach' = [mach EXCEPT ![m] = y] /\ UNCHANGED <<commits, origin>> /\ mach[m].at = Mem!Idle
  BY DEF Mem!AddRemote
<1>2. y.at = mach[m].at /\ y.git = mach[m].git /\ Mem!Idle.op = "idle"
  BY Still DEF Mem!Idle
<1> HIDE DEF y
<1> QED
  BY <1>1, <1>2, QuietIs

LEMMA MergeQuiet == ASSUME MachinesInv, NEW m \in Machines, Mem!Merge(m) PROVE Quiet(m)
BY Still DEF Quiet, Rebooting, Mem!Merge, Mem!Idle

LEMMA BranchQuiet == ASSUME MachinesInv, NEW m \in Machines, NEW b, Mem!MemoryBranch(m, b) PROVE Quiet(m)
BY Still DEF Quiet, Rebooting, Mem!MemoryBranch

LEMMA RebootQuiet == ASSUME MachinesInv, NEW m \in Machines, Mem!Reboot(m) PROVE Quiet(m)
<1> DEFINE joined == Mem!Folded(mach[m].wt, mach[m].pend)
           y == [mach[m] EXCEPT !.wt = joined, !.pend = {}]
           z == [mach[m] EXCEPT !.wt = joined, !.pend = {}, !.local[mach[m].on] = Mem!Next1,
                                !.at = [op |-> "send", branch |-> mach[m].on, track |-> TRUE,
                                        then |-> [op |-> "archive", branch |-> mach[m].on]]]
<1>1. /\ origin' = origin /\ mach[m].at = Mem!Idle
      /\ \/ mach' = [mach EXCEPT ![m] = y] /\ commits' = commits
         \/ mach' = [mach EXCEPT ![m] = z] /\ commits' = Mem!Made({Mem!HeadOf(m)}, joined)
  BY DEF Mem!Reboot
<1>2. y.at = mach[m].at /\ y.git = mach[m].git /\ z.at.op = "send" /\ z.git = mach[m].git
  BY Still
<1> HIDE DEF y, z, joined
<1> QED
  BY <1>1, <1>2, QuietIs DEF Mem!Idle

LEMMA OrphanQuiet == ASSUME MachinesInv, NEW m \in Machines, Mem!Orphan(m) PROVE Quiet(m)
BY Still DEF Quiet, Rebooting, Mem!Orphan

\* A step of machine m that leaves origin alone, and no reboot under way.
Aside(m) ==
    /\ mach' = [mach EXCEPT ![m] = mach'[m]]
    /\ origin' = origin
    /\ commits' = commits \/ \E p, l : commits' = Mem!Made(p, l)
    /\ ~Rebooting(mach'[m])

\* What leaves origin in a reboot is already under the archived name.
Rehoused(m, cs) ==
    LET b == mach[m].at.branch
    IN  /\ mach[m].at.op = "archive" => Past(cs, origin[b]) \subseteq Past(cs, mach[m].local[b])
        /\ mach[m].at.op = "delete"  => Past(cs, origin[b]) \subseteq Past(cs, origin[Mem!Archive(b)])
\* Which holds when nobody pushes to a branch another machine is rebooting.
Housed == "reboot apart" \in Habits => \A m \in Machines : Rehoused(m, commits)

LEMMA MadeLater == ASSUME CommitsOk(commits), NEW p, NEW l, NEW ct, ct = Mem!Made(p, l) PROVE Grown(commits, ct)
<1> DEFINE new == [past |-> {Mem!Next1} \cup UNION {Mem!History(c) : c \in p}, lgr |-> l]
           V   == {commits[i] : i \in DOMAIN commits} \cup {new}
<1>1. ct = Append(commits, new)
  BY DEF Mem!Made
<1>2. commits \in Seq(V) /\ new \in V
  BY DEF CommitsOk, Entry
<1> HIDE DEF V, new
<1> QED
  BY <1>1, <1>2 DEF Grown

\* Branches that reach at least what they reached.
LEMMA GainsIs ==
  ASSUME CommitsOk(commits), Grown(commits, commits'), NEW r \in Refs(Len(commits)), origin' = r,
         Reached(commits, origin) \subseteq Reached(commits, r)
  PROVE  Mem!OriginOnlyGains
<1>1. ASSUME NEW c \in Mem!Reaches(origin)
      PROVE  c \in UNION {commits'[origin'[b]].past : b \in {n \in Mem!Names : origin'[n] # 0}}
  <2>1. c \in Reached(commits, r)
    BY HistoryIs DEF Mem!Reaches, Reached
  <2>2. PICK b \in Mem!Names : c \in Past(commits, r[b])
    BY <2>1 DEF Reached
  <2>3. r[b] # 0 /\ r[b] \in 0..Len(commits)
    BY <2>2 DEF Past, Refs
  <2>4. c \in commits[r[b]].past /\ commits'[r[b]] = commits[r[b]]
    BY <2>2, <2>3 DEF Past, Grown, CommitsOk
  <2> QED
    BY <2>2, <2>3, <2>4
<1> QED
  BY <1>1 DEF Mem!OriginOnlyGains

LEMMA AsideGains ==
  ASSUME MachinesInv, \A o \in Machines : Rehoused(o, commits), NEW m \in Machines, Aside(m)
  PROVE  Mem!OriginOnlyGains /\ \A o \in Machines : Rehoused(o, commits)'
<1>1. CommitsOk(commits) /\ origin \in Refs(Len(commits)) /\ mach = [o \in Machines |-> mach[o]]
  BY DEF MachinesInv
<1>2. Grown(commits, commits')
  BY <1>1, MadeLater, SameLater DEF Aside
<1>3. Mem!OriginOnlyGains
  BY <1>1, <1>2, GainsIs DEF Aside
<1>4. ASSUME NEW o \in Machines, Rebooting(mach'[o]) PROVE Rehoused(o, commits)'
  <2>1. o # m /\ mach'[o] = mach[o] /\ origin' = origin
    BY <1>1, <1>4 DEF Aside
  <2>2. mach[o].at.branch \in Mem!Names /\ Mem!Archive(mach[o].at.branch) \in Mem!Names
        /\ mach[o].local \in Refs(Len(commits))
    BY <1>4, <2>1, RebootingIs, NamesAre DEF Rebooting, MachinesInv, MachineTyped
  <2>3. \A c \in 0..Len(commits) : Past(commits', c) = Past(commits, c)
    BY <1>1, <1>2, LaterIs
  <2> QED
    BY <1>1, <2>1, <2>2, <2>3 DEF Rehoused, Refs
<1> QED
  BY <1>3, <1>4 DEF Rehoused, Rebooting

LEMMA MergeIs == ASSUME NEW job, IsMerge(job) PROVE job.op = "merge"
BY DEF IsMerge

LEMMA SendingIs ==
  ASSUME NEW x, NEW cs, MachineOk(x, cs), x.at.op = "send"
  PROVE  /\ x.at.branch \in Mem!Live
         /\ \/ x.at.then.op \notin {"archive", "delete"}
            \/ x.at.then = [op |-> "archive", branch |-> x.on] /\ x.at.branch = x.on
<1>1. /\ x.at.branch \in Mem!Live
      /\ \/ x.at.then = Mem!Idle
         \/ IsMerge(x.at.then)
         \/ x.at.then = [op |-> "archive", branch |-> x.on] /\ x.at.branch = x.on
  BY DEF MachineOk, Amid, Mem!Idle, IsMerge
<1>2. CASE x.at.then = Mem!Idle
  BY <1>1, <1>2 DEF Mem!Idle
<1>3. CASE IsMerge(x.at.then)
  <2>1. x.at.then.op = "merge"
    BY <1>3, MergeIs
  <2> QED
    BY <1>1, <2>1
<1> QED
  BY <1>1, <1>2, <1>3

\* A send: what origin had is behind what it takes.
LEMMA SendGains ==
  ASSUME MachinesInv, "reboot apart" \in Habits, \A o \in Machines : Rehoused(o, commits),
         NEW m \in Machines, Mem!Send(m)
  PROVE  Mem!OriginOnlyGains /\ \A o \in Machines : Rehoused(o, commits)'
<1> DEFINE x == mach[m]
           b == x.at.branch
           c == x.local[b]
           r == [origin EXCEPT ![b] = c]
<1>1. /\ x.at.op = "send" /\ Mem!Takes(b, c) /\ origin' = r /\ commits' = commits
      /\ \A o \in Machines : o # m /\ mach[o].at.op \in {"archive", "delete"} => mach[o].at.branch # b
  BY DEF Mem!Send
<1>2. CommitsOk(commits) /\ origin \in Refs(Len(commits)) /\ mach = [o \in Machines |-> mach[o]]
      /\ MachineTyped(x, Len(commits)) /\ MachineOk(x, commits)
  BY DEF MachinesInv
<1>3. /\ b \in Mem!Live /\ b \in Mem!Names
      /\ \/ x.at.then.op \notin {"archive", "delete"}
         \/ x.at.then = [op |-> "archive", branch |-> x.on] /\ b = x.on
  BY <1>1, <1>2, SendingIs, NamesAre
<1>4. c \in 0..Len(commits) /\ r \in Refs(Len(commits)) /\ \A n \in Mem!Names : r[n] = IF n = b THEN c ELSE origin[n]
  BY <1>2, <1>3 DEF MachineTyped, Refs
<1>5. mach'[m].at = x.at.then /\ mach'[m].local = x.local /\ \A o \in Machines \ {m} : mach'[o] = mach[o]
  BY <1>2, Still DEF Mem!Send
<1>6. Past(commits, origin[b]) \subseteq Past(commits, c)
  <2>1. origin[b] = 0 \/ origin[b] \in Past(commits, c)
    BY <1>1, HistoryIs DEF Mem!Takes
  <2> QED
    BY <1>2, <1>4, <2>1, PastIn DEF Past
<1> HIDE DEF r
<1>7. Reached(commits, origin) \subseteq Reached(commits, r)
  <2>1. ASSUME NEW n \in Mem!Names PROVE Past(commits, origin[n]) \subseteq Reached(commits, r)
    <3>1. Past(commits, r[n]) \subseteq Reached(commits, r)
      BY ReachedHas
    <3> QED
      BY <3>1, <1>4, <1>6
  <2> QED
    BY <2>1, ReachedUp
<1>8. Mem!OriginOnlyGains
  BY <1>1, <1>2, <1>4, <1>7, SameLater, GainsIs
<1>9. Rehoused(m, commits)'
  <2>1. CASE x.at.then.op \notin {"archive", "delete"}
    BY <1>5, <2>1 DEF Rehoused
  <2>2. CASE x.at.then = [op |-> "archive", branch |-> x.on] /\ b = x.on
    <3>1. mach'[m].at.branch = b /\ mach'[m].at.op = "archive" /\ mach'[m].local[b] = c /\ origin'[b] = c
      <4>1. mach'[m].at = [op |-> "archive", branch |-> x.on]
        BY <1>5, <2>2
      <4>2. mach'[m].at.branch = b /\ mach'[m].at.op = "archive"
        <5> DEFINE at == mach'[m].at
        <5>1. at = [op |-> "archive", branch |-> x.on]
          BY <4>1
        <5> HIDE DEF at
        <5>2. at.branch = x.on /\ at.op = "archive"
          BY <5>1
        <5> QED
          BY <5>2, <2>2 DEF at
      <4> QED
        BY <1>1, <1>3, <1>4, <1>5, <4>2
    <3> QED
      BY <1>1, <3>1 DEF Rehoused
  <2> QED
    BY <1>3, <2>1, <2>2
<1>10. ASSUME NEW o \in Machines, o # m, Rebooting(mach[o]) PROVE Rehoused(o, commits)'
  <2> DEFINE ob == mach[o].at.branch
  <2>1. ob \in Mem!Live /\ ob \in Mem!Names /\ Mem!Archive(ob) \in Mem!Names /\ Mem!Archive(ob) \notin Mem!Live
        /\ ob # b
    BY <1>1, <1>10, RebootingIs, NamesAre DEF Rebooting
  <2>2. origin'[ob] = origin[ob] /\ origin'[Mem!Archive(ob)] = origin[Mem!Archive(ob)] /\ mach'[o] = mach[o]
    BY <1>1, <1>3, <1>4, <1>5, <1>10, <2>1
  <2> QED
    BY <1>1, <2>2 DEF Rehoused
<1>11. ASSUME NEW o \in Machines, o # m, ~Rebooting(mach[o]) PROVE Rehoused(o, commits)'
  BY <1>5, <1>11 DEF Rehoused, Rebooting
<1> QED
  BY <1>8, <1>9, <1>10, <1>11

LEMMA ArchivedGains ==
  ASSUME MachinesInv, \A o \in Machines : Rehoused(o, commits), NEW m \in Machines, Mem!PushArchived(m)
  PROVE  Mem!OriginOnlyGains /\ \A o \in Machines : Rehoused(o, commits)'
<1> DEFINE x == mach[m]
           b == x.at.branch
           c == x.local[b]
           r == [origin EXCEPT ![Mem!Archive(b)] = c]
<1>1. /\ x.at.op = "archive" /\ commits' = commits
      /\ \/ /\ origin[Mem!Archive(b)] = 0 /\ origin' = r
            /\ mach' = [mach EXCEPT ![m].at.op = "delete", ![m].track[Mem!Archive(b)] = c]
         \/ mach' = [mach EXCEPT ![m].at = Mem!Idle] /\ origin' = origin
  BY DEF Mem!PushArchived, Mem!ArchivedFirst
<1>2. CommitsOk(commits) /\ origin \in Refs(Len(commits)) /\ mach = [o \in Machines |-> mach[o]]
      /\ x.local \in Refs(Len(commits))
  BY DEF MachinesInv, MachineTyped
<1>3. b \in Mem!Live /\ b \in Mem!Names /\ Mem!Archive(b) \in Mem!Names /\ Mem!Archive(b) \notin Mem!Live
      /\ x.at = [op |-> "archive", branch |-> b]
  BY <1>1, RebootingIs, NamesAre
<1>4. c \in 0..Len(commits) /\ r \in Refs(Len(commits))
      /\ \A n \in Mem!Names : r[n] = IF n = Mem!Archive(b) THEN c ELSE origin[n]
  BY <1>2, <1>3 DEF Refs
<1>5. CASE mach' = [mach EXCEPT ![m].at = Mem!Idle] /\ origin' = origin
  <2>1. Aside(m)
    BY <1>1, <1>5, EndsQuietly DEF Quiet, Aside
  <2> QED
    BY <2>1, AsideGains
<1>6. CASE /\ origin[Mem!Archive(b)] = 0 /\ origin' = r
           /\ mach' = [mach EXCEPT ![m].at.op = "delete", ![m].track[Mem!Archive(b)] = c]
  <2>1. mach'[m].at = [op |-> "delete", branch |-> b] /\ mach'[m].local = x.local
        /\ \A o \in Machines \ {m} : mach'[o] = mach[o]
    BY <1>2, <1>3, <1>6, Still
  <2> HIDE DEF r
  <2>2. Reached(commits, origin) \subseteq Reached(commits, r)
    BY <1>4, <1>6 DEF Reached, Past
  <2>3. Mem!OriginOnlyGains
    BY <1>1, <1>2, <1>4, <1>6, <2>2, SameLater, GainsIs
  <2>4. Rehoused(m, commits)'
    <3>1. mach'[m].at.op = "delete" /\ mach'[m].at.branch = b
      BY <2>1
    <3>2. Past(commits, origin[b]) \subseteq Past(commits, c)
      BY <1>1 DEF Rehoused
    <3>3. origin'[b] = origin[b] /\ origin'[Mem!Archive(b)] = c
      BY <1>3, <1>4, <1>6
    <3> QED
      BY <1>1, <3>1, <3>2, <3>3 DEF Rehoused
  <2>5. ASSUME NEW o \in Machines, o # m, Rebooting(mach[o]) PROVE Rehoused(o, commits)'
    <3> DEFINE ob == mach[o].at.branch
    <3>1. ob \in Mem!Live /\ ob \in Mem!Names /\ Mem!Archive(ob) \in Mem!Names /\ ob # Mem!Archive(b)
      BY <1>3, <2>5, RebootingIs, NamesAre DEF Rebooting
    <3>2. /\ origin'[ob] = origin[ob] /\ mach'[o] = mach[o]
          /\ origin'[Mem!Archive(ob)] = origin[Mem!Archive(ob)] \/ origin[Mem!Archive(ob)] = 0
      BY <1>3, <1>4, <1>6, <2>1, <2>5, <3>1
    <3> QED
      BY <1>1, <2>5, <3>2 DEF Rehoused, Past
  <2>6. ASSUME NEW o \in Machines, o # m, ~Rebooting(mach[o]) PROVE Rehoused(o, commits)'
    BY <2>1, <2>6 DEF Rehoused, Rebooting
  <2> QED
    BY <2>3, <2>4, <2>5, <2>6
<1> QED
  BY <1>1, <1>5, <1>6

LEMMA DeleteGains ==
  ASSUME MachinesInv, \A o \in Machines : Rehoused(o, commits), NEW m \in Machines, Mem!DeleteRemote(m)
  PROVE  Mem!OriginOnlyGains /\ \A o \in Machines : Rehoused(o, commits)'
<1> DEFINE x == mach[m]
           b == x.at.branch
           r == [origin EXCEPT ![b] = 0]
<1>1. /\ x.at.op = "delete" /\ commits' = commits /\ origin' = r
      /\ mach' = [mach EXCEPT ![m].at.op = "orphan", ![m].track[b] = 0]
  BY DEF Mem!DeleteRemote
<1>2. CommitsOk(commits) /\ origin \in Refs(Len(commits)) /\ mach = [o \in Machines |-> mach[o]]
  BY DEF MachinesInv
<1>3. b \in Mem!Live /\ b \in Mem!Names /\ Mem!Archive(b) \in Mem!Names /\ Mem!Archive(b) \notin Mem!Live
      /\ x.at = [op |-> "delete", branch |-> b]
  BY <1>1, RebootingIs, NamesAre
<1>4. r \in Refs(Len(commits)) /\ \A n \in Mem!Names : r[n] = IF n = b THEN 0 ELSE origin[n]
  BY <1>2, <1>3 DEF Refs, CommitsOk
<1>5. mach'[m].at = [op |-> "orphan", branch |-> b] /\ \A o \in Machines \ {m} : mach'[o] = mach[o]
  BY <1>1, <1>2, <1>3, Still
<1> HIDE DEF r
<1>6. Past(commits, origin[b]) \subseteq Past(commits, origin[Mem!Archive(b)])
  BY <1>1 DEF Rehoused
<1>7. Reached(commits, origin) \subseteq Reached(commits, r)
  BY <1>3, <1>4, <1>6 DEF Reached
<1>8. Mem!OriginOnlyGains
  BY <1>1, <1>2, <1>4, <1>7, SameLater, GainsIs
<1>9. Rehoused(m, commits)'
  <2>1. mach'[m].at.op = "orphan"
    BY <1>5
  <2> QED
    BY <2>1 DEF Rehoused
<1>10. ASSUME NEW o \in Machines, o # m, Rebooting(mach[o]) PROVE Rehoused(o, commits)'
  <2> DEFINE ob == mach[o].at.branch
  <2>1. ob \in Mem!Live /\ ob \in Mem!Names /\ Mem!Archive(ob) \in Mem!Names /\ Mem!Archive(ob) # b
    BY <1>3, <1>10, RebootingIs, NamesAre DEF Rebooting
  <2>2. /\ origin'[ob] = origin[ob] \/ origin'[ob] = 0
        /\ mach'[o] = mach[o] /\ origin'[Mem!Archive(ob)] = origin[Mem!Archive(ob)]
    BY <1>1, <1>3, <1>4, <1>5, <1>10, <2>1
  <2> QED
    BY <1>1, <1>10, <2>2 DEF Rehoused, Past
<1>11. ASSUME NEW o \in Machines, o # m, ~Rebooting(mach[o]) PROVE Rehoused(o, commits)'
  BY <1>5, <1>11 DEF Rehoused, Rebooting
<1> QED
  BY <1>8, <1>9, <1>10, <1>11

\* A join that fails leaves origin alone too.
LEMMA FailsAside == ASSUME MachinesInv, NEW m \in Machines, Mem!JoinFails(m) PROVE Aside(m)
<1>1. mach[m].at.op = "join" /\ UNCHANGED <<commits, origin>>
  BY DEF Mem!JoinFails
<1>2. CASE ~mach[m].at.kept
  <2>1. mach' = [mach EXCEPT ![m] = [mach[m] EXCEPT !.at = Mem!Idle]]
    BY <1>2 DEF Mem!JoinFails
  <2> QED
    BY <1>1, <2>1, Still DEF Aside, Rebooting, Mem!Idle
<1>3. CASE mach[m].at.kept
  <2> DEFINE y == Mem!Undone(m)
  <2>1. mach' = [mach EXCEPT ![m] = y]
    BY <1>3 DEF Mem!JoinFails
  <2>2. y.at = Mem!Idle /\ Mem!Idle.op = "idle"
    BY <1>1, <1>3, UndoneIs DEF Mem!Idle
  <2> HIDE DEF y
  <2> QED
    BY <1>1, <2>1, <2>2, Still DEF Aside, Rebooting
<1> QED
  BY <1>2, <1>3

LEMMA MergesQuiet ==
  ASSUME MachinesInv, NEW m \in Machines, NEW s, NEW t, NEW k, Mem!MemoryMerge(m, s, t, k)
  PROVE  Quiet(m)
<1> DEFINE then == [op |-> "merge", source |-> Mem!Derived(s), target |-> Mem!Derived(t), keep |-> k]
<1>1. Mem!PushFold(m, then)
  BY DEF Mem!MemoryMerge
<1>2. then.op = "merge"
  OBVIOUS
<1> HIDE DEF then
<1> QED
  BY <1>1, <1>2, FoldQuiet

LEMMA PushQuiet == ASSUME MachinesInv, NEW m \in Machines, Mem!MemoryPush(m) PROVE Quiet(m)
<1>1. Mem!PushFold(m, Mem!Idle) /\ Mem!Idle.op = "idle"
  BY DEF Mem!MemoryPush, Mem!Idle
<1> QED
  BY <1>1, FoldQuiet

\* What a step of a machine is, as origin sees it.
LEMMA StepsAre ==
  ASSUME MachinesInv, Mem!Next
  PROVE  \E m \in Machines : Quiet(m) \/ Mem!JoinFails(m) \/ Mem!Send(m) \/ Mem!PushArchived(m) \/ Mem!DeleteRemote(m)
<1>1. PICK m \in Machines : Mem!Everyday(m) \/ Mem!Keeping(m)
  BY DEF Mem!Next
<1>2. mach[m].tree \in Mem!Projects
  BY DEF MachinesInv, MachineTyped
<1>3. Mem!SendRefused(m) \/ Mem!MergeStops(m) \/ Mem!Kill(m) => Quiet(m)
  BY EndsQuietly DEF Mem!SendRefused, Mem!MergeStops, Mem!Kill
<1>4. CASE Mem!Everyday(m)
  <2>1. ASSUME NEW reboot \in BOOLEAN, Mem!Adopt(m, reboot) PROVE Quiet(m)
    BY <2>1, AdoptQuiet
  <2> QED
    BY <1>2, <1>3, <1>4, <2>1, RecordQuiet, PushQuiet, JoinQuiet, CloneQuiet, PullQuiet, AutofixQuiet DEF Mem!Everyday
<1>5. CASE Mem!Keeping(m)
  <2>1. ASSUME NEW b \in Mem!Projects, Mem!Record(m, b) \/ Mem!Checkout(m, b) \/ Mem!MemoryBranch(m, b) PROVE Quiet(m)
    BY <2>1, RecordQuiet, CheckoutQuiet, BranchQuiet
  <2>2. ASSUME NEW s \in Mem!Projects, NEW t \in Mem!Projects, NEW k \in {"ours", "theirs"}, Mem!MemoryMerge(m, s, t, k)
        PROVE  Quiet(m)
    BY <2>2, MergesQuiet
  <2> QED
    BY <1>3, <1>5, <2>1, <2>2, DeclareQuiet, AddRemoteQuiet, MergeQuiet, RebootQuiet, OrphanQuiet DEF Mem!Keeping
<1> QED
  BY <1>1, <1>4, <1>5

LEMMA StepsGain ==
  ASSUME MachinesInv, Housed, Mem!Next
  PROVE  Housed' /\ ("reboot apart" \in Habits => Mem!OriginOnlyGains)
<1> SUFFICES ASSUME "reboot apart" \in Habits
             PROVE  Mem!OriginOnlyGains /\ \A o \in Machines : Rehoused(o, commits)'
  BY DEF Housed
<1>1. \A o \in Machines : Rehoused(o, commits)
  BY DEF Housed
<1> QED
  BY <1>1, StepsAre, AsideGains, FailsAside, SendGains, ArchivedGains, DeleteGains DEF Quiet, Aside

LEMMA StillHoused == ASSUME Housed, UNCHANGED Mem!vars PROVE Housed'
BY DEF Housed, Rehoused, Mem!vars

LEMMA StartsHoused == ASSUME Mem!Init, MachinesInv PROVE Housed
<1>1. ASSUME NEW m \in Machines PROVE mach[m].at = Mem!Idle
  <2>1. ASSUME NEW g, NEW tr, NEW o, NEW c PROVE Mem!Machine(g, tr, o, c).at = Mem!Idle
    <3>1. MadeWith(Mem!Machine(g, tr, o, c), g, tr, o, c)
      BY MachineIs
    <3> QED
      BY <3>1 DEF MadeWith
  <2>2. mach[m] = Mem!Bare \/ \E g, tr, o, c : mach[m] = Mem!Machine(g, tr, o, c)
    BY DEF Mem!Init
  <2> QED
    BY <2>1, <2>2, BareIs
<1>2. Mem!Idle.op = "idle"
  BY DEF Mem!Idle
<1> QED
  BY <1>1, <1>2 DEF Housed, Rehoused

\* A step of another machine, and any step but a failed join, does not unpublish a memory.
LEMMA StepsUndo == ASSUME MachinesInv, Mem!Next PROVE Mem!UndoIsExact
<1>1. PICK m \in Machines : Quiet(m) \/ Mem!JoinFails(m) \/ Mem!Send(m) \/ Mem!PushArchived(m) \/ Mem!DeleteRemote(m)
  BY StepsAre
<1>2. Shaped(mach[m]) /\ mach = [o \in Machines |-> mach[o]]
  BY DEF MachinesInv, MachineTyped
<1>3. CASE Quiet(m)
  BY <1>2, <1>3 DEF Quiet, Mem!UndoIsExact
<1>4. CASE Mem!JoinFails(m)
  <2>1. mach' = [mach EXCEPT ![m] = IF mach[m].at.kept THEN Mem!Undone(m) ELSE [mach[m] EXCEPT !.at = Mem!Idle]]
    BY <1>4 DEF Mem!JoinFails
  <2>2. \A o \in Machines \ {m} : mach'[o] = mach[o]
    BY <1>2, <2>1
  <2>3. CASE ~mach[m].at.kept
    <3>1. mach'[m].git = mach[m].git
      BY <1>2, <2>1, <2>3, Still
    <3> QED
      BY <2>2, <3>1 DEF Mem!UndoIsExact
  <2>4. CASE mach[m].at.kept
    <3> DEFINE y   == Mem!Undone(m)
               was == mach[m].at.was
    <3>1. mach'[m] = y
      BY <1>2, <2>1, <2>4
    <3>2. mach[m].at.op = "join"
      BY <1>4 DEF Mem!JoinFails
    <3>3. /\ y.on = was.on /\ y.local = was.local /\ y.remote = was.remote
          /\ y.wt = mach[m].wt /\ y.pend = mach[m].pend /\ Renamed(mach[m], was, Len(commits))
      BY <2>4, <3>2, UndoneIs
    <3> HIDE DEF y, was
    <3>4. \A f \in {"on", "local", "remote", "wt", "pend"} : y[f] = was[f]
      BY <3>3 DEF Renamed
    <3> QED
      BY <2>2, <3>1, <3>4 DEF Mem!UndoIsExact, was
  <2> QED
    BY <2>3, <2>4
<1>5. CASE Mem!Send(m) \/ Mem!PushArchived(m) \/ Mem!DeleteRemote(m)
  <2>1. mach[m].git = mach'[m].git /\ \A o \in Machines \ {m} : mach'[o] = mach[o]
    <3>1. CASE Mem!Send(m)
      BY <1>2, <3>1, Still DEF Mem!Send
    <3>2. CASE Mem!PushArchived(m)
      BY <1>2, <3>2, Still DEF Mem!PushArchived, Mem!ArchivedFirst
    <3>3. CASE Mem!DeleteRemote(m)
      BY <1>2, <3>3, Still DEF Mem!DeleteRemote
    <3> QED
      BY <1>5, <3>1, <3>2, <3>3
  <2> QED
    BY <2>1 DEF Mem!UndoIsExact
<1> QED
  BY <1>1, <1>3, <1>4, <1>5

-----------------------------------------------------------------------------
(* Memories beside the others *)

MemoryShared == which = "machines" => MachinesInv /\ Housed

LEMMA MemoryKeeps == (InitOne => MemoryShared) /\ (MemoryShared /\ [OneRuns]_all => MemoryShared')
<1>1. InitOne => MemoryShared
  BY StartsKept, StartsHoused DEF InitOne, MemoryShared
<1>2. ASSUME MemoryShared, [OneRuns]_all PROVE MemoryShared'
  <2>1. CASE Travelling
    BY <1>2, <2>1, StepsKeep, StepsGain DEF MemoryShared, Travelling
  <2>2. CASE Registering \/ Adopting
    <3>1. which' = which /\ which # "machines"
      BY <2>2 DEF Registering, Adopting
    <3> QED
      BY <3>1 DEF MemoryShared
  <2>3. CASE UNCHANGED all
    <3>1. UNCHANGED Mem!vars /\ which' = which
      BY <2>3 DEF all, machinesOnly, bounds, Mem!vars
    <3> QED
      BY <1>2, <3>1, StillKept, StillHoused DEF MemoryShared
  <2> QED
    BY <1>2, <2>1, <2>2, <2>3 DEF OneRuns
<1> QED
  BY <1>1, <1>2

\* On any machines, however often they record, whatever they take care of and wherever a command
\* is killed or refused: every recorded entry is pending, folded or in a history some branch
\* reaches, a memory made by default shares no commit with origin, and the base is nobody's.
THEOREM MemoriesAreKept == Shared => []MemoryIsKept
<1>1. MemoryShared => MemoryIsKept
  BY KeptIs DEF MemoryShared, MemoryIsKept
<1> QED
  BY <1>1, MemoryKeeps, PTL DEF Shared

\* An adoption that fails leaves the branch, the commits, the remote, the files and the pending
\* half of the memory the tool had made as they were, after any number of steps of the others.
THEOREM UndosAreExact == Shared => [][which = "machines" => Mem!UndoIsExact]_all
<1>1. MemoryShared /\ [OneRuns]_all => [which = "machines" => Mem!UndoIsExact]_all
  BY StepsUndo DEF MemoryShared, OneRuns, Registering, Adopting, Travelling
<1> QED
  BY <1>1, MemoryKeeps, PTL DEF Shared

\* Where nobody pushes to a branch that somebody else is rebooting, no history leaves origin:
\* what the reboot deletes is under the archived name.
THEOREM OriginNeverLoses ==
    ASSUME "reboot apart" \in Habits
    PROVE  Shared => [][which = "machines" => Mem!OriginOnlyGains]_all
<1>1. MemoryShared /\ [OneRuns]_all => [which = "machines" => Mem!OriginOnlyGains]_all
  BY StepsGain DEF MemoryShared, OneRuns, Registering, Adopting, Travelling
<1> QED
  BY <1>1, MemoryKeeps, PTL DEF Shared
=================================================================================
