----------------------------- MODULE ApcSmaProofs -----------------------------
(***************************************************************************)
(* Every segment of APC's shared memory stays exact, for every number of   *)
(* processes and segments, every segment size and every size asked for.    *)
(* The state of a segment is described by its free list as a function from *)
(* places to offsets, its set of free blocks, its set of blocks in use,    *)
(* and, inside sma_deallocate, one loose block that is neither.  The list  *)
(* and the layout of the blocks are kept apart: lemmas on lists know       *)
(* nothing of sizes, lemmas on layouts nothing of links.                   *)
(***************************************************************************)
EXTENDS ApcSma, TLAPS, FiniteSetTheorems, SequenceTheorems, NaturalsInduction,
        WellFoundedInduction

--------------------
(* The state of a segment. *)

\* The first block that is not the head of the list.
FirstReal == FirstBlock + BlockSize

\* The blocks cover the segment from the first to the zero-sized last one, each
\* ends where another begins, and none overlaps the next.
Layout(size, blocks) ==
    /\ blocks \subseteq FirstReal .. LastBlock
    /\ {FirstReal, LastBlock} \subseteq blocks
    /\ size[LastBlock] = 0
    /\ \A o \in blocks \ {LastBlock} : size[o] > 0 /\ o + size[o] \in blocks
    /\ \A p \in blocks \ {FirstReal} : \E o \in blocks \ {LastBlock} : o + size[o] = p
    /\ \A o, p \in blocks : o < p => o + size[o] <= p

\* l is the free list of n blocks: it ends at the last block, reads the same
\* backwards, and has no block twice.  An offset 0 ends it.
IsList(fnext, fprev, n, l) ==
    /\ n \in Nat \ {0} /\ l \in [1 .. n -> FirstReal .. LastBlock]
    /\ fnext[0] = 0 /\ fnext[FirstBlock] = l[1]
    /\ l[n] = LastBlock /\ fnext[LastBlock] = 0
    /\ \A i \in 1 .. n : i # n => fnext[l[i]] = l[i + 1]
    /\ \A i \in 1 .. n : fprev[l[i]] = IF i = 1 THEN FirstBlock ELSE l[i - 1]
    /\ \A i, j \in 1 .. n : l[i] = l[j] => i = j

\* The block after a known one has its size while it is free, and 0 otherwise.
Tags(size, prev_size, known, free) ==
    /\ prev_size[FirstReal] = 0
    /\ \A o \in known : prev_size[o + size[o]] = IF o \in free THEN size[o] ELSE 0

\* No free block follows a free one.
Apart(size, free) == \A o \in free : o + size[o] \notin free

\* A segment, with an avail of any value.
Fields == [avail : Int, size : [Offsets -> 0 .. SegSize],
           prev_size : [Offsets -> 0 .. SegSize],
           fnext : [Offsets -> Offsets], fprev : [Offsets -> Offsets]]

\* The blocks of a list.
Members(n, l) == {l[i] : i \in 1 .. n}

\* The state of a segment: its free blocks are on the list, and its blocks are
\* the last one, the free, the used and the loose ones.
Exact(g, n, l, free, used, loose) ==
    /\ g \in Fields
    /\ Layout(g.size, {LastBlock} \cup free \cup used \cup loose)
    /\ IsList(g.fnext, g.fprev, n, l)
    /\ free = Members(n, l) \ {LastBlock}
    /\ free \cap used = {} /\ loose \cap (free \cup used) = {} /\ LastBlock \notin used \cup loose
    /\ \A o \in used : g.fnext[o] = 0
    /\ Tags(g.size, g.prev_size, free \cup used, free)
    /\ Apart(g.size, free)
    /\ g.avail = Cardinality(Words(g.size, free \cup loose)) + BlockSize

--------------------
(* Lists and layouts as the model computes them. *)

\* The constants in numbers: where the blocks of a segment start and end.
LEMMA Consts ==
    /\ {FirstBlock, FirstReal, LastBlock, SegSize, BlockSize, MINBLOCKSIZE} \subseteq Nat
    /\ 0 < FirstBlock /\ FirstBlock < FirstReal /\ FirstReal < LastBlock
    /\ LastBlock + 2 * BlockSize = SegSize /\ 0 < BlockSize /\ LastBlock < SegSize
    /\ FirstReal = FirstBlock + BlockSize
    /\ Offsets = 0 .. SegSize - 1
    /\ FirstBlock = HeaderSize /\ MINBLOCKSIZE = 1 + BlockSize
BY SizeAssumption DEF FirstBlock, FirstReal, LastBlock, Offsets, MINBLOCKSIZE

\* A set that has 0 and every successor of its members has every number.
LEMMA NatSet ==
    ASSUME NEW G, 0 \in G, \A n \in Nat : n \in G => n + 1 \in G
    PROVE  Nat \subseteq G
<1> DEFINE Bad == {n \in Nat : n \notin G}
<1>1. SUFFICES ASSUME Bad # {} PROVE FALSE
 BY <1>1
<1>2. PICK m \in Bad : \A n \in Bad : ~(<<n, m>> \in OpToRel(<, Nat))
 <2>1. Bad \in SUBSET Nat
  OBVIOUS
 <2> HIDE DEF Bad
 <2> QED BY <1>1, <2>1, WFMin, NatLessThanWellFounded, Zenon
<1>3. m # 0 /\ m \in Nat /\ m \notin G
 BY <1>2
<1>4. m - 1 \in Nat /\ (m - 1) + 1 = m /\ m - 1 < m
 BY <1>3
<1>5. m - 1 \in Bad
 BY <1>3, <1>4
<1>6. <<m - 1, m>> \in OpToRel(<, Nat)
 BY <1>3, <1>4 DEF OpToRel
<1> QED BY <1>2, <1>5, <1>6

\* Offsets reached from a by f in up to n steps.
Reaches(at, f, a, n) == at = [i \in 0 .. n |-> IF i = 0 THEN a ELSE f[at[i - 1]]]

\* Following f from a for n steps is a function.
LEMMA ReachesExists ==
    ASSUME NEW f, NEW a, NEW n \in Nat
    PROVE  \E at : Reaches(at, f, a, n)
<1> DEFINE G == {k \in Nat : \E at : Reaches(at, f, a, k)}
<1>1. 0 \in G
 <2>1. Reaches([i \in 0 .. 0 |-> a], f, a, 0)
  BY DEF Reaches
 <2> QED BY <2>1
<1>2. ASSUME NEW k \in Nat, k \in G PROVE k + 1 \in G
 <2>1. PICK at : Reaches(at, f, a, k)
  BY <1>2
 <2> DEFINE up == [i \in 0 .. k + 1 |-> IF i = k + 1 THEN f[at[k]] ELSE at[i]]
 <2>2. ASSUME NEW i \in 0 .. k + 1
       PROVE  up[i] = IF i = 0 THEN a ELSE f[up[i - 1]]
  <3>1. CASE i = k + 1
   <4>1. k \in 0 .. k + 1 /\ i # 0 /\ i - 1 = k /\ k # k + 1
    BY <3>1
   <4>2. up[k] = at[k] /\ up[i] = f[at[k]]
    BY <4>1, <3>1
   <4> HIDE DEF up
   <4> QED BY <4>1, <4>2
  <3>2. CASE i # k + 1
   <4>1. i \in 0 .. k /\ up[i] = at[i]
    BY <3>2
   <4>2. at[i] = IF i = 0 THEN a ELSE f[at[i - 1]]
    BY <2>1, <4>1, Zenon DEF Reaches
   <4>3. CASE i = 0
    BY <4>1, <4>2, <4>3
   <4>4. CASE i # 0
    <5>1. i - 1 \in 0 .. k + 1 /\ i - 1 # k + 1
     BY <4>4, <4>1
    <5>2. up[i - 1] = at[i - 1]
     BY <5>1
    <5> HIDE DEF up
    <5> QED BY <4>1, <4>2, <4>4, <5>2
   <4> QED BY <4>3, <4>4
  <3> QED BY <3>1, <3>2
 <2>3. Reaches(up, f, a, k + 1)
  <3> up = [i \in 0 .. k + 1 |-> up[i]]
   OBVIOUS
  <3> HIDE DEF up
  <3> QED BY <2>2, Zenon DEF Reaches
 <2> HIDE DEF up
 <2> QED BY <2>3
<1>3. Nat \subseteq G
 <2> HIDE DEF G
 <2> QED BY <1>1, <1>2, NatSet
<1> QED BY <1>3

\* A list of distinct offsets is not longer than the segment.
LEMMA ListLength ==
    ASSUME NEW n \in Nat, NEW l \in [1 .. n -> FirstReal .. LastBlock],
           \A i, j \in 1 .. n : l[i] = l[j] => i = j
    PROVE  n <= SegSize - 1
<1> DEFINE T == FirstReal .. LastBlock
<1>1. IsFiniteSet(T) /\ Cardinality(T) = LastBlock - FirstReal + 1
 <2>1. FirstReal \in Int /\ LastBlock \in Int /\ ~(FirstReal > LastBlock)
  BY Consts
 <2> QED BY <2>1, FS_Interval
<1>2. IsFiniteSet(1 .. n) /\ Cardinality(1 .. n) = n
 <2>1. 1 \in Int /\ n \in Int /\ (1 > n => n = 0)
  OBVIOUS
 <2>2. IsFiniteSet(1 .. n) /\ Cardinality(1 .. n) = IF 1 > n THEN 0 ELSE n - 1 + 1
  BY <2>1, FS_Interval
 <2> QED BY <2>1, <2>2
<1> HIDE DEF T
<1>3. ~(Cardinality(T) < Cardinality(1 .. n))
 <2> SUFFICES ASSUME Cardinality(T) < Cardinality(1 .. n) PROVE FALSE
  OBVIOUS
 <2>1. l \in [1 .. n -> T]
  BY DEF T
 <2>2. \E x, y \in 1 .. n : x # y /\ l[x] = l[y]
  BY <1>1, <1>2, <2>1, FS_PigeonHole, Zenon
 <2> QED BY <2>2
<1> QED BY <1>1, <1>2, <1>3, Consts

\* FreeList follows a list.
LEMMA FreeListIs ==
    ASSUME NEW g \in Fields, NEW n, NEW l, IsList(g.fnext, g.fprev, n, l)
    PROVE  FreeList(g) = l /\ n < SegSize /\ n \in Nat
<1> DEFINE f == g.fnext
           at == CHOOSE x : Reaches(x, f, FirstBlock, SegSize)
<1>1. Reaches(at, f, FirstBlock, SegSize)
 BY ReachesExists, Consts, Zenon
<1>2. FreeList(g) = [i \in {j \in 1 .. SegSize : at[j] # 0} |-> at[i]]
 BY DEF FreeList, Reaches
<1>3. n < SegSize /\ n \in Nat /\ n > 0
 <2>1. /\ n \in Nat /\ n > 0 /\ l \in [1 .. n -> FirstReal .. LastBlock]
       /\ \A i, j \in 1 .. n : l[i] = l[j] => i = j
  BY DEF IsList
 <2>2. n <= SegSize - 1
  BY <2>1, ListLength, Zenon
 <2> QED BY <2>1, <2>2, Consts
<1> HIDE DEF at
<1>4. \A i \in 0 .. SegSize : at[i] = IF i = 0 THEN FirstBlock ELSE f[at[i - 1]]
 BY <1>1, Zenon DEF Reaches
<1> DEFINE Want(i) == IF i = 0 THEN FirstBlock ELSE IF i <= n THEN l[i] ELSE 0
           G == {k \in Nat : k <= SegSize => at[k] = Want(k)}
<1>5. 0 \in G
 BY <1>4, Consts
<1>6. ASSUME NEW k \in Nat, k \in G PROVE k + 1 \in G
 <2> SUFFICES ASSUME k + 1 <= SegSize PROVE at[k + 1] = Want(k + 1)
  OBVIOUS
 <2>1. at[k] = Want(k) /\ at[k + 1] = f[at[k]]
  BY <1>4, <1>6, Consts
 <2>2. f[Want(k)] = Want(k + 1)
  <3>1. CASE k = 0
   BY <3>1, <1>3 DEF IsList
  <3>2. CASE k # 0 /\ k < n
   BY <3>2, <1>3 DEF IsList
  <3>3. CASE k = n
   BY <3>3, <1>3 DEF IsList
  <3>4. CASE k > n
   BY <3>4, <1>3 DEF IsList
  <3> QED BY <3>1, <3>2, <3>3, <3>4, <1>3
 <2> QED BY <2>1, <2>2
<1>7. \A k \in 1 .. SegSize : at[k] = IF k <= n THEN l[k] ELSE 0
 <2>1. Nat \subseteq G
  <3> HIDE DEF G
  <3> QED BY <1>5, <1>6, NatSet
 <2> QED BY <2>1, Consts
<1>8. \A k \in 1 .. n : l[k] # 0 /\ k \in 1 .. SegSize
 BY <1>3, Consts DEF IsList
<1>9. {j \in 1 .. SegSize : at[j] # 0} = 1 .. n
 BY <1>3, <1>7, <1>8, Consts
<1>10. \A i \in 1 .. n : at[i] = l[i]
 BY <1>7, <1>8
<1>11. l = [i \in 1 .. n |-> l[i]]
 BY DEF IsList
<1> QED BY <1>2, <1>3, <1>9, <1>10, <1>11

\* The blocks that are reached from the first are those of the layout.
LEMMA BlocksIs ==
    ASSUME NEW g \in Fields, NEW B, Layout(g.size, B)
    PROVE  Blocks(g) = B
<1> DEFINE f == [o \in Offsets |-> BlockAfter(g, o)]
           at == CHOOSE x : x = [i \in 0 .. SegSize |-> IF i = 0 THEN FirstBlock + BlockSize ELSE BlockAfter(g, x[i - 1])]
<1>0. \A o \in B : /\ o \in Offsets /\ o \in Nat /\ g.size[o] \in Nat
                   /\ BlockAfter(g, o) = o + g.size[o]
 <2>1. B \subseteq Offsets /\ B \subseteq Nat
  BY Consts DEF Layout
 <2>2. g.size \in [Offsets -> 0 .. SegSize]
  BY DEF Fields
 <2>3. \A o \in B : g.size[o] \in Nat
  BY <2>1, <2>2, Consts
 <2>4. \A o \in B : o + g.size[o] \in B
  <3> TAKE o \in B
  <3>1. CASE o = LastBlock
   BY <3>1, Consts DEF Layout
  <3> QED BY <3>1 DEF Layout
 <2> QED BY <2>1, <2>3, <2>4 DEF BlockAfter, NextSBlock
<1>1. at = [i \in 0 .. SegSize |-> IF i = 0 THEN FirstBlock + BlockSize ELSE BlockAfter(g, at[i - 1])]
 <2>1. PICK x : Reaches(x, f, FirstReal, SegSize)
  BY ReachesExists, Consts, Zenon
 <2>2. \A i \in 0 .. SegSize : x[i] = IF i = 0 THEN FirstReal ELSE f[x[i - 1]]
  BY <2>1, Zenon DEF Reaches
 <2> DEFINE G == {k \in Nat : k <= SegSize => x[k] \in Offsets}
 <2>3. 0 \in G
  <3>1. 0 \in 0 .. SegSize
   BY Consts
  <3>2. x[0] = FirstReal
   BY <2>2, <3>1, Zenon
  <3> QED BY <3>2, Consts
 <2>4. ASSUME NEW k \in Nat, k \in G PROVE k + 1 \in G
  <3> SUFFICES ASSUME k + 1 <= SegSize PROVE x[k + 1] \in Offsets
   OBVIOUS
  <3>1. x[k] \in Offsets /\ x[k + 1] = f[x[k]]
   BY <2>2, <2>4, Consts
  <3> QED BY <3>1 DEF BlockAfter
 <2>5. Nat \subseteq G
  <3> HIDE DEF G
  <3> QED BY <2>3, <2>4, NatSet
 <2>6. ASSUME NEW i \in 0 .. SegSize
       PROVE  x[i] = IF i = 0 THEN FirstBlock + BlockSize ELSE BlockAfter(g, x[i - 1])
  <3>1. CASE i = 0
   BY <3>1, <2>2 DEF FirstReal
  <3>2. CASE i # 0
   <4>1. i - 1 \in Nat /\ i - 1 <= SegSize
    BY <3>2, Consts
   <4>2. x[i - 1] \in Offsets
    BY <4>1, <2>5
   <4> QED BY <4>2, <3>2, <2>2
  <3> QED BY <3>1, <3>2
 <2>7. x = [i \in 0 .. SegSize |-> x[i]]
  BY <2>1 DEF Reaches
 <2>8. x = [i \in 0 .. SegSize |-> IF i = 0 THEN FirstBlock + BlockSize ELSE BlockAfter(g, x[i - 1])]
  BY <2>6, <2>7, Zenon
 <2> QED BY <2>8, Zenon
<1>2. Blocks(g) = {at[i] : i \in 0 .. SegSize}
 BY DEF Blocks
<1> HIDE DEF at
<1>3. \A i \in 0 .. SegSize : at[i] = IF i = 0 THEN FirstReal ELSE BlockAfter(g, at[i - 1])
 BY <1>1, Zenon DEF FirstReal
<1> DEFINE G == {k \in Nat : k <= SegSize => at[k] \in B /\ (at[k] = LastBlock \/ at[k] >= k)}
<1>4. 0 \in G
 BY <1>3, Consts DEF Layout
<1>5. ASSUME NEW k \in Nat, k \in G PROVE k + 1 \in G
 <2> SUFFICES ASSUME k + 1 <= SegSize
              PROVE  at[k + 1] \in B /\ (at[k + 1] = LastBlock \/ at[k + 1] >= k + 1)
  OBVIOUS
 <2>1. at[k] \in B /\ (at[k] = LastBlock \/ at[k] >= k) /\ at[k + 1] = BlockAfter(g, at[k])
  BY <1>3, <1>5, Consts
 <2>2. at[k + 1] = at[k] + g.size[at[k]] /\ at[k] \in Nat
  BY <2>1, <1>0
 <2>3. CASE at[k] = LastBlock
  BY <2>1, <2>2, <2>3 DEF Layout
 <2>4. CASE at[k] # LastBlock
  <3>1. g.size[at[k]] > 0 /\ at[k] + g.size[at[k]] \in B /\ g.size[at[k]] \in Nat
   BY <2>1, <2>4, <1>0 DEF Layout
  <3> QED BY <2>1, <2>2, <2>4, <3>1
 <2> QED BY <2>3, <2>4
<1>6. Nat \subseteq G
 <2> HIDE DEF G
 <2> QED BY <1>4, <1>5, NatSet
<1>7. Blocks(g) \subseteq B
 BY <1>2, <1>6, Consts
<1> DEFINE H == {k \in Nat : \A p \in B : p < k => \E i \in 0 .. SegSize : i <= p /\ at[i] = p}
<1>8. 0 \in H
 BY <1>0
<1>9. ASSUME NEW k \in Nat, k \in H PROVE k + 1 \in H
 <2> SUFFICES ASSUME NEW p \in B, p < k + 1 PROVE \E i \in 0 .. SegSize : i <= p /\ at[i] = p
  OBVIOUS
 <2>1. CASE p = FirstReal
  <3>1. 0 \in 0 .. SegSize /\ 0 <= p /\ at[0] = p
   BY <1>3, <2>1, Consts
  <3> QED BY <3>1
 <2>2. CASE p # FirstReal
  <3>1. PICK o \in B \ {LastBlock} : o + g.size[o] = p
   BY <2>2 DEF Layout
  <3>2. g.size[o] > 0 /\ o \in Nat /\ g.size[o] \in Nat /\ p \in Nat
   BY <3>1, <1>0 DEF Layout
  <3>3. PICK i \in 0 .. SegSize : i <= o /\ at[i] = o
   BY <3>1, <3>2, <1>9
  <3>4. i + 1 \in 0 .. SegSize /\ i + 1 <= p /\ i + 1 # 0 /\ (i + 1) - 1 = i
   <4>1. p <= SegSize
    BY Consts DEF Layout
   <4>2. i \in Nat
    BY <3>3
   <4>3. i + 1 <= p
    BY <4>2, <3>1, <3>2, <3>3
   <4> QED BY <4>1, <4>2, <4>3, <3>2, Consts
  <3>5. at[i + 1] = BlockAfter(g, o)
   BY <3>3, <3>4, <1>3
  <3>6. at[i + 1] = p
   BY <3>5, <3>1, <1>0
  <3> QED BY <3>4, <3>6
 <2> QED BY <2>1, <2>2
<1>10. Nat \subseteq H
 <2> HIDE DEF H
 <2> QED BY <1>8, <1>9, NatSet
<1>11. B \subseteq Blocks(g)
 <2> SUFFICES ASSUME NEW p \in B PROVE p \in Blocks(g)
  OBVIOUS
 <2>1. p \in Nat /\ p + 1 \in H /\ p < p + 1
  BY <1>0, <1>10
 <2>2. PICK i \in 0 .. SegSize : i <= p /\ at[i] = p
  BY <2>1
 <2> QED BY <2>2, <1>2
<1> QED BY <1>7, <1>11

--------------------
(* A list that changes. *)

\* The members of the list are offsets of blocks, and none is 0.
LEMMA ListFacts ==
    ASSUME NEW fn, NEW fp, NEW n, NEW l, IsList(fn, fp, n, l)
    PROVE  /\ n \in Nat \ {0} /\ 0 \in {0, FirstBlock} /\ FirstBlock # 0
           /\ \A i \in 1 .. n : /\ l[i] \in FirstReal .. LastBlock /\ l[i] \in Nat
                               /\ l[i] # 0 /\ l[i] # FirstBlock /\ l[i] \in Members(n, l)
<1>1. n \in Nat \ {0} /\ \A i \in 1 .. n : l[i] \in FirstReal .. LastBlock
 BY DEF IsList
<1>2. \A o \in FirstReal .. LastBlock : o \in Nat /\ o # 0 /\ o # FirstBlock
 BY Consts
<1>3. FirstBlock # 0
 BY Consts
<1> QED BY <1>1, <1>2, <1>3 DEF Members

\* The list without its k-th member, as UnlinkBlock leaves it.
LEMMA ListUnlink ==
    ASSUME NEW fn, NEW fp, NEW n, NEW l, IsList(fn, fp, n, l),
           NEW k \in 1 .. n, k # n, NEW fn2, NEW fp2,
           fn2[fp[l[k]]] = fn[l[k]], fp2[fn[l[k]]] = fp[l[k]],
           \A o \in {0, FirstBlock} \cup Members(n, l) :
               (o # fp[l[k]] /\ o # l[k]) => fn2[o] = fn[o],
           \A o \in Members(n, l) : (o # fn[l[k]] /\ o # l[k]) => fp2[o] = fp[o]
    PROVE  \E m, l2 : IsList(fn2, fp2, m, l2) /\ Members(m, l2) = Members(n, l) \ {l[k]}
<1> DEFINE l2 == [i \in 1 .. n - 1 |-> IF i < k THEN l[i] ELSE l[i + 1]]
<1>1. n \in Nat /\ n - 1 \in Nat \ {0} /\ k \in Nat /\ k < n /\ k >= 1
 BY DEF IsList
<1>2. \A i \in 1 .. n : /\ l[i] \in FirstReal .. LastBlock
                       /\ l[i] # 0 /\ l[i] # FirstBlock /\ l[i] \in Members(n, l)
 BY ListFacts
<1>0. /\ FirstBlock # 0 /\ fn[0] = 0 /\ fn[FirstBlock] = l[1]
      /\ (0 # fp[l[k]] /\ 0 # l[k]) => fn2[0] = fn[0]
      /\ (FirstBlock # fp[l[k]] /\ FirstBlock # l[k]) => fn2[FirstBlock] = fn[FirstBlock]
 <2>1. FirstBlock # 0
  BY ListFacts, Zenon
 <2>2. fn[0] = 0 /\ fn[FirstBlock] = l[1]
  BY DEF IsList
 <2>3. 0 \in {0, FirstBlock} \cup Members(n, l) /\ FirstBlock \in {0, FirstBlock} \cup Members(n, l)
  OBVIOUS
 <2>4. (0 # fp[l[k]] /\ 0 # l[k]) => fn2[0] = fn[0]
  BY <2>3, Zenon
 <2>5. (FirstBlock # fp[l[k]] /\ FirstBlock # l[k]) => fn2[FirstBlock] = fn[FirstBlock]
  BY <2>3, Zenon
 <2> QED BY <2>1, <2>2, <2>4, <2>5, Zenon
<1>3. fn[l[k]] = l[k + 1] /\ fp[l[k]] = IF k = 1 THEN FirstBlock ELSE l[k - 1]
 BY <1>1 DEF IsList
<1>4. \A i, j \in 1 .. n : l[i] = l[j] => i = j
 BY DEF IsList
<1>5. \A i \in 1 .. n - 1 : l2[i] = IF i < k THEN l[i] ELSE l[i + 1]
 OBVIOUS
<1>6. l2 \in [1 .. n - 1 -> FirstReal .. LastBlock]
 BY <1>1, <1>2
<1> HIDE DEF l2
<1>7. Members(n - 1, l2) = Members(n, l) \ {l[k]}
 <2>1. ASSUME NEW i \in 1 .. n - 1 PROVE l2[i] \in Members(n, l) \ {l[k]}
  BY <1>1, <1>4, <1>5 DEF Members
 <2>2. ASSUME NEW j \in 1 .. n, l[j] # l[k] PROVE l[j] \in Members(n - 1, l2)
  <3>1. CASE j < k
   <4>1. j \in 1 .. n - 1 /\ l2[j] = l[j]
    BY <3>1, <1>1, <1>5
   <4> QED BY <4>1 DEF Members
  <3>2. CASE j > k
   <4>1. j - 1 \in 1 .. n - 1 /\ l2[j - 1] = l[j]
    BY <3>2, <1>1, <1>5
   <4> QED BY <4>1 DEF Members
  <3> QED BY <3>1, <3>2, <2>2, <1>1
 <2> QED BY <2>1, <2>2 DEF Members
<1>8. \A i, j \in 1 .. n - 1 : l2[i] = l2[j] => i = j
 BY <1>1, <1>4, <1>5
<1>9. l2[n - 1] = LastBlock /\ l[n] = LastBlock
 BY <1>1, <1>5 DEF IsList
<1>10. fn2[0] = 0
 BY <1>0, <1>1, <1>2, <1>3
<1>11. fn2[FirstBlock] = l2[1]
 <2>1. CASE k = 1
  BY <2>1, <1>1, <1>3, <1>5
 <2>2. CASE k # 1
  <3>1. l2[1] = l[1] /\ k - 1 \in 1 .. n
   BY <2>2, <1>1, <1>5
  <3> QED BY <3>1, <2>2, <1>0, <1>2, <1>3
 <2> QED BY <2>1, <2>2
<1>12. fn2[LastBlock] = 0
 <2>1. LastBlock # l[k] /\ LastBlock \in Members(n, l) /\ fn[LastBlock] = 0 /\ LastBlock # FirstBlock
  BY <1>1, <1>2, <1>4 DEF IsList
 <2>2. LastBlock # fp[l[k]]
  BY <1>1, <1>3, <1>4, <1>9, <2>1
 <2> QED BY <2>1, <2>2
<1>13. ASSUME NEW i \in 1 .. n - 1, i # n - 1 PROVE fn2[l2[i]] = l2[i + 1]
 <2>1. CASE i + 1 < k
  <3>1. l2[i] = l[i] /\ l2[i + 1] = l[i + 1] /\ fn[l[i]] = l[i + 1] /\ i \in 1 .. n
   BY <2>1, <1>1, <1>5 DEF IsList
  <3>2. l[i] # l[k] /\ l[i] # fp[l[k]]
   BY <2>1, <1>1, <1>2, <1>3, <1>4
  <3> QED BY <3>1, <3>2, <1>2
 <2>2. CASE i + 1 = k
  BY <2>2, <1>1, <1>3, <1>5
 <2>3. CASE i >= k
  <3>0. i + 1 \in 1 .. n - 1 /\ i + 1 \in 1 .. n /\ i + 1 # n /\ (i + 1) + 1 = i + 2
   BY <1>13, <1>1
  <3>1. l2[i] = l[i + 1] /\ l2[i + 1] = l[i + 2]
   BY <2>3, <3>0, <1>1, <1>5
  <3>3. fn[l[i + 1]] = l[i + 2]
   BY <3>0 DEF IsList
  <3>2. l[i + 1] # l[k] /\ l[i + 1] # fp[l[k]]
   BY <2>3, <3>0, <1>1, <1>2, <1>3, <1>4
  <3> QED BY <3>0, <3>1, <3>2, <3>3, <1>2
 <2> QED BY <2>1, <2>2, <2>3, <1>1
<1>14. ASSUME NEW i \in 1 .. n - 1 PROVE fp2[l2[i]] = IF i = 1 THEN FirstBlock ELSE l2[i - 1]
 <2>1. CASE i < k
  <3>1. l2[i] = l[i] /\ (i # 1 => l2[i - 1] = l[i - 1]) /\ i \in 1 .. n
   BY <2>1, <1>1, <1>5
  <3>2. fp[l[i]] = IF i = 1 THEN FirstBlock ELSE l[i - 1]
   BY <3>1 DEF IsList
  <3>3. l[i] # l[k] /\ l[i] # fn[l[k]]
   BY <2>1, <1>1, <1>3, <1>4
  <3> QED BY <3>1, <3>2, <3>3, <1>2
 <2>2. CASE i = k
  <3>1. l2[i] = l[k + 1] /\ (i # 1 => l2[i - 1] = l[k - 1])
   BY <2>2, <1>1, <1>5
  <3> QED BY <3>1, <2>2, <1>3
 <2>3. CASE i > k
  <3>1. l2[i] = l[i + 1] /\ l2[i - 1] = l[i] /\ i + 1 \in 1 .. n /\ i # 1
   BY <2>3, <1>1, <1>5
  <3>2. fp[l[i + 1]] = l[i]
   BY <3>1, <1>1 DEF IsList
  <3>3. l[i + 1] # l[k] /\ l[i + 1] # fn[l[k]]
   BY <2>3, <3>1, <1>1, <1>3, <1>4
  <3> QED BY <3>1, <3>2, <3>3, <1>2
 <2> QED BY <2>1, <2>2, <2>3, <1>1
<1>15. IsList(fn2, fp2, n - 1, l2)
 BY <1>1, <1>6, <1>8, <1>9, <1>10, <1>11, <1>12, <1>13, <1>14 DEF IsList
<1> QED BY <1>7, <1>15

\* The list with x in the place of its k-th member, as Split leaves it.
LEMMA ListReplace ==
    ASSUME NEW fn, NEW fp, NEW n, NEW l, IsList(fn, fp, n, l),
           NEW k \in 1 .. n, k # n, NEW fn2, NEW fp2,
           NEW x \in FirstReal .. LastBlock, x \notin Members(n, l),
           fn2[fp[l[k]]] = x, fn2[x] = fn[l[k]],
           fp2[fn[l[k]]] = x, fp2[x] = fp[l[k]],
           \A o \in {0, FirstBlock} \cup Members(n, l) :
               (o # fp[l[k]] /\ o # l[k]) => fn2[o] = fn[o],
           \A o \in Members(n, l) : (o # fn[l[k]] /\ o # l[k]) => fp2[o] = fp[o]
    PROVE  \E m, l2 : IsList(fn2, fp2, m, l2) /\ Members(m, l2) = (Members(n, l) \ {l[k]}) \cup {x}
<1> DEFINE l2 == [l EXCEPT ![k] = x]
<1>1. n \in Nat \ {0} /\ k \in Nat /\ k < n /\ k >= 1 /\ l \in [1 .. n -> FirstReal .. LastBlock]
 BY DEF IsList
<1>2. \A i \in 1 .. n : /\ l[i] \in FirstReal .. LastBlock
                       /\ l[i] # 0 /\ l[i] # FirstBlock /\ l[i] \in Members(n, l)
 BY ListFacts
<1>0. /\ FirstBlock # 0 /\ fn[0] = 0 /\ fn[FirstBlock] = l[1]
      /\ (0 # fp[l[k]] /\ 0 # l[k]) => fn2[0] = fn[0]
      /\ (FirstBlock # fp[l[k]] /\ FirstBlock # l[k]) => fn2[FirstBlock] = fn[FirstBlock]
 <2>1. FirstBlock # 0
  BY ListFacts, Zenon
 <2>2. fn[0] = 0 /\ fn[FirstBlock] = l[1]
  BY DEF IsList
 <2>3. 0 \in {0, FirstBlock} \cup Members(n, l) /\ FirstBlock \in {0, FirstBlock} \cup Members(n, l)
  OBVIOUS
 <2>4. (0 # fp[l[k]] /\ 0 # l[k]) => fn2[0] = fn[0]
  BY <2>3, Zenon
 <2>5. (FirstBlock # fp[l[k]] /\ FirstBlock # l[k]) => fn2[FirstBlock] = fn[FirstBlock]
  BY <2>3, Zenon
 <2> QED BY <2>1, <2>2, <2>4, <2>5, Zenon
<1>3. fn[l[k]] = l[k + 1] /\ fp[l[k]] = IF k = 1 THEN FirstBlock ELSE l[k - 1]
 BY <1>1 DEF IsList
<1>4. \A i, j \in 1 .. n : l[i] = l[j] => i = j
 BY DEF IsList
<1>5. \A i \in 1 .. n : l2[i] = IF i = k THEN x ELSE l[i]
 BY <1>1
<1>6. l2 \in [1 .. n -> FirstReal .. LastBlock]
 BY <1>1
<1>7. \A i \in 1 .. n : l[i] # x
 BY <1>2
<1> HIDE DEF l2
<1>8. Members(n, l2) = (Members(n, l) \ {l[k]}) \cup {x}
 <2>1. ASSUME NEW i \in 1 .. n PROVE l2[i] \in (Members(n, l) \ {l[k]}) \cup {x}
  BY <1>4, <1>5 DEF Members
 <2>2. ASSUME NEW j \in 1 .. n, l[j] # l[k] PROVE l[j] \in Members(n, l2)
  BY <2>2, <1>5 DEF Members
 <2>3. x \in Members(n, l2)
  BY <1>5 DEF Members
 <2> QED BY <2>1, <2>2, <2>3 DEF Members
<1>9. \A i, j \in 1 .. n : l2[i] = l2[j] => i = j
 BY <1>4, <1>5, <1>7
<1>10. l2[n] = LastBlock /\ l[n] = LastBlock
 BY <1>1, <1>5 DEF IsList
<1>11. fn2[0] = 0
 BY <1>0, <1>1, <1>2, <1>3
<1>12. fn2[FirstBlock] = l2[1]
 <2>1. CASE k = 1
  BY <2>1, <1>1, <1>3, <1>5
 <2>2. CASE k # 1
  <3>1. l2[1] = l[1] /\ k - 1 \in 1 .. n
   BY <2>2, <1>1, <1>5
  <3> QED BY <3>1, <2>2, <1>0, <1>2, <1>3
 <2> QED BY <2>1, <2>2
<1>13. fn2[LastBlock] = 0
 <2>1. LastBlock # l[k] /\ LastBlock \in Members(n, l) /\ fn[LastBlock] = 0 /\ LastBlock # FirstBlock
  BY <1>1, <1>2, <1>4 DEF IsList
 <2>2. LastBlock # fp[l[k]]
  BY <1>1, <1>3, <1>4, <1>10, <2>1
 <2> QED BY <2>1, <2>2
<1>14. ASSUME NEW i \in 1 .. n, i # n PROVE fn2[l2[i]] = l2[i + 1]
 <2>1. fn[l[i]] = l[i + 1] /\ i + 1 \in 1 .. n
  BY <1>1, <1>14 DEF IsList
 <2>2. CASE i + 1 = k
  BY <2>2, <1>1, <1>3, <1>5
 <2>3. CASE i = k
  BY <2>3, <2>1, <1>1, <1>3, <1>5
 <2>4. CASE i # k /\ i + 1 # k
  <3>1. l[i] # l[k] /\ l[i] # fp[l[k]]
   BY <2>4, <1>1, <1>2, <1>3, <1>4
  <3> QED BY <3>1, <2>1, <2>4, <1>2, <1>5
 <2> QED BY <2>2, <2>3, <2>4
<1>15. ASSUME NEW i \in 1 .. n PROVE fp2[l2[i]] = IF i = 1 THEN FirstBlock ELSE l2[i - 1]
 <2>1. fp[l[i]] = IF i = 1 THEN FirstBlock ELSE l[i - 1]
  BY DEF IsList
 <2>2. CASE i = k + 1
  BY <2>2, <1>1, <1>3, <1>5
 <2>3. CASE i = k
  BY <2>3, <1>1, <1>3, <1>5
 <2>4. CASE i # k /\ i # k + 1
  <3>1. l[i] # l[k] /\ l[i] # fn[l[k]]
   BY <2>4, <1>1, <1>3, <1>4
  <3>2. i # 1 => l2[i - 1] = l[i - 1]
   BY <2>4, <1>1, <1>5
  <3> QED BY <3>1, <3>2, <2>1, <2>4, <1>2, <1>5
 <2> QED BY <2>2, <2>3, <2>4
<1>16. IsList(fn2, fp2, n, l2)
 BY <1>1, <1>6, <1>9, <1>10, <1>11, <1>12, <1>13, <1>14, <1>15 DEF IsList
<1> QED BY <1>8, <1>16

\* The list with x in front, as sma_deallocate leaves it.
LEMMA ListPush ==
    ASSUME NEW fn, NEW fp, NEW n, NEW l, IsList(fn, fp, n, l), NEW fn2, NEW fp2,
           NEW x \in FirstReal .. LastBlock, x \notin Members(n, l),
           fn2[FirstBlock] = x, fn2[x] = fn[FirstBlock],
           fp2[fn[FirstBlock]] = x, fp2[x] = FirstBlock,
           \A o \in {0} \cup Members(n, l) : fn2[o] = fn[o],
           \A o \in Members(n, l) : o # fn[FirstBlock] => fp2[o] = fp[o]
    PROVE  \E m, l2 : IsList(fn2, fp2, m, l2) /\ Members(m, l2) = Members(n, l) \cup {x}
<1> DEFINE l2 == [i \in 1 .. n + 1 |-> IF i = 1 THEN x ELSE l[i - 1]]
<1>1. n \in Nat \ {0} /\ n + 1 \in Nat \ {0} /\ l \in [1 .. n -> FirstReal .. LastBlock]
 BY DEF IsList
<1>2. \A i \in 1 .. n : l[i] \in Members(n, l) /\ l[i] # x
 BY DEF Members
<1>3. fn[FirstBlock] = l[1]
 BY DEF IsList
<1>4. \A i, j \in 1 .. n : l[i] = l[j] => i = j
 BY DEF IsList
<1>5. \A i \in 1 .. n + 1 : l2[i] = IF i = 1 THEN x ELSE l[i - 1]
 OBVIOUS
<1>6. l2 \in [1 .. n + 1 -> FirstReal .. LastBlock]
 BY <1>1
<1> HIDE DEF l2
<1>7. Members(n + 1, l2) = Members(n, l) \cup {x}
 <2>1. ASSUME NEW i \in 1 .. n + 1 PROVE l2[i] \in Members(n, l) \cup {x}
  BY <1>1, <1>5 DEF Members
 <2>2. ASSUME NEW j \in 1 .. n PROVE l[j] \in Members(n + 1, l2)
  <3>1. j + 1 \in 1 .. n + 1 /\ l2[j + 1] = l[j]
   BY <1>1, <1>5
  <3> QED BY <3>1 DEF Members
 <2>3. x \in Members(n + 1, l2)
  <3>1. 1 \in 1 .. n + 1 /\ l2[1] = x
   BY <1>1, <1>5
  <3> QED BY <3>1 DEF Members
 <2> QED BY <2>1, <2>2, <2>3 DEF Members
<1>8. \A i, j \in 1 .. n + 1 : l2[i] = l2[j] => i = j
 BY <1>1, <1>2, <1>4, <1>5
<1>9. l2[n + 1] = LastBlock /\ l[n] = LastBlock
 BY <1>1, <1>5 DEF IsList
<1>10. fn2[0] = 0 /\ fn2[LastBlock] = 0
 BY <1>1, <1>2, <1>9 DEF IsList
<1>11. fn2[FirstBlock] = l2[1]
 BY <1>1, <1>5
<1>12. ASSUME NEW i \in 1 .. n + 1, i # n + 1 PROVE fn2[l2[i]] = l2[i + 1]
 <2>1. CASE i = 1
  BY <2>1, <1>1, <1>3, <1>5
 <2>2. CASE i # 1
  <3>1. l2[i] = l[i - 1] /\ l2[i + 1] = l[i] /\ i - 1 \in 1 .. n /\ i \in 1 .. n /\ i - 1 # n /\ (i - 1) + 1 = i
   BY <2>2, <1>1, <1>5, <1>12
  <3>2. fn[l[i - 1]] = l[i]
   BY <3>1 DEF IsList
  <3> QED BY <3>1, <3>2, <1>2
 <2> QED BY <2>1, <2>2
<1>13. ASSUME NEW i \in 1 .. n + 1 PROVE fp2[l2[i]] = IF i = 1 THEN FirstBlock ELSE l2[i - 1]
 <2>1. CASE i = 1
  BY <2>1, <1>1, <1>5
 <2>2. CASE i = 2
  BY <2>2, <1>1, <1>3, <1>5
 <2>3. CASE i # 1 /\ i # 2
  <3>1. l2[i] = l[i - 1] /\ l2[i - 1] = l[i - 2] /\ i - 1 \in 1 .. n /\ i - 1 # 1 /\ (i - 1) - 1 = i - 2
   BY <2>3, <1>1, <1>5
  <3>2. fp[l[i - 1]] = l[i - 2]
   BY <3>1 DEF IsList
  <3>3. l[i - 1] # l[1]
   BY <3>1, <1>1, <1>4
  <3> QED BY <2>3, <3>1, <3>2, <3>3, <1>2, <1>3
 <2> QED BY <2>1, <2>2, <2>3
<1>14. IsList(fn2, fp2, n + 1, l2)
 BY <1>1, <1>6, <1>8, <1>9, <1>10, <1>11, <1>12, <1>13 DEF IsList
<1> QED BY <1>7, <1>14

--------------------
(* A layout that changes, and the words of its blocks. *)

\* Sizes of blocks by offset.
SizesOf(size) == size \in [Offsets -> 0 .. SegSize]

\* What each block of a layout is: it lies in the segment, ends in a block, and
\* no two blocks end in the same one.
LEMMA LayoutFacts ==
    ASSUME NEW sz, SizesOf(sz), NEW B, Layout(sz, B)
    PROVE  /\ \A o \in B : /\ o \in Offsets /\ o \in Nat /\ o # 0 /\ o # FirstBlock
                           /\ FirstReal <= o /\ o <= LastBlock
                           /\ sz[o] \in Nat /\ o + sz[o] \in B
           /\ \A o \in B \ {LastBlock} : sz[o] > 0 /\ o + sz[o] # FirstReal /\ o < LastBlock
           /\ \A o, p \in B \ {LastBlock} : o + sz[o] = p + sz[p] => o = p
<1>1. B \subseteq FirstReal .. LastBlock
 BY DEF Layout
<1>2. \A o \in FirstReal .. LastBlock :
         o \in Offsets /\ o \in Nat /\ o # 0 /\ o # FirstBlock /\ FirstReal <= o /\ o <= LastBlock
 BY Consts
<1>3. \A o \in Offsets : sz[o] \in Nat
 BY Consts DEF SizesOf
<1>4. \A o \in B \ {LastBlock} : sz[o] > 0 /\ o + sz[o] \in B
 BY DEF Layout
<1>5. sz[LastBlock] = 0 /\ LastBlock \in B
 BY DEF Layout
<1>6. \A o \in B : o + sz[o] \in B
 BY <1>1, <1>2, <1>4, <1>5
<1>7. \A o \in B \ {LastBlock} : o + sz[o] # FirstReal /\ o < LastBlock
 BY <1>1, <1>2, <1>3, <1>4, Consts
<1>8. ASSUME NEW o \in B \ {LastBlock}, NEW p \in B \ {LastBlock}, o + sz[o] = p + sz[p]
      PROVE  o = p
 <2>1. o < p => o + sz[o] <= p
  BY DEF Layout
 <2>2. p < o => p + sz[p] <= o
  BY DEF Layout
 <2>3. o \in Nat /\ p \in Nat /\ sz[o] \in Nat /\ sz[p] \in Nat /\ sz[o] > 0 /\ sz[p] > 0
  BY <1>1, <1>2, <1>3, <1>4
 <2> QED BY <2>1, <2>2, <2>3, <1>8
<1> QED BY <1>1, <1>2, <1>3, <1>4, <1>6, <1>7, <1>8

\* A block cut in two.
LEMMA LayoutSplit ==
    ASSUME NEW sz, SizesOf(sz), NEW B, Layout(sz, B), NEW sz2,
           NEW cur \in B \ {LastBlock}, NEW x \in Nat, cur < x, x < cur + sz[cur],
           sz2[cur] = x - cur, sz2[x] = cur + sz[cur] - x,
           \A o \in B \ {cur} : sz2[o] = sz[o]
    PROVE  Layout(sz2, B \cup {x}) /\ x \notin B
<1> DEFINE y == cur + sz[cur]
           C == B \cup {x}
<1>1. /\ \A o \in B : /\ o \in Nat /\ FirstReal <= o /\ o <= LastBlock
                      /\ sz[o] \in Nat /\ o + sz[o] \in B
      /\ \A o \in B \ {LastBlock} : sz[o] > 0
 BY LayoutFacts
<1>2. \A o, p \in B : o < p => o + sz[o] <= p
 BY DEF Layout
<1>3. {FirstReal, LastBlock} \subseteq B /\ sz[LastBlock] = 0
 BY DEF Layout
<1>4. cur \in Nat /\ y \in B /\ y \in Nat /\ y <= LastBlock /\ sz[cur] \in Nat /\ FirstReal \in Nat /\ LastBlock \in Nat
 BY <1>1, Consts
<1>5. x \notin B
 BY <1>1, <1>2, <1>4
<1>6. x \in FirstReal .. LastBlock /\ x # LastBlock /\ x # FirstReal
 BY <1>1, <1>4, <1>5, <1>3
<1>7. C \subseteq FirstReal .. LastBlock /\ {FirstReal, LastBlock} \subseteq C /\ sz2[LastBlock] = 0
 BY <1>3, <1>6 DEF Layout
<1>8. ASSUME NEW o \in C \ {LastBlock} PROVE sz2[o] > 0 /\ o + sz2[o] \in C
 <2>1. CASE o = x
  BY <2>1, <1>4
 <2>2. CASE o = cur
  BY <2>2, <1>4
 <2>3. CASE o # x /\ o # cur
  BY <2>3, <1>1
 <2> QED BY <2>1, <2>2, <2>3
<1>9. ASSUME NEW p \in C \ {FirstReal} PROVE \E o \in C \ {LastBlock} : o + sz2[o] = p
 <2>1. CASE p = x
  BY <2>1, <1>4
 <2>2. CASE p = y
  BY <2>2, <1>4, <1>6
 <2>3. CASE p # x /\ p # y
  <3>1. PICK o \in B \ {LastBlock} : o + sz[o] = p
   BY <2>3 DEF Layout
  <3> QED BY <3>1, <2>3
 <2> QED BY <2>1, <2>2, <2>3
<1>10. ASSUME NEW o \in C, NEW p \in C, o < p PROVE o + sz2[o] <= p
 <2>1. CASE o = x
  <3>1. p \in B /\ cur < p
   BY <2>1, <1>4, <1>1, <1>10
  <3>2. cur + sz[cur] <= p
   BY <3>1, <1>2
  <3> QED BY <3>2, <2>1, <1>4
 <2>2. CASE o = cur
  <3>1. CASE p = x
   BY <2>2, <3>1, <1>4
  <3>2. CASE p # x
   <4>1. cur + sz[cur] <= p
    BY <3>2, <2>2, <1>2, <1>10
   <4> QED BY <4>1, <2>2, <1>4, <1>1, <3>2
  <3> QED BY <3>1, <3>2
 <2>3. CASE o # x /\ o # cur
  <3>1. o \in B /\ sz2[o] = sz[o] /\ o \in Nat /\ sz[o] \in Nat
   BY <2>3, <1>1
  <3>2. CASE p = x
   <4>1. o < cur
    <5> SUFFICES ASSUME cur < o PROVE FALSE
     BY <3>1, <2>3, <1>4
    <5>1. y <= o
     BY <3>1, <1>2
    <5> QED BY <5>1, <3>1, <3>2, <1>4, <1>10
   <4>2. o + sz[o] <= cur
    BY <4>1, <3>1, <1>2
   <4> QED BY <4>2, <3>1, <3>2, <1>4
  <3>3. CASE p # x
   BY <3>1, <3>3, <1>2, <1>10
  <3> QED BY <3>2, <3>3
 <2> QED BY <2>1, <2>2, <2>3
<1>11. Layout(sz2, C)
 <2> HIDE DEF C
 <2> QED BY <1>7, <1>8, <1>9, <1>10 DEF Layout
<1> QED BY <1>5, <1>11

\* Two neighbours made one.
LEMMA LayoutMerge ==
    ASSUME NEW sz, SizesOf(sz), NEW B, Layout(sz, B), NEW sz2,
           NEW cur \in B \ {LastBlock}, NEW y \in B \ {LastBlock}, y = cur + sz[cur],
           sz2[cur] = sz[cur] + sz[y],
           \A o \in B \ {cur, y} : sz2[o] = sz[o]
    PROVE  Layout(sz2, B \ {y}) /\ cur # y
<1> DEFINE C == B \ {y}
<1>1. /\ \A o \in B : /\ o \in Nat /\ FirstReal <= o /\ o <= LastBlock
                      /\ sz[o] \in Nat /\ o + sz[o] \in B
      /\ \A o \in B \ {LastBlock} : sz[o] > 0
 BY LayoutFacts
<1>2. \A o, p \in B : o < p => o + sz[o] <= p
 BY DEF Layout
<1>3. {FirstReal, LastBlock} \subseteq B /\ sz[LastBlock] = 0 /\ B \subseteq FirstReal .. LastBlock
 BY DEF Layout
<1>4. cur \in Nat /\ y \in Nat /\ sz[cur] \in Nat /\ sz[y] \in Nat /\ sz[cur] > 0 /\ sz[y] > 0
      /\ FirstReal \in Nat /\ FirstReal <= cur
 BY <1>1, Consts
<1>5. cur # y /\ y # FirstReal
 BY <1>4
<1>6. C \subseteq FirstReal .. LastBlock /\ {FirstReal, LastBlock} \subseteq C /\ sz2[LastBlock] = 0
 BY <1>3, <1>5
<1>7. \A o \in B \ {LastBlock} : o + sz[o] = y => o = cur
 BY LayoutFacts
<1>8. ASSUME NEW o \in C \ {LastBlock} PROVE sz2[o] > 0 /\ o + sz2[o] \in C
 <2>1. CASE o = cur
  BY <2>1, <1>1, <1>4
 <2>2. CASE o # cur
  BY <2>2, <1>1, <1>7
 <2> QED BY <2>1, <2>2
<1>9. ASSUME NEW p \in C \ {FirstReal} PROVE \E o \in C \ {LastBlock} : o + sz2[o] = p
 <2>1. PICK o \in B \ {LastBlock} : o + sz[o] = p
  BY DEF Layout
 <2>2. CASE o = y
  BY <2>1, <2>2, <1>4, <1>5
 <2>3. CASE o = cur
  BY <2>1, <2>3
 <2>4. CASE o # y /\ o # cur
  BY <2>1, <2>4
 <2> QED BY <2>2, <2>3, <2>4
<1>10. ASSUME NEW o \in C, NEW p \in C, o < p PROVE o + sz2[o] <= p
 <2>1. CASE o = cur
  <3>1. y <= p /\ p # y /\ p \in B
   BY <2>1, <1>2, <1>10
  <3>2. y + sz[y] <= p
   BY <3>1, <1>1, <1>2, <1>4
  <3> QED BY <3>2, <2>1, <1>4, <1>1
 <2>2. CASE o # cur
  BY <2>2, <1>2, <1>10
 <2> QED BY <2>1, <2>2
<1>11. Layout(sz2, C)
 <2> HIDE DEF C
 <2> QED BY <1>6, <1>8, <1>9, <1>10 DEF Layout
<1> QED BY <1>5, <1>11

\* The words of blocks depend on the sizes of those blocks.
LEMMA WordsSame ==
    ASSUME NEW sz, NEW sz2, NEW F, \A o \in F : sz2[o] = sz[o]
    PROVE  Words(sz2, F) = Words(sz, F)
BY DEF Words

\* The blocks of a layout and the header of the last one fit in the segment.
LEMMA WordsBound ==
    ASSUME NEW sz, SizesOf(sz), NEW B, Layout(sz, B), NEW F, F \subseteq B \ {LastBlock}
    PROVE  /\ IsFiniteSet(Words(sz, F)) /\ Cardinality(Words(sz, F)) \in Nat
           /\ Cardinality(Words(sz, F)) + BlockSize <= SegSize
<1> DEFINE T == FirstReal .. LastBlock
<1>1. IsFiniteSet(T) /\ Cardinality(T) = LastBlock - FirstReal + 1
 <2>1. FirstReal \in Int /\ LastBlock \in Int /\ ~(FirstReal > LastBlock)
  BY Consts
 <2> QED BY <2>1, FS_Interval
<1>2. Words(sz, F) \in SUBSET T
 <2>1. \A o \in F : /\ o \in Nat /\ FirstReal <= o /\ sz[o] \in Nat
                    /\ o + sz[o] <= LastBlock
  BY LayoutFacts
 <2>2. ASSUME NEW o \in F, NEW w \in o .. o + sz[o] - 1 PROVE w \in T
  <3>1. o \in Nat /\ FirstReal <= o /\ sz[o] \in Nat /\ o + sz[o] <= LastBlock
   BY <2>1
  <3>2. FirstReal \in Nat /\ LastBlock \in Nat
   BY Consts
  <3>3. w \in Int /\ o <= w /\ w <= o + sz[o] - 1
   BY <3>1, <2>2
  <3> QED BY <3>1, <3>2, <3>3
 <2> HIDE DEF T
 <2> QED BY <2>2 DEF Words
<1> HIDE DEF T
<1>3. IsFiniteSet(Words(sz, F)) /\ Cardinality(Words(sz, F)) <= Cardinality(T)
 BY <1>1, <1>2, FS_Subset, Zenon
<1>4. Cardinality(Words(sz, F)) \in Nat
 BY <1>3, FS_CardinalityType
<1> QED BY <1>1, <1>3, <1>4, Consts

\* Blocks of a layout do not overlap: one more has its size in words more.
LEMMA WordsAdd ==
    ASSUME NEW sz, SizesOf(sz), NEW B, Layout(sz, B), NEW F, F \subseteq B \ {LastBlock},
           NEW x \in B \ {LastBlock}, x \notin F
    PROVE  Cardinality(Words(sz, F \cup {x})) = Cardinality(Words(sz, F)) + sz[x]
<1> DEFINE W == Words(sz, F)
           V == x .. x + sz[x] - 1
<1>1. /\ \A o \in B : o \in Nat /\ sz[o] \in Nat
      /\ \A o \in B \ {LastBlock} : sz[o] > 0
 BY LayoutFacts
<1>2. Words(sz, F \cup {x}) = W \cup V
 BY DEF Words
<1>3. W \cap V = {}
 <2>1. ASSUME NEW o \in F, NEW w \in o .. o + sz[o] - 1 PROVE w \notin V
  <3>1. o < x => o + sz[o] <= x
   BY DEF Layout
  <3>2. x < o => x + sz[x] <= o
   BY DEF Layout
  <3>3. o # x /\ o \in Nat /\ x \in Nat /\ sz[o] \in Nat /\ sz[x] \in Nat
   BY <1>1
  <3> QED BY <3>1, <3>2, <3>3
 <2> HIDE DEF V
 <2> QED BY <2>1 DEF Words
<1>4. IsFiniteSet(W) /\ Cardinality(W) \in Nat
 BY WordsBound
<1>5. IsFiniteSet(V) /\ Cardinality(V) = sz[x]
 <2>1. x \in Int /\ x + sz[x] - 1 \in Int /\ ~(x > x + sz[x] - 1)
       /\ x + sz[x] - 1 - x + 1 = sz[x]
  BY <1>1
 <2>2. SUFFICES ASSUME NEW b \in Int, b = x + sz[x] - 1
                PROVE  IsFiniteSet(x .. b) /\ Cardinality(x .. b) = sz[x]
  BY <2>1
 <2>3. IsFiniteSet(x .. b) /\ Cardinality(x .. b) = IF x > b THEN 0 ELSE b - x + 1
  BY <2>1, FS_Interval
 <2>4. ~(x > b) /\ b - x + 1 = sz[x]
  <3>1. x \in Nat /\ sz[x] \in Nat /\ sz[x] > 0
   BY <1>1
  <3> QED BY <3>1, <2>2
 <2> QED BY <2>3, <2>4, Zenon
<1> HIDE DEF W, V
<1>6. Cardinality(W \cup V) = Cardinality(W) + Cardinality(V) - Cardinality(W \cap V)
 BY <1>4, <1>5, FS_Union, Zenon
<1>7. Cardinality(W \cap V) = 0
 BY <1>3, FS_EmptySet
<1>8. sz[x] \in Nat
 BY <1>1
<1>9. Cardinality(W \cup V) = Cardinality(W) + sz[x]
 BY <1>4, <1>5, <1>6, <1>7, <1>8
<1> QED BY <1>2, <1>9, Zenon DEF W

--------------------
(* What the operations write. *)

\* All blocks of a segment.
BlocksOf(free, used, loose) == {LastBlock} \cup free \cup used \cup loose

\* What the state of a segment says of its blocks and of each free one.
LEMMA ExactFacts ==
    ASSUME NEW g, NEW n, NEW l, NEW F, NEW U, NEW L, Exact(g, n, l, F, U, L)
    PROVE  /\ g \in Fields /\ SizesOf(g.size)
           /\ Layout(g.size, BlocksOf(F, U, L))
           /\ IsList(g.fnext, g.fprev, n, l) /\ Members(n, l) = F \cup {LastBlock}
           /\ LastBlock \notin F \cup U \cup L
           /\ \A o \in BlocksOf(F, U, L) : o \in Offsets /\ o # 0 /\ o # FirstBlock
           /\ \A o \in F : /\ g.fnext[o] \in F \cup {LastBlock} /\ g.fnext[o] # o /\ g.fnext[o] # 0
                           /\ g.fprev[o] \in F \cup {FirstBlock} /\ g.fprev[o] # o
                           /\ \E k \in 1 .. n : k # n /\ l[k] = o
<1> DEFINE B == BlocksOf(F, U, L)
<1>1. g \in Fields /\ SizesOf(g.size)
 BY DEF Exact, SizesOf, Fields
<1>2. Layout(g.size, B) /\ IsList(g.fnext, g.fprev, n, l)
 BY DEF Exact, BlocksOf
<1>3. n \in 1 .. n /\ l[n] = LastBlock
 BY <1>2 DEF IsList
<1>4. LastBlock \in Members(n, l)
 BY <1>3 DEF Members
<1>5. Members(n, l) = F \cup {LastBlock} /\ LastBlock \notin F \cup U \cup L
 BY <1>4 DEF Exact
<1>6. \A o \in B : o \in Offsets /\ o # 0 /\ o # FirstBlock
 <2> HIDE DEF B
 <2> QED BY <1>1, <1>2, LayoutFacts
<1>7. ASSUME NEW o \in F
      PROVE  /\ g.fnext[o] \in F \cup {LastBlock} /\ g.fnext[o] # o /\ g.fnext[o] # 0
             /\ g.fprev[o] \in F \cup {FirstBlock} /\ g.fprev[o] # o
             /\ \E k \in 1 .. n : k # n /\ l[k] = o
 <2>1. PICK k \in 1 .. n : l[k] = o
  BY <1>5 DEF Members
 <2>2. k # n
  BY <2>1, <1>3, <1>5
 <2>3. n \in Nat /\ k + 1 \in 1 .. n /\ k + 1 # k
  BY <2>2, <1>2 DEF IsList
 <2>4. \A i, j \in 1 .. n : l[i] = l[j] => i = j
  BY <1>2 DEF IsList
 <2>5. g.fnext[o] = l[k + 1] /\ l[k + 1] # o
  BY <2>1, <2>2, <2>3, <2>4, <1>2 DEF IsList
 <2>6. l[k + 1] \in Members(n, l) /\ l[k + 1] # 0
  BY <2>3, <1>2, ListFacts
 <2>7. CASE k = 1
  <3>1. g.fprev[o] = FirstBlock
   BY <2>1, <2>7, <1>2 DEF IsList
  <3>2. o # FirstBlock
   BY <1>6 DEF BlocksOf
  <3> QED BY <3>1, <3>2, <2>1, <2>2, <2>5, <2>6, <1>5
 <2>8. CASE k # 1
  <3>1. k - 1 \in 1 .. n /\ k - 1 # k /\ k - 1 # n
   BY <2>3, <2>8
  <3>2. g.fprev[o] = l[k - 1]
   BY <2>1, <2>8, <1>2 DEF IsList
  <3>3. l[k - 1] # o /\ l[k - 1] # LastBlock
   BY <3>1, <2>1, <2>4, <1>3
  <3>4. l[k - 1] \in Members(n, l)
   BY <3>1 DEF Members
  <3> QED BY <3>2, <3>3, <3>4, <2>1, <2>2, <2>5, <2>6, <1>5
 <2> QED BY <2>7, <2>8
<1> QED BY <1>1, <1>2, <1>5, <1>6, <1>7

\* A free block is on the list, and not at its end.
LEMMA PlaceOf ==
    ASSUME NEW g, NEW n, NEW l, NEW F, NEW U, NEW L, Exact(g, n, l, F, U, L), NEW o \in F
    PROVE  \E k \in 1 .. n : k # n /\ l[k] = o
BY ExactFacts

\* 0 is an offset and a size.
LEMMA ZeroIn == 0 \in Offsets /\ 0 \in 0 .. SegSize
BY Consts

\* The fields of a segment, each with its type.
LEMMA FieldsAre ==
    ASSUME NEW g \in Fields
    PROVE  /\ g.avail \in Int /\ g.size \in [Offsets -> 0 .. SegSize]
           /\ g.prev_size \in [Offsets -> 0 .. SegSize]
           /\ g.fnext \in [Offsets -> Offsets] /\ g.fprev \in [Offsets -> Offsets]
BY DEF Fields

\* What UnlinkBlock writes.
LEMMA UnlinkIs ==
    ASSUME NEW g \in Fields, NEW cur \in Offsets
    PROVE  LET u == UnlinkBlock(g, cur) IN
           /\ u \in Fields
           /\ u.avail = g.avail /\ u.size = g.size /\ u.prev_size = g.prev_size
           /\ u.fnext = [g.fnext EXCEPT ![g.fprev[cur]] = g.fnext[cur]]
           /\ u.fprev = [g.fprev EXCEPT ![g.fnext[cur]] = g.fprev[cur]]
<1> DEFINE u == UnlinkBlock(g, cur)
<1>1. g.fnext[cur] \in Offsets /\ g.fprev[cur] \in Offsets
 BY DEF Fields
<1> QED BY <1>1 DEF UnlinkBlock, Fields

\* What sma_allocate writes when it takes the block whole.
LEMMA WholeIs ==
    ASSUME NEW g \in Fields, NEW cur \in Offsets, NEW m, NEW fragment,
           TooSmallToSplit(g, cur, m, fragment), cur + g.size[cur] \in Offsets
    PROVE  LET h == sma_allocate(g, cur, m, fragment) IN
           /\ h \in Fields
           /\ h.avail = g.avail - g.size[cur] /\ h.size = g.size
           /\ h.prev_size = [g.prev_size EXCEPT ![cur + g.size[cur]] = 0]
           /\ h.fnext = [[g.fnext EXCEPT ![g.fprev[cur]] = g.fnext[cur]] EXCEPT ![cur] = 0]
           /\ h.fprev = [g.fprev EXCEPT ![g.fnext[cur]] = g.fprev[cur]]
<1> DEFINE w == UnlinkBlock(g, cur)
           y == cur + g.size[cur]
           u == [w EXCEPT !.prev_size[y] = 0]
<1>0. 0 \in Offsets /\ 0 \in 0 .. SegSize
 BY Consts
<1>1. /\ w \in Fields /\ w.avail = g.avail /\ w.size = g.size /\ w.prev_size = g.prev_size
      /\ w.fnext = [g.fnext EXCEPT ![g.fprev[cur]] = g.fnext[cur]]
      /\ w.fprev = [g.fprev EXCEPT ![g.fnext[cur]] = g.fprev[cur]]
 BY UnlinkIs
<1>2. sma_allocate(g, cur, m, fragment) = [u EXCEPT !.fnext[cur] = 0, !.avail = @ - u.size[cur]]
 BY DEF sma_allocate, NextSBlock
<1> HIDE DEF w
<1>3. /\ u \in Fields /\ u.avail = g.avail /\ u.size = g.size
      /\ u.prev_size = [g.prev_size EXCEPT ![y] = 0] /\ u.fnext = w.fnext /\ u.fprev = w.fprev
 BY <1>0, <1>1 DEF Fields
<1> HIDE DEF u
<1> DEFINE h == [u EXCEPT !.fnext[cur] = 0, !.avail = @ - u.size[cur]]
<1>4. u.avail - u.size[cur] \in Int
 <2>1. u.avail \in Int /\ u.size \in [Offsets -> 0 .. SegSize]
  BY <1>3, FieldsAre
 <2>2. u.size[cur] \in Int
  BY <2>1, Consts
 <2> QED BY <2>1, <2>2
<1>5. /\ h \in Fields /\ h.avail = u.avail - u.size[cur] /\ h.size = u.size
      /\ h.prev_size = u.prev_size /\ h.fnext = [u.fnext EXCEPT ![cur] = 0] /\ h.fprev = u.fprev
 BY <1>0, <1>3, <1>4 DEF Fields
<1> HIDE DEF h
<1>6. sma_allocate(g, cur, m, fragment) = h
 BY <1>2 DEF h
<1> QED BY <1>1, <1>3, <1>5, <1>6

\* What sma_allocate writes when it cuts the block.
LEMMA SplitIs ==
    ASSUME NEW g \in Fields, NEW cur \in Offsets, NEW m, NEW fragment,
           NEW x \in Offsets, NEW y \in Offsets, NEW rest \in 0 .. SegSize,
           ~TooSmallToSplit(g, cur, m, fragment), RealSize(m) \in 0 .. SegSize,
           x = cur + RealSize(m), x # cur, rest = g.size[cur] - RealSize(m), y = x + rest
    PROVE  LET h == sma_allocate(g, cur, m, fragment) IN
           /\ h \in Fields
           /\ h.avail = g.avail - RealSize(m)
           /\ h.size = [g.size EXCEPT ![cur] = RealSize(m), ![x] = rest]
           /\ h.prev_size = [[g.prev_size EXCEPT ![x] = 0] EXCEPT ![y] = rest]
           /\ h.fnext = [[[g.fnext EXCEPT ![x] = g.fnext[cur]] EXCEPT ![g.fprev[cur]] = x] EXCEPT ![cur] = 0]
           /\ h.fprev = [[g.fprev EXCEPT ![x] = g.fprev[cur]] EXCEPT ![g.fnext[cur]] = x]
<1> DEFINE r == RealSize(m)
           u == [g EXCEPT !.size[cur] = r, !.size[x] = rest, !.prev_size[x] = 0,
                          !.fnext[x] = g.fnext[cur], !.fprev[x] = g.fprev[cur]]
           v == [u EXCEPT !.prev_size[NextSBlock(u, x)] = u.size[x]]
           w == [v EXCEPT !.fprev[g.fnext[cur]] = x, !.fnext[g.fprev[cur]] = x]
           h == [w EXCEPT !.fnext[cur] = 0, !.avail = @ - w.size[cur]]
<1>0. g.fnext[cur] \in Offsets /\ g.fprev[cur] \in Offsets /\ 0 \in Offsets /\ 0 \in 0 .. SegSize
 <2>1. 0 \in Offsets /\ 0 \in 0 .. SegSize
  BY ZeroIn, Zenon
 <2> QED BY <2>1, FieldsAre
<1>1. sma_allocate(g, cur, m, fragment) = h
 BY DEF sma_allocate, Split
<1>2. /\ u \in Fields /\ u.avail = g.avail /\ u.size = [g.size EXCEPT ![cur] = r, ![x] = rest]
      /\ u.prev_size = [g.prev_size EXCEPT ![x] = 0]
      /\ u.fnext = [g.fnext EXCEPT ![x] = g.fnext[cur]] /\ u.fprev = [g.fprev EXCEPT ![x] = g.fprev[cur]]
 BY <1>0 DEF Fields
<1> HIDE DEF u
<1>3. NextSBlock(u, x) = y /\ u.size[x] = rest /\ u.size[cur] = r
 BY <1>2, FieldsAre DEF NextSBlock
<1>4. /\ v \in Fields /\ v.avail = u.avail /\ v.size = u.size /\ v.prev_size = [u.prev_size EXCEPT ![y] = rest]
      /\ v.fnext = u.fnext /\ v.fprev = u.fprev
 BY <1>2, <1>3 DEF Fields
<1> HIDE DEF v
<1>5. /\ w \in Fields /\ w.avail = v.avail /\ w.size = v.size /\ w.prev_size = v.prev_size
      /\ w.fnext = [v.fnext EXCEPT ![g.fprev[cur]] = x] /\ w.fprev = [v.fprev EXCEPT ![g.fnext[cur]] = x]
 BY <1>0, <1>4 DEF Fields
<1> HIDE DEF w
<1>6. w.size[cur] = r /\ w.avail - r \in Int
 <2>1. w.avail \in Int
  BY <1>5, FieldsAre
 <2> QED BY <2>1, <1>3, <1>4, <1>5
<1>7. /\ h \in Fields /\ h.avail = w.avail - r /\ h.size = w.size /\ h.prev_size = w.prev_size
      /\ h.fnext = [w.fnext EXCEPT ![cur] = 0] /\ h.fprev = w.fprev
 BY <1>0, <1>5, <1>6 DEF Fields
<1> HIDE DEF h
<1> QED BY <1>1, <1>2, <1>4, <1>5, <1>7

--------------------
(* sma_allocate. *)

\* h is what g becomes when the free block cur is taken for m words.
Takes(g, h, cur, m, F, U) ==
    /\ \E n2, l2, F2 : Exact(h, n2, l2, F2, U \cup {cur}, {})
    /\ \A o \in U : h.size[o] = g.size[o]
    /\ h.size[cur] >= RealSize(m)

\* What is known of a segment without a loose block.
LEMMA TagsAre0 ==
    ASSUME NEW g, NEW n, NEW l, NEW F, NEW U, Exact(g, n, l, F, U, {})
    PROVE  /\ g.prev_size[FirstReal] = 0
           /\ \A o \in F \cup U : g.prev_size[o + g.size[o]] = IF o \in F THEN g.size[o] ELSE 0
           /\ \A o \in F : o + g.size[o] \notin F
           /\ \A o \in U : g.fnext[o] = 0
           /\ F \cap U = {} /\ LastBlock \notin U
           /\ g.avail = Cardinality(Words(g.size, F)) + BlockSize
<1>1. F \cup {} = F
 OBVIOUS
<1>2. SUFFICES ASSUME NEW L, L = {}
               PROVE  /\ g.prev_size[FirstReal] = 0
                      /\ \A o \in F \cup U : g.prev_size[o + g.size[o]] = IF o \in F THEN g.size[o] ELSE 0
                      /\ \A o \in F : o + g.size[o] \notin F
                      /\ \A o \in U : g.fnext[o] = 0
                      /\ F \cap U = {} /\ LastBlock \notin U
                      /\ g.avail = Cardinality(Words(g.size, F)) + BlockSize
 OBVIOUS
<1>3. Exact(g, n, l, F, U, L) /\ F \cup L = F
 BY <1>1, <1>2
<1> HIDE <1>2
<1>4. /\ g.prev_size[FirstReal] = 0
      /\ \A o \in F \cup U : g.prev_size[o + g.size[o]] = IF o \in F THEN g.size[o] ELSE 0
      /\ \A o \in F : o + g.size[o] \notin F
      /\ \A o \in U : g.fnext[o] = 0
      /\ F \cap U = {} /\ L \cap (F \cup U) = {} /\ LastBlock \notin U \cup L
      /\ g.avail = Cardinality(Words(g.size, F \cup L)) + BlockSize
 BY <1>3 DEF Exact, Tags, Apart
<1>5. LastBlock \notin U
 BY <1>4
<1>6. g.avail = Cardinality(Words(g.size, F)) + BlockSize
 BY <1>3, <1>4, Zenon
<1> QED BY <1>4, <1>5, <1>6, Zenon

\* A free block that is taken whole is in use, and the rest is as it was.
LEMMA TakeWhole ==
    ASSUME NEW g, NEW n, NEW l, NEW F, NEW U, Exact(g, n, l, F, U, {}),
           NEW cur \in F, NEW m, g.size[cur] >= RealSize(m), NEW fragment,
           TooSmallToSplit(g, cur, m, fragment)
    PROVE  Takes(g, sma_allocate(g, cur, m, fragment), cur, m, F, U)
<1> DEFINE B == BlocksOf(F, U, {})
           y == cur + g.size[cur]
           F2 == F \ {cur}
           U2 == U \cup {cur}
<1>1. /\ g \in Fields /\ SizesOf(g.size) /\ Layout(g.size, B)
      /\ IsList(g.fnext, g.fprev, n, l) /\ Members(n, l) = F \cup {LastBlock}
      /\ LastBlock \notin F \cup U
      /\ \A o \in B : o \in Offsets /\ o # 0 /\ o # FirstBlock
      /\ g.fnext[cur] \in F \cup {LastBlock} /\ g.fnext[cur] # cur
      /\ g.fprev[cur] \in F \cup {FirstBlock} /\ g.fprev[cur] # cur
      /\ \E k \in 1 .. n : k # n /\ l[k] = cur
 BY ExactFacts
<1>2. /\ g.prev_size[FirstReal] = 0
      /\ \A o \in F \cup U : g.prev_size[o + g.size[o]] = IF o \in F THEN g.size[o] ELSE 0
      /\ \A o \in F : o + g.size[o] \notin F
      /\ \A o \in U : g.fnext[o] = 0
      /\ F \cap U = {}
      /\ g.avail = Cardinality(Words(g.size, F)) + BlockSize
 BY TagsAre0, Zenon
<1>3. /\ cur \in B \ {LastBlock} /\ F \cup U = B \ {LastBlock}
      /\ BlocksOf(F2, U2, {}) = B
 BY <1>1 DEF BlocksOf
<1>4. /\ \A o \in B : o \in Nat /\ g.size[o] \in Nat /\ o + g.size[o] \in B
      /\ \A o \in B \ {LastBlock} : o + g.size[o] # FirstReal
      /\ \A o, p \in B \ {LastBlock} : o + g.size[o] = p + g.size[p] => o = p
 <2> HIDE DEF B
 <2> QED BY <1>1, LayoutFacts
<1>5. cur \in Offsets /\ y \in Offsets /\ y \in B /\ FirstBlock \in Offsets
 <2>1. y \in B
  BY <1>3, <1>4
 <2>2. FirstBlock \in Offsets
  BY Consts
 <2> QED BY <2>1, <2>2, <1>1, <1>3
<1> SUFFICES ASSUME NEW h, h = sma_allocate(g, cur, m, fragment)
             PROVE  Takes(g, h, cur, m, F, U)
 OBVIOUS
<1>6. /\ h \in Fields
      /\ h.avail = g.avail - g.size[cur] /\ h.size = g.size
      /\ h.prev_size = [g.prev_size EXCEPT ![y] = 0]
      /\ h.fnext = [[g.fnext EXCEPT ![g.fprev[cur]] = g.fnext[cur]] EXCEPT ![cur] = 0]
      /\ h.fprev = [g.fprev EXCEPT ![g.fnext[cur]] = g.fprev[cur]]
 BY <1>1, <1>5, WholeIs
<1>7. /\ g.prev_size \in [Offsets -> 0 .. SegSize]
      /\ g.fnext \in [Offsets -> Offsets] /\ g.fprev \in [Offsets -> Offsets]
 BY <1>1, FieldsAre
<1>8. /\ g.fprev[cur] \in Offsets /\ g.fnext[cur] \in Offsets
      /\ F \cup U \cup {LastBlock} \subseteq Offsets
 BY <1>1, <1>5, <1>7 DEF BlocksOf
<1>9. /\ h.fnext[g.fprev[cur]] = g.fnext[cur]
      /\ \A o \in Offsets : (o # g.fprev[cur] /\ o # cur) => h.fnext[o] = g.fnext[o]
      /\ h.fnext[cur] = 0
      /\ h.fprev[g.fnext[cur]] = g.fprev[cur]
      /\ \A o \in Offsets : o # g.fnext[cur] => h.fprev[o] = g.fprev[o]
 BY <1>1, <1>5, <1>6, <1>7, <1>8
<1>10. \E n2, l2 : IsList(h.fnext, h.fprev, n2, l2) /\ Members(n2, l2) = Members(n, l) \ {cur}
 <2>1. PICK k \in 1 .. n : k # n /\ l[k] = cur
  BY <1>1
 <2>2. /\ \A o \in {0, FirstBlock} \cup Members(n, l) :
              (o # g.fprev[l[k]] /\ o # l[k]) => h.fnext[o] = g.fnext[o]
       /\ \A o \in Members(n, l) : (o # g.fnext[l[k]] /\ o # l[k]) => h.fprev[o] = g.fprev[o]
  BY <1>1, <1>5, <1>8, <1>9, <2>1, ZeroIn
 <2>3. h.fnext[g.fprev[l[k]]] = g.fnext[l[k]] /\ h.fprev[g.fnext[l[k]]] = g.fprev[l[k]]
  BY <1>9, <2>1
 <2> QED BY <1>1, <2>1, <2>2, <2>3, ListUnlink
<1>11. PICK n2, l2 : IsList(h.fnext, h.fprev, n2, l2) /\ Members(n2, l2) = Members(n, l) \ {cur}
 BY <1>10
<1>12. F2 = Members(n2, l2) \ {LastBlock}
 BY <1>1, <1>11
<1>13. F2 \cap U2 = {} /\ LastBlock \notin U2 \cup {}
 BY <1>1, <1>2
<1>14. \A o \in U2 : h.fnext[o] = 0
 BY <1>1, <1>2, <1>8, <1>9, <1>3
<1>15. Tags(h.size, h.prev_size, F2 \cup U2, F2)
 <2>1. h.prev_size[FirstReal] = 0
  BY <1>2, <1>3, <1>4, <1>6, <1>7, <1>5
 <2>2. ASSUME NEW o \in F2 \cup U2
       PROVE  h.prev_size[o + h.size[o]] = IF o \in F2 THEN h.size[o] ELSE 0
  <3>1. o \in B \ {LastBlock} /\ o + g.size[o] \in Offsets
   BY <1>1, <1>3, <1>4
  <3>2. CASE o = cur
   BY <3>1, <3>2, <1>6, <1>7, <1>5
  <3>3. CASE o # cur
   <4>1. o + g.size[o] # y
    BY <3>1, <3>3, <1>3, <1>4
   <4> QED BY <3>1, <3>3, <4>1, <1>2, <1>3, <1>6, <1>7
  <3> QED BY <3>2, <3>3
 <2> QED BY <2>1, <2>2 DEF Tags
<1>16. Apart(h.size, F2)
 BY <1>2, <1>6 DEF Apart
<1>17. h.avail = Cardinality(Words(h.size, F2 \cup {})) + BlockSize
 <2>1. F2 \subseteq B \ {LastBlock} /\ cur \notin F2 /\ F2 \cup {cur} = F /\ F2 \cup {} = F2
  BY <1>3
 <2>2. Cardinality(Words(g.size, F2 \cup {cur})) = Cardinality(Words(g.size, F2)) + g.size[cur]
  <3> HIDE DEF B, F2
  <3> QED BY <1>1, <1>3, <2>1, WordsAdd
 <2>3. Cardinality(Words(g.size, F2)) \in Nat
  <3> HIDE DEF B, F2
  <3> QED BY <1>1, <2>1, WordsBound
 <2>4. g.size[cur] \in Nat /\ BlockSize \in Nat
  BY <1>3, <1>4, Consts
 <2> HIDE DEF F2
 <2>5. g.avail = Cardinality(Words(g.size, F2 \cup {cur})) + BlockSize
  BY <1>2, <2>1, Zenon
 <2>6. h.avail = Cardinality(Words(g.size, F2)) + BlockSize
  BY <2>2, <2>3, <2>4, <2>5, <1>6
 <2> QED BY <2>1, <2>6, <1>6, Zenon
<1>18. Layout(h.size, {LastBlock} \cup F2 \cup U2 \cup {})
 BY <1>1, <1>3, <1>6 DEF BlocksOf
<1>19. Exact(h, n2, l2, F2, U2, {})
 <2> HIDE DEF F2, U2
 <2> QED BY <1>6, <1>11, <1>12, <1>13, <1>14, <1>15, <1>16, <1>17, <1>18 DEF Exact
<1> QED BY <1>6, <1>19 DEF Takes

\* A free block that is cut is in use, its rest is free, and the others are as
\* they were.
LEMMA TakeSplit ==
    ASSUME NEW g, NEW n, NEW l, NEW F, NEW U, Exact(g, n, l, F, U, {}),
           NEW cur \in F, NEW m \in Nat, NEW fragment \in Nat,
           ~TooSmallToSplit(g, cur, m, fragment)
    PROVE  Takes(g, sma_allocate(g, cur, m, fragment), cur, m, F, U)
<1> DEFINE B == BlocksOf(F, U, {})
           r == RealSize(m)
           x == cur + r
           rest == g.size[cur] - r
           y == x + rest
           F2 == (F \ {cur}) \cup {x}
           U2 == U \cup {cur}
<1>1. /\ g \in Fields /\ SizesOf(g.size) /\ Layout(g.size, B)
      /\ IsList(g.fnext, g.fprev, n, l) /\ Members(n, l) = F \cup {LastBlock}
      /\ LastBlock \notin F \cup U
      /\ \A o \in B : o \in Offsets /\ o # 0 /\ o # FirstBlock
      /\ g.fnext[cur] \in F \cup {LastBlock} /\ g.fnext[cur] # cur
      /\ g.fprev[cur] \in F \cup {FirstBlock} /\ g.fprev[cur] # cur
      /\ \E k \in 1 .. n : k # n /\ l[k] = cur
 BY ExactFacts
<1>2. /\ g.prev_size[FirstReal] = 0
      /\ \A o \in F \cup U : g.prev_size[o + g.size[o]] = IF o \in F THEN g.size[o] ELSE 0
      /\ \A o \in F : o + g.size[o] \notin F
      /\ \A o \in U : g.fnext[o] = 0
      /\ F \cap U = {}
      /\ g.avail = Cardinality(Words(g.size, F)) + BlockSize
 BY TagsAre0, Zenon
<1>3. cur \in B \ {LastBlock} /\ F \cup U = B \ {LastBlock}
 BY <1>1 DEF BlocksOf
<1>4. /\ \A o \in B : /\ o \in Offsets /\ o \in Nat /\ g.size[o] \in Nat /\ o + g.size[o] \in B
                      /\ FirstReal <= o /\ o <= LastBlock
      /\ \A o \in B \ {LastBlock} : g.size[o] > 0 /\ o + g.size[o] # FirstReal
      /\ \A o, p \in B \ {LastBlock} : o + g.size[o] = p + g.size[p] => o = p
 <2> HIDE DEF B
 <2> QED BY <1>1, LayoutFacts
<1>5. /\ cur \in Nat /\ g.size[cur] \in Nat /\ r \in Nat /\ r > 0 /\ rest \in Nat /\ rest > 0
      /\ x \in Nat /\ cur < x /\ x < cur + g.size[cur] /\ y = cur + g.size[cur] /\ y \in B
      /\ y <= LastBlock /\ FirstReal < x /\ x < LastBlock
 <2>1. cur \in Nat /\ g.size[cur] \in Nat /\ cur + g.size[cur] \in B
       /\ cur + g.size[cur] <= LastBlock /\ FirstReal <= cur
  BY <1>3, <1>4
 <2>2. r = m + BlockSize /\ BlockSize \in Nat /\ BlockSize > 0 /\ MINBLOCKSIZE \in Nat
       /\ FirstReal \in Nat /\ LastBlock \in Nat
  BY Consts DEF RealSize
 <2>3. ~(g.size[cur] < r + MINBLOCKSIZE + fragment) /\ MINBLOCKSIZE = 1 + BlockSize
  BY Consts DEF TooSmallToSplit
 <2> HIDE DEF r, B
 <2>4. r \in Nat /\ r > 0 /\ rest \in Nat /\ rest > 0
  BY <2>1, <2>2, <2>3
 <2>5. y = cur + g.size[cur]
  BY <2>1, <2>4
 <2> HIDE DEF y
 <2> QED BY <2>1, <2>2, <2>4, <2>5
<1>6. /\ x \in Offsets /\ y \in Offsets /\ rest \in 0 .. SegSize /\ r \in 0 .. SegSize /\ x # cur
      /\ x \in FirstReal .. LastBlock /\ x # FirstReal /\ x # LastBlock /\ x # FirstBlock /\ x # 0
 <2>1. /\ FirstReal \in Nat /\ LastBlock \in Nat /\ SegSize \in Nat /\ FirstBlock < FirstReal /\ FirstBlock \in Nat
       /\ LastBlock < SegSize
  BY Consts
 <2>2. x \in Offsets
  BY <2>1, <1>5 DEF Offsets
 <2>3. y \in Offsets /\ y \in Nat
  BY <1>4, <1>5
 <2> HIDE DEF x, y, r
 <2>4. rest <= SegSize /\ r <= SegSize
  BY <2>1, <1>5 DEF x
 <2> QED BY <2>1, <2>2, <2>3, <2>4, <1>5
<1>7. cur \in Offsets /\ FirstBlock \in Offsets
 <2>1. FirstBlock \in Offsets
  BY Consts
 <2> QED BY <2>1, <1>1, <1>3
<1> SUFFICES ASSUME NEW h, h = sma_allocate(g, cur, m, fragment)
             PROVE  Takes(g, h, cur, m, F, U)
 OBVIOUS
<1>8. /\ h \in Fields
      /\ h.avail = g.avail - r
      /\ h.size = [g.size EXCEPT ![cur] = r, ![x] = rest]
      /\ h.prev_size = [[g.prev_size EXCEPT ![x] = 0] EXCEPT ![y] = rest]
      /\ h.fnext = [[[g.fnext EXCEPT ![x] = g.fnext[cur]] EXCEPT ![g.fprev[cur]] = x] EXCEPT ![cur] = 0]
      /\ h.fprev = [[g.fprev EXCEPT ![x] = g.fprev[cur]] EXCEPT ![g.fnext[cur]] = x]
 <2> SUFFICES ASSUME NEW x1, x1 = x, NEW y1, y1 = y, NEW rest1, rest1 = rest
              PROVE  /\ h \in Fields
                     /\ h.avail = g.avail - r
                     /\ h.size = [g.size EXCEPT ![cur] = r, ![x1] = rest1]
                     /\ h.prev_size = [[g.prev_size EXCEPT ![x1] = 0] EXCEPT ![y1] = rest1]
                     /\ h.fnext = [[[g.fnext EXCEPT ![x1] = g.fnext[cur]] EXCEPT ![g.fprev[cur]] = x1] EXCEPT ![cur] = 0]
                     /\ h.fprev = [[g.fprev EXCEPT ![x1] = g.fprev[cur]] EXCEPT ![g.fnext[cur]] = x1]
  OBVIOUS
 <2>1. /\ x1 \in Offsets /\ y1 \in Offsets /\ rest1 \in 0 .. SegSize /\ r \in 0 .. SegSize
       /\ x1 = cur + r /\ x1 # cur /\ rest1 = g.size[cur] - r /\ y1 = x1 + rest1
  BY <1>6
 <2> QED BY <2>1, <1>1, <1>7, SplitIs, SMTT(60)
<1> HIDE DEF x, y, rest, r
<1>9. /\ g.size \in [Offsets -> 0 .. SegSize]
      /\ g.prev_size \in [Offsets -> 0 .. SegSize]
      /\ g.fnext \in [Offsets -> Offsets] /\ g.fprev \in [Offsets -> Offsets]
 BY <1>1, FieldsAre
<1>10. /\ h.size[cur] = r /\ h.size[x] = rest
       /\ \A o \in Offsets : (o # cur /\ o # x) => h.size[o] = g.size[o]
 BY <1>6, <1>7, <1>8, <1>9
<1>11. B \subseteq Offsets /\ cur \in B /\ cur # LastBlock
 BY <1>3, <1>4
<1>12. Layout(h.size, B \cup {x}) /\ x \notin B
 <2>1. x - cur = r /\ cur + g.size[cur] - x = rest
  <3>1. rest = g.size[cur] - r
   BY DEF rest
  <3>2. x = cur + r
   BY DEF x
  <3>3. cur \in Nat /\ r \in Nat /\ g.size[cur] \in Nat
   BY <1>5
  <3> QED BY <3>1, <3>2, <3>3
 <2>2. x \in Nat /\ cur < x /\ x < cur + g.size[cur]
  BY <1>5
 <2>3. \A o \in B : o # x => (o # cur => h.size[o] = g.size[o])
  BY <1>10, <1>11
 <2>4. x \notin B
  <3>1. \A o, p \in B : o < p => o + g.size[o] <= p
   BY <1>1 DEF Layout
  <3> QED BY <3>1, <2>2, <1>5, <1>11
 <2>5. \A o \in B \ {cur} : h.size[o] = g.size[o]
  BY <2>3, <2>4
 <2> HIDE DEF B
 <2>6. h.size[cur] = x - cur /\ h.size[x] = cur + g.size[cur] - x
  BY <2>1, <1>10, Zenon
 <2>7. SizesOf(g.size) /\ Layout(g.size, B) /\ cur \in B \ {LastBlock}
  BY <1>1, <1>3, Zenon
 <2> HIDE DEF B
 <2>8. SUFFICES ASSUME NEW a, NEW b, a = g.size, b = h.size PROVE Layout(b, B \cup {x}) /\ x \notin B
  OBVIOUS
 <2>9. /\ SizesOf(a) /\ Layout(a, B) /\ cur \in B \ {LastBlock} /\ x \in Nat /\ cur < x
       /\ x < cur + a[cur] /\ b[cur] = x - cur /\ b[x] = cur + a[cur] - x
       /\ \A o \in B \ {cur} : b[o] = a[o]
  BY <2>2, <2>5, <2>6, <2>7, <2>8
 <2> HIDE <2>8
 <2> QED BY <2>9, LayoutSplit
<1>13. /\ g.fprev[cur] \in Offsets /\ g.fnext[cur] \in Offsets
       /\ x # g.fprev[cur] /\ x # g.fnext[cur] /\ x # cur
       /\ F \cup U \cup {LastBlock} = B
 <2>1. F \cup U \cup {LastBlock} = B
  BY <1>1 DEF BlocksOf
 <2> QED BY <2>1, <1>1, <1>6, <1>7, <1>9, <1>12
<1>14. /\ h.fnext[g.fprev[cur]] = x /\ h.fnext[x] = g.fnext[cur] /\ h.fnext[cur] = 0
       /\ \A o \in Offsets : (o # g.fprev[cur] /\ o # cur /\ o # x) => h.fnext[o] = g.fnext[o]
       /\ h.fprev[g.fnext[cur]] = x /\ h.fprev[x] = g.fprev[cur]
       /\ \A o \in Offsets : (o # g.fnext[cur] /\ o # x) => h.fprev[o] = g.fprev[o]
 BY <1>1, <1>6, <1>7, <1>8, <1>9, <1>13
<1>15. Members(n, l) \subseteq B /\ x \notin Members(n, l)
 BY <1>1, <1>12, <1>13
<1>16. \E n2, l2 : IsList(h.fnext, h.fprev, n2, l2) /\ Members(n2, l2) = (Members(n, l) \ {cur}) \cup {x}
 <2>1. PICK k \in 1 .. n : k # n /\ l[k] = cur
  BY <1>1
 <2>2. /\ \A o \in {0, FirstBlock} \cup Members(n, l) :
              (o # g.fprev[l[k]] /\ o # l[k]) => h.fnext[o] = g.fnext[o]
       /\ \A o \in Members(n, l) : (o # g.fnext[l[k]] /\ o # l[k]) => h.fprev[o] = g.fprev[o]
  <3>1. 0 \in Offsets /\ 0 # x /\ FirstBlock # x
   BY ZeroIn, <1>6
  <3>2. \A o \in Members(n, l) : o \in Offsets /\ o # x
   BY <1>11, <1>15
  <3> QED BY <3>1, <3>2, <2>1, <1>7, <1>14
 <2>3. /\ h.fnext[g.fprev[l[k]]] = x /\ h.fnext[x] = g.fnext[l[k]]
       /\ h.fprev[g.fnext[l[k]]] = x /\ h.fprev[x] = g.fprev[l[k]]
  BY <1>14, <2>1
 <2>4. \E n2, l2 : IsList(h.fnext, h.fprev, n2, l2) /\ Members(n2, l2) = (Members(n, l) \ {l[k]}) \cup {x}
  BY <1>1, <2>1, <2>2, <2>3, <1>6, <1>15, ListReplace
 <2> QED BY <2>1, <2>4
<1>17. PICK n2, l2 : IsList(h.fnext, h.fprev, n2, l2) /\ Members(n2, l2) = (Members(n, l) \ {cur}) \cup {x}
 BY <1>16
<1>18. F2 = Members(n2, l2) \ {LastBlock}
 BY <1>1, <1>6, <1>11, <1>17
<1>19. F2 \cap U2 = {} /\ LastBlock \notin U2 \cup {} /\ {} \cap (F2 \cup U2) = {}
 BY <1>1, <1>2, <1>6, <1>12, <1>13
<1>20. \A o \in U2 : h.fnext[o] = 0
 <2>1. \A o \in U : o \in Offsets /\ o # x /\ (o # cur => o # g.fprev[cur])
  BY <1>1, <1>2, <1>11, <1>12, <1>13
 <2> QED BY <2>1, <1>2, <1>14
<1>21. FirstReal # y /\ FirstReal \in Offsets /\ FirstReal # x /\ y # x /\ y \in B
 BY <1>1, <1>3, <1>4, <1>5, <1>6, <1>12 DEF Layout
<1>22. h.prev_size[x] = 0 /\ h.prev_size[y] = rest
       /\ \A o \in Offsets : (o # x /\ o # y) => h.prev_size[o] = g.prev_size[o]
 BY <1>6, <1>8, <1>9, <1>21
<1>23. Tags(h.size, h.prev_size, F2 \cup U2, F2)
 <2>1. h.prev_size[FirstReal] = 0
  BY <1>2, <1>21, <1>22
 <2>2. ASSUME NEW o \in F2 \cup U2
       PROVE  h.prev_size[o + h.size[o]] = IF o \in F2 THEN h.size[o] ELSE 0
  <3>1. CASE o = cur
   <4>1. cur + r = x /\ cur \notin F2
    BY <1>13 DEF x
   <4> QED BY <3>1, <4>1, <1>10, <1>22
  <3>2. CASE o = x
   <4>1. x + rest = y
    BY DEF y
   <4> QED BY <3>2, <4>1, <1>10, <1>22
  <3>3. CASE o # cur /\ o # x
   <4>1. o \in F \cup U /\ o \in B \ {LastBlock} /\ o \in Offsets
    BY <3>3, <1>3, <1>11
   <4>2. o + g.size[o] # y
    BY <4>1, <3>3, <1>3, <1>4, <1>5
   <4>3. o + g.size[o] \in B /\ o + g.size[o] # x
    BY <4>1, <1>4, <1>12
   <4>4. o \in F2 <=> o \in F
    BY <3>3
   <4>5. h.size[o] = g.size[o]
    BY <4>1, <3>3, <1>10
   <4>6. h.prev_size[o + g.size[o]] = g.prev_size[o + g.size[o]]
    BY <4>2, <4>3, <1>11, <1>22
   <4> QED BY <4>1, <4>4, <4>5, <4>6, <1>2
  <3> QED BY <3>1, <3>2, <3>3
 <2> QED BY <2>1, <2>2 DEF Tags
<1>24. Apart(h.size, F2)
 <2>1. ASSUME NEW o \in F2 PROVE o + h.size[o] \notin F2
  <3>1. CASE o = x
   <4>1. x + rest = y
    BY DEF y
   <4>2. y \notin F
    BY <1>2, <1>5
   <4> QED BY <3>1, <4>1, <4>2, <1>10, <1>21
  <3>2. CASE o # x
   <4>1. o \in F /\ o # cur /\ o \in B /\ o \in Offsets
    BY <3>2, <1>13, <1>11
   <4>2. o + g.size[o] \in B /\ o + g.size[o] \notin F /\ h.size[o] = g.size[o]
    BY <4>1, <3>2, <1>2, <1>4, <1>10
   <4> QED BY <4>2, <1>12
  <3> QED BY <3>1, <3>2
 <2> QED BY <2>1 DEF Apart
<1>25. h.avail = Cardinality(Words(h.size, F2 \cup {})) + BlockSize
 <2> DEFINE G == F \ {cur}
            B2 == B \cup {x}
 <2>1. /\ G \subseteq B \ {LastBlock} /\ cur \notin G /\ G \cup {cur} = F
       /\ G \subseteq B2 \ {LastBlock} /\ x \in B2 \ {LastBlock} /\ x \notin G
       /\ F2 \cup {} = G \cup {x}
  BY <1>3, <1>6, <1>12, <1>13
 <2>2. Cardinality(Words(g.size, G \cup {cur})) = Cardinality(Words(g.size, G)) + g.size[cur]
  <3> HIDE DEF B, G
  <3> QED BY <1>1, <1>3, <2>1, WordsAdd
 <2>3. Cardinality(Words(g.size, G)) \in Nat
  <3> HIDE DEF B, G
  <3> QED BY <1>1, <2>1, WordsBound
 <2>4. Words(h.size, G) = Words(g.size, G)
  <3>1. \A o \in G : h.size[o] = g.size[o]
   BY <1>10, <1>11, <2>1
  <3> HIDE DEF G
  <3> QED BY <3>1, WordsSame
 <2>5. SizesOf(h.size)
  BY <1>8, FieldsAre DEF SizesOf
 <2>6. Cardinality(Words(h.size, G \cup {x})) = Cardinality(Words(h.size, G)) + h.size[x]
  <3> HIDE DEF B2, G
  <3>1. Layout(h.size, B2)
   BY <1>12 DEF B2
  <3> QED BY <3>1, <2>1, <2>5, WordsAdd
 <2>7. g.avail = Cardinality(Words(g.size, G \cup {cur})) + BlockSize
  BY <1>2, <2>1, Zenon
 <2> HIDE DEF F2, G
 <2>8. BlockSize \in Nat /\ rest = g.size[cur] - r
  BY Consts DEF rest
 <2>9. h.avail = Cardinality(Words(h.size, G \cup {x})) + BlockSize
  BY <2>2, <2>3, <2>4, <2>6, <2>7, <2>8, <1>5, <1>8, <1>10
 <2> QED BY <2>1, <2>9, Zenon
<1>26. Layout(h.size, {LastBlock} \cup F2 \cup U2 \cup {})
 <2>1. {LastBlock} \cup F2 \cup U2 \cup {} = B \cup {x}
  BY <1>3, <1>13
 <2> QED BY <2>1, <1>12
<1>27. Exact(h, n2, l2, F2, U2, {})
 <2> HIDE DEF F2, U2
 <2> QED BY <1>8, <1>17, <1>18, <1>19, <1>20, <1>23, <1>24, <1>25, <1>26 DEF Exact
<1>28. \A o \in U : h.size[o] = g.size[o]
 <2>1. \A o \in U : o \in Offsets /\ o # x /\ o # cur
  BY <1>2, <1>11, <1>12, <1>13
 <2> QED BY <2>1, <1>10
<1>29. h.size[cur] >= RealSize(m)
 BY <1>5, <1>10 DEF r
<1> QED BY <1>27, <1>28, <1>29 DEF Takes

--------------------
(* Two neighbours made one. *)

\* The least of a set of numbers is a member of it.
LEMMA MinIn ==
    ASSUME NEW S, S \subseteq Nat, S # {}
    PROVE  Min(S) \in S
<1>1. PICK m \in S : \A n \in S : ~(<<n, m>> \in OpToRel(<, Nat))
 BY WFMin, NatLessThanWellFounded, Zenon
<1>2. ASSUME NEW n \in S PROVE m <= n
 <2>1. n \in Nat /\ m \in Nat
  OBVIOUS
 <2>2. n < m => <<n, m>> \in OpToRel(<, Nat)
  BY <2>1 DEF OpToRel
 <2>3. ~(n < m)
  BY <1>1, <2>2, Zenon
 <2> QED BY <2>1, <2>3
<1> QED BY <1>1, <1>2 DEF Min

\* The block that is found is a free one and large enough.
LEMMA FoundIs ==
    ASSUME NEW g, NEW n, NEW l, NEW F, NEW U, NEW L, Exact(g, n, l, F, U, L),
           NEW m \in Nat, Found(g, m) # 0
    PROVE  Found(g, m) \in F /\ g.size[Found(g, m)] >= RealSize(m)
<1>1. /\ g \in Fields /\ SizesOf(g.size) /\ Layout(g.size, BlocksOf(F, U, L))
      /\ IsList(g.fnext, g.fprev, n, l) /\ Members(n, l) = F \cup {LastBlock}
 BY ExactFacts
<1>2. FreeList(g) = l /\ n \in Nat
 BY <1>1, FreeListIs
<1>3. DOMAIN l = 1 .. n
 BY <1>1 DEF IsList
<1>4. Fits(g, m) = {i \in 1 .. n : g.size[l[i]] >= RealSize(m)}
 BY <1>2, <1>3 DEF Fits
<1>5. Fits(g, m) # {} /\ Found(g, m) = FreeList(g)[Min(Fits(g, m))]
 BY DEF Found
<1>6. Min(Fits(g, m)) \in Fits(g, m)
 <2>1. Fits(g, m) \subseteq Nat
  BY <1>4
 <2> QED BY <2>1, <1>5, MinIn
<1>7. PICK i \in 1 .. n : Found(g, m) = l[i] /\ g.size[l[i]] >= RealSize(m)
 BY <1>2, <1>4, <1>5, <1>6
<1>8. l[i] # LastBlock
 <2>1. g.size[LastBlock] = 0
  BY <1>1 DEF Layout
 <2>2. RealSize(m) > 0
  BY Consts DEF RealSize
 <2> QED BY <2>1, <2>2, <1>7, Consts DEF RealSize
<1>9. l[i] \in F
 BY <1>1, <1>8 DEF Members
<1> QED BY <1>7, <1>9

\* sma_allocate takes a free block that is large enough, and no other.
LEMMA Allocate ==
    ASSUME NEW g, NEW n, NEW l, NEW F, NEW U, Exact(g, n, l, F, U, {}),
           NEW m \in Nat, NEW fragment \in Nat, Found(g, m) # 0
    PROVE  /\ Found(g, m) \in F
           /\ Takes(g, sma_allocate(g, Found(g, m), m, fragment), Found(g, m), m, F, U)
<1>1. Found(g, m) \in F /\ g.size[Found(g, m)] >= RealSize(m)
 BY FoundIs, Zenon
<1>2. SUFFICES ASSUME NEW cur \in F, g.size[cur] >= RealSize(m)
               PROVE  Takes(g, sma_allocate(g, cur, m, fragment), cur, m, F, U)
 BY <1>1, Zenon
<1>3. CASE TooSmallToSplit(g, cur, m, fragment)
 BY <1>2, <1>3, TakeWhole
<1>4. CASE ~TooSmallToSplit(g, cur, m, fragment)
 BY <1>4, TakeSplit
<1> QED BY <1>3, <1>4

\* h is what g becomes when a takes in b, the block after it, and d leaves the list.
Merges(g, h, a, b, d) ==
    /\ b = a + g.size[a]
    /\ h \in Fields /\ h.avail = g.avail
    /\ h.size[a] = g.size[a] + g.size[b]
    /\ \A o \in Offsets : (o # a /\ o # b) => h.size[o] = g.size[o]
    /\ \A o \in Offsets : o # b => h.prev_size[o] = g.prev_size[o]
    /\ h.fnext[g.fprev[d]] = g.fnext[d] /\ h.fprev[g.fnext[d]] = g.fprev[d]
    /\ \A o \in Offsets : (o # g.fprev[d] /\ o # b) => h.fnext[o] = g.fnext[o]
    /\ \A o \in Offsets : (o # g.fnext[d] /\ o # b) => h.fprev[o] = g.fprev[o]

\* A segment with the free blocks F, the blocks in use U and one loose block.
Loose(g, F, U, c) == \E n, l : Exact(g, n, l, F, U, {c})

\* a and b are c and d in one order or the other.
AreTheTwo(a, b, c, d) ==
    \/ a = c /\ b = d
    \/ a = d /\ b = c

\* A free block and the loose block next to it made one, which is loose.
LEMMA Merge ==
    ASSUME NEW g, NEW F, NEW U, NEW c, Loose(g, F, U, c),
           NEW d \in F, NEW a, NEW b, AreTheTwo(a, b, c, d), NEW h, Merges(g, h, a, b, d)
    PROVE  /\ Loose(h, F \ {d}, U, a)
           /\ \A o \in U : h.size[o] = g.size[o]
<1>0. PICK n, l, L : L = {c} /\ Exact(g, n, l, F, U, L)
 BY DEF Loose
<1> DEFINE B == BlocksOf(F, U, {c})
           F2 == F \ {d}
<1>1. /\ g \in Fields /\ SizesOf(g.size) /\ Layout(g.size, B)
      /\ IsList(g.fnext, g.fprev, n, l) /\ Members(n, l) = F \cup {LastBlock}
      /\ LastBlock \notin F \cup U \cup {c}
      /\ \A o \in B : o \in Offsets /\ o # 0 /\ o # FirstBlock
      /\ g.fnext[d] \in F \cup {LastBlock} /\ g.fnext[d] # d
      /\ g.fprev[d] \in F \cup {FirstBlock} /\ g.fprev[d] # d
      /\ \E k \in 1 .. n : k # n /\ l[k] = d
 <2>1. /\ g \in Fields /\ SizesOf(g.size) /\ Layout(g.size, BlocksOf(F, U, L))
       /\ IsList(g.fnext, g.fprev, n, l) /\ Members(n, l) = F \cup {LastBlock}
       /\ LastBlock \notin F \cup U \cup L
  BY <1>0, ExactFacts
 <2>3. \A o \in BlocksOf(F, U, L) : o \in Offsets /\ o # 0 /\ o # FirstBlock
  BY <1>0, ExactFacts
 <2>4. /\ g.fnext[d] \in F \cup {LastBlock} /\ g.fnext[d] # d
       /\ g.fprev[d] \in F \cup {FirstBlock} /\ g.fprev[d] # d
  BY <1>0, ExactFacts
 <2>2. \E k \in 1 .. n : k # n /\ l[k] = d
  BY <1>0, PlaceOf
 <2> QED BY <1>0, <2>1, <2>2, <2>3, <2>4
<1> USE DEF AreTheTwo
<1>2. /\ g.prev_size[FirstReal] = 0
      /\ \A o \in F \cup U : g.prev_size[o + g.size[o]] = IF o \in F THEN g.size[o] ELSE 0
      /\ \A o \in F : o + g.size[o] \notin F
      /\ \A o \in U : g.fnext[o] = 0
      /\ F \cap U = {} /\ c \notin F \cup U
      /\ g.avail = Cardinality(Words(g.size, F \cup {c})) + BlockSize
 BY <1>0 DEF Exact, Tags, Apart
<1>3. /\ F \cup U \cup {c} = B \ {LastBlock} /\ F \cup U \cup {c, LastBlock} = B
      /\ a \in B \ {LastBlock} /\ b \in B \ {LastBlock}
 BY <1>1, <1>2 DEF BlocksOf
<1>4. /\ \A o \in B : /\ o \in Offsets /\ o \in Nat /\ g.size[o] \in Nat /\ o + g.size[o] \in B
      /\ \A o \in B \ {LastBlock} : g.size[o] > 0 /\ o + g.size[o] # FirstReal
      /\ \A o, p \in B \ {LastBlock} : o + g.size[o] = p + g.size[p] => o = p
 <2> HIDE DEF B
 <2> QED BY <1>1, LayoutFacts
<1> USE DEF Merges
<1>5. B \subseteq Offsets /\ FirstReal \in B /\ b # FirstReal
 BY <1>3, <1>4, <1>1 DEF Layout
<1>6. Layout(h.size, B \ {b})
 <2>1. \A o \in B \ {a, b} : h.size[o] = g.size[o]
  BY <1>5
 <2>2. /\ b = a + g.size[a] /\ h.size[a] = g.size[a] + g.size[b]
       /\ SizesOf(g.size) /\ Layout(g.size, B) /\ a \in B \ {LastBlock} /\ b \in B \ {LastBlock}
  BY <1>1, <1>3
 <2>3. SUFFICES ASSUME NEW s1, NEW s2, s1 = g.size, s2 = h.size
                PROVE  Layout(s2, B \ {b})
  OBVIOUS
 <2>4. /\ SizesOf(s1) /\ Layout(s1, B) /\ b = a + s1[a] /\ s2[a] = s1[a] + s1[b]
       /\ \A o \in B \ {a, b} : s2[o] = s1[o]
  BY <2>1, <2>2, <2>3
 <2> HIDE DEF B, Merges
 <2> QED BY <2>2, <2>4, LayoutMerge
<1>7. F2 \cup U \cup {a, LastBlock} = B \ {b}
 <2>1. /\ B = F \cup U \cup {c, LastBlock} /\ d \in F /\ c # d
       /\ d # LastBlock /\ c # LastBlock /\ d \notin U /\ c \notin U /\ c \notin F
       /\ (a = c /\ b = d) \/ (a = d /\ b = c)
  BY <1>1, <1>2, <1>3
 <2>2. SUFFICES ASSUME NEW BB, BB = F \cup U \cup {c, LastBlock}
                PROVE  F2 \cup U \cup {a, LastBlock} = BB \ {b}
  BY <2>1
 <2>3. (F \ {d}) \cup U \cup {c, LastBlock} = BB \ {d}
  BY ONLY <2>1, <2>2
 <2>4. (F \ {d}) \cup U \cup {d, LastBlock} = BB \ {c}
  BY ONLY <2>1, <2>2
 <2> QED BY <2>1, <2>3, <2>4
<1>8. \A o \in F2 \cup U : o \in B /\ o \in Offsets /\ o # a /\ o # b /\ h.size[o] = g.size[o]
 <2>1. ASSUME NEW o \in F2 \cup U
       PROVE  o \in B /\ o # a /\ o # b
  <3>1. o \in F \cup U /\ o # d
   BY <1>2
  <3>2. o # c /\ o \in B
   BY <3>1, <1>2, <1>3
  <3> QED BY <3>1, <3>2
 <2>2. ASSUME NEW o \in F2 \cup U
       PROVE  o \in Offsets /\ h.size[o] = g.size[o]
  BY <2>1, <2>2, <1>5
 <2> QED BY <2>1, <2>2
<1>9. \E n2, l2 : IsList(h.fnext, h.fprev, n2, l2) /\ Members(n2, l2) = Members(n, l) \ {d}
 <2>1. PICK k \in 1 .. n : k # n /\ l[k] = d
  BY <1>1
 <2>2. \A o \in {0, FirstBlock} \cup Members(n, l) : o \in Offsets /\ (o # d => o # b)
  <3>1. 0 \in Offsets /\ FirstBlock \in Offsets
   BY Consts
  <3>2. b # 0 /\ b # FirstBlock /\ (b = d \/ b = c)
   BY <1>1, <1>3
  <3> QED BY <3>1, <3>2, <1>1, <1>2, <1>3, <1>5
 <2>3. /\ \A o \in {0, FirstBlock} \cup Members(n, l) :
              (o # g.fprev[l[k]] /\ o # l[k]) => h.fnext[o] = g.fnext[o]
       /\ \A o \in Members(n, l) : (o # g.fnext[l[k]] /\ o # l[k]) => h.fprev[o] = g.fprev[o]
  BY <2>1, <2>2
 <2>4. h.fnext[g.fprev[l[k]]] = g.fnext[l[k]] /\ h.fprev[g.fnext[l[k]]] = g.fprev[l[k]]
  BY <2>1
 <2>5. \E n2, l2 : IsList(h.fnext, h.fprev, n2, l2) /\ Members(n2, l2) = Members(n, l) \ {l[k]}
  BY <1>1, <2>1, <2>3, <2>4, ListUnlink
 <2> QED BY <2>1, <2>5
<1>10. PICK n2, l2 : IsList(h.fnext, h.fprev, n2, l2) /\ Members(n2, l2) = Members(n, l) \ {d}
 BY <1>9
<1>11. F2 = Members(n2, l2) \ {LastBlock}
 BY <1>1, <1>10
<1>12. F2 \cap U = {} /\ {a} \cap (F2 \cup U) = {} /\ LastBlock \notin U \cup {a}
 BY <1>1, <1>2, <1>3
<1>13. \A o \in U : h.fnext[o] = 0
 <2>1. g.fprev[d] \notin U
  BY <1>1, <1>2, <1>3
 <2>2. ASSUME NEW o \in U PROVE h.fnext[o] = 0
  <3>1. o \in Offsets /\ o # b /\ o # g.fprev[d] /\ g.fnext[o] = 0
   BY <2>1, <1>2, <1>8
  <3> QED BY <3>1
 <2> QED BY <2>2
<1>14. Tags(h.size, h.prev_size, F2 \cup U, F2)
 <2>1. h.prev_size[FirstReal] = 0
  BY <1>2, <1>5
 <2>2. ASSUME NEW o \in F2 \cup U
       PROVE  h.prev_size[o + h.size[o]] = IF o \in F2 THEN h.size[o] ELSE 0
  <3>1. o \in B \ {LastBlock} /\ o # a /\ o # b /\ h.size[o] = g.size[o] /\ o \in F \cup U
   BY <1>1, <1>8
  <3>2. o + g.size[o] # b /\ o + g.size[o] \in Offsets
   BY <3>1, <1>3, <1>4
  <3>3. o \in F2 <=> o \in F
   BY <1>2
  <3> QED BY <3>1, <3>2, <3>3, <1>2
 <2> QED BY <2>1, <2>2 DEF Tags
<1>15. Apart(h.size, F2)
 BY <1>2, <1>8 DEF Apart
<1>16. h.avail = Cardinality(Words(h.size, F2 \cup {a})) + BlockSize
 <2>1. /\ F2 \subseteq B \ {LastBlock} /\ d \notin F2 /\ d \in B \ {LastBlock} /\ F2 \cup {d} = F
       /\ F \subseteq B \ {LastBlock} /\ c \notin F /\ c \in B \ {LastBlock}
       /\ F2 \subseteq (B \ {b}) \ {LastBlock} /\ a \in (B \ {b}) \ {LastBlock} /\ a \notin F2
  <3>1. F \subseteq B \ {LastBlock} /\ c \notin F /\ c \in B \ {LastBlock} /\ d \in B \ {LastBlock}
   BY <1>2, <1>3
  <3>2. F2 \subseteq B \ {LastBlock} /\ d \notin F2 /\ F2 \cup {d} = F
   BY <3>1
  <3>3. \A o \in F2 : o # a /\ o # b
   BY <1>8
  <3>4. a # b
   BY <1>2
  <3>5. a \in (B \ {b}) \ {LastBlock}
   BY <1>3, <3>4
  <3>6. F2 \subseteq (B \ {b}) \ {LastBlock} /\ a \notin F2
   BY <3>2, <3>3
  <3> QED BY <3>1, <3>2, <3>5, <3>6
 <2>2. Cardinality(Words(g.size, F2 \cup {d})) = Cardinality(Words(g.size, F2)) + g.size[d]
  <3> HIDE DEF B, F2
  <3> QED BY <1>1, <2>1, WordsAdd
 <2>3. Cardinality(Words(g.size, F \cup {c})) = Cardinality(Words(g.size, F)) + g.size[c]
  <3> HIDE DEF B, F2
  <3> QED BY <1>1, <2>1, WordsAdd
 <2>4. Cardinality(Words(g.size, F2)) \in Nat
  <3> HIDE DEF B, F2
  <3> QED BY <1>1, <2>1, WordsBound
 <2>5. Words(h.size, F2) = Words(g.size, F2)
  <3> HIDE DEF F2, B
  <3> QED BY <1>8, WordsSame
 <2>6. SizesOf(h.size)
  BY FieldsAre DEF SizesOf
 <2>7. Cardinality(Words(h.size, F2 \cup {a})) = Cardinality(Words(h.size, F2)) + h.size[a]
  <3> HIDE DEF B, F2
  <3> QED BY <1>6, <2>1, <2>6, WordsAdd
 <2>8. g.size[a] + g.size[b] = g.size[c] + g.size[d] /\ g.size[c] \in Nat /\ g.size[d] \in Nat
  <3>1. g.size[c] \in Nat /\ g.size[d] \in Nat
   BY <2>1, <1>4
  <3>2. CASE a = c /\ b = d
   BY <3>1, <3>2
  <3>3. CASE a = d /\ b = c
   BY <3>1, <3>3
  <3> QED BY <3>1, <3>2, <3>3
 <2>9. BlockSize \in Nat
  BY Consts
 <2>10. Cardinality(Words(g.size, F)) = Cardinality(Words(g.size, F2)) + g.size[d]
  BY <2>1, <2>2, Zenon
 <2> HIDE DEF F2
 <2> QED BY <2>3, <2>4, <2>5, <2>7, <2>8, <2>9, <2>10, <1>2
<1>17. Layout(h.size, {LastBlock} \cup F2 \cup U \cup {a})
 <2>1. {LastBlock} \cup F2 \cup U \cup {a} = B \ {b}
  BY <1>7
 <2> QED BY <2>1, <1>6
<1>18. Exact(h, n2, l2, F2, U, {a})
 <2> HIDE DEF F2
 <2> QED BY <1>10, <1>11, <1>12, <1>13, <1>14, <1>15, <1>16, <1>17 DEF Exact
<1> QED BY <1>8, <1>18 DEF Loose

\* The free block d is the second of the two.
LEMMA MergeNext ==
    ASSUME NEW g, NEW F, NEW U, NEW c, Loose(g, F, U, c), NEW d \in F, NEW h, Merges(g, h, c, d, d)
    PROVE  /\ Loose(h, F \ {d}, U, c)
           /\ \A o \in U : h.size[o] = g.size[o]
<1>1. SUFFICES ASSUME NEW a, NEW b, a = c, b = d
               PROVE  /\ Loose(h, F \ {d}, U, a)
                      /\ \A o \in U : h.size[o] = g.size[o]
 OBVIOUS
<1>2. AreTheTwo(a, b, c, d)
 BY <1>1 DEF AreTheTwo
<1>3. Merges(g, h, a, b, d)
 BY <1>1
<1> QED BY <1>2, <1>3, Merge

\* The free block d is the first of the two.
LEMMA MergePrev ==
    ASSUME NEW g, NEW F, NEW U, NEW c, Loose(g, F, U, c), NEW d \in F, NEW h, Merges(g, h, d, c, d)
    PROVE  /\ Loose(h, F \ {d}, U, d)
           /\ \A o \in U : h.size[o] = g.size[o]
<1>1. SUFFICES ASSUME NEW a, NEW b, a = d, b = c
               PROVE  /\ Loose(h, F \ {d}, U, a)
                      /\ \A o \in U : h.size[o] = g.size[o]
 OBVIOUS
<1>2. AreTheTwo(a, b, c, d)
 BY <1>1 DEF AreTheTwo
<1>3. Merges(g, h, a, b, d)
 BY <1>1
<1> QED BY <1>2, <1>3, Merge

--------------------
(* sma_deallocate. *)

\* A block that is given back is no longer in use and not yet on the list.
LEMMA TakeBack ==
    ASSUME NEW g, NEW n, NEW l, NEW F, NEW U, Exact(g, n, l, F, U, {}), NEW c \in U,
           NEW h, h = [g EXCEPT !.avail = @ + g.size[c]]
    PROVE  Exact(h, n, l, F, U \ {c}, {c}) /\ h.size = g.size /\ h.prev_size = g.prev_size
<1> DEFINE B == BlocksOf(F, U, {})
           U2 == U \ {c}
<1>1. /\ g \in Fields /\ SizesOf(g.size) /\ Layout(g.size, B)
      /\ IsList(g.fnext, g.fprev, n, l) /\ Members(n, l) = F \cup {LastBlock}
      /\ LastBlock \notin F \cup U
      /\ \A o \in B : o \in Offsets /\ o # 0 /\ o # FirstBlock
 BY ExactFacts
<1>2. /\ g.prev_size[FirstReal] = 0
      /\ \A o \in F \cup U : g.prev_size[o + g.size[o]] = IF o \in F THEN g.size[o] ELSE 0
      /\ \A o \in F : o + g.size[o] \notin F
      /\ \A o \in U : g.fnext[o] = 0
      /\ F \cap U = {}
      /\ g.avail = Cardinality(Words(g.size, F)) + BlockSize
 BY TagsAre0, Zenon
<1>3. {LastBlock} \cup F \cup U2 \cup {c} = B /\ F \subseteq B \ {LastBlock} /\ c \in B \ {LastBlock} /\ c \notin F
 BY <1>1, <1>2 DEF BlocksOf
<1>4. g.size[c] \in Nat /\ g.avail \in Int
 <2>1. g.size \in [Offsets -> 0 .. SegSize] /\ c \in Offsets
  BY <1>1, <1>3, FieldsAre
 <2>2. g.avail \in Int
  BY <1>1, FieldsAre
 <2>3. 0 .. SegSize \subseteq Nat
  BY Consts
 <2> QED BY <2>1, <2>2, <2>3
<1>5. /\ h \in Fields /\ h.avail = g.avail + g.size[c] /\ h.size = g.size /\ h.prev_size = g.prev_size
      /\ h.fnext = g.fnext /\ h.fprev = g.fprev
 <2>1. g.avail + g.size[c] \in Int
  BY <1>4
 <2> QED BY <1>1, <2>1 DEF Fields
<1>6. F \cap U2 = {} /\ {c} \cap (F \cup U2) = {} /\ LastBlock \notin U2 \cup {c}
 BY <1>1, <1>2, <1>3
<1>7. \A o \in U2 : h.fnext[o] = 0
 BY <1>2, <1>5
<1>8. Tags(h.size, h.prev_size, F \cup U2, F)
 BY <1>2, <1>5 DEF Tags
<1>9. Apart(h.size, F)
 BY <1>2, <1>5 DEF Apart
<1>10. h.avail = Cardinality(Words(h.size, F \cup {c})) + BlockSize
 <2>1. Cardinality(Words(g.size, F \cup {c})) = Cardinality(Words(g.size, F)) + g.size[c]
  <3> HIDE DEF B
  <3> QED BY <1>1, <1>3, WordsAdd
 <2>2. Cardinality(Words(g.size, F)) \in Nat
  <3> HIDE DEF B
  <3> QED BY <1>1, <1>3, WordsBound
 <2>3. BlockSize \in Nat
  BY Consts
 <2>4. h.avail = Cardinality(Words(g.size, F \cup {c})) + BlockSize
  BY <2>1, <2>2, <2>3, <1>2, <1>4, <1>5
 <2> QED BY <2>4, <1>5, Zenon
<1>11. Layout(h.size, {LastBlock} \cup F \cup U2 \cup {c})
 BY <1>1, <1>3, <1>5, Zenon
<1>12. IsList(h.fnext, h.fprev, n, l) /\ F = Members(n, l) \ {LastBlock}
 BY <1>1, <1>5
<1>13. Exact(h, n, l, F, U2, {c})
 <2> HIDE DEF U2
 <2> QED BY <1>5, <1>6, <1>7, <1>8, <1>9, <1>10, <1>11, <1>12 DEF Exact
<1> QED BY <1>5, <1>13

\* What CoalescePrev and CoalesceNext write.
LEMMA MergesIs ==
    ASSUME NEW g \in Fields, NEW a \in Offsets, NEW b \in Offsets, a # b, b = a + g.size[a],
           g.size[a] + g.size[b] \in 0 .. SegSize,
           NEW d \in Offsets, g.fprev[d] # b, g.fnext[d] # b,
           NEW h, h = [Absorbed(UnlinkBlock(g, d), b) EXCEPT !.size[a] = @ + g.size[b]]
    PROVE  Merges(g, h, a, b, d)
<1> DEFINE w == UnlinkBlock(g, d)
           u == Absorbed(w, b)
<1>1. /\ w \in Fields /\ w.avail = g.avail /\ w.size = g.size /\ w.prev_size = g.prev_size
      /\ w.fnext = [g.fnext EXCEPT ![g.fprev[d]] = g.fnext[d]]
      /\ w.fprev = [g.fprev EXCEPT ![g.fnext[d]] = g.fprev[d]]
 BY UnlinkIs
<1>2. 0 \in Offsets /\ 0 \in 0 .. SegSize
 BY ZeroIn, Zenon
<1> HIDE DEF w
<1>3. /\ u \in Fields /\ u.avail = w.avail /\ u.size = [w.size EXCEPT ![b] = 0]
      /\ u.prev_size = [w.prev_size EXCEPT ![b] = 0]
      /\ u.fnext = [w.fnext EXCEPT ![b] = 0] /\ u.fprev = [w.fprev EXCEPT ![b] = 0]
 BY <1>1, <1>2 DEF Absorbed, Fields
<1>4. h = [u EXCEPT !.size[a] = @ + g.size[b]]
 BY DEF w
<1> HIDE DEF u
<1>5. g.size \in [Offsets -> 0 .. SegSize] /\ g.prev_size \in [Offsets -> 0 .. SegSize]
      /\ g.fnext \in [Offsets -> Offsets] /\ g.fprev \in [Offsets -> Offsets]
 BY FieldsAre
<1>6. u.size[a] = g.size[a]
 <2>1. u.size = [g.size EXCEPT ![b] = 0]
  BY <1>1, <1>3, Zenon
 <2> QED BY <2>1, <1>5
<1> DEFINE e == u.size[a] + g.size[b]
<1>7. e \in 0 .. SegSize /\ h = [u EXCEPT !.size[a] = e]
 BY <1>4, <1>6
<1> HIDE DEF e
<1> DEFINE k == [u EXCEPT !.size[a] = e]
<1>8. /\ h \in Fields /\ h.avail = u.avail /\ h.size = [u.size EXCEPT ![a] = e]
      /\ h.prev_size = u.prev_size /\ h.fnext = u.fnext /\ h.fprev = u.fprev
 <2>1. /\ k \in Fields /\ k.avail = u.avail /\ k.size = [u.size EXCEPT ![a] = e]
       /\ k.prev_size = u.prev_size /\ k.fnext = u.fnext /\ k.fprev = u.fprev
  BY <1>3, <1>7 DEF Fields
 <2> QED BY <2>1, <1>7, Zenon
<1>9. h.avail = g.avail
 BY <1>1, <1>3, <1>8
<1>10. /\ h.size[a] = g.size[a] + g.size[b]
       /\ \A o \in Offsets : (o # a /\ o # b) => h.size[o] = g.size[o]
 <2>1. h.size = [[g.size EXCEPT ![b] = 0] EXCEPT ![a] = e]
  BY <1>1, <1>3, <1>8, Zenon
 <2>2. e = g.size[a] + g.size[b]
  BY <1>6 DEF e
 <2> QED BY <2>1, <2>2, <1>5
<1>11. \A o \in Offsets : o # b => h.prev_size[o] = g.prev_size[o]
 BY <1>1, <1>3, <1>5, <1>8
<1>12. /\ h.fnext[g.fprev[d]] = g.fnext[d]
       /\ \A o \in Offsets : (o # g.fprev[d] /\ o # b) => h.fnext[o] = g.fnext[o]
 BY <1>1, <1>3, <1>5, <1>8
<1>13. /\ h.fprev[g.fnext[d]] = g.fprev[d]
       /\ \A o \in Offsets : (o # g.fnext[d] /\ o # b) => h.fprev[o] = g.fprev[o]
 BY <1>1, <1>3, <1>5, <1>8
<1> QED BY <1>8, <1>9, <1>10, <1>11, <1>12, <1>13 DEF Merges

\* h is what g becomes when the loose block and its neighbours are made one, a.
Freed(g, h, a, U) ==
    /\ \E F : /\ Loose(h, F, U, a)
              /\ \A o \in F : o + h.size[o] # a
    /\ \A o \in U : h.size[o] = g.size[o]

\* CoalescePrev takes in the free block before c, if there is one; none is left.
LEMMA CoalescePrevIs ==
    ASSUME NEW g, NEW F, NEW U, NEW c, Loose(g, F, U, c)
    PROVE  Freed(g, CoalescePrev(g, c),
                 IF g.prev_size[c] = 0 THEN c ELSE c - g.prev_size[c], U)
<1>0. PICK n, l, L : L = {c} /\ Exact(g, n, l, F, U, L)
 BY DEF Loose
<1> DEFINE B == BlocksOf(F, U, L)
           ps == g.prev_size[c]
<1>1. /\ g \in Fields /\ SizesOf(g.size) /\ Layout(g.size, B)
      /\ LastBlock \notin F \cup U \cup L
      /\ \A o \in B : o \in Offsets /\ o # 0 /\ o # FirstBlock
      /\ \A o \in F : /\ g.fnext[o] \in F \cup {LastBlock} /\ g.fprev[o] \in F \cup {FirstBlock}
 BY <1>0, ExactFacts
<1>2. /\ g.prev_size[FirstReal] = 0
      /\ \A o \in F \cup U : g.prev_size[o + g.size[o]] = IF o \in F THEN g.size[o] ELSE 0
      /\ \A o \in F : o + g.size[o] \notin F
      /\ F \cap U = {} /\ c \notin F \cup U
 BY <1>0 DEF Exact, Tags, Apart
<1>3. F \cup U \cup {c} = B \ {LastBlock} /\ c \in B \ {LastBlock}
 BY <1>0, <1>1 DEF BlocksOf
<1>4. /\ \A o \in B : /\ o \in Offsets /\ o \in Nat /\ g.size[o] \in Nat /\ o + g.size[o] \in B
                        /\ FirstReal <= o /\ o <= LastBlock
      /\ \A o \in B \ {LastBlock} : g.size[o] > 0 /\ o + g.size[o] # FirstReal
      /\ \A o, p \in B \ {LastBlock} : o + g.size[o] = p + g.size[p] => o = p
 <2> HIDE DEF B
 <2> QED BY <1>1, LayoutFacts
<1>5. \/ /\ ps = 0 /\ \A o \in F : o + g.size[o] # c
      \/ \E p \in F : ps = g.size[p] /\ p + g.size[p] = c /\ ps # 0
 <2>1. CASE c = FirstReal
  <3>1. \A o \in F : o + g.size[o] # c
   BY <2>1, <1>3, <1>4
  <3> QED BY <2>1, <3>1, <1>2
 <2>2. CASE c # FirstReal
  <3>1. PICK p \in B \ {LastBlock} : p + g.size[p] = c
   <4> HIDE DEF B
   <4> QED BY <1>1, <1>3, <2>2 DEF Layout
  <3>2. p \in F \cup U
   <4>1. p \in Nat /\ g.size[p] \in Nat /\ g.size[p] > 0
    BY <3>1, <1>4
   <4>2. p # c
    BY <3>1, <4>1
   <4> QED BY <3>1, <4>2, <1>3
  <3>3. CASE p \in F
   <4>1. g.size[p] > 0 /\ g.size[p] \in Nat
    BY <3>1, <1>4
   <4>2. ps = g.size[p] /\ ps # 0
    BY <3>1, <3>3, <4>1, <1>2
   <4> QED BY <3>1, <3>3, <4>2
  <3>4. CASE p \notin F
   <4>1. ps = 0
    BY <3>1, <3>2, <3>4, <1>2
   <4>2. \A o \in F : o + g.size[o] # c
    BY <3>1, <3>4, <1>3, <1>4
   <4> QED BY <4>1, <4>2
  <3> QED BY <3>3, <3>4
 <2> QED BY <2>1, <2>2
<1>6. CASE ps = 0 /\ \A o \in F : o + g.size[o] # c
 <2>1. CoalescePrev(g, c) = g
  BY <1>6 DEF CoalescePrev
 <2>2. Freed(g, g, c, U)
  BY <1>6 DEF Freed
 <2> QED BY <2>1, <2>2, <1>6
<1>7. ASSUME NEW p \in F, ps = g.size[p], p + g.size[p] = c, ps # 0
      PROVE  Freed(g, CoalescePrev(g, c), IF ps = 0 THEN c ELSE c - ps, U)
 <2> SUFFICES ASSUME NEW h, h = CoalescePrev(g, c) PROVE Freed(g, h, p, U)
  <3>1. p \in Nat /\ g.size[p] \in Nat
   BY <1>3, <1>4
  <3>2. c - ps = p
   BY <3>1, <1>7
  <3> QED BY <3>2, <1>7
 <2>1. p \in Offsets /\ c \in Offsets /\ p # c /\ c - ps = p
  <3>1. p \in Nat /\ g.size[p] \in Nat
   BY <1>3, <1>4
  <3>2. c - ps = p
   BY <3>1, <1>7
  <3> QED BY <3>2, <1>2, <1>3, <1>4
 <2>2. h = [Absorbed(UnlinkBlock(g, p), c) EXCEPT !.size[p] = @ + g.size[c]]
  BY <2>1, <1>7 DEF CoalescePrev
 <2>3. g.fprev[p] # c /\ g.fnext[p] # c
  BY <1>1, <1>2, <1>3
 <2>4. g.size[p] + g.size[c] \in 0 .. SegSize
  <3>1. /\ p \in Nat /\ c \in Nat /\ g.size[p] \in Nat /\ g.size[c] \in Nat
        /\ c + g.size[c] <= LastBlock
   BY <1>3, <1>4
  <3>2. LastBlock \in Nat /\ LastBlock <= SegSize /\ SegSize \in Nat
   BY Consts DEF LastBlock
  <3> QED BY <3>1, <3>2, <1>7
 <2>5. c = p + g.size[p]
  BY <1>7
 <2>6. Merges(g, h, p, c, p)
  BY <1>1, <2>1, <2>2, <2>3, <2>4, <2>5, MergesIs
 <2>7. /\ Loose(h, F \ {p}, U, p)
       /\ \A o \in U : h.size[o] = g.size[o]
  <3>1. Loose(g, F, U, c) /\ p \in F
   OBVIOUS
  <3> QED BY ONLY <2>6, <3>1, MergePrev
 <2>8. \A o \in F \ {p} : o + h.size[o] # p
  <3>1. ASSUME NEW o \in F \ {p} PROVE h.size[o] = g.size[o]
   <4>1. o \in Offsets /\ o # p /\ o # c
    BY <3>1, <1>2, <1>3, <1>4
   <4> QED BY <4>1, <2>6 DEF Merges
  <3> QED BY <3>1, <1>2
 <2> QED BY <2>7, <2>8 DEF Freed
<1> QED BY <1>5, <1>6, <1>7

\* h is what g becomes when the loose block c has taken in the free block after it.
Joined(g, h, c, U) ==
    /\ \E F : /\ Loose(h, F, U, c)
              /\ \A o \in F : o + h.size[o] # c
              /\ c + h.size[c] \notin F
    /\ \A o \in U : h.size[o] = g.size[o]

\* CoalesceNext takes in the free block after c, if there is one; none is left.
LEMMA CoalesceNextIs ==
    ASSUME NEW g, NEW F, NEW U, NEW c, Loose(g, F, U, c), \A o \in F : o + g.size[o] # c
    PROVE  Joined(g, CoalesceNext(g, c), c, U)
<1>0. PICK n, l, L : L = {c} /\ Exact(g, n, l, F, U, L)
 BY DEF Loose
<1> DEFINE B == BlocksOf(F, U, L)
           p == c + g.size[c]
<1>1. /\ g \in Fields /\ SizesOf(g.size) /\ Layout(g.size, B) /\ IsList(g.fnext, g.fprev, n, l)
      /\ LastBlock \notin F \cup U \cup L
      /\ \A o \in F : /\ g.fnext[o] \in F \cup {LastBlock} /\ g.fnext[o] # o /\ g.fnext[o] # 0
                      /\ g.fprev[o] \in F \cup {FirstBlock} /\ g.fprev[o] # o
 BY <1>0, ExactFacts
<1>2. /\ \A o \in F : o + g.size[o] \notin F
      /\ \A o \in U : g.fnext[o] = 0
      /\ F \cap U = {} /\ c \notin F \cup U
 BY <1>0 DEF Exact, Tags, Apart
<1>3. F \cup U \cup {c} = B \ {LastBlock} /\ c \in B \ {LastBlock}
 BY <1>0, <1>1 DEF BlocksOf
<1>4. /\ \A o \in B : /\ o \in Offsets /\ o \in Nat /\ g.size[o] \in Nat /\ o + g.size[o] \in B
                      /\ FirstReal <= o /\ o <= LastBlock
      /\ \A o \in B \ {LastBlock} : g.size[o] > 0 /\ o + g.size[o] # FirstReal
 <2> HIDE DEF B
 <2> QED BY <1>1, LayoutFacts
<1>5. p \in B /\ p # c /\ p \in Offsets /\ c \in Offsets
 <2>1. p \in B /\ c \in Nat /\ g.size[c] \in Nat /\ g.size[c] > 0
  BY <1>3, <1>4
 <2> QED BY <2>1, <1>3, <1>4
<1>6. CASE g.fnext[p] = 0
 <2>1. CoalesceNext(g, c) = g
  BY <1>6 DEF CoalesceNext, NextSBlock
 <2>2. p \notin F
  BY <1>6, <1>1
 <2>3. Joined(g, g, c, U)
  BY <2>2 DEF Joined
 <2> QED BY <2>1, <2>3
<1>7. CASE g.fnext[p] # 0
 <2> SUFFICES ASSUME NEW h, h = CoalesceNext(g, c) PROVE Joined(g, h, c, U)
  OBVIOUS
 <2>1. p \in F
  <3>1. p # LastBlock
   BY <1>7, <1>1 DEF IsList
  <3>2. p \notin U
   BY <1>7, <1>2
  <3> QED BY <3>1, <3>2, <1>3, <1>5
 <2>2. h = [Absorbed(UnlinkBlock(g, p), p) EXCEPT !.size[c] = @ + g.size[p]]
  BY <1>7 DEF CoalesceNext, NextSBlock
 <2>3. g.fprev[p] # p /\ g.fnext[p] # p
  BY <1>1, <2>1
 <2>4. g.size[c] + g.size[p] \in 0 .. SegSize
  <3>1. /\ p \in Nat /\ c \in Nat /\ g.size[p] \in Nat /\ g.size[c] \in Nat
        /\ p + g.size[p] <= LastBlock
   BY <1>3, <1>4, <1>5
  <3>2. LastBlock \in Nat /\ LastBlock <= SegSize /\ SegSize \in Nat
   BY Consts DEF LastBlock
  <3> QED BY <3>1, <3>2
 <2>5. Merges(g, h, c, p, p)
  <3>1. p = c + g.size[c]
   OBVIOUS
  <3> HIDE DEF p, B
  <3> QED BY <1>1, <1>5, <2>2, <2>3, <2>4, <3>1, MergesIs
 <2>6. /\ Loose(h, F \ {p}, U, c)
       /\ \A o \in U : h.size[o] = g.size[o]
  <3> HIDE DEF p, B
  <3> QED BY <2>1, <2>5, MergeNext
 <2>7. \A o \in F \ {p} : h.size[o] = g.size[o]
  <3>1. ASSUME NEW o \in F \ {p} PROVE h.size[o] = g.size[o]
   <4>1. o \in Offsets /\ o # p /\ o # c
    BY <1>2, <1>3, <1>4
   <4> QED BY <4>1, <2>5 DEF Merges
  <3> QED BY <3>1
 <2>8. \A o \in F \ {p} : o + h.size[o] # c
  BY <2>7
 <2>9. c + h.size[c] \notin F \ {p}
  <3>1. h.size[c] = g.size[c] + g.size[p]
   BY <2>5 DEF Merges
  <3>2. c \in Nat /\ g.size[c] \in Nat /\ g.size[p] \in Nat
   BY <1>3, <1>4, <1>5
  <3>3. c + h.size[c] = p + g.size[p]
   BY <3>1, <3>2
  <3> QED BY <3>3, <2>1, <1>2
 <2> QED BY <2>6, <2>8, <2>9 DEF Joined
<1> QED BY <1>6, <1>7

\* c becomes the first block of the free list; the block after it learns its size.
Linked(u, cur) ==
    LET v == [u EXCEPT !.prev_size[NextSBlock(u, cur)] = u.size[cur],
                       !.fnext[cur] = u.fnext[FirstBlock],
                       !.fnext[FirstBlock] = cur,
                       !.fprev[cur] = FirstBlock]
    IN  [v EXCEPT !.fprev[v.fnext[cur]] = cur]

\* What the last part of sma_deallocate writes.
LEMMA LinkedIs ==
    ASSUME NEW u \in Fields, NEW c \in Offsets, c # FirstBlock, c + u.size[c] \in Offsets,
           NEW h, h = Linked(u, c)
    PROVE  /\ h \in Fields /\ h.avail = u.avail /\ h.size = u.size
           /\ h.prev_size = [u.prev_size EXCEPT ![c + u.size[c]] = u.size[c]]
           /\ h.fnext = [[u.fnext EXCEPT ![c] = u.fnext[FirstBlock]] EXCEPT ![FirstBlock] = c]
           /\ h.fprev = [[u.fprev EXCEPT ![c] = FirstBlock] EXCEPT ![u.fnext[FirstBlock]] = c]
<1> DEFINE v == [u EXCEPT !.prev_size[NextSBlock(u, c)] = u.size[c],
                          !.fnext[c] = u.fnext[FirstBlock],
                          !.fnext[FirstBlock] = c,
                          !.fprev[c] = FirstBlock]
           w == [v EXCEPT !.fprev[v.fnext[c]] = c]
<1>1. FirstBlock \in Offsets
 BY Consts
<1>2. /\ u.size \in [Offsets -> 0 .. SegSize] /\ u.prev_size \in [Offsets -> 0 .. SegSize]
      /\ u.fnext \in [Offsets -> Offsets] /\ u.fprev \in [Offsets -> Offsets]
 BY FieldsAre
<1>3. u.size[c] \in 0 .. SegSize /\ u.fnext[FirstBlock] \in Offsets
 BY <1>1, <1>2
<1>4. /\ v \in Fields /\ v.avail = u.avail /\ v.size = u.size
      /\ v.prev_size = [u.prev_size EXCEPT ![c + u.size[c]] = u.size[c]]
      /\ v.fnext = [[u.fnext EXCEPT ![c] = u.fnext[FirstBlock]] EXCEPT ![FirstBlock] = c]
      /\ v.fprev = [u.fprev EXCEPT ![c] = FirstBlock]
 BY <1>1, <1>3 DEF Fields, NextSBlock
<1>5. h = w
 BY DEF Linked
<1> HIDE DEF v
<1>6. v.fnext[c] = u.fnext[FirstBlock]
 BY <1>1, <1>2, <1>4
<1>7. /\ w \in Fields /\ w.avail = v.avail /\ w.size = v.size /\ w.prev_size = v.prev_size
      /\ w.fnext = v.fnext /\ w.fprev = [v.fprev EXCEPT ![v.fnext[c]] = c]
 BY <1>4 DEF Fields
<1> HIDE DEF w
<1> QED BY <1>4, <1>5, <1>6, <1>7

\* A segment with the free blocks F and the blocks in use U.
Whole(g, F, U) == \E n, l : Exact(g, n, l, F, U, {})

\* A loose block without free neighbours is put on the list.
LEMMA Link ==
    ASSUME NEW g, NEW F, NEW U, NEW c, Loose(g, F, U, c),
           \A o \in F : o + g.size[o] # c, c + g.size[c] \notin F,
           NEW h, h = Linked(g, c)
    PROVE  Whole(h, F \cup {c}, U) /\ h.size = g.size
<1>0. PICK n, l, L : L = {c} /\ Exact(g, n, l, F, U, L)
 BY DEF Loose
<1> DEFINE B == BlocksOf(F, U, L)
           y == c + g.size[c]
           F2 == F \cup {c}
<1>1. /\ g \in Fields /\ SizesOf(g.size) /\ Layout(g.size, B)
      /\ IsList(g.fnext, g.fprev, n, l) /\ Members(n, l) = F \cup {LastBlock}
      /\ LastBlock \notin F \cup U \cup L
      /\ \A o \in B : o \in Offsets /\ o # 0 /\ o # FirstBlock
 <2>1. /\ g \in Fields /\ SizesOf(g.size) /\ Layout(g.size, B)
       /\ IsList(g.fnext, g.fprev, n, l) /\ Members(n, l) = F \cup {LastBlock}
       /\ LastBlock \notin F \cup U \cup L
  BY <1>0, ExactFacts
 <2>2. \A o \in B : o \in Offsets /\ o # 0 /\ o # FirstBlock
  BY <1>0, ExactFacts
 <2> QED BY <2>1, <2>2
<1>2. /\ g.prev_size[FirstReal] = 0
      /\ \A o \in F \cup U : g.prev_size[o + g.size[o]] = IF o \in F THEN g.size[o] ELSE 0
      /\ \A o \in F : o + g.size[o] \notin F
      /\ \A o \in U : g.fnext[o] = 0
      /\ F \cap U = {} /\ c \notin F \cup U
      /\ g.avail = Cardinality(Words(g.size, F \cup L)) + BlockSize
 BY <1>0 DEF Exact, Tags, Apart
<1>3. F \cup U \cup {c} = B \ {LastBlock} /\ c \in B \ {LastBlock} /\ {LastBlock} \cup F \cup U \cup {c} = B
 BY <1>0, <1>1 DEF BlocksOf
<1>4. /\ \A o \in B : /\ o \in Offsets /\ o \in Nat /\ g.size[o] \in Nat /\ o + g.size[o] \in B
                      /\ FirstReal <= o /\ o <= LastBlock
      /\ \A o \in B \ {LastBlock} : g.size[o] > 0 /\ o + g.size[o] # FirstReal
      /\ \A o, p \in B \ {LastBlock} : o + g.size[o] = p + g.size[p] => o = p
 <2> HIDE DEF B
 <2> QED BY <1>1, LayoutFacts
<1>5. c \in Offsets /\ y \in B /\ y \in Offsets /\ y # c /\ FirstBlock \in Offsets /\ c # FirstBlock
 <2>1. c \in Nat /\ g.size[c] \in Nat /\ g.size[c] > 0 /\ y \in B /\ c \in Offsets /\ c # FirstBlock
  BY <1>1, <1>3, <1>4
 <2>2. y # c
  BY <2>1
 <2>3. FirstBlock \in Offsets
  BY Consts
 <2> QED BY <2>1, <2>2, <2>3, <1>4
<1>6. /\ h \in Fields /\ h.avail = g.avail /\ h.size = g.size
      /\ h.prev_size = [g.prev_size EXCEPT ![y] = g.size[c]]
      /\ h.fnext = [[g.fnext EXCEPT ![c] = g.fnext[FirstBlock]] EXCEPT ![FirstBlock] = c]
      /\ h.fprev = [[g.fprev EXCEPT ![c] = FirstBlock] EXCEPT ![g.fnext[FirstBlock]] = c]
 BY <1>1, <1>5, LinkedIs
<1>7. /\ g.prev_size \in [Offsets -> 0 .. SegSize]
      /\ g.fnext \in [Offsets -> Offsets] /\ g.fprev \in [Offsets -> Offsets]
 BY <1>1, FieldsAre
<1>8. /\ c \notin Members(n, l) /\ g.fnext[FirstBlock] \in Members(n, l)
      /\ Members(n, l) \subseteq Offsets /\ FirstBlock \notin Members(n, l) /\ c \in FirstReal .. LastBlock
 <2>1. c \notin Members(n, l)
  BY <1>0, <1>1, <1>2
 <2>2. 1 \in 1 .. n /\ g.fnext[FirstBlock] = l[1]
  BY <1>1 DEF IsList
 <2>3. Members(n, l) \subseteq B
  BY <1>1 DEF BlocksOf
 <2>4. c \in FirstReal .. LastBlock
  <3>1. c \in Int /\ FirstReal \in Int /\ LastBlock \in Int
   BY <1>3, <1>4, Consts DEF FirstReal, LastBlock
  <3> QED BY <3>1, <1>3, <1>4
 <2> QED BY <2>1, <2>2, <2>3, <2>4, <1>1 DEF Members
<1>9. /\ h.fnext[FirstBlock] = c /\ h.fnext[c] = g.fnext[FirstBlock]
      /\ \A o \in Offsets : (o # c /\ o # FirstBlock) => h.fnext[o] = g.fnext[o]
      /\ h.fprev[g.fnext[FirstBlock]] = c /\ h.fprev[c] = FirstBlock
      /\ \A o \in Offsets : (o # c /\ o # g.fnext[FirstBlock]) => h.fprev[o] = g.fprev[o]
 BY <1>5, <1>6, <1>7, <1>8
<1>10. \E n2, l2 : IsList(h.fnext, h.fprev, n2, l2) /\ Members(n2, l2) = Members(n, l) \cup {c}
 <2>1. \A o \in {0} \cup Members(n, l) : h.fnext[o] = g.fnext[o]
  <3>1. 0 \in Offsets /\ 0 # c /\ 0 # FirstBlock
   BY ZeroIn, <1>1, <1>3, Consts
  <3> QED BY <3>1, <1>8, <1>9
 <2>2. \A o \in Members(n, l) : o # g.fnext[FirstBlock] => h.fprev[o] = g.fprev[o]
  BY <1>8, <1>9
 <2>3. /\ h.fnext[FirstBlock] = c /\ h.fnext[c] = g.fnext[FirstBlock]
       /\ h.fprev[g.fnext[FirstBlock]] = c /\ h.fprev[c] = FirstBlock
       /\ IsList(g.fnext, g.fprev, n, l) /\ c \in FirstReal .. LastBlock /\ c \notin Members(n, l)
  BY <1>1, <1>8, <1>9
 <2> QED BY ONLY <2>1, <2>2, <2>3, ListPush
<1>11. PICK n2, l2 : IsList(h.fnext, h.fprev, n2, l2) /\ Members(n2, l2) = Members(n, l) \cup {c}
 BY <1>10
<1>12. F2 = Members(n2, l2) \ {LastBlock}
 BY <1>0, <1>1, <1>11
<1>13. F2 \cap U = {} /\ LastBlock \notin U
 BY <1>0, <1>1, <1>2
<1>14. \A o \in U : h.fnext[o] = 0
 <2>1. \A o \in U : o \in Offsets /\ o # c /\ o # FirstBlock
  BY <1>1, <1>2, <1>3
 <2> QED BY <2>1, <1>2, <1>9
<1>15. Tags(h.size, h.prev_size, F2 \cup U, F2)
 <2>1. h.prev_size[FirstReal] = 0
  <3>1. y # FirstReal /\ FirstReal \in Offsets
   BY <1>1, <1>3, <1>4 DEF Layout
  <3> QED BY <3>1, <1>2, <1>6, <1>7
 <2>2. ASSUME NEW o \in F2 \cup U
       PROVE  h.prev_size[o + h.size[o]] = IF o \in F2 THEN h.size[o] ELSE 0
  <3>1. o \in B \ {LastBlock} /\ o + g.size[o] \in Offsets
   BY <1>3, <1>4
  <3>2. CASE o = c
   BY <3>1, <3>2, <1>6, <1>7, <1>5
  <3>3. CASE o # c
   <4>1. o + g.size[o] # y
    BY <3>1, <3>3, <1>3, <1>4
   <4>2. (o \in F2 <=> o \in F) /\ o \in F \cup U
    BY <3>3, <2>2
   <4> QED BY <3>1, <4>1, <4>2, <1>2, <1>6, <1>7
  <3> QED BY <3>2, <3>3
 <2> QED BY <2>1, <2>2 DEF Tags
<1>16. Apart(h.size, F2)
 <2>1. ASSUME NEW o \in F2 PROVE o + h.size[o] \notin F2
  <3>1. CASE o = c
   BY <3>1, <1>5, <1>6
  <3>2. CASE o # c
   BY <3>2, <2>1, <1>2, <1>6
  <3> QED BY <3>1, <3>2
 <2> QED BY <2>1 DEF Apart
<1>17. h.avail = Cardinality(Words(h.size, F2 \cup {})) + BlockSize
 <2>1. F2 \cup {} = F \cup L
  BY <1>0
 <2> QED BY <2>1, <1>2, <1>6, Zenon
<1>18. Layout(h.size, {LastBlock} \cup F2 \cup U \cup {})
 <2>1. {LastBlock} \cup F2 \cup U \cup {} = B
  BY <1>3
 <2> QED BY <2>1, <1>1, <1>6, Zenon
<1>19. Exact(h, n2, l2, F2, U, {})
 <2> HIDE DEF F2
 <2> QED BY <1>6, <1>11, <1>12, <1>13, <1>14, <1>15, <1>16, <1>17, <1>18 DEF Exact
<1> QED BY <1>6, <1>19 DEF Whole

\* sma_deallocate turns a block in use into a free one or a part of one; the
\* other blocks in use stay as they are.
LEMMA Deallocate ==
    ASSUME NEW g, NEW F, NEW U, Whole(g, F, U), NEW c \in U
    PROVE  /\ \E F2 : Whole(sma_deallocate(g, c), F2, U \ {c})
           /\ \A o \in U \ {c} : sma_deallocate(g, c).size[o] = g.size[o]
<1> DEFINE V == U \ {c}
           g1 == [g EXCEPT !.avail = @ + g.size[c]]
           a == IF g.prev_size[c] = 0 THEN c ELSE c - g.prev_size[c]
           g2 == CoalescePrev(g1, c)
           g3 == CoalesceNext(g2, a)
           h == Linked(g3, a)
<1>1. sma_deallocate(g, c) = h
 BY DEF sma_deallocate, Linked
<1>2. Loose(g1, F, V, c) /\ g1.size = g.size /\ g1.prev_size = g.prev_size
 <2>1. PICK n, l : Exact(g, n, l, F, U, {})
  BY DEF Whole
 <2>2. SUFFICES ASSUME NEW k, k = g1
                PROVE  Loose(k, F, V, c) /\ k.size = g.size /\ k.prev_size = g.prev_size
  OBVIOUS
 <2>3. Exact(k, n, l, F, V, {c}) /\ k.size = g.size /\ k.prev_size = g.prev_size
  BY <2>1, <2>2, TakeBack
 <2> QED BY <2>3 DEF Loose
<1> HIDE DEF V, g1
<1>3. Freed(g1, g2, a, V)
 <2>1. a = IF g1.prev_size[c] = 0 THEN c ELSE c - g1.prev_size[c]
  BY <1>2
 <2>2. Freed(g1, CoalescePrev(g1, c), IF g1.prev_size[c] = 0 THEN c ELSE c - g1.prev_size[c], V)
  BY <1>2, CoalescePrevIs
 <2> HIDE DEF a
 <2> QED BY <2>1, <2>2, Zenon
<1> HIDE DEF a, g2
<1>4. PICK F2 : Loose(g2, F2, V, a) /\ (\A o \in F2 : o + g2.size[o] # a)
 BY <1>3 DEF Freed
<1>5. Joined(g2, g3, a, V)
 BY <1>4, CoalesceNextIs
<1> HIDE DEF g3
<1>6. PICK F3 : Loose(g3, F3, V, a) /\ (\A o \in F3 : o + g3.size[o] # a) /\ a + g3.size[a] \notin F3
 BY <1>5 DEF Joined
<1>7. Whole(h, F3 \cup {a}, V) /\ h.size = g3.size
 BY <1>6, Link
<1>8. \A o \in V : h.size[o] = g.size[o]
 BY <1>2, <1>3, <1>5, <1>7 DEF Freed, Joined
<1> HIDE DEF h
<1> QED BY <1>1, <1>7, <1>8 DEF V

--------------------
(* What a segment looks like from outside. *)

\* A list as a sequence, as long as it has elements.
LEMMA ListSeq ==
    ASSUME NEW fn, NEW fp, NEW n, NEW l, IsList(fn, fp, n, l)
    PROVE  /\ Len(l) = n /\ n \in Nat /\ n > 0 /\ DOMAIN l = 1 .. n /\ l # <<>>
           /\ Elements(l) = Members(n, l) /\ Cardinality(Elements(l)) = n
<1> DEFINE T == FirstReal .. LastBlock
<1>1. n \in Nat /\ n > 0 /\ l \in [1 .. n -> T] /\ \A i, j \in 1 .. n : l[i] = l[j] => i = j
 BY DEF IsList
<1>2. l \in Seq(T)
 <2> HIDE DEF T
 <2> QED BY <1>1, SeqDef
<1>3. Len(l) \in Nat /\ DOMAIN l = 1 .. Len(l) /\ DOMAIN l = 1 .. n
 <2> HIDE DEF T
 <2> QED BY <1>1, <1>2, LenProperties
<1>4. Len(l) = n
 <2>1. n \in 1 .. Len(l)
  BY <1>1, <1>3
 <2>2. Len(l) \in 1 .. n
  BY <1>1, <1>3
 <2> QED BY <2>1, <2>2, <1>1, <1>3
<1>5. l # <<>>
 BY <1>1, <1>4
<1>6. Elements(l) = Members(n, l)
 BY <1>3 DEF Elements, Members
<1>7. Cardinality(Members(n, l)) = n
 <2>1. IsFiniteSet(1 .. n) /\ Cardinality(1 .. n) = n
  <3>1. 1 \in Int /\ n \in Int /\ ~(1 > n)
   BY <1>1
  <3>2. IsFiniteSet(1 .. n) /\ Cardinality(1 .. n) = IF 1 > n THEN 0 ELSE n - 1 + 1
   BY <3>1, FS_Interval
  <3> QED BY <3>1, <3>2, <1>1
 <2>2. l \in Bijection(1 .. n, Members(n, l))
  <3> DEFINE M == Members(n, l)
  <3>1. l \in [1 .. n -> M]
   BY <1>1 DEF Members
  <3>2. \A t \in M : \E s \in 1 .. n : l[s] = t
   BY DEF Members
  <3> HIDE DEF M
  <3>3. l \in Injection(1 .. n, M)
   <4>1. \A i, j \in 1 .. n : l[i] = l[j] => i = j
    BY <1>1
   <4>2. DOMAIN l = 1 .. n
    BY <3>1
   <4> QED BY ONLY <3>1, <4>1, <4>2 DEF Injection, IsInjective
  <3>4. l \in Surjection(1 .. n, M)
   BY ONLY <3>1, <3>2 DEF Surjection
  <3> QED BY <3>3, <3>4 DEF Bijection, M
 <2>3. ExistsBijection(1 .. n, Members(n, l))
  BY <2>2 DEF ExistsBijection
 <2> QED BY <2>1, <2>3, FS_Bijection, Zenon
<1> QED BY <1>1, <1>3, <1>4, <1>5, <1>6, <1>7

\* What a segment with the free blocks F and the blocks in use U looks like.
LEMMA WholeFacts ==
    ASSUME NEW g, NEW F, NEW U, Whole(g, F, U)
    PROVE  /\ g \in Segment
           /\ FreeBlocks(g) = F /\ F \cap U = {} /\ U \subseteq Offsets
           /\ Blocks(g) = {LastBlock} \cup F \cup U /\ LastBlock \notin F \cup U
           /\ g.avail = FreeWords(g) + BlockSize
<1>0. PICK n, l, L : L = {} /\ Exact(g, n, l, F, U, L)
 BY DEF Whole
<1> DEFINE B == BlocksOf(F, U, L)
<1>1. /\ g \in Fields /\ SizesOf(g.size) /\ Layout(g.size, B)
      /\ IsList(g.fnext, g.fprev, n, l) /\ Members(n, l) = F \cup {LastBlock}
      /\ LastBlock \notin F \cup U \cup L
 BY <1>0, ExactFacts
<1>2. \A o \in B : o \in Offsets /\ o # 0 /\ o # FirstBlock
 BY <1>0, ExactFacts
<1>3. F \cap U = {} /\ g.avail = Cardinality(Words(g.size, F \cup L)) + BlockSize /\ F \cup L = F
 BY <1>0 DEF Exact
<1>4. FreeList(g) = l
 BY <1>1, FreeListIs
<1>5. FreeBlocks(g) = F
 <2>1. Elements(l) = Members(n, l)
  BY <1>1, ListSeq
 <2> QED BY <2>1, <1>1, <1>4 DEF FreeBlocks
<1>6. Blocks(g) = B
 <2> HIDE DEF B
 <2> QED BY <1>1, BlocksIs
<1>7. B = {LastBlock} \cup F \cup U
 BY <1>0 DEF BlocksOf
<1>8. g.avail = Cardinality(Words(g.size, F)) + BlockSize
 BY <1>3, Zenon
<1>9. g.avail \in 0 .. SegSize
 <2>1. F \subseteq B \ {LastBlock}
  BY <1>1, <1>7
 <2>2. Cardinality(Words(g.size, F)) \in Nat /\ Cardinality(Words(g.size, F)) + BlockSize <= SegSize
  <3> HIDE DEF B
  <3> QED BY <2>1, <1>1, WordsBound
 <2>3. BlockSize \in Nat /\ SegSize \in Nat
  BY Consts
 <2> QED BY <2>2, <2>3, <1>8
<1>10. g \in Segment
 BY <1>1, <1>9 DEF Fields, Segment
<1>11. U \subseteq Offsets
 BY <1>2, <1>7
<1>12. g.avail = FreeWords(g) + BlockSize
 BY <1>5, <1>8, Zenon DEF FreeWords
<1> QED BY <1>1, <1>3, <1>5, <1>6, <1>7, <1>10, <1>11, <1>12

\* The free list of a segment, read as a sequence.
LEMMA WholeList ==
    ASSUME NEW g, NEW F, NEW U, Whole(g, F, U)
    PROVE  LET list == FreeList(g) IN
           /\ list # <<>> /\ list[Len(list)] = LastBlock
           /\ \A i \in DOMAIN list :
                 g.fprev[list[i]] = IF i = 1 THEN FirstBlock ELSE list[i - 1]
           /\ Cardinality(Elements(list)) = Len(list)
<1>0. PICK n, l : Exact(g, n, l, F, U, {})
 BY DEF Whole
<1>1. g \in Fields /\ IsList(g.fnext, g.fprev, n, l)
 BY <1>0 DEF Exact
<1>2. FreeList(g) = l
 BY <1>1, FreeListIs
<1>3. /\ Len(l) = n /\ DOMAIN l = 1 .. n /\ l # <<>> /\ Cardinality(Elements(l)) = n
 BY <1>1, ListSeq
<1>4. l[n] = LastBlock /\ \A i \in 1 .. n : g.fprev[l[i]] = IF i = 1 THEN FirstBlock ELSE l[i - 1]
 BY <1>1 DEF IsList
<1> QED BY <1>2, <1>3, <1>4

\* What the block after o knows of o.
LEMMA WholeTags ==
    ASSUME NEW g, NEW F, NEW U, Whole(g, F, U), NEW o \in F \cup U
    PROVE  /\ g.prev_size[o + g.size[o]] = IF o \in F THEN g.size[o] ELSE 0
           /\ o \in F => o + g.size[o] \notin F
<1>0. PICK n, l : Exact(g, n, l, F, U, {})
 BY DEF Whole
<1> QED BY <1>0, TagsAre0

\* apc_sma_init leaves one free block.
LEMMA NewIs == Whole(NewSegment, {FirstReal}, {})
<1> DEFINE g == NewSegment
           l == [i \in 1 .. 2 |-> IF i = 1 THEN FirstReal ELSE LastBlock]
           F == {FirstReal}
           B == {FirstReal, LastBlock}
           avail == SegSize - HeaderSize - 2 * BlockSize
           empty == FirstBlock + BlockSize
           last  == empty + avail - BlockSize
           sz    == avail - BlockSize
           At(o, a, b, c) == CASE o = FirstBlock -> a
                               [] o = empty      -> b
                               [] o = last       -> c
                               [] OTHER          -> 0
<1>1. /\ sz \in Nat /\ sz > 0 /\ FirstReal + sz = LastBlock /\ avail = sz + BlockSize /\ avail \in Int
      /\ 0 < FirstBlock /\ FirstBlock < FirstReal /\ FirstReal < LastBlock
      /\ FirstReal \in Nat /\ LastBlock \in Nat /\ sz \in 0 .. SegSize
      /\ empty = FirstReal /\ last = LastBlock
 <2>1. SegSize \in Nat /\ HeaderSize \in Nat /\ BlockSize \in Nat /\ BlockSize > 0 /\ HeaderSize > 0
  BY SizeAssumption
 <2>2. SegSize > HeaderSize + 3 * BlockSize
  BY SizeAssumption
 <2>3. /\ FirstBlock = HeaderSize /\ FirstReal = HeaderSize + BlockSize
       /\ LastBlock = SegSize - 2 * BlockSize
  BY DEF FirstBlock, FirstReal, LastBlock
 <2> QED BY <2>1, <2>2, <2>3
<1>2. {0, FirstBlock, FirstReal, LastBlock} \subseteq Offsets /\ 0 \in 0 .. SegSize
 BY Consts
<1>3. g = [avail     |-> avail,
           size      |-> [o \in Offsets |-> At(o, 0, avail - BlockSize, 0)],
           prev_size |-> [o \in Offsets |-> At(o, 0, 0, avail - BlockSize)],
           fnext     |-> [o \in Offsets |-> At(o, empty, last, 0)],
           fprev     |-> [o \in Offsets |-> At(o, 0, FirstBlock, empty)]]
 BY DEF NewSegment
<1>4. g = [avail     |-> avail,
           size      |-> [o \in Offsets |-> At(o, 0, sz, 0)],
           prev_size |-> [o \in Offsets |-> At(o, 0, 0, sz)],
           fnext     |-> [o \in Offsets |-> At(o, empty, last, 0)],
           fprev     |-> [o \in Offsets |-> At(o, 0, FirstBlock, empty)]]
 BY <1>3
<1> HIDE DEF sz, avail, empty, last
<1>5. \A o \in Offsets : /\ At(o, 0, sz, 0) \in 0 .. SegSize /\ At(o, 0, 0, sz) \in 0 .. SegSize
                         /\ At(o, empty, last, 0) \in Offsets
                         /\ At(o, 0, FirstBlock, empty) \in Offsets
 BY <1>1, <1>2
<1>6. g \in Fields /\ g.avail = sz + BlockSize
 <2>1. avail \in Int /\ avail = sz + BlockSize
  BY <1>1
 <2> HIDE DEF At, g
 <2> QED BY <1>4, <1>5, <2>1 DEF Fields
<1>7. /\ g.size[FirstReal] = sz /\ g.size[LastBlock] = 0
      /\ g.prev_size[FirstReal] = 0 /\ g.prev_size[LastBlock] = sz
      /\ g.fnext[0] = 0 /\ g.fnext[FirstBlock] = FirstReal /\ g.fnext[FirstReal] = LastBlock
      /\ g.fnext[LastBlock] = 0
      /\ g.fprev[FirstReal] = FirstBlock /\ g.fprev[LastBlock] = FirstReal
 <2>1. /\ g.size = [o \in Offsets |-> At(o, 0, sz, 0)]
       /\ g.prev_size = [o \in Offsets |-> At(o, 0, 0, sz)]
       /\ g.fnext = [o \in Offsets |-> At(o, empty, last, 0)]
       /\ g.fprev = [o \in Offsets |-> At(o, 0, FirstBlock, empty)]
  <3> HIDE DEF At, g
  <3> QED BY <1>4
 <2> HIDE DEF g
 <2>2. g.size[FirstReal] = sz /\ g.size[LastBlock] = 0
  BY <1>1, <1>2, <2>1
 <2>3. g.prev_size[FirstReal] = 0 /\ g.prev_size[LastBlock] = sz
  BY <1>1, <1>2, <2>1
 <2>4. /\ g.fnext[0] = 0 /\ g.fnext[FirstBlock] = FirstReal /\ g.fnext[FirstReal] = LastBlock
       /\ g.fnext[LastBlock] = 0
  <3>1. 0 \in Offsets /\ 0 # FirstBlock /\ 0 # empty /\ 0 # last
   <4>1. 0 # FirstBlock /\ 0 # FirstReal /\ 0 # LastBlock
    BY Consts
   <4>2. 0 # empty /\ 0 # last
    BY <4>1, <1>1, Zenon
   <4> QED BY <4>1, <4>2, ZeroIn
  <3>2. g.fnext[0] = 0
   BY ONLY <2>1, <3>1
  <3>3. g.fnext[FirstBlock] = FirstReal
   BY <1>1, <1>2, <2>1
  <3>4. g.fnext[FirstReal] = LastBlock
   BY <1>1, <1>2, <2>1
  <3>5. g.fnext[LastBlock] = 0
   BY <1>1, <1>2, <2>1
  <3> QED BY <3>2, <3>3, <3>4, <3>5
 <2>5. g.fprev[FirstReal] = FirstBlock /\ g.fprev[LastBlock] = FirstReal
  BY <1>1, <1>2, <2>1
 <2> QED BY <2>2, <2>3, <2>4, <2>5
<1> HIDE DEF g
<1>8. Layout(g.size, B)
 BY <1>1, <1>7 DEF Layout
<1>9. IsList(g.fnext, g.fprev, 2, l)
 BY <1>1, <1>7 DEF IsList
<1>10. F = Members(2, l) \ {LastBlock}
 BY <1>1 DEF Members
<1>11. Tags(g.size, g.prev_size, F \cup {}, F)
 BY <1>1, <1>7 DEF Tags
<1>12. Apart(g.size, F)
 BY <1>1, <1>7 DEF Apart
<1>13. g.avail = Cardinality(Words(g.size, F \cup {})) + BlockSize
 <2>1. SizesOf(g.size)
  BY <1>6 DEF Fields, SizesOf
 <2>2. FirstReal \in B \ {LastBlock} /\ FirstReal \notin {}
  BY <1>1
 <2>3. Cardinality(Words(g.size, {} \cup {FirstReal})) = Cardinality(Words(g.size, {})) + g.size[FirstReal]
  <3> HIDE DEF B
  <3> QED BY <2>1, <2>2, <1>8, WordsAdd
 <2>4. Words(g.size, {}) = {}
  BY DEF Words
 <2>5. Cardinality({}) = 0
  BY FS_EmptySet
 <2>6. {} \cup {FirstReal} = F \cup {}
  OBVIOUS
 <2>7. Cardinality(Words(g.size, F \cup {})) = Cardinality(Words(g.size, {})) + g.size[FirstReal]
  BY <2>3, <2>6, Zenon
 <2>8. Cardinality(Words(g.size, {})) = 0
  BY <2>4, <2>5, Zenon
 <2> QED BY <2>7, <2>8, <1>1, <1>6, <1>7
<1>14. Layout(g.size, {LastBlock} \cup F \cup {} \cup {})
 <2>1. {LastBlock} \cup F \cup {} \cup {} = B
  OBVIOUS
 <2> QED BY <2>1, <1>8, Zenon
<1>15. LastBlock \notin {} \cup {}
 OBVIOUS
<1>16. Exact(g, 2, l, F, {}, {})
 <2> HIDE DEF F, l
 <2> QED BY <1>6, <1>9, <1>10, <1>11, <1>12, <1>13, <1>14, <1>15 DEF Exact
<1> QED BY <1>16 DEF Whole, g

--------------------
(* The inductive invariant and the theorems. *)

\* The offsets handed out in segment s.
InUse(blocks, s) == {b[2] : b \in {c \in blocks : c[1] = s}}

\* Every segment is made of free blocks and of the blocks handed out in it,
\* which have room for what was asked.
SegInv ==
    /\ seg \in [Segs -> Fields]
    /\ DOMAIN given \subseteq Segs \X Offsets
    /\ \A s \in Segs : \E F : Whole(seg[s], F, InUse(DOMAIN given, s))
    /\ \A b \in DOMAIN given : seg[b[1]].size[b[2]] >= RealSize(given[b])

\* Each process has a last segment and a place in apc_sma_malloc_ex.
CallInv ==
    /\ sma_lastseg \in [Procs -> Segs]
    /\ call \in [Procs -> Call]

\* The inductive invariant.
IInv == SegInv /\ CallInv

\* A segment has the fields of one, and its free blocks are at offsets.
LEMMA WholeIn ==
    ASSUME NEW g, NEW F, NEW U, Whole(g, F, U)
    PROVE  g \in Fields /\ F \subseteq Offsets
<1>1. PICK n, l : Exact(g, n, l, F, U, {})
 BY DEF Whole
<1>2. g \in Fields
 BY <1>1 DEF Exact
<1>3. FreeBlocks(g) = F /\ Blocks(g) = {LastBlock} \cup F \cup U
 BY WholeFacts
<1>4. F \subseteq FirstReal .. LastBlock
 BY <1>1 DEF Exact, Layout
<1> QED BY <1>2, <1>4, Consts

\* There is a first segment.
LEMMA SegsIn == 1 \in Segs /\ Segs \subseteq Nat
BY SizeAssumption DEF Segs

\* A block handed out is in use in its own segment only.
LEMMA InUseOf ==
    ASSUME NEW D, D \subseteq Segs \X Offsets, NEW b \in D, NEW s \in Segs
    PROVE  /\ b[1] \in Segs /\ b[2] \in Offsets /\ b[2] \in InUse(D, b[1])
           /\ \A c \in D : c[1] = b[1] /\ c[2] = b[2] => c = b
           /\ s # b[1] => InUse(D \ {b}, s) = InUse(D, s)
           /\ InUse(D \ {b}, b[1]) = InUse(D, b[1]) \ {b[2]}
<1>1. b[1] \in Segs /\ b[2] \in Offsets /\ b[2] \in InUse(D, b[1])
 BY DEF InUse
<1>2. \A c \in D : c[1] = b[1] /\ c[2] = b[2] => c = b
 OBVIOUS
<1>3. s # b[1] => InUse(D \ {b}, s) = InUse(D, s)
 BY DEF InUse
<1>4. InUse(D \ {b}, b[1]) = InUse(D, b[1]) \ {b[2]}
 BY <1>2 DEF InUse
<1> QED BY <1>1, <1>2, <1>3, <1>4

\* A block that comes back leaves other segments alone.
LEMMA InUseOther ==
    ASSUME NEW D, NEW b, NEW t, t # b[1], NEW E, E = D \ {b}
    PROVE  InUse(E, t) = InUse(D, t)
BY DEF InUse

\* A block handed out is in use in its segment.
LEMMA InUseAdd ==
    ASSUME NEW D, NEW t, NEW o, NEW s, NEW E,
           D \subseteq E, <<t, o>> \in E, \A c \in E : c \in D \/ c = <<t, o>>
    PROVE  InUse(E, s) = IF s = t THEN InUse(D, s) \cup {o} ELSE InUse(D, s)
<1>1. \A c \in E : c \in D \/ (c[1] = t /\ c[2] = o)
 OBVIOUS
<1>2. <<t, o>> \in E /\ <<t, o>>[1] = t /\ <<t, o>>[2] = o /\ D \subseteq E
 OBVIOUS
<1>3. CASE s = t
 <2>1. InUse(E, s) = InUse(D, s) \cup {o}
  BY <1>1, <1>2, <1>3 DEF InUse
 <2> QED BY <2>1, <1>3
<1>4. CASE s # t
 <2>1. InUse(E, s) = InUse(D, s)
  BY <1>1, <1>2, <1>4 DEF InUse
 <2> QED BY <2>1, <1>4
<1> QED BY <1>3, <1>4

\* The segments of apc_sma_init satisfy the invariant.
LEMMA InitInv == Init => IInv
<1> SUFFICES ASSUME Init PROVE IInv
 OBVIOUS
<1>1. DOMAIN given = {}
 BY DEF Init
<1>2. \A s \in Segs : InUse(DOMAIN given, s) = {}
 BY <1>1 DEF InUse
<1>3. \A s \in Segs : seg[s] = NewSegment
 BY DEF Init
<1>4. NewSegment \in Fields
 BY NewIs, WholeIn
<1>5. seg \in [Segs -> Fields]
 BY <1>4 DEF Init
<1>6. ASSUME NEW s \in Segs PROVE \E F : Whole(seg[s], F, InUse(DOMAIN given, s))
 <2>1. InUse(DOMAIN given, s) = {} /\ seg[s] = NewSegment
  BY <1>2, <1>3
 <2>2. Whole(seg[s], {FirstReal}, InUse(DOMAIN given, s))
  BY <2>1, NewIs, Zenon
 <2> QED BY <2>2
<1>7. SegInv
 BY <1>1, <1>5, <1>6 DEF SegInv
<1>8. CallInv
 <2>1. Idle \in Call
  BY DEF Idle, Call
 <2> QED BY <2>1, SegsIn DEF Init, CallInv
<1> QED BY <1>7, <1>8 DEF IInv

\* A block is freed.
LEMMA FreeStep ==
    ASSUME SegInv, NEW b \in DOMAIN given,
           seg' = [seg EXCEPT ![b[1]] = sma_deallocate(@, b[2])],
           given' = [c \in DOMAIN given \ {b} |-> given[c]]
    PROVE  SegInv'
<1> DEFINE s == b[1]
           U == InUse(DOMAIN given, s)
<1>1. /\ seg \in [Segs -> Fields] /\ DOMAIN given \subseteq Segs \X Offsets
      /\ \A t \in Segs : \E F : Whole(seg[t], F, InUse(DOMAIN given, t))
      /\ \A c \in DOMAIN given : seg[c[1]].size[c[2]] >= RealSize(given[c])
 BY DEF SegInv
<1>2. s \in Segs /\ b[2] \in U
 BY <1>1, InUseOf
<1>3. PICK F : Whole(seg[s], F, U)
 BY <1>1, <1>2
<1> DEFINE h == sma_deallocate(seg[s], b[2])
<1>4. /\ \E F2 : Whole(h, F2, U \ {b[2]})
      /\ \A o \in U \ {b[2]} : h.size[o] = seg[s].size[o]
 <2> HIDE DEF U, s
 <2> QED BY <1>2, <1>3, Deallocate
<1>5. seg' = [seg EXCEPT ![s] = h]
 OBVIOUS
<1> HIDE DEF h
<1>6. h \in Fields
 BY <1>4, WholeIn
<1>7. seg' \in [Segs -> Fields] /\ seg'[s] = h /\ \A t \in Segs \ {s} : seg'[t] = seg[t]
 BY <1>1, <1>2, <1>5, <1>6
<1>8. DOMAIN given' = DOMAIN given \ {b} /\ \A c \in DOMAIN given' : given'[c] = given[c]
 OBVIOUS
<1>9. ASSUME NEW t \in Segs PROVE \E F2 : Whole(seg'[t], F2, InUse(DOMAIN given', t))
 <2>1. CASE t = s
  <3>1. InUse(DOMAIN given', t) = U \ {b[2]}
   BY <1>1, <1>8, <2>1, InUseOf
  <3>2. seg'[t] = h
   BY <2>1, <1>7, Zenon
  <3>3. \E F2 : Whole(h, F2, U \ {b[2]})
   BY <1>4
  <3> HIDE DEF U
  <3> QED BY ONLY <3>1, <3>2, <3>3
 <2>2. CASE t # s
  <3>1. DOMAIN given' = DOMAIN given \ {b} /\ t # b[1]
   BY <1>8, <2>2
  <3>2. InUse(DOMAIN given', t) = InUse(DOMAIN given, t)
   BY ONLY <3>1, InUseOther
  <3> QED BY <3>2, <2>2, <1>1, <1>7
 <2> QED BY <2>1, <2>2
<1>10. ASSUME NEW c \in DOMAIN given' PROVE seg'[c[1]].size[c[2]] >= RealSize(given'[c])
 <2>1. c \in DOMAIN given /\ c # b /\ given'[c] = given[c] /\ c[1] \in Segs
  BY <1>1, <1>8, InUseOf
 <2>2. CASE c[1] = s
  <3>1. c[2] \in U /\ c[2] # b[2]
   <4>1. c[2] \in InUse(DOMAIN given, c[1])
    BY <2>1, <1>1, InUseOf
   <4>2. c[2] # b[2]
    BY <2>1, <2>2, <1>1, InUseOf
   <4> QED BY <4>1, <4>2, <2>2
  <3> QED BY <3>1, <2>1, <2>2, <1>1, <1>4, <1>7
 <2>3. CASE c[1] # s
  BY <2>1, <2>3, <1>1, <1>7
 <2> QED BY <2>2, <2>3
<1>11. DOMAIN given' \subseteq Segs \X Offsets
 BY <1>1, <1>8
<1> QED BY <1>7, <1>9, <1>10, <1>11 DEF SegInv

\* A block is taken.
LEMMA AllocateStep ==
    ASSUME SegInv, NEW s \in Segs, NEW m \in Nat, NEW cur, cur = Found(seg[s], m), cur # 0,
           seg' = [seg EXCEPT ![s] = sma_allocate(@, cur, m, MINBLOCKSIZE)],
           Give(s, cur, m)
    PROVE  SegInv'
<1> DEFINE U == InUse(DOMAIN given, s)
           h == sma_allocate(seg[s], cur, m, MINBLOCKSIZE)
           b == <<s, cur>>
<1>1. /\ seg \in [Segs -> Fields] /\ DOMAIN given \subseteq Segs \X Offsets
      /\ \A t \in Segs : \E F : Whole(seg[t], F, InUse(DOMAIN given, t))
      /\ \A c \in DOMAIN given : seg[c[1]].size[c[2]] >= RealSize(given[c])
 BY DEF SegInv
<1>2. PICK F : Whole(seg[s], F, U)
 BY <1>1
<1>3. PICK n, l : Exact(seg[s], n, l, F, U, {})
 BY <1>2 DEF Whole
<1>4. cur \in F /\ Takes(seg[s], h, cur, m, F, U)
 <2>1. MINBLOCKSIZE \in Nat
  BY Consts
 <2> HIDE DEF U
 <2> QED BY <1>3, <2>1, Allocate
<1>5. seg' = [seg EXCEPT ![s] = h]
 OBVIOUS
<1> HIDE DEF h
<1>6. /\ \E F2 : Whole(h, F2, U \cup {cur})
      /\ \A o \in U : h.size[o] = seg[s].size[o]
      /\ h.size[cur] >= RealSize(m)
 BY <1>4 DEF Takes, Whole
<1>7. h \in Fields /\ cur \in Offsets
 BY <1>2, <1>4, <1>6, WholeIn
<1>8. seg' \in [Segs -> Fields] /\ seg'[s] = h /\ \A t \in Segs \ {s} : seg'[t] = seg[t]
 BY <1>1, <1>5, <1>7
<1>9. /\ DOMAIN given' = DOMAIN given \cup {b} /\ given'[b] = m
      /\ \A c \in DOMAIN given \ {b} : given'[c] = given[c]
 BY DEF Give
<1>10. ASSUME NEW t \in Segs PROVE \E F2 : Whole(seg'[t], F2, InUse(DOMAIN given', t))
 <2>1. InUse(DOMAIN given', t) = IF t = s THEN InUse(DOMAIN given, t) \cup {cur} ELSE InUse(DOMAIN given, t)
  <3>1. /\ DOMAIN given \subseteq DOMAIN given' /\ <<s, cur>> \in DOMAIN given'
        /\ \A c \in DOMAIN given' : c \in DOMAIN given \/ c = <<s, cur>>
   BY <1>9
  <3> QED BY ONLY <3>1, InUseAdd
 <2>2. CASE t = s
  BY <2>1, <2>2, <1>6, <1>8
 <2>3. CASE t # s
  BY <2>1, <2>3, <1>1, <1>8
 <2> QED BY <2>2, <2>3
<1>11. ASSUME NEW c \in DOMAIN given' PROVE seg'[c[1]].size[c[2]] >= RealSize(given'[c])
 <2>1. CASE c = b
  BY <2>1, <1>6, <1>8, <1>9
 <2>2. CASE c # b
  <3>1. c \in DOMAIN given /\ given'[c] = given[c]
   BY <2>2, <1>9
  <3>2. c[1] \in Segs /\ c[2] \in InUse(DOMAIN given, c[1])
   BY <3>1, <1>1, InUseOf
  <3>3. CASE c[1] = s
   BY <3>1, <3>2, <3>3, <1>1, <1>6, <1>8
  <3>4. CASE c[1] # s
   BY <3>1, <3>2, <3>4, <1>1, <1>8
  <3> QED BY <3>3, <3>4
 <2> QED BY <2>1, <2>2
<1>12. DOMAIN given' \subseteq Segs \X Offsets
 BY <1>1, <1>7, <1>9
<1> QED BY <1>8, <1>10, <1>11, <1>12 DEF SegInv

\* Every step of every process keeps the invariant.
LEMMA StepInv == IInv /\ [Next]_vars => IInv'
<1> SUFFICES ASSUME SegInv, CallInv, [Next]_vars PROVE SegInv' /\ CallInv'
 BY DEF IInv
<1>0. /\ sma_lastseg \in [Procs -> Segs] /\ call \in [Procs -> Call]
 BY DEF CallInv
<1>1. ASSUME UNCHANGED <<seg, given>> PROVE SegInv'
 BY <1>1 DEF SegInv
<1>2. ASSUME NEW p \in Procs, NEW c \in Call, call' = [call EXCEPT ![p] = c],
             UNCHANGED sma_lastseg
      PROVE  CallInv'
 BY <1>0, <1>2 DEF CallInv
<1>3. ASSUME NEW p \in Procs
      PROVE  /\ call[p] \in Call /\ call[p].n \in Nat /\ call[p].i \in {0} \cup Segs
             /\ call[p].cache \in BOOLEAN /\ call[p].nuked \in BOOLEAN
             /\ Tried(p) \in Segs
 <2>1. call[p] \in Call /\ sma_lastseg[p] \in Segs
  BY <1>0
 <2> QED BY <2>1 DEF Call, Tried
<1>4. CASE UNCHANGED vars
 BY <1>4, <1>0, <1>1 DEF vars, CallInv
<1>5. ASSUME NEW p \in Procs, NEW n \in Requests, NEW cache \in BOOLEAN, apc_sma_malloc(p, n, cache)
      PROVE  SegInv' /\ CallInv'
 <2>1. n \in Nat
  BY SizeAssumption
 <2>2. [at |-> "try", n |-> n, i |-> 0, cache |-> cache, nuked |-> FALSE] \in Call
  BY <2>1 DEF Call
 <2> QED BY <2>2, <1>1, <1>2, <1>5 DEF apc_sma_malloc
<1>6. ASSUME NEW p \in Procs, Allocated(p)
      PROVE  SegInv' /\ CallInv'
 <2>1. SegInv'
  <3>1. Tried(p) \in Segs /\ call[p].n \in Nat
   BY <1>3
  <3> QED BY <3>1, <1>6, AllocateStep DEF Allocated
 <2>2. Idle \in Call /\ Tried(p) \in Segs
  BY <1>3 DEF Idle, Call
 <2> QED BY <2>1, <2>2, <1>0, <1>6 DEF Allocated, CallInv
<1>7. ASSUME NEW p \in Procs, GoExpunge(p)
      PROVE  SegInv' /\ CallInv'
 <2>1. [call[p] EXCEPT !.at = "expunge"] \in Call
  BY <1>3 DEF Call
 <2>2. call' = [call EXCEPT ![p] = [call[p] EXCEPT !.at = "expunge"]]
  BY <1>7 DEF GoExpunge
 <2> QED BY <2>1, <2>2, <1>1, <1>2, <1>7 DEF GoExpunge
<1>8. ASSUME NEW p \in Procs, GoOn(p)
      PROVE  SegInv' /\ CallInv'
 <2> DEFINE a == IF NextSeg(p) \in Segs THEN "try" ELSE IF call[p].nuked THEN "fail" ELSE "nuke"
            i == IF NextSeg(p) \in Segs THEN NextSeg(p) ELSE 0
 <2>1. a \in {"idle", "try", "retry", "expunge", "nuke", "fail"} /\ i \in {0} \cup Segs
  OBVIOUS
 <2>2. call' = [call EXCEPT ![p] = [call[p] EXCEPT !.at = a, !.i = i]]
  BY <1>0, <1>8 DEF GoOn
 <2> HIDE DEF a, i
 <2>3. [call[p] EXCEPT !.at = a, !.i = i] \in Call
  BY <2>1, <1>3 DEF Call
 <2> QED BY <2>2, <2>3, <1>1, <1>2, <1>8 DEF GoOn
<1>9. ASSUME NEW p \in Procs, Expunged(p)
      PROVE  SegInv' /\ CallInv'
 <2> DEFINE a == IF call[p].at = "expunge" THEN "retry" ELSE "try"
            k == call[p].nuked \/ call[p].at = "nuke"
 <2>1. a \in {"idle", "try", "retry", "expunge", "nuke", "fail"} /\ k \in BOOLEAN
  OBVIOUS
 <2>2. call' = [call EXCEPT ![p] = [call[p] EXCEPT !.at = a, !.nuked = k]]
  BY <1>0, <1>9, Zenon DEF Expunged
 <2> HIDE DEF a, k
 <2>3. [call[p] EXCEPT !.at = a, !.nuked = k] \in Call
  BY <2>1, <1>3 DEF Call
 <2> QED BY <2>2, <2>3, <1>1, <1>2, <1>9 DEF Expunged
<1>10. ASSUME NEW p \in Procs, ReturnNull(p)
       PROVE  SegInv' /\ CallInv'
 <2>1. Idle \in Call
  BY DEF Idle, Call
 <2> QED BY <2>1, <1>1, <1>2, <1>10 DEF ReturnNull
<1>11. ASSUME NEW p \in Procs, NEW b \in DOMAIN given, ExpungeFrees(p, b)
       PROVE  SegInv' /\ CallInv'
 BY <1>0, <1>11, FreeStep DEF ExpungeFrees, CallInv
<1>12. ASSUME NEW p \in Procs, NEW b \in DOMAIN given, apc_sma_free(p, b)
       PROVE  SegInv' /\ CallInv'
 BY <1>0, <1>12, FreeStep DEF apc_sma_free, CallInv
<1> QED BY <1>4, <1>5, <1>6, <1>7, <1>8, <1>9, <1>10, <1>11, <1>12 DEF Next

\* The invariant holds in every reachable state.
LEMMA AlwaysInv == Spec => []IInv
<1> QED BY InitInv, StepInv, PTL DEF Spec

\* The invariant gives the types.
LEMMA InvTypes == IInv => TypeOK
<1> SUFFICES ASSUME IInv PROVE TypeOK
 OBVIOUS
<1>1. \A s \in Segs : seg[s] \in Segment
 BY WholeFacts DEF IInv, SegInv
<1> QED BY <1>1 DEF IInv, SegInv, CallInv, TypeOK

\* The invariant gives what the runs check of each segment.
LEMMA InvExact == IInv => SegmentExact /\ Coalesced
<1> SUFFICES ASSUME SegInv, NEW s \in Segs
             PROVE  /\ LET g      == seg[s]
                           free   == FreeBlocks(g)
                           used   == {b[2] : b \in {c \in DOMAIN given : c[1] = s}}
                           blocks == Blocks(g)
                       IN  /\ LastBlock \in blocks
                           /\ free \cap used = {}
                           /\ blocks = {LastBlock} \cup free \cup used
                           /\ \A b \in DOMAIN given :
                                 b[1] = s => g.size[b[2]] >= RealSize(given[b])
                    /\ LET g    == seg[s]
                           list == FreeList(g)
                       IN  /\ list # <<>> /\ list[Len(list)] = LastBlock
                           /\ \A i \in DOMAIN list :
                                 g.fprev[list[i]] = IF i = 1 THEN FirstBlock ELSE list[i - 1]
                           /\ Cardinality(Elements(list)) = Len(list)
                    /\ seg[s].avail = FreeWords(seg[s]) + BlockSize
                    /\ LET g    == seg[s]
                           free == FreeBlocks(g)
                       IN  \A o \in Blocks(g) \ {LastBlock} :
                              /\ g.prev_size[NextSBlock(g, o)] = IF o \in free THEN g.size[o] ELSE 0
                              /\ ~({o, NextSBlock(g, o)} \subseteq free)
 BY DEF IInv, SegmentExact, BlocksExact, FreeListExact, AvailCounts, Coalesced
<1> DEFINE g == seg[s]
           U == {b[2] : b \in {c \in DOMAIN given : c[1] = s}}
<1>1. PICK F : Whole(g, F, U)
 BY DEF SegInv, InUse
<1>2. /\ FreeBlocks(g) = F /\ F \cap U = {}
      /\ Blocks(g) = {LastBlock} \cup F \cup U /\ LastBlock \notin F \cup U
      /\ g.avail = FreeWords(g) + BlockSize
 <2> HIDE DEF g, U
 <2> QED BY <1>1, WholeFacts
<1>3. LET list == FreeList(g)
      IN  /\ list # <<>> /\ list[Len(list)] = LastBlock
          /\ \A i \in DOMAIN list :
                g.fprev[list[i]] = IF i = 1 THEN FirstBlock ELSE list[i - 1]
          /\ Cardinality(Elements(list)) = Len(list)
 <2> HIDE DEF g, U
 <2> QED BY <1>1, WholeList
<1>4. \A b \in DOMAIN given : b[1] = s => g.size[b[2]] >= RealSize(given[b])
 BY DEF SegInv
<1>5. ASSUME NEW o \in Blocks(g) \ {LastBlock}
      PROVE  /\ g.prev_size[NextSBlock(g, o)] = IF o \in F THEN g.size[o] ELSE 0
             /\ ~({o, NextSBlock(g, o)} \subseteq F)
 <2>1. o \in F \cup U
  BY <1>2, <1>5
 <2>2. /\ g.prev_size[o + g.size[o]] = IF o \in F THEN g.size[o] ELSE 0
       /\ o \in F => o + g.size[o] \notin F
  <3> HIDE DEF g, U
  <3> QED BY <2>1, <1>1, WholeTags
 <2> QED BY <2>2 DEF NextSBlock
<1> HIDE DEF g, U
<1> QED BY <1>2, <1>3, <1>4, <1>5 DEF g, U

\* Fields stay in range in every number of segments of every size, for every
\* number of processes (apc_sma.c:180-331).
THEOREM TypeCorrect == Spec => []TypeOK
<1> QED BY AlwaysInv, InvTypes, PTL

\* After every sequence of allocations and releases, with splitting and
\* coalescing, the blocks fill the segment, each is free or handed out, the free
\* list is whole and avail counts it (apc_sma.c:180-331).
THEOREM SegmentCorrect == Spec => []SegmentExact
<1> QED BY AlwaysInv, InvExact, PTL

\* Two free blocks are never neighbours, and a block knows the size of the one
\* before it exactly while that one is free (apc_sma.c:296-320).
THEOREM CoalescedCorrect == Spec => []Coalesced
<1> QED BY AlwaysInv, InvExact, PTL
=============================================================================
