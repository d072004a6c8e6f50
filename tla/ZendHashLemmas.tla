------------------------ MODULE ZendHashLemmas -------------------------------
(***************************************************************************)
(* What the operators of ZendHash do to one table.                         *)
(*                                                                         *)
(* A list is a sequence s of buckets whose pointers link it (Links);       *)
(* linking one more, taking one out, putting one in another's place and    *)
(* turning a list round are facts about Links alone.  A table in order     *)
(* (Table) has its elements on such a list and each on the chain of its    *)
(* slot.  The recursive functions Walk, zend_hash_rehash and Copy are      *)
(* reasoned about by induction over a set of numbers (NatSet).  State adds *)
(* the functions under way: the buckets allocated are those listed and     *)
(* those a function has still to free.                                     *)
(***************************************************************************)
EXTENDS ZendHash, TLAPS, SequenceTheorems, NaturalsInduction,
        WellFoundedInduction, FiniteSetTheorems

--------------------
(* Doubly linked lists. *)

\* The i-th of s, and NULL before the first and after the last.
Nth(s, i) == IF i \in 1 .. Len(s) THEN s[i] ELSE NULL

\* The pointers f and b link the buckets s, forwards and backwards.
Links(f, b, s) ==
    /\ s \in Seq(Addr)
    /\ \A i, j \in 1 .. Len(s) : s[i] = s[j] => i = j
    /\ \A i \in 1 .. Len(s) : f[s[i]] = Nth(s, i + 1) /\ b[s[i]] = Nth(s, i - 1)

\* A set of natural numbers with 0 and each successor has them all.
LEMMA NatSet ==
    ASSUME NEW G, 0 \in G, \A n \in Nat : n \in G => n + 1 \in G
    PROVE  Nat \subseteq G
<1> DEFINE Bad == {n \in Nat : n \notin G}
<1>1. SUFFICES ASSUME Bad # {} PROVE FALSE
 BY <1>1
<1>2. PICK m \in Bad : \A n \in Bad : ~(<<n, m>> \in OpToRel(<, Nat))
 <2>1. Bad \in SUBSET Nat
  OBVIOUS
 <2> HIDE DEF Bad
 <2> QED BY <1>1, <2>1, WFMin, NatLessThanWellFounded, Zenon
<1>3. m # 0 /\ m \in Nat /\ m \notin G
 BY <1>2
<1>4. m - 1 \in Nat /\ (m - 1) + 1 = m /\ m - 1 < m
 BY <1>3
<1>5. m - 1 \in Bad
 BY <1>3, <1>4
<1>6. <<m - 1, m>> \in OpToRel(<, Nat)
 BY <1>3, <1>4 DEF OpToRel
<1> QED BY <1>2, <1>5, <1>6

\* What the type of a sequence says of its places and members.
LEMMA SeqFacts ==
    ASSUME NEW T, NEW s \in Seq(T)
    PROVE  /\ Len(s) \in Nat /\ DOMAIN s = 1 .. Len(s)
           /\ \A i \in 1 .. Len(s) : s[i] \in T
           /\ ToSet(s) = {s[i] : i \in 1 .. Len(s)}
           /\ ToSet(s) \subseteq T
<1>1. Len(s) \in Nat /\ DOMAIN s = 1 .. Len(s) /\ \A i \in 1 .. Len(s) : s[i] \in T
 OBVIOUS
<1>2. ToSet(s) = {s[i] : i \in 1 .. Len(s)}
 BY <1>1 DEF ToSet
<1> QED BY <1>1, <1>2

\* The members of a list, by place.
LEMMA PlaceOf ==
    ASSUME NEW T, NEW s \in Seq(T), NEW p
    PROVE  p \in ToSet(s) <=> \E i \in 1 .. Len(s) : s[i] = p
BY SeqFacts

\* Nth is a member of the list, or NULL outside it.
LEMMA NthFacts ==
    ASSUME NEW s \in Seq(Addr), NEW i \in Int
    PROVE  /\ Nth(s, i) \in Ptr
           /\ i \in 1 .. Len(s) => Nth(s, i) = s[i] /\ Nth(s, i) # NULL /\ Nth(s, i) \in ToSet(s)
           /\ i \notin 1 .. Len(s) => Nth(s, i) = NULL
<1>1. Len(s) \in Nat /\ \A j \in 1 .. Len(s) : s[j] \in Addr /\ s[j] \in ToSet(s)
 BY SeqFacts
<1> QED BY <1>1, AddrAssumption DEF Nth, Ptr

\* The pointers of the members, with the type of a list.
LEMMA LinksFacts ==
    ASSUME NEW f, NEW b, NEW s, Links(f, b, s)
    PROVE  /\ s \in Seq(Addr) /\ Len(s) \in Nat
           /\ \A i \in 1 .. Len(s) : s[i] \in Addr /\ s[i] # NULL
           /\ \A i, j \in 1 .. Len(s) : s[i] = s[j] => i = j
           /\ \A i \in 1 .. Len(s) : f[s[i]] = Nth(s, i + 1) /\ b[s[i]] = Nth(s, i - 1)
           /\ ToSet(s) \subseteq Addr /\ NULL \notin ToSet(s)
<1>1. s \in Seq(Addr) /\ (\A i, j \in 1 .. Len(s) : s[i] = s[j] => i = j)
      /\ (\A i \in 1 .. Len(s) : f[s[i]] = Nth(s, i + 1) /\ b[s[i]] = Nth(s, i - 1))
 BY DEF Links
<1>2. Len(s) \in Nat /\ ToSet(s) \subseteq Addr /\ \A i \in 1 .. Len(s) : s[i] \in Addr
 BY <1>1, SeqFacts
<1> QED BY <1>1, <1>2, AddrAssumption

\* Any pointers link no buckets.
LEMMA LinksEmpty ==
    ASSUME NEW f, NEW b
    PROVE  Links(f, b, <<>>) /\ ToSet(<<>>) = {} /\ Len(<<>>) = 0 /\ \A i \in Int : Nth(<<>>, i) = NULL
<1>1. <<>> \in Seq(Addr) /\ Len(<<>>) = 0
 OBVIOUS
<1>2. ToSet(<<>>) = {}
 BY DEF ToSet
<1> QED BY <1>1, <1>2 DEF Links, Nth

\* Only the pointers of the members matter.
LEMMA LinksSame ==
    ASSUME NEW f, NEW b, NEW s, Links(f, b, s), NEW f2, NEW b2,
           \A p \in ToSet(s) : f2[p] = f[p] /\ b2[p] = b[p]
    PROVE  Links(f2, b2, s)
<1>1. s \in Seq(Addr) /\ \A i \in 1 .. Len(s) : s[i] \in ToSet(s)
 BY SeqFacts DEF Links
<1> QED BY <1>1 DEF Links

\* A list has no more members than there are addresses.
LEMMA LinksLen ==
    ASSUME NEW f, NEW b, NEW s, Links(f, b, s)
    PROVE  Len(s) < Length /\ Length \in Nat
<1>1. /\ IsFiniteSet(Addr) /\ Cardinality(Addr) \in Nat
 BY AddrAssumption, FS_CardinalityType
<1>2. /\ Len(s) \in Nat /\ s \in [1 .. Len(s) -> Addr]
      /\ \A i, j \in 1 .. Len(s) : s[i] = s[j] => i = j
 BY LinksFacts, LenProperties
<1>3. IsFiniteSet(1 .. Len(s)) /\ Cardinality(1 .. Len(s)) = Len(s)
 <2>1. 1 \in Int /\ Len(s) \in Int /\ (1 > Len(s) => Len(s) = 0)
  BY <1>2
 <2>2. IsFiniteSet(1 .. Len(s)) /\ Cardinality(1 .. Len(s)) = IF 1 > Len(s) THEN 0 ELSE Len(s) - 1 + 1
  BY <2>1, FS_Interval
 <2> QED BY <2>1, <2>2
<1>4. ~(Cardinality(Addr) < Cardinality(1 .. Len(s)))
 <2> SUFFICES ASSUME Cardinality(Addr) < Cardinality(1 .. Len(s)) PROVE FALSE
  OBVIOUS
 <2>1. \E x, y \in 1 .. Len(s) : x # y /\ s[x] = s[y]
  BY <1>1, <1>2, <1>3, FS_PigeonHole, Zenon
 <2> QED BY <2>1, <1>2
<1> QED BY <1>1, <1>2, <1>3, <1>4 DEF Length

--------------------
(* Walking along a list. *)

\* c gives at most i of the buckets from q along g.
Walks(c, g, n) ==
    c = [i \in 0 .. n |-> [q \in Ptr |->
            IF i = 0 \/ q = NULL THEN <<>> ELSE <<q>> \o c[i - 1][g[q]]]]

\* The definition of c, at one place.
LEMMA WalksFacts ==
    ASSUME NEW c, NEW g, NEW n \in Nat, Walks(c, g, n), NEW i \in 0 .. n, NEW q \in Ptr
    PROVE  c[i][q] = IF i = 0 \/ q = NULL THEN <<>> ELSE <<q>> \o c[i - 1][g[q]]
<1>1. c[i] = [r \in Ptr |->
            IF i = 0 \/ r = NULL THEN <<>> ELSE <<r>> \o c[i - 1][g[r]]]
 BY Zenon DEF Walks
<1> QED BY <1>1, Zenon

\* There is such a function, for any pointers.
LEMMA WalksExists ==
    ASSUME NEW g, NEW n \in Nat
    PROVE  \E c : Walks(c, g, n)
<1> DEFINE G == {k \in Nat : \E c : Walks(c, g, k)}
<1>1. 0 \in G
 <2> DEFINE c == [i \in 0 .. 0 |-> [q \in Ptr |-> <<>>]]
 <2>1. c = [i \in 0 .. 0 |-> [q \in Ptr |->
             IF i = 0 \/ q = NULL THEN <<>> ELSE <<q>> \o c[i - 1][g[q]]]]
  <3>1. \A i \in 0 .. 0 : i = 0
   OBVIOUS
  <3> QED BY <3>1, Zenon
 <2>2. Walks(c, g, 0)
  <3> HIDE DEF c
  <3> QED BY <2>1 DEF Walks
 <2> HIDE DEF c
 <2> QED BY <2>2
<1>2. ASSUME NEW k \in Nat, k \in G PROVE k + 1 \in G
 <2>1. PICK c : Walks(c, g, k)
  BY <1>2
 <2> DEFINE Top1 == [q \in Ptr |-> IF q = NULL THEN <<>> ELSE <<q>> \o c[k][g[q]]]
            d == [i \in 0 .. k + 1 |-> IF i = k + 1 THEN Top1 ELSE c[i]]
 <2>2. ASSUME NEW i \in 0 .. k + 1
       PROVE  d[i] = [q \in Ptr |-> IF i = 0 \/ q = NULL THEN <<>> ELSE <<q>> \o d[i - 1][g[q]]]
  <3>1. CASE i = k + 1
   <4>1. k \in 0 .. k + 1 /\ i # 0 /\ i - 1 = k /\ k # k + 1
    BY <3>1
   <4>2. d[k] = c[k] /\ d[i] = Top1
    BY <4>1, <3>1
   <4>3. d[i - 1] = c[k]
    BY <4>1, <4>2
   <4> HIDE DEF d
   <4> QED BY <4>1, <4>2, <4>3, Zenon
  <3>2. CASE i # k + 1
   <4>1. i \in 0 .. k /\ d[i] = c[i]
    BY <3>2
   <4>2. c[i] = [q \in Ptr |-> IF i = 0 \/ q = NULL THEN <<>> ELSE <<q>> \o c[i - 1][g[q]]]
    BY <2>1, <4>1, Zenon DEF Walks
   <4>3. CASE i = 0
    <5> HIDE DEF d
    <5> QED BY <4>1, <4>2, <4>3, Zenon
   <4>4. CASE i # 0
    <5>1. i - 1 \in 0 .. k + 1 /\ i - 1 # k + 1
     BY <4>4, <4>1
    <5>2. d[i - 1] = c[i - 1]
     BY <5>1
    <5> HIDE DEF d
    <5> QED BY <4>1, <4>2, <4>4, <5>2, Zenon
   <4> QED BY <4>3, <4>4
  <3> QED BY <3>1, <3>2
 <2>3. Walks(d, g, k + 1)
  <3> d = [i \in 0 .. k + 1 |-> d[i]]
   OBVIOUS
  <3> HIDE DEF d
  <3> QED BY <2>2, Zenon DEF Walks
 <2> HIDE DEF d
 <2> QED BY <2>3
<1>3. Nat \subseteq G
 <2> HIDE DEF G
 <2> QED BY <1>1, <1>2, NatSet
<1> QED BY <1>3

\* Walking from the first of a list to its end gives the list.
LEMMA WalkIs ==
    ASSUME NEW t, NEW f, NEW b, NEW s, Links(t[f], b, s)
    PROVE  Walk(t, f, Nth(s, 1), Length) = s
<1> DEFINE g == t[f]
           c == CHOOSE x : Walks(x, g, Length)
           n == Len(s)
<1>1. Length \in Nat /\ n < Length /\ n \in Nat /\ s \in Seq(Addr)
 BY LinksLen, LinksFacts
<1>2. Walks(c, g, Length)
 BY <1>1, WalksExists, Zenon
<1>3. Walk(t, f, Nth(s, 1), Length) = c[Length][Nth(s, 1)]
 BY Zenon DEF Walk, Walks
<1>4. /\ \A i \in 1 .. n : s[i] \in Addr /\ s[i] # NULL
      /\ \A i \in 1 .. n : g[s[i]] = Nth(s, i + 1)
 BY LinksFacts
<1> HIDE DEF c, g
<1> DEFINE G == {k \in Nat : k <= Length => \A j \in 1 .. n + 1 :
                   k >= n - j + 1 => c[k][Nth(s, j)] = SubSeq(s, j, n)}
<1>5. 0 \in G
 <2> SUFFICES ASSUME NEW j \in 1 .. n + 1, 0 >= n - j + 1
              PROVE  c[0][Nth(s, j)] = SubSeq(s, j, n)
  OBVIOUS
 <2>1. j = n + 1 /\ Nth(s, j) = NULL /\ NULL \in Ptr /\ 0 \in 0 .. Length
  BY <1>1 DEF Nth, Ptr
 <2>2. c[0][NULL] = <<>>
  BY <2>1, <1>1, <1>2, WalksFacts
 <2>3. SubSeq(s, j, n) = <<>>
  BY <2>1, <1>1, SubSeqEmpty
 <2> QED BY <2>1, <2>2, <2>3
<1>6. ASSUME NEW k \in Nat, k \in G PROVE k + 1 \in G
 <2> SUFFICES ASSUME k + 1 <= Length, NEW j \in 1 .. n + 1, k + 1 >= n - j + 1
              PROVE  c[k + 1][Nth(s, j)] = SubSeq(s, j, n)
  OBVIOUS
 <2>1. k + 1 \in 0 .. Length /\ k + 1 # 0 /\ (k + 1) - 1 = k /\ k <= Length
  BY <1>1
 <2>2. CASE j = n + 1
  <3>1. Nth(s, j) = NULL /\ NULL \in Ptr
   BY <2>2, <1>1 DEF Nth, Ptr
  <3>2. c[k + 1][NULL] = <<>>
   BY <3>1, <2>1, <1>1, <1>2, WalksFacts
  <3>3. SubSeq(s, j, n) = <<>>
   BY <2>2, <1>1, SubSeqEmpty
  <3> QED BY <3>1, <3>2, <3>3
 <2>3. CASE j # n + 1
  <3>1. j \in 1 .. n /\ j + 1 \in 1 .. n + 1 /\ k >= n - (j + 1) + 1
   BY <2>3, <1>1
  <3>2. Nth(s, j) = s[j] /\ s[j] \in Ptr /\ s[j] # NULL /\ g[s[j]] = Nth(s, j + 1)
   BY <3>1, <1>4 DEF Nth, Ptr
  <3>3. c[k + 1][s[j]] = <<s[j]>> \o c[k][Nth(s, j + 1)]
   <4>1. c[k + 1][s[j]] = IF k + 1 = 0 \/ s[j] = NULL THEN <<>> ELSE <<s[j]>> \o c[(k + 1) - 1][g[s[j]]]
    BY <3>2, <2>1, <1>1, <1>2, WalksFacts
   <4> QED BY <4>1, <3>2, <2>1
  <3>4. c[k][Nth(s, j + 1)] = SubSeq(s, j + 1, n)
   BY <3>1, <2>1, <1>6
  <3>5. SubSeq(s, j, n) = <<s[j]>> \o SubSeq(s, j + 1, n)
   <4>1. n \in j .. Len(s) /\ j \in 1 .. Len(s)
    BY <3>1, <1>1
   <4> HIDE DEF n
   <4> QED BY <4>1, <1>1, SubSeqRecursiveFirst
  <3> QED BY <3>2, <3>3, <3>4, <3>5
 <2> QED BY <2>2, <2>3
<1>7. Length \in G
 <2> HIDE DEF G
 <2> QED BY <1>1, <1>5, <1>6, NatSet
<1>8. c[Length][Nth(s, 1)] = SubSeq(s, 1, n)
 BY <1>1, <1>7
<1>9. SubSeq(s, 1, n) = s
 BY <1>1, SubSeqFull
<1> QED BY <1>3, <1>8, <1>9

--------------------
(* Lists that change. *)

\* The pointers once p is linked to the last of s.
LinkLast(f, b, s, p, last, f2, b2) ==
    /\ Links(f, b, s) /\ p \in Addr /\ p \notin ToSet(s) /\ last = Nth(s, Len(s))
    /\ f2[p] = NULL /\ b2[p] = last /\ (last # NULL => f2[last] = p)
    /\ \A q \in ToSet(s) : b2[q] = b[q] /\ (q # last => f2[q] = f[q])

\* One more at the end.
LEMMA LinksAppend ==
    ASSUME NEW f, NEW b, NEW s, NEW p, NEW last, NEW f2, NEW b2, LinkLast(f, b, s, p, last, f2, b2)
    PROVE  /\ Links(f2, b2, Append(s, p))
           /\ Len(Append(s, p)) = Len(s) + 1
           /\ ToSet(Append(s, p)) = ToSet(s) \cup {p}
           /\ Nth(Append(s, p), Len(s) + 1) = p
           /\ Nth(Append(s, p), 1) = IF last = NULL THEN p ELSE Nth(s, 1)
           /\ last = NULL <=> s = <<>>
<1>0. /\ Links(f, b, s) /\ p \in Addr /\ p \notin ToSet(s) /\ last = Nth(s, Len(s))
      /\ f2[p] = NULL /\ b2[p] = last /\ (last # NULL => f2[last] = p)
      /\ \A q \in ToSet(s) : b2[q] = b[q] /\ (q # last => f2[q] = f[q])
 BY DEF LinkLast
<1> USE <1>0
<1> DEFINE t == Append(s, p)
           n == Len(s)
<1>1. /\ s \in Seq(Addr) /\ n \in Nat /\ \A i \in 1 .. n : s[i] \in Addr /\ s[i] # NULL /\ s[i] \in ToSet(s)
      /\ \A i, j \in 1 .. n : s[i] = s[j] => i = j
      /\ \A i \in 1 .. n : f[s[i]] = Nth(s, i + 1) /\ b[s[i]] = Nth(s, i - 1)
 BY LinksFacts, PlaceOf
<1>2. /\ t \in Seq(Addr) /\ Len(t) = n + 1 /\ t[n + 1] = p /\ \A i \in 1 .. n : t[i] = s[i]
 BY <1>1
<1>3. ToSet(t) = ToSet(s) \cup {p}
 <2>1. \A i \in 1 .. n + 1 : i \in 1 .. n \/ i = n + 1
  BY <1>1
 <2>2. \A i \in 1 .. n : i \in 1 .. n + 1
  BY <1>1
 <2>3. n + 1 \in 1 .. n + 1
  BY <1>1
 <2>4. ToSet(t) = {t[i] : i \in 1 .. n + 1} /\ ToSet(s) = {s[i] : i \in 1 .. n}
  <3>1. ToSet(s) = {s[i] : i \in 1 .. n}
   BY <1>1, SeqFacts
  <3>2. ToSet(t) = {t[i] : i \in 1 .. n + 1}
   <4> HIDE DEF t
   <4>1. ToSet(t) = {t[i] : i \in 1 .. Len(t)}
    BY <1>2, SeqFacts
   <4> QED BY <4>1, <1>2
  <3> QED BY <3>1, <3>2
 <2> HIDE DEF t, n
 <2> QED BY <2>1, <2>2, <2>3, <2>4, <1>2
<1>4. s = <<>> <=> n = 0
 BY <1>1
<1>5. last = IF n = 0 THEN NULL ELSE s[n]
 BY <1>1 DEF Nth
<1> HIDE DEF t
<1>6. \A i, j \in 1 .. n + 1 : t[i] = t[j] => i = j
 <2> SUFFICES ASSUME NEW i \in 1 .. n + 1, NEW j \in 1 .. n + 1, t[i] = t[j] PROVE i = j
  OBVIOUS
 <2>1. (i \in 1 .. n \/ i = n + 1) /\ (j \in 1 .. n \/ j = n + 1)
  BY <1>1
 <2> QED BY <2>1, <1>1, <1>2
<1>7. ASSUME NEW i \in 1 .. n + 1 PROVE f2[t[i]] = Nth(t, i + 1) /\ b2[t[i]] = Nth(t, i - 1)
 <2>1. CASE i = n + 1
  <3>1. i + 1 \notin 1 .. Len(t) /\ Nth(t, i + 1) = NULL
   BY <2>1, <1>1, <1>2 DEF Nth
  <3>2. Nth(t, i - 1) = last
   BY <2>1, <1>1, <1>2, <1>5 DEF Nth
  <3> QED BY <3>1, <3>2, <2>1, <1>2
 <2>2. CASE i = n
  <3>1. i \in 1 .. n /\ t[i] = s[i] /\ s[i] = last /\ last # NULL
   BY <2>2, <1>1, <1>2, <1>5
  <3>2. Nth(t, i + 1) = p
   BY <2>2, <1>1, <1>2 DEF Nth
  <3>3. Nth(t, i - 1) = Nth(s, i - 1)
   <4>1. i - 1 \in Int /\ (i - 1 \in 1 .. n <=> i - 1 \in 1 .. Len(t)) /\ Len(s) = n
    BY <2>2, <1>1, <1>2
   <4> HIDE DEF n
   <4> QED BY <4>1, <1>2 DEF Nth
  <3>4. b2[s[i]] = Nth(s, i - 1)
   BY <3>1, <1>1
  <3> QED BY <3>1, <3>2, <3>3, <3>4
 <2>3. CASE i < n
  <3>1. i \in 1 .. n /\ n \in 1 .. n /\ t[i] = s[i] /\ last = s[n] /\ s[i] # last
   BY <2>3, <1>1, <1>2, <1>5
  <3>2. Nth(t, i + 1) = Nth(s, i + 1)
   BY <2>3, <1>1, <1>2 DEF Nth
  <3>3. Nth(t, i - 1) = Nth(s, i - 1)
   <4>1. i - 1 \in Int /\ (i - 1 \in 1 .. n <=> i - 1 \in 1 .. Len(t)) /\ Len(s) = n
    BY <2>3, <1>1, <1>2
   <4> HIDE DEF n
   <4> QED BY <4>1, <1>2 DEF Nth
  <3>4. b2[s[i]] = Nth(s, i - 1) /\ f2[s[i]] = Nth(s, i + 1)
   BY <3>1, <1>1
  <3> QED BY <3>1, <3>2, <3>3, <3>4
 <2> QED BY <2>1, <2>2, <2>3, <1>1
<1>8. Links(f2, b2, t)
 BY <1>2, <1>6, <1>7 DEF Links
<1>9. Nth(t, n + 1) = p /\ Nth(t, 1) = IF last = NULL THEN p ELSE Nth(s, 1)
 BY <1>1, <1>2, <1>5 DEF Nth
<1> QED BY <1>1, <1>2, <1>3, <1>4, <1>5, <1>8, <1>9 DEF t

\* s without its k-th.
Without(s, k) == [i \in 1 .. Len(s) - 1 |-> IF i < k THEN s[i] ELSE s[i + 1]]

\* The members of s without its k-th.
LEMMA WithoutFacts ==
    ASSUME NEW T, NEW s \in Seq(T), NEW k \in 1 .. Len(s), \A i, j \in 1 .. Len(s) : s[i] = s[j] => i = j
    PROVE  /\ Without(s, k) \in Seq(T)
           /\ Len(Without(s, k)) = Len(s) - 1
           /\ \A i \in 1 .. Len(s) - 1 : Without(s, k)[i] = IF i < k THEN s[i] ELSE s[i + 1]
           /\ \A i, j \in 1 .. Len(s) - 1 : Without(s, k)[i] = Without(s, k)[j] => i = j
           /\ ToSet(Without(s, k)) = ToSet(s) \ {s[k]}
<1> DEFINE n == Len(s)
           w == Without(s, k)
<1>1. n \in Nat /\ n > 0 /\ k \in 1 .. n /\ \A i \in 1 .. n : s[i] \in T
 BY SeqFacts
<1>2. \A i \in 1 .. n - 1 : i \in 1 .. n /\ i + 1 \in 1 .. n
 BY <1>1
<1>3. w = [i \in 1 .. n - 1 |-> IF i < k THEN s[i] ELSE s[i + 1]]
 BY DEF Without
<1>4. \A i \in 1 .. n - 1 : w[i] = (IF i < k THEN s[i] ELSE s[i + 1]) /\ w[i] \in T
 <2> HIDE DEF w, n
 <2> QED BY <1>1, <1>2, <1>3
<1>5. w \in Seq(T) /\ Len(w) = n - 1
 <2>1. n - 1 \in Nat /\ w \in [1 .. n - 1 -> T]
  <3> HIDE DEF w
  <3>1. w = [i \in 1 .. n - 1 |-> w[i]]
   BY <1>3
  <3> QED BY <3>1, <1>1, <1>4
 <2> HIDE DEF w, n
 <2> QED BY <2>1
<1> HIDE DEF w
<1>6. \A i, j \in 1 .. n - 1 : w[i] = w[j] => i = j
 BY <1>1, <1>2, <1>4
<1>7. ToSet(w) = {w[i] : i \in 1 .. n - 1} /\ ToSet(s) = {s[i] : i \in 1 .. n}
 BY <1>5, SeqFacts
<1>8. ASSUME NEW p \in ToSet(w) PROVE p \in ToSet(s) \ {s[k]}
 <2>1. PICK i \in 1 .. n - 1 : p = w[i]
  BY <1>7
 <2>2. CASE i < k
  BY <2>1, <2>2, <1>1, <1>2, <1>4, <1>7
 <2>3. CASE ~(i < k)
  <3>1. p = s[i + 1] /\ i + 1 \in 1 .. n /\ i + 1 # k
   BY <2>1, <2>3, <1>1, <1>2, <1>4
  <3> QED BY <3>1, <1>1, <1>7
 <2> QED BY <2>2, <2>3
<1>9. ASSUME NEW p \in ToSet(s) \ {s[k]} PROVE p \in ToSet(w)
 <2>1. PICK i \in 1 .. n : p = s[i]
  BY <1>7
 <2>2. CASE i < k
  <3>1. i \in 1 .. n - 1 /\ w[i] = p
   BY <2>1, <2>2, <1>1, <1>4
  <3> QED BY <3>1, <1>7
 <2>3. CASE ~(i < k)
  <3>1. i # k
   BY <2>1
  <3>2. i - 1 \in 1 .. n - 1 /\ ~(i - 1 < k) /\ (i - 1) + 1 = i
   BY <3>1, <2>1, <2>3, <1>1
  <3>3. w[i - 1] = p
   BY <3>2, <2>1, <1>4
  <3> QED BY <3>2, <3>3, <1>7
 <2> QED BY <2>2, <2>3
<1> QED BY <1>4, <1>5, <1>6, <1>8, <1>9 DEF w

\* The pointers once the neighbours of s[k] are linked to each other.
LinkAround(f, b, s, k, p, next, last, f2, b2) ==
    /\ Links(f, b, s) /\ k \in 1 .. Len(s) /\ p = s[k] /\ next = f[p] /\ last = b[p]
    /\ (last # NULL => f2[last] = next) /\ (next # NULL => b2[next] = last)
    /\ \A q \in ToSet(s) : q # p => (q # last => f2[q] = f[q]) /\ (q # next => b2[q] = b[q])

\* The k-th is taken out.
LEMMA LinksRemove ==
    ASSUME NEW f, NEW b, NEW s, NEW k, NEW p, NEW next, NEW last, NEW f2, NEW b2,
           LinkAround(f, b, s, k, p, next, last, f2, b2)
    PROVE  /\ Links(f2, b2, Without(s, k))
           /\ Len(Without(s, k)) = Len(s) - 1
           /\ ToSet(Without(s, k)) = ToSet(s) \ {p}
           /\ Nth(Without(s, k), 1) = IF last = NULL THEN next ELSE Nth(s, 1)
           /\ Nth(Without(s, k), Len(s) - 1) = IF next = NULL THEN last ELSE Nth(s, Len(s))
           /\ next \in (ToSet(s) \ {p}) \cup {NULL} /\ last \in (ToSet(s) \ {p}) \cup {NULL}
           /\ p \in Addr
<1>0. /\ Links(f, b, s) /\ k \in 1 .. Len(s) /\ p = s[k] /\ next = f[p] /\ last = b[p]
      /\ (last # NULL => f2[last] = next) /\ (next # NULL => b2[next] = last)
      /\ \A q \in ToSet(s) : q # p => (q # last => f2[q] = f[q]) /\ (q # next => b2[q] = b[q])
 BY DEF LinkAround
<1> USE <1>0
<1> DEFINE n == Len(s)
           w == Without(s, k)
<1>1. /\ s \in Seq(Addr) /\ n \in Nat /\ \A i \in 1 .. n : s[i] \in Addr /\ s[i] # NULL /\ s[i] \in ToSet(s)
      /\ \A i, j \in 1 .. n : s[i] = s[j] => i = j
      /\ \A i \in 1 .. n : f[s[i]] = Nth(s, i + 1) /\ b[s[i]] = Nth(s, i - 1)
 BY LinksFacts, PlaceOf
<1>2. /\ w \in Seq(Addr) /\ Len(w) = n - 1
      /\ \A i \in 1 .. n - 1 : w[i] = IF i < k THEN s[i] ELSE s[i + 1]
      /\ \A i, j \in 1 .. n - 1 : w[i] = w[j] => i = j
      /\ ToSet(w) = ToSet(s) \ {p}
 <2>1. /\ w \in Seq(Addr) /\ Len(w) = n - 1
       /\ \A i \in 1 .. Len(s) - 1 : w[i] = IF i < k THEN s[i] ELSE s[i + 1]
       /\ \A i, j \in 1 .. Len(s) - 1 : w[i] = w[j] => i = j
       /\ ToSet(w) = ToSet(s) \ {s[k]}
  <3>1. s \in Seq(Addr) /\ k \in 1 .. Len(s) /\ w = Without(s, k) /\ n = Len(s)
   BY <1>1
  <3>2. \A i, j \in 1 .. Len(s) : s[i] = s[j] => i = j
   BY <1>1
  <3> HIDE <1>0 DEF w, n
  <3> QED BY <3>1, <3>2, WithoutFacts
 <2> QED BY <2>1
<1>3. next = Nth(s, k + 1) /\ last = Nth(s, k - 1) /\ k \in 1 .. n /\ p = s[k]
 BY <1>1
<1> HIDE DEF w
<1>10. n \in Nat /\ k \in 1 .. n /\ n = Len(s)
 BY <1>1
<1>11. \A j \in Int : Nth(w, j) = IF j < k THEN Nth(s, j) ELSE Nth(s, j + 1)
 <2>1. ASSUME NEW j \in Int, j < k PROVE Nth(w, j) = Nth(s, j)
  <3>1. CASE j \in 1 .. n - 1
   <4>1. j \in 1 .. Len(w) /\ j \in 1 .. Len(s) /\ w[j] = s[j]
    BY ONLY <1>2, <1>10, <2>1, <3>1
   <4> QED BY ONLY <4>1 DEF Nth
  <3>2. CASE j \notin 1 .. n - 1
   <4>1. j \notin 1 .. Len(w) /\ j \notin 1 .. Len(s)
    BY ONLY <1>2, <1>10, <2>1, <3>2
   <4> QED BY ONLY <4>1 DEF Nth
  <3> QED BY <3>1, <3>2
 <2>2. ASSUME NEW j \in Int, ~(j < k) PROVE Nth(w, j) = Nth(s, j + 1)
  <3>1. CASE j \in 1 .. n - 1
   <4>1. j \in 1 .. Len(w) /\ j + 1 \in 1 .. Len(s) /\ w[j] = s[j + 1]
    BY ONLY <1>2, <1>10, <2>2, <3>1
   <4> QED BY ONLY <4>1 DEF Nth
  <3>2. CASE j \notin 1 .. n - 1
   <4>1. j \notin 1 .. Len(w) /\ j + 1 \notin 1 .. Len(s)
    BY ONLY <1>2, <1>10, <2>2, <3>2
   <4> QED BY ONLY <4>1 DEF Nth
  <3> QED BY <3>1, <3>2
 <2> QED BY ONLY <2>1, <2>2
<1>4. Nth(w, 1) = IF last = NULL THEN next ELSE Nth(s, 1)
 BY <1>1, <1>2, <1>3 DEF Nth
<1>5. Nth(w, n - 1) = IF next = NULL THEN last ELSE Nth(s, n)
 BY <1>1, <1>2, <1>3 DEF Nth
<1>6. next \in (ToSet(s) \ {p}) \cup {NULL} /\ last \in (ToSet(s) \ {p}) \cup {NULL} /\ p \in Addr
 BY <1>1, <1>3 DEF Nth
<1>7. ASSUME NEW i \in 1 .. n - 1 PROVE f2[w[i]] = Nth(w, i + 1) /\ b2[w[i]] = Nth(w, i - 1)
 <2>1. CASE i < k - 1
  <3>1. i \in 1 .. n /\ w[i] = s[i] /\ i # k /\ s[i] # p /\ s[i] # last /\ s[i] # next
   BY <2>1, <1>1, <1>2, <1>3 DEF Nth
  <3>2. Nth(w, i + 1) = Nth(s, i + 1) /\ Nth(w, i - 1) = Nth(s, i - 1)
   BY ONLY <1>7, <2>1, <1>10, <1>11
  <3>3. f[s[i]] = Nth(s, i + 1) /\ b[s[i]] = Nth(s, i - 1) /\ s[i] \in ToSet(s)
   BY <3>1, <1>1
  <3> HIDE DEF n, w
  <3> QED BY <3>1, <3>2, <3>3
 <2>2. CASE i = k - 1
  <3>1. i \in 1 .. n /\ w[i] = s[i] /\ i # k /\ s[i] # p /\ s[i] = last /\ s[i] # next /\ last # NULL
   BY <2>2, <1>1, <1>2, <1>3 DEF Nth
  <3>2. Nth(w, i + 1) = next /\ Nth(w, i - 1) = Nth(s, i - 1)
   <4>1. i + 1 = k /\ i - 1 \in Int /\ i - 1 < k /\ ~(k < k) /\ k \in Int
    BY ONLY <1>7, <2>2, <1>10
   <4> QED BY ONLY <4>1, <1>3, <1>11
  <3> QED BY <3>1, <3>2, <1>1
 <2>3. CASE i = k
  <3>1. i + 1 \in 1 .. n /\ w[i] = s[i + 1] /\ s[i + 1] # p /\ s[i + 1] # last /\ s[i + 1] = next /\ next # NULL
   BY <2>3, <1>1, <1>2, <1>3 DEF Nth
  <3>2. Nth(w, i + 1) = Nth(s, i + 2) /\ Nth(w, i - 1) = last
   <4>1. i + 1 \in Int /\ ~(i + 1 < k) /\ (i + 1) + 1 = i + 2 /\ k - 1 \in Int /\ k - 1 < k /\ i = k
    BY ONLY <1>7, <2>3, <1>10
   <4> QED BY ONLY <4>1, <1>3, <1>11
  <3>3. f[s[i + 1]] = Nth(s, i + 2)
   BY <3>1, <1>1
  <3> QED BY <3>1, <3>2, <3>3, <1>1
 <2>4. CASE i > k
  <3>1. i + 1 \in 1 .. n /\ w[i] = s[i + 1] /\ s[i + 1] # p /\ s[i + 1] # last /\ s[i + 1] # next
   BY <2>4, <1>1, <1>2, <1>3 DEF Nth
  <3>2. Nth(w, i + 1) = Nth(s, i + 2) /\ Nth(w, i - 1) = Nth(s, i)
   <4>1. i + 1 \in Int /\ i - 1 \in Int /\ ~(i + 1 < k) /\ ~(i - 1 < k) /\ (i + 1) + 1 = i + 2 /\ (i - 1) + 1 = i
    BY ONLY <1>7, <2>4, <1>10
   <4> QED BY ONLY <4>1, <1>11
  <3>3. f[s[i + 1]] = Nth(s, i + 2) /\ b[s[i + 1]] = Nth(s, i)
   BY <3>1, <1>1
  <3> QED BY <3>1, <3>2, <3>3, <1>1
 <2> QED BY <2>1, <2>2, <2>3, <2>4, <1>1
<1>8. Links(f2, b2, w)
 BY <1>2, <1>7 DEF Links
<1> QED BY <1>2, <1>4, <1>5, <1>6, <1>8 DEF w

\* s with q for its k-th.
Instead(s, k, q) == [s EXCEPT ![k] = q]

\* The pointers once q is linked to the neighbours of s[k].
LinkInstead(f, b, s, k, p, q, next, last, f2, b2) ==
    /\ Links(f, b, s) /\ k \in 1 .. Len(s) /\ p = s[k] /\ next = f[p] /\ last = b[p]
    /\ q \in Addr /\ q \notin ToSet(s)
    /\ (last # NULL => f2[last] = q) /\ (next # NULL => b2[next] = q) /\ f2[q] = next /\ b2[q] = last
    /\ \A r \in ToSet(s) : r # p => (r # last => f2[r] = f[r]) /\ (r # next => b2[r] = b[r])

\* The k-th is replaced by q.
LEMMA LinksReplace ==
    ASSUME NEW f, NEW b, NEW s, NEW k, NEW p, NEW q, NEW next, NEW last, NEW f2, NEW b2,
           LinkInstead(f, b, s, k, p, q, next, last, f2, b2)
    PROVE  LET w == Instead(s, k, q) IN
           /\ Links(f2, b2, w)
           /\ Len(w) = Len(s)
           /\ ToSet(w) = (ToSet(s) \ {p}) \cup {q}
           /\ Nth(w, 1) = IF last = NULL THEN q ELSE Nth(s, 1)
           /\ Nth(w, Len(s)) = IF next = NULL THEN q ELSE Nth(s, Len(s))
           /\ next \in (ToSet(s) \ {p}) \cup {NULL} /\ last \in (ToSet(s) \ {p}) \cup {NULL}
<1>0. /\ Links(f, b, s) /\ k \in 1 .. Len(s) /\ p = s[k] /\ next = f[p] /\ last = b[p]
      /\ q \in Addr /\ q \notin ToSet(s)
      /\ (last # NULL => f2[last] = q) /\ (next # NULL => b2[next] = q) /\ f2[q] = next /\ b2[q] = last
      /\ \A r \in ToSet(s) : r # p => (r # last => f2[r] = f[r]) /\ (r # next => b2[r] = b[r])
 BY DEF LinkInstead
<1> USE <1>0
<1> DEFINE n == Len(s)
           w == Instead(s, k, q)
<1>1. /\ s \in Seq(Addr) /\ n \in Nat /\ \A i \in 1 .. n : s[i] \in Addr /\ s[i] # NULL /\ s[i] \in ToSet(s)
      /\ \A i, j \in 1 .. n : s[i] = s[j] => i = j
      /\ \A i \in 1 .. n : f[s[i]] = Nth(s, i + 1) /\ b[s[i]] = Nth(s, i - 1)
 BY LinksFacts, PlaceOf
<1>2. /\ w \in Seq(Addr) /\ Len(w) = n /\ \A i \in 1 .. n : w[i] = IF i = k THEN q ELSE s[i]
 BY <1>1, ExceptSeq DEF Instead
<1>3. next = Nth(s, k + 1) /\ last = Nth(s, k - 1) /\ k \in 1 .. n /\ p = s[k] /\ q \in Addr /\ q \notin ToSet(s) /\ q # NULL
 BY <1>1, AddrAssumption
<1> HIDE DEF w
<1>4. \A i, j \in 1 .. n : w[i] = w[j] => i = j
 BY <1>1, <1>2, <1>3
<1>5. ToSet(w) = (ToSet(s) \ {p}) \cup {q}
 <2>1. ToSet(w) = {w[i] : i \in 1 .. n} /\ ToSet(s) = {s[i] : i \in 1 .. n}
  BY <1>1, <1>2, SeqFacts
 <2> HIDE DEF n
 <2>2. ASSUME NEW x \in ToSet(w) PROVE x \in (ToSet(s) \ {p}) \cup {q}
  <3>1. PICK i \in 1 .. n : x = w[i]
   BY <2>1
  <3>2. i = k => x = q
   BY <3>1, <1>2
  <3>3. i # k => x = s[i] /\ s[i] # p /\ s[i] \in ToSet(s)
   BY <3>1, <1>1, <1>2, <1>3
  <3> QED BY <3>2, <3>3
 <2>3. ASSUME NEW x \in ToSet(s) \ {p} PROVE x \in ToSet(w)
  <3>1. PICK i \in 1 .. n : x = s[i]
   BY <2>1
  <3>2. w[i] = x
   BY <3>1, <1>2
  <3> QED BY <3>2, <2>1
 <2>4. q \in ToSet(w)
  BY <2>1, <1>2, <1>3
 <2> QED BY <2>2, <2>3, <2>4
<1>6. Nth(w, 1) = IF last = NULL THEN q ELSE Nth(s, 1)
 <2>1. 1 \in 1 .. n /\ Nth(w, 1) = w[1] /\ Nth(s, 1) = s[1]
  BY <1>1, <1>2, <1>3 DEF Nth
 <2>2. CASE k = 1
  <3>1. last = NULL
   BY <2>2, <1>1, <1>3 DEF Nth
  <3> QED BY <3>1, <2>1, <2>2, <1>2
 <2>3. CASE k # 1
  <3>1. k - 1 \in 1 .. n /\ last # NULL
   BY <2>3, <1>1, <1>3 DEF Nth
  <3> QED BY <3>1, <2>1, <2>3, <1>2
 <2> QED BY <2>2, <2>3
<1>7. Nth(w, n) = IF next = NULL THEN q ELSE Nth(s, n)
 BY <1>1, <1>2, <1>3 DEF Nth
<1>8. next \in (ToSet(s) \ {p}) \cup {NULL} /\ last \in (ToSet(s) \ {p}) \cup {NULL}
 BY <1>1, <1>3 DEF Nth
<1>9. ASSUME NEW i \in 1 .. n PROVE f2[w[i]] = Nth(w, i + 1) /\ b2[w[i]] = Nth(w, i - 1)
 <2>1. CASE i = k
  <3>1. Nth(w, i + 1) = Nth(s, i + 1) /\ Nth(w, i - 1) = Nth(s, i - 1)
   BY <2>1, <1>1, <1>2 DEF Nth
  <3> QED BY <3>1, <2>1, <1>2, <1>3
 <2>2. CASE i = k - 1
  <3>1. w[i] = s[i] /\ s[i] # p /\ s[i] = last /\ s[i] # next /\ last # NULL
   BY <2>2, <1>1, <1>2, <1>3 DEF Nth
  <3>2. Nth(w, i + 1) = q /\ Nth(w, i - 1) = Nth(s, i - 1)
   BY <2>2, <1>1, <1>2, <1>3 DEF Nth
  <3>3. b[s[i]] = Nth(s, i - 1) /\ s[i] \in ToSet(s) \ {p}
   BY <3>1, <1>1
  <3>4. b2[s[i]] = b[s[i]] /\ f2[s[i]] = q
   BY <3>1, <3>3
  <3> QED BY <3>1, <3>2, <3>3, <3>4
 <2>3. CASE i = k + 1
  <3>1. w[i] = s[i] /\ s[i] # p /\ s[i] # last /\ s[i] = next /\ next # NULL
   BY <2>3, <1>1, <1>2, <1>3 DEF Nth
  <3>2. Nth(w, i + 1) = Nth(s, i + 1) /\ Nth(w, i - 1) = q
   BY <2>3, <1>1, <1>2, <1>3 DEF Nth
  <3>3. f[s[i]] = Nth(s, i + 1) /\ s[i] \in ToSet(s) \ {p}
   BY <3>1, <1>1
  <3>4. f2[s[i]] = f[s[i]] /\ b2[s[i]] = q
   BY <3>1, <3>3
  <3> QED BY <3>1, <3>2, <3>3, <3>4
 <2>4. CASE i \notin {k - 1, k, k + 1}
  <3>1. w[i] = s[i] /\ s[i] # p /\ s[i] # last /\ s[i] # next
   <4>1. i # k /\ i # k - 1 /\ i # k + 1 /\ i \in 1 .. n /\ k \in Int
    BY <2>4, <1>1, <1>3
   <4>2. w[i] = s[i] /\ s[i] # s[k]
    BY <4>1, <1>1, <1>2, <1>3
   <4>3. s[i] # last
    BY <4>1, <1>1, <1>3 DEF Nth
   <4>4. s[i] # next
    BY <4>1, <1>1, <1>3 DEF Nth
   <4> QED BY <4>2, <4>3, <4>4, <1>3
  <3>3. i + 1 # k /\ i - 1 # k /\ i + 1 \in Int /\ i - 1 \in Int
   BY <2>4, <1>1, <1>3
  <3>2. Nth(w, i + 1) = Nth(s, i + 1) /\ Nth(w, i - 1) = Nth(s, i - 1)
   BY <3>3, <1>2 DEF Nth
  <3> QED BY <3>1, <3>2, <1>1
 <2> QED BY <2>1, <2>2, <2>3, <2>4
<1>10. Links(f2, b2, w)
 BY <1>2, <1>4, <1>9 DEF Links
<1> QED BY <1>2, <1>5, <1>6, <1>7, <1>8, <1>10 DEF w

\* The list read backwards.
LEMMA LinksReverse ==
    ASSUME NEW f, NEW b, NEW s, Links(f, b, s)
    PROVE  /\ Links(b, f, Reverse(s))
           /\ Len(Reverse(s)) = Len(s)
           /\ ToSet(Reverse(s)) = ToSet(s)
           /\ Nth(Reverse(s), 1) = Nth(s, Len(s))
           /\ Reverse(Reverse(s)) = s
           /\ \A i \in 1 .. Len(s) : Reverse(s)[i] = s[(Len(s) - i) + 1]
<1> DEFINE n == Len(s)
           w == Reverse(s)
<1>1. /\ s \in Seq(Addr) /\ n \in Nat /\ \A i \in 1 .. n : s[i] \in Addr /\ s[i] # NULL /\ s[i] \in ToSet(s)
      /\ \A i, j \in 1 .. n : s[i] = s[j] => i = j
      /\ \A i \in 1 .. n : f[s[i]] = Nth(s, i + 1) /\ b[s[i]] = Nth(s, i - 1)
 BY LinksFacts, PlaceOf
<1>2. w = [i \in 1 .. n |-> s[(n - i) + 1]]
 BY DEF Reverse
<1>3. \A i \in 1 .. n : (n - i) + 1 \in 1 .. n
 BY <1>1
<1>4. w \in [1 .. n -> Addr]
 BY <1>1, <1>2, <1>3
<1>5. w \in Seq(Addr) /\ Len(w) = n
 <2> HIDE DEF w, n
 <2> QED BY <1>1, <1>4
<1>6. \A i \in 1 .. n : w[i] = s[(n - i) + 1]
 BY <1>2
<1> HIDE DEF w
<1>7. \A i, j \in 1 .. n : w[i] = w[j] => i = j
 BY <1>1, <1>3, <1>6
<1>8. ToSet(w) = ToSet(s)
 <2>1. ToSet(w) = {w[i] : i \in 1 .. n} /\ ToSet(s) = {s[i] : i \in 1 .. n}
  BY <1>1, <1>5, SeqFacts
 <2>2. \A i \in 1 .. n : s[i] = w[(n - i) + 1]
  BY <1>1, <1>3, <1>6
 <2> HIDE DEF n
 <2> QED BY <2>1, <2>2, <1>3, <1>6
<1>9. ASSUME NEW i \in 1 .. n PROVE b[w[i]] = Nth(w, i + 1) /\ f[w[i]] = Nth(w, i - 1)
 <2> DEFINE j == (n - i) + 1
 <2>1. j \in 1 .. n /\ w[i] = s[j] /\ f[s[j]] = Nth(s, j + 1) /\ b[s[j]] = Nth(s, j - 1)
  BY <1>1, <1>3, <1>6
 <2>2. Nth(w, i + 1) = Nth(s, j - 1)
  BY <1>1, <1>5, <1>6 DEF Nth
 <2>3. Nth(w, i - 1) = Nth(s, j + 1)
  <3>1. CASE i = 1
   BY <3>1, <1>1, <1>5 DEF Nth
  <3>2. CASE i # 1
   <4>1. i - 1 \in 1 .. n /\ (n - (i - 1)) + 1 = j + 1 /\ j + 1 \in 1 .. n
    BY <3>2, <1>1
   <4>2. w[i - 1] = s[j + 1]
    BY <4>1, <1>6
   <4> QED BY <4>1, <4>2, <1>5 DEF Nth
  <3> QED BY <3>1, <3>2
 <2> QED BY <2>1, <2>2, <2>3
<1>10. Links(b, f, w)
 BY <1>5, <1>7, <1>9 DEF Links
<1>11. Nth(w, 1) = Nth(s, n)
 BY <1>1, <1>5, <1>6 DEF Nth
<1>12. Reverse(w) = s
 <2>1. Reverse(w) = [i \in 1 .. n |-> w[(n - i) + 1]]
  BY <1>5 DEF Reverse
 <2>2. s = [i \in 1 .. n |-> s[i]]
  BY <1>1
 <2>3. \A i \in 1 .. n : w[(n - i) + 1] = s[i]
  BY <1>1, <1>3, <1>6
 <2> HIDE DEF n
 <2> QED BY <2>1, <2>2, <2>3
<1> QED BY <1>5, <1>6, <1>8, <1>10, <1>11, <1>12 DEF w

--------------------
(* The fields of a table, and what each operator does to them. *)

Fields == {"nTableSize", "arBuckets", "nNumOfElements", "nNextFreeElement",
           "pListHead", "pListTail", "pInternalPointer", "allocated", "key",
           "pData", "pNext", "pLast", "pListNext", "pListLast"}

\* Keys a bucket may hold: also numbers that are yet to be bounded.
Stored == Keys \cup {Numeric(i) : i \in Nat} \cup {NoKey}

Shaped(t) ==
    /\ DOMAIN t = Fields
    /\ t.nTableSize \in Nat \ {0}
    /\ t.arBuckets \in [0 .. t.nTableSize - 1 -> Ptr]
    /\ t.nNumOfElements \in Int /\ t.nNextFreeElement \in Nat
    /\ t.pListHead \in Ptr /\ t.pListTail \in Ptr /\ t.pInternalPointer \in Ptr
    /\ t.allocated \subseteq Addr
    /\ t.key \in [Addr -> Stored]
    /\ t.pData \in [Addr -> Data \cup {NULL}]
    /\ t.pNext \in [Addr -> Ptr] /\ t.pLast \in [Addr -> Ptr]
    /\ t.pListNext \in [Addr -> Ptr] /\ t.pListLast \in [Addr -> Ptr]

\* Any key has a hash.
LEMMA StoredFacts ==
    ASSUME NEW k \in Stored
    PROVE  k.h \in Int
<1>1. CASE k \in Keys
 BY <1>1, KeyAssumption
<1>2. CASE k \in {Numeric(i) : i \in Nat}
 BY <1>2 DEF Numeric
<1>3. CASE k = NoKey
 BY <1>3 DEF NoKey
<1> QED BY <1>1, <1>2, <1>3 DEF Stored

\* The slot of a key is one of the table's.
LEMMA SlotType ==
    ASSUME NEW t, t.nTableSize \in Nat \ {0}, NEW k \in Stored
    PROVE  Slot(t, k.h) \in 0 .. t.nTableSize - 1
<1>1. k.h \in Int
 BY StoredFacts
<1> QED BY <1>1 DEF Slot

LinkFields == {"pNext", "pLast", "pListNext", "pListLast"}

\* if (p) p->f = x
LEMMA SetFields ==
    ASSUME NEW t, Shaped(t), NEW f \in LinkFields, NEW p \in Ptr, NEW x \in Ptr,
         NEW u, u = Set(t, f, p, x)
    PROVE  /\ Shaped(u)
           /\ \A q \in Addr : u[f][q] = IF q = p THEN x ELSE t[f][q]
           /\ \A g \in Fields \ {f} : u[g] = t[g]
<1>0. t[f] \in [Addr -> Ptr] /\ f \in Fields /\ DOMAIN t = Fields
 BY DEF Shaped, Fields, LinkFields
<1>1. CASE p = NULL
 BY <1>1, AddrAssumption DEF Set
<1>2. CASE p # NULL
 <2>1. p \in Addr
  BY <1>2 DEF Ptr
 <2> DEFINE A == [t[f] EXCEPT ![p] = x]
 <2>2. A \in [Addr -> Ptr] /\ \A q \in Addr : A[q] = IF q = p THEN x ELSE t[f][q]
  BY <1>0, <2>1
 <2>3. u = [t EXCEPT ![f] = A]
  BY <1>2, <2>1, <1>0 DEF Set
 <2> HIDE DEF A
 <2>4. DOMAIN u = Fields /\ u[f] = A /\ \A g \in Fields \ {f} : u[g] = t[g]
  BY <2>3, <1>0
 <2>5. Shaped(u)
  BY <2>2, <2>4 DEF Shaped, Fields, LinkFields
 <2> QED BY <2>2, <2>4, <2>5
<1> QED BY <1>1, <1>2

ChainFields == {"arBuckets", "pNext", "pLast"}

\* CONNECT_TO_BUCKET_DLLIST, field by field.
LEMMA ConnectToBucketFields ==
    ASSUME NEW t, Shaped(t), NEW p \in Addr, NEW u, u = ConnectToBucket(t, p),
           NEW i, i = Slot(t, t.key[p].h), NEW head, head = t.arBuckets[i]
    PROVE  /\ Shaped(u) /\ i \in 0 .. t.nTableSize - 1 /\ head \in Ptr
           /\ u.arBuckets = [t.arBuckets EXCEPT ![i] = p]
           /\ \A q \in Addr : u.pNext[q] = IF q = p THEN head ELSE t.pNext[q]
           /\ \A q \in Addr : u.pLast[q] = IF q = p THEN NULL ELSE IF q = head THEN p ELSE t.pLast[q]
           /\ \A g \in Fields \ ChainFields : u[g] = t[g]
<1>1. i \in 0 .. t.nTableSize - 1 /\ head \in Ptr
 BY SlotType DEF Shaped
<1>2. p # NULL /\ p \in Ptr /\ NULL \in Ptr /\ (head # NULL => head \in Addr)
 BY <1>1, AddrAssumption DEF Ptr
<1>3. u = [Set(t, "pLast", head, p) EXCEPT !.pNext[p] = head, !.pLast[p] = NULL, !.arBuckets[i] = p]
 BY Zenon DEF ConnectToBucket
<1> DEFINE A == [t.pNext EXCEPT ![p] = head]
           B == [t.pLast EXCEPT ![p] = NULL]
           C == [[t.pLast EXCEPT ![head] = p] EXCEPT ![p] = NULL]
           D == [t.arBuckets EXCEPT ![i] = p]
           L == IF head = NULL THEN B ELSE C
<1>4. u = [t EXCEPT !.pNext = A, !.pLast = L, !.arBuckets = D]
 <2>1. CASE head = NULL
  <3>1. u = [t EXCEPT !.pNext[p] = head, !.pLast[p] = NULL, !.arBuckets[i] = p]
   BY <1>3, <2>1 DEF Set
  <3> QED BY <3>1, <2>1 DEF Shaped, Fields
 <2>2. CASE head # NULL
  <3>1. u = [[t EXCEPT !["pLast"][head] = p] EXCEPT !.pNext[p] = head, !.pLast[p] = NULL, !.arBuckets[i] = p]
   BY <1>3, <2>2 DEF Set
  <3> QED BY <3>1, <2>2 DEF Shaped, Fields
 <2> QED BY <2>1, <2>2
<1>5. A \in [Addr -> Ptr] /\ L \in [Addr -> Ptr] /\ D \in [0 .. t.nTableSize - 1 -> Ptr]
 BY <1>1, <1>2 DEF Shaped
<1>6. /\ \A q \in Addr : A[q] = IF q = p THEN head ELSE t.pNext[q]
      /\ \A q \in Addr : L[q] = IF q = p THEN NULL ELSE IF q = head THEN p ELSE t.pLast[q]
 BY <1>2, AddrAssumption DEF Shaped
<1> HIDE DEF A, L, D
<1>7. /\ u.arBuckets = D /\ u.pNext = A /\ u.pLast = L /\ DOMAIN u = Fields
           /\ u.nTableSize = t.nTableSize /\ u.nNumOfElements = t.nNumOfElements
           /\ u.nNextFreeElement = t.nNextFreeElement /\ u.pListHead = t.pListHead
           /\ u.pListTail = t.pListTail /\ u.pInternalPointer = t.pInternalPointer
           /\ u.allocated = t.allocated /\ u.key = t.key /\ u.pData = t.pData
           /\ u.pListNext = t.pListNext /\ u.pListLast = t.pListLast
 BY <1>4 DEF Shaped, Fields
<1>8. Shaped(u)
 BY <1>5, <1>7 DEF Shaped
<1>9. \A g \in Fields \ ChainFields : u[g] = t[g]
 BY <1>7 DEF Fields, ChainFields
<1> QED BY <1>1, <1>6, <1>7, <1>8, <1>9 DEF D

\* The element goes to the end of the list.
LEMMA ConnectToGlobalFields ==
    ASSUME NEW t, Shaped(t), NEW p \in Addr, NEW u, u = ConnectToGlobal(t, p),
           NEW tail, tail = t.pListTail
    PROVE  /\ Shaped(u)
           /\ \A q \in Addr : u.pListNext[q] = IF q = p THEN NULL ELSE IF q = tail THEN p ELSE t.pListNext[q]
           /\ \A q \in Addr : u.pListLast[q] = IF q = p THEN tail ELSE t.pListLast[q]
           /\ u.pListTail = p
           /\ u.pListHead = IF t.pListHead = NULL THEN p ELSE t.pListHead
           /\ u.pInternalPointer = IF t.pInternalPointer = NULL THEN p ELSE t.pInternalPointer
           /\ \A g \in Fields \ {"pListNext", "pListLast", "pListTail", "pListHead", "pInternalPointer"} : u[g] = t[g]
<1>0. PICK v : v = Set(t, "pListNext", tail, p)
 OBVIOUS
<1>1. tail \in Ptr /\ p \in Ptr /\ p # NULL /\ NULL \in Ptr
 BY AddrAssumption DEF Shaped, Ptr
<1>2. /\ Shaped(v)
      /\ \A q \in Addr : v.pListNext[q] = IF q = tail THEN p ELSE t.pListNext[q]
      /\ \A g \in Fields \ {"pListNext"} : v[g] = t[g]
 <2>1. "pListNext" \in LinkFields
  BY DEF LinkFields
 <2> QED BY <1>0, <1>1, <2>1, SetFields
<1>3. u = [v EXCEPT !.pListLast[p] = tail, !.pListNext[p] = NULL, !.pListTail = p,
                    !.pListHead = IF @ = NULL THEN p ELSE @,
                    !.pInternalPointer = IF @ = NULL THEN p ELSE @]
 BY <1>0 DEF ConnectToGlobal
<1> DEFINE A == [v.pListLast EXCEPT ![p] = tail]
           B == [v.pListNext EXCEPT ![p] = NULL]
           H == IF v.pListHead = NULL THEN p ELSE v.pListHead
           I == IF v.pInternalPointer = NULL THEN p ELSE v.pInternalPointer
<1>4. u = [v EXCEPT !.pListLast = A, !.pListNext = B, !.pListTail = p, !.pListHead = H, !.pInternalPointer = I]
 BY <1>2, <1>3 DEF Shaped, Fields
<1>5. A \in [Addr -> Ptr] /\ B \in [Addr -> Ptr] /\ H \in Ptr /\ I \in Ptr
 BY <1>1, <1>2 DEF Shaped
<1>6. /\ \A q \in Addr : A[q] = IF q = p THEN tail ELSE v.pListLast[q]
      /\ \A q \in Addr : B[q] = IF q = p THEN NULL ELSE v.pListNext[q]
 BY <1>2 DEF Shaped
<1>7. /\ DOMAIN u = Fields /\ u.pListLast = A /\ u.pListNext = B /\ u.pListTail = p
      /\ u.pListHead = H /\ u.pInternalPointer = I
      /\ \A g \in Fields \ {"pListNext", "pListLast", "pListTail", "pListHead", "pInternalPointer"} : u[g] = v[g]
 <2> HIDE DEF A, B, H, I
 <2> QED BY <1>2, <1>4 DEF Shaped, Fields
<1>8. Shaped(u)
 <2> HIDE DEF A, B, H, I
 <2> QED BY <1>1, <1>2, <1>5, <1>7 DEF Shaped, Fields
<1>9. v.pListLast = t.pListLast /\ v.pListHead = t.pListHead /\ v.pInternalPointer = t.pInternalPointer
 BY <1>2 DEF Fields
<1>10. \A g \in Fields \ {"pListNext", "pListLast", "pListTail", "pListHead", "pInternalPointer"} : u[g] = t[g]
 BY <1>2, <1>7
<1>11. /\ \A q \in Addr : u.pListNext[q] = IF q = p THEN NULL ELSE IF q = tail THEN p ELSE t.pListNext[q]
       /\ \A q \in Addr : u.pListLast[q] = IF q = p THEN tail ELSE t.pListLast[q]
 <2> HIDE DEF A, B, H, I
 <2> QED BY <1>2, <1>6, <1>7, <1>9
<1> QED BY <1>7, <1>8, <1>9, <1>10, <1>11

\* Off its chain.
LEMMA DisconnectFromBucketFields ==
    ASSUME NEW t, Shaped(t), NEW p \in Addr, NEW u, u = DisconnectFromBucket(t, p),
           NEW next, next = t.pNext[p], NEW last, last = t.pLast[p], NEW i, i = Slot(t, t.key[p].h)
    PROVE  /\ Shaped(u) /\ i \in 0 .. t.nTableSize - 1 /\ next \in Ptr /\ last \in Ptr
           /\ \A q \in Addr : u.pLast[q] = IF q = next THEN last ELSE t.pLast[q]
           /\ \A q \in Addr : u.pNext[q] = IF q = last THEN next ELSE t.pNext[q]
           /\ u.arBuckets = IF last = NULL THEN [t.arBuckets EXCEPT ![i] = next] ELSE t.arBuckets
           /\ \A g \in Fields \ {"pLast", "pNext", "arBuckets"} : u[g] = t[g]
<1>0. PICK v : v = Set(t, "pLast", next, last)
 OBVIOUS
<1>1. next \in Ptr /\ last \in Ptr /\ i \in 0 .. t.nTableSize - 1
 BY SlotType DEF Shaped
<1>2. /\ Shaped(v)
      /\ \A q \in Addr : v.pLast[q] = IF q = next THEN last ELSE t.pLast[q]
      /\ \A g \in Fields \ {"pLast"} : v[g] = t[g]
 <2>1. "pLast" \in LinkFields
  BY DEF LinkFields
 <2> QED BY <1>0, <1>1, <2>1, SetFields
<1>3. u = IF last = NULL THEN [v EXCEPT !.arBuckets[i] = next] ELSE Set(v, "pNext", last, next)
 BY <1>0, Zenon DEF DisconnectFromBucket
<1>4. v.arBuckets = t.arBuckets /\ v.pNext = t.pNext /\ v.nTableSize = t.nTableSize
 BY <1>2 DEF Fields
<1>5. CASE last = NULL
 <2> DEFINE A == [t.arBuckets EXCEPT ![i] = next]
 <2>1. u = [v EXCEPT !.arBuckets = A]
  BY <1>2, <1>3, <1>4, <1>5 DEF Shaped, Fields
 <2>2. A \in [0 .. t.nTableSize - 1 -> Ptr]
  BY <1>1 DEF Shaped
 <2> HIDE DEF A
 <2>3. DOMAIN u = Fields /\ u.arBuckets = A /\ \A g \in Fields \ {"arBuckets"} : u[g] = v[g]
  BY <1>2, <2>1 DEF Shaped, Fields
 <2>4. Shaped(u)
  BY <1>2, <1>4, <2>2, <2>3 DEF Shaped, Fields
 <2>5. \A g \in Fields \ {"pLast", "pNext", "arBuckets"} : u[g] = t[g]
  BY <1>2, <2>3
 <2>6. u.pNext = t.pNext /\ u.pLast = v.pLast
  BY <1>4, <2>3 DEF Fields
 <2>7. \A q \in Addr : q # last
  BY <1>5, AddrAssumption
 <2> QED BY <1>1, <1>2, <1>5, <2>3, <2>4, <2>5, <2>6, <2>7 DEF A
<1>6. CASE last # NULL
 <2>1. u = Set(v, "pNext", last, next)
  BY <1>3, <1>6
 <2>2. /\ Shaped(u)
       /\ \A q \in Addr : u.pNext[q] = IF q = last THEN next ELSE v.pNext[q]
       /\ \A g \in Fields \ {"pNext"} : u[g] = v[g]
  <3>1. "pNext" \in LinkFields
   BY DEF LinkFields
  <3> QED BY <1>1, <1>2, <2>1, <3>1, SetFields
 <2>3. u.pLast = v.pLast /\ u.arBuckets = t.arBuckets
  BY <1>4, <2>2 DEF Fields
 <2>4. \A g \in Fields \ {"pLast", "pNext", "arBuckets"} : u[g] = t[g]
  BY <1>2, <2>2
 <2> QED BY <1>1, <1>2, <1>4, <1>6, <2>2, <2>3, <2>4
<1> QED BY <1>5, <1>6

\* Off the list of elements.
LEMMA DisconnectFromGlobalFields ==
    ASSUME NEW t, Shaped(t), NEW p \in Addr, NEW u, u = DisconnectFromGlobal(t, p),
           NEW next, next = t.pListNext[p], NEW last, last = t.pListLast[p]
    PROVE  /\ Shaped(u) /\ next \in Ptr /\ last \in Ptr
           /\ \A q \in Addr : u.pListNext[q] = IF q = last THEN next ELSE t.pListNext[q]
           /\ \A q \in Addr : u.pListLast[q] = IF q = next THEN last ELSE t.pListLast[q]
           /\ u.pListHead = IF last = NULL THEN next ELSE t.pListHead
           /\ u.pListTail = IF next = NULL THEN last ELSE t.pListTail
           /\ u.pInternalPointer = IF t.pInternalPointer = p THEN next ELSE t.pInternalPointer
           /\ \A g \in Fields \ {"pListNext", "pListLast", "pListTail", "pListHead", "pInternalPointer"} : u[g] = t[g]
<1>0. PICK v, w : v = Set(t, "pListNext", last, next) /\ w = Set(v, "pListLast", next, last)
 OBVIOUS
<1>1. next \in Ptr /\ last \in Ptr
 BY DEF Shaped
<1>2. /\ Shaped(v)
      /\ \A q \in Addr : v.pListNext[q] = IF q = last THEN next ELSE t.pListNext[q]
      /\ \A g \in Fields \ {"pListNext"} : v[g] = t[g]
 <2>1. "pListNext" \in LinkFields
  BY DEF LinkFields
 <2> QED BY <1>0, <1>1, <2>1, SetFields
<1>3. u = [w EXCEPT !.pListHead = IF last = NULL THEN next ELSE @,
                    !.pListTail = IF next = NULL THEN last ELSE @,
                    !.pInternalPointer = IF @ = p THEN next ELSE @]
 BY <1>0 DEF DisconnectFromGlobal
<1>4. /\ Shaped(w)
      /\ \A q \in Addr : w.pListLast[q] = IF q = next THEN last ELSE v.pListLast[q]
      /\ \A g \in Fields \ {"pListLast"} : w[g] = v[g]
 <2>1. "pListLast" \in LinkFields
  BY DEF LinkFields
 <2> QED BY <1>0, <1>1, <1>2, <2>1, SetFields
<1>5. v.pListLast = t.pListLast /\ w.pListNext = v.pListNext /\ w.pListHead = t.pListHead
      /\ w.pListTail = t.pListTail /\ w.pInternalPointer = t.pInternalPointer
 BY <1>2, <1>4 DEF Fields
<1> DEFINE H == IF last = NULL THEN next ELSE t.pListHead
           T == IF next = NULL THEN last ELSE t.pListTail
           I == IF t.pInternalPointer = p THEN next ELSE t.pInternalPointer
<1>6. u = [w EXCEPT !.pListHead = H, !.pListTail = T, !.pInternalPointer = I]
 BY <1>3, <1>4, <1>5 DEF Shaped, Fields
<1>7. H \in Ptr /\ T \in Ptr /\ I \in Ptr
 BY <1>1 DEF Shaped
<1> HIDE DEF H, T, I
<1>8. /\ DOMAIN u = Fields /\ u.pListHead = H /\ u.pListTail = T /\ u.pInternalPointer = I
      /\ \A g \in Fields \ {"pListHead", "pListTail", "pInternalPointer"} : u[g] = w[g]
 BY <1>4, <1>6 DEF Shaped, Fields
<1>9. Shaped(u)
 BY <1>4, <1>7, <1>8 DEF Shaped, Fields
<1>10. u.pListNext = v.pListNext /\ u.pListLast = w.pListLast
 BY <1>5, <1>8 DEF Fields
<1>11. \A g \in Fields \ {"pListNext", "pListLast", "pListTail", "pListHead", "pInternalPointer"} : u[g] = t[g]
 BY <1>2, <1>4, <1>8
<1> QED BY <1>1, <1>2, <1>4, <1>5, <1>8, <1>9, <1>10, <1>11 DEF H, T, I

--------------------
(* The list of elements and the chains. *)

\* The elements are s, in that order.
Elements(t, s) ==
    /\ Links(t.pListNext, t.pListLast, s)
    /\ t.pListHead = Nth(s, 1) /\ t.pListTail = Nth(s, Len(s))

SlotOf(t, p) == Slot(t, t.key[p].h)

\* The chain of slot i is r, last bucket first: those of E with that slot.
ChainIs(t, E, i, r) ==
    /\ Links(t.pLast, t.pNext, r)
    /\ t.arBuckets[i] = Nth(r, Len(r))
    /\ \A p \in Addr : p \in ToSet(r) <=> p \in E /\ SlotOf(t, p) = i

\* Each of the buckets E is on the chain of its slot, and on no other.
Chained(t, E) ==
    /\ E \subseteq Addr
    /\ \A i \in 0 .. t.nTableSize - 1 : \E r : ChainIs(t, E, i, r)

\* Only the list pointers of the elements, and the two ends, matter.
LEMMA ElementsSame ==
    ASSUME NEW t, NEW s, Elements(t, s), NEW u,
           \A p \in ToSet(s) : u.pListNext[p] = t.pListNext[p] /\ u.pListLast[p] = t.pListLast[p],
           u.pListHead = t.pListHead, u.pListTail = t.pListTail
    PROVE  Elements(u, s)
BY LinksSame DEF Elements

\* Only the chain pointers and the keys of the elements, and the slots, matter.
LEMMA ChainedSame ==
    ASSUME NEW t, NEW E, Chained(t, E), NEW u,
           u.nTableSize = t.nTableSize, u.arBuckets = t.arBuckets,
           \A p \in E : u.pLast[p] = t.pLast[p] /\ u.pNext[p] = t.pNext[p] /\ u.key[p].h = t.key[p].h
    PROVE  Chained(u, E)
<1> SUFFICES ASSUME NEW i \in 0 .. t.nTableSize - 1
             PROVE  \E r : ChainIs(u, E, i, r)
 BY DEF Chained
<1>1. PICK r : ChainIs(t, E, i, r)
 BY DEF Chained
<1>2. Links(t.pLast, t.pNext, r)
 BY <1>1 DEF ChainIs
<1>3. \A p \in ToSet(r) : p \in E
 BY <1>1, <1>2, LinksFacts DEF ChainIs
<1>4. Links(u.pLast, u.pNext, r)
 BY <1>2, <1>3, LinksSame
<1>5. \A p \in E : SlotOf(u, p) = SlotOf(t, p)
 BY DEF SlotOf, Slot
<1> QED BY <1>1, <1>4, <1>5 DEF ChainIs

\* The list with one more.
LEMMA ElementsAppend ==
    ASSUME NEW t, Shaped(t), NEW s, Elements(t, s), NEW p \in Addr, p \notin ToSet(s),
           NEW u, u = ConnectToGlobal(t, p)
    PROVE  /\ Elements(u, Append(s, p))
           /\ Len(Append(s, p)) = Len(s) + 1
           /\ ToSet(Append(s, p)) = ToSet(s) \cup {p}
<1>1. PICK tail : tail = t.pListTail
 OBVIOUS
<1>2. PICK f, b, f2, b2 : f = t.pListNext /\ b = t.pListLast /\ f2 = u.pListNext /\ b2 = u.pListLast
 OBVIOUS
<1>3. /\ \A q \in Addr : f2[q] = IF q = p THEN NULL ELSE IF q = tail THEN p ELSE f[q]
      /\ \A q \in Addr : b2[q] = IF q = p THEN tail ELSE b[q]
      /\ u.pListTail = p
      /\ u.pListHead = IF t.pListHead = NULL THEN p ELSE t.pListHead
 BY <1>1, <1>2, ConnectToGlobalFields
<1>4. Links(f, b, s) /\ tail = Nth(s, Len(s)) /\ t.pListHead = Nth(s, 1)
 BY <1>1, <1>2 DEF Elements
<1>5. tail # NULL => tail \in Addr /\ tail # p
 <2>1. Len(s) \in Int /\ s \in Seq(Addr) /\ ToSet(s) \subseteq Addr
  BY <1>4, LinksFacts
 <2> QED BY <2>1, <1>4, NthFacts
<1>6. \A q \in ToSet(s) : q \in Addr /\ q # p
 BY <1>4, LinksFacts
<1>7. /\ f2[p] = NULL /\ b2[p] = tail
      /\ tail # NULL => f2[tail] = p
 BY <1>3, <1>5
<1>8. \A q \in ToSet(s) : b2[q] = b[q] /\ (q # tail => f2[q] = f[q])
 BY <1>3, <1>6
<1>9. /\ Links(f2, b2, Append(s, p))
      /\ Len(Append(s, p)) = Len(s) + 1
      /\ ToSet(Append(s, p)) = ToSet(s) \cup {p}
      /\ Nth(Append(s, p), Len(s) + 1) = p
      /\ Nth(Append(s, p), 1) = IF tail = NULL THEN p ELSE Nth(s, 1)
      /\ tail = NULL <=> s = <<>>
 <2>1. LinkLast(f, b, s, p, tail, f2, b2)
  BY <1>4, <1>7, <1>8 DEF LinkLast
 <2> QED BY <2>1, LinksAppend
<1>10. t.pListHead = NULL <=> tail = NULL
 <2>1. s \in Seq(Addr) /\ Len(s) \in Nat /\ \A i \in 1 .. Len(s) : s[i] # NULL
  BY <1>4, LinksFacts
 <2> QED BY <2>1, <1>4 DEF Nth
<1> QED BY <1>2, <1>3, <1>4, <1>9, <1>10 DEF Elements

\* The list without one.
LEMMA ElementsRemove ==
    ASSUME NEW t, Shaped(t), NEW s, Elements(t, s), NEW k \in 1 .. Len(s), NEW p, p = s[k],
           NEW u, u = DisconnectFromGlobal(t, p), NEW w, w = Without(s, k)
    PROVE  /\ Elements(u, w)
           /\ Len(w) = Len(s) - 1
           /\ ToSet(w) = ToSet(s) \ {p}
           /\ t.pListNext[p] \in ToSet(w) \cup {NULL} /\ t.pListLast[p] \in ToSet(w) \cup {NULL}
           /\ p \in Addr
<1>1. PICK next, last : next = t.pListNext[p] /\ last = t.pListLast[p]
 OBVIOUS
<1>2. PICK f, b, f2, b2 : f = t.pListNext /\ b = t.pListLast /\ f2 = u.pListNext /\ b2 = u.pListLast
 OBVIOUS
<1>3. Links(f, b, s) /\ t.pListTail = Nth(s, Len(s)) /\ t.pListHead = Nth(s, 1)
 BY <1>2 DEF Elements
<1>4. p \in Addr /\ p \in ToSet(s) /\ ToSet(s) \subseteq Addr /\ NULL \notin ToSet(s)
 BY <1>3, LinksFacts, PlaceOf
<1>5. /\ \A q \in Addr : f2[q] = IF q = last THEN next ELSE f[q]
      /\ \A q \in Addr : b2[q] = IF q = next THEN last ELSE b[q]
      /\ u.pListHead = IF last = NULL THEN next ELSE t.pListHead
      /\ u.pListTail = IF next = NULL THEN last ELSE t.pListTail
      /\ next \in Ptr /\ last \in Ptr
 BY <1>1, <1>2, <1>4, DisconnectFromGlobalFields
<1>6. next = f[p] /\ last = b[p]
 BY <1>1, <1>2
<1>7. /\ last # NULL => f2[last] = next
      /\ next # NULL => b2[next] = last
 BY <1>5 DEF Ptr
<1>8. \A q \in ToSet(s) : q # p => (q # last => f2[q] = f[q]) /\ (q # next => b2[q] = b[q])
 BY <1>4, <1>5
<1>9. /\ Links(f2, b2, w)
      /\ Len(w) = Len(s) - 1
      /\ ToSet(w) = ToSet(s) \ {p}
      /\ Nth(w, 1) = IF last = NULL THEN next ELSE Nth(s, 1)
      /\ Nth(w, Len(s) - 1) = IF next = NULL THEN last ELSE Nth(s, Len(s))
      /\ next \in (ToSet(s) \ {p}) \cup {NULL} /\ last \in (ToSet(s) \ {p}) \cup {NULL}
 <2>1. LinkAround(f, b, s, k, p, next, last, f2, b2)
  BY <1>3, <1>6, <1>7, <1>8 DEF LinkAround
 <2> QED BY <2>1, LinksRemove
<1> QED BY <1>1, <1>2, <1>3, <1>4, <1>5, <1>9 DEF Elements

\* One more bucket on its chain.
LEMMA ChainedConnect ==
    ASSUME NEW t, Shaped(t), NEW E, Chained(t, E), NEW p \in Addr, p \notin E,
           NEW u, u = ConnectToBucket(t, p), NEW F, \A q : q \in F <=> q \in E \/ q = p
    PROVE  Chained(u, F)
<1>1. PICK i, head : i = Slot(t, t.key[p].h) /\ head = t.arBuckets[i]
 OBVIOUS
<1>2. PICK f, b, f2, b2 : f = t.pLast /\ b = t.pNext /\ f2 = u.pLast /\ b2 = u.pNext
 OBVIOUS
<1>3. /\ i \in 0 .. t.nTableSize - 1 /\ head \in Ptr
      /\ u.arBuckets = [t.arBuckets EXCEPT ![i] = p]
      /\ \A q \in Addr : b2[q] = IF q = p THEN head ELSE b[q]
      /\ \A q \in Addr : f2[q] = IF q = p THEN NULL ELSE IF q = head THEN p ELSE f[q]
      /\ \A g \in Fields \ ChainFields : u[g] = t[g]
 BY <1>1, <1>2, ConnectToBucketFields
<1>4. u.nTableSize = t.nTableSize /\ \A q : SlotOf(u, q) = SlotOf(t, q)
 <2>1. u.nTableSize = t.nTableSize /\ u.key = t.key
  BY <1>3 DEF Fields, ChainFields
 <2> QED BY <2>1 DEF SlotOf, Slot
<1>5. SlotOf(t, p) = i
 BY <1>1 DEF SlotOf
<1>6. F \subseteq Addr
 BY DEF Chained
<1>7. ASSUME NEW j \in 0 .. t.nTableSize - 1 PROVE \E r : ChainIs(u, F, j, r)
 <2>1. PICK r : ChainIs(t, E, j, r)
  BY DEF Chained
 <2>2. /\ Links(f, b, r) /\ t.arBuckets[j] = Nth(r, Len(r))
       /\ \A q \in Addr : q \in ToSet(r) <=> q \in E /\ SlotOf(t, q) = j
  BY <1>2, <2>1 DEF ChainIs
 <2>3. r \in Seq(Addr) /\ Len(r) \in Int /\ ToSet(r) \subseteq Addr /\ NULL \notin ToSet(r)
  BY <2>2, LinksFacts
 <2>4. p \notin ToSet(r)
  BY <2>2
 <2>5. CASE j = i
  <3>1. head = Nth(r, Len(r)) /\ (head # NULL => head \in ToSet(r))
   BY <1>1, <2>2, <2>3, <2>5, NthFacts
  <3>2. /\ f2[p] = NULL /\ b2[p] = head
        /\ head # NULL => f2[head] = p
   BY <1>3, <2>3, <2>4, <3>1
  <3>3. \A q \in ToSet(r) : b2[q] = b[q] /\ (q # head => f2[q] = f[q])
   BY <1>3, <2>3, <2>4
  <3>4. /\ Links(f2, b2, Append(r, p))
        /\ Len(Append(r, p)) = Len(r) + 1
        /\ ToSet(Append(r, p)) = ToSet(r) \cup {p}
        /\ Nth(Append(r, p), Len(r) + 1) = p
   <4>1. LinkLast(f, b, r, p, head, f2, b2)
    BY <2>2, <2>4, <3>1, <3>2, <3>3 DEF LinkLast
   <4> QED BY <4>1, LinksAppend
  <3>5. u.arBuckets[i] = p
   BY <1>3 DEF Shaped
  <3>6. \A q \in Addr : q \in ToSet(Append(r, p)) <=> q \in F /\ SlotOf(u, q) = j
   BY <1>4, <1>5, <2>2, <2>5, <3>4
  <3>7. ChainIs(u, F, j, Append(r, p))
   BY <1>2, <2>5, <3>4, <3>5, <3>6 DEF ChainIs
  <3> QED BY <3>7
 <2>6. CASE j # i
  <3>1. head \notin ToSet(r)
   <4>1. PICK r2 : ChainIs(t, E, i, r2)
    BY <1>3 DEF Chained
   <4>2. /\ Links(f, b, r2) /\ head = Nth(r2, Len(r2))
         /\ \A q \in Addr : q \in ToSet(r2) <=> q \in E /\ SlotOf(t, q) = i
    BY <1>1, <1>2, <4>1 DEF ChainIs
   <4>3. r2 \in Seq(Addr) /\ Len(r2) \in Int
    BY <4>2, LinksFacts
   <4>4. head # NULL => head \in ToSet(r2)
    BY <4>2, <4>3, NthFacts
   <4> QED BY <4>2, <4>4, <2>2, <2>3, <2>6
  <3>2. \A q \in ToSet(r) : f2[q] = f[q] /\ b2[q] = b[q]
   BY <1>3, <2>3, <2>4, <3>1
  <3>3. Links(f2, b2, r)
   BY <2>2, <3>2, LinksSame
  <3>4. u.arBuckets[j] = t.arBuckets[j]
   BY <1>3, <2>6 DEF Shaped
  <3>5. \A q \in Addr : q \in ToSet(r) <=> q \in F /\ SlotOf(u, q) = j
   BY <1>4, <1>5, <2>2, <2>6
  <3>6. ChainIs(u, F, j, r)
   BY <1>2, <2>2, <3>3, <3>4, <3>5 DEF ChainIs
  <3> QED BY <3>6
 <2> QED BY <2>5, <2>6
<1> QED BY <1>4, <1>6, <1>7 DEF Chained

\* One bucket off its chain.
LEMMA ChainedDisconnect ==
    ASSUME NEW t, Shaped(t), NEW E, Chained(t, E), NEW p \in E,
           NEW u, u = DisconnectFromBucket(t, p), NEW F, \A q : q \in F <=> q \in E /\ q # p
    PROVE  Chained(u, F)
<1>0. p \in Addr /\ E \subseteq Addr
 BY DEF Chained
<1>1. PICK i, next, last : i = Slot(t, t.key[p].h) /\ next = t.pNext[p] /\ last = t.pLast[p]
 OBVIOUS
<1>2. PICK f, b, f2, b2 : f = t.pLast /\ b = t.pNext /\ f2 = u.pLast /\ b2 = u.pNext
 OBVIOUS
<1>3. /\ i \in 0 .. t.nTableSize - 1 /\ next \in Ptr /\ last \in Ptr
      /\ u.arBuckets = IF last = NULL THEN [t.arBuckets EXCEPT ![i] = next] ELSE t.arBuckets
      /\ \A q \in Addr : f2[q] = IF q = next THEN last ELSE f[q]
      /\ \A q \in Addr : b2[q] = IF q = last THEN next ELSE b[q]
      /\ \A g \in Fields \ {"pLast", "pNext", "arBuckets"} : u[g] = t[g]
 BY <1>0, <1>1, <1>2, DisconnectFromBucketFields
<1>4. u.nTableSize = t.nTableSize /\ u.key = t.key
 BY <1>3 DEF Fields
<1>5. \A q : SlotOf(u, q) = SlotOf(t, q)
 BY <1>4 DEF SlotOf, Slot
<1>6. SlotOf(t, p) = i
 BY <1>1 DEF SlotOf
<1>7. PICK r : ChainIs(t, E, i, r)
 BY <1>3 DEF Chained
<1>8. /\ Links(f, b, r) /\ t.arBuckets[i] = Nth(r, Len(r))
      /\ \A q \in Addr : q \in ToSet(r) <=> q \in E /\ SlotOf(t, q) = i
 BY <1>2, <1>7 DEF ChainIs
<1>9. r \in Seq(Addr) /\ ToSet(r) \subseteq Addr /\ p \in ToSet(r) /\ NULL \notin ToSet(r)
 BY <1>0, <1>6, <1>8, LinksFacts
<1>10. PICK k \in 1 .. Len(r) : r[k] = p
 BY <1>9, PlaceOf
<1>11. PICK w : w = Without(r, k)
 OBVIOUS
<1>12. last = f[p] /\ next = b[p]
 BY <1>1, <1>2
<1>13. /\ next # NULL => f2[next] = last
       /\ last # NULL => b2[last] = next
 BY <1>3 DEF Ptr
<1>14. \A q \in ToSet(r) : q # p => (q # next => f2[q] = f[q]) /\ (q # last => b2[q] = b[q])
 BY <1>3, <1>9
<1>15. /\ Links(f2, b2, w)
       /\ Len(w) = Len(r) - 1
       /\ ToSet(w) = ToSet(r) \ {p}
       /\ Nth(w, Len(r) - 1) = IF last = NULL THEN next ELSE Nth(r, Len(r))
       /\ last \in (ToSet(r) \ {p}) \cup {NULL} /\ next \in (ToSet(r) \ {p}) \cup {NULL}
 <2>1. LinkAround(f, b, r, k, p, last, next, f2, b2)
  BY <1>8, <1>10, <1>12, <1>13, <1>14 DEF LinkAround
 <2> QED BY <1>11, <2>1, LinksRemove
<1>16. F \subseteq Addr
 BY <1>0
<1>17. ASSUME NEW j \in 0 .. t.nTableSize - 1 PROVE \E x : ChainIs(u, F, j, x)
 <2>1. CASE j = i
  <3>1. u.arBuckets[i] = Nth(w, Len(w))
   BY <1>3, <1>8, <1>15 DEF Shaped
  <3>2. \A q \in Addr : q \in ToSet(w) <=> q \in F /\ SlotOf(u, q) = i
   BY <1>5, <1>8, <1>15
  <3>3. ChainIs(u, F, i, w)
   BY <1>2, <1>15, <3>1, <3>2 DEF ChainIs
  <3> QED BY <2>1, <3>3
 <2>2. CASE j # i
  <3>1. PICK x : ChainIs(t, E, j, x)
   BY DEF Chained
  <3>2. /\ Links(f, b, x) /\ t.arBuckets[j] = Nth(x, Len(x))
        /\ \A q \in Addr : q \in ToSet(x) <=> q \in E /\ SlotOf(t, q) = j
   BY <1>2, <3>1 DEF ChainIs
  <3>3. ToSet(x) \subseteq Addr /\ NULL \notin ToSet(x)
   BY <3>2, LinksFacts
  <3>4. next \notin ToSet(x) /\ last \notin ToSet(x)
   BY <1>8, <1>9, <1>15, <2>2, <3>2, <3>3
  <3>5. \A q \in ToSet(x) : f2[q] = f[q] /\ b2[q] = b[q]
   BY <1>3, <3>3, <3>4
  <3>6. Links(f2, b2, x)
   BY <3>2, <3>5, LinksSame
  <3>7. u.arBuckets[j] = t.arBuckets[j]
   BY <1>3, <2>2 DEF Shaped
  <3>8. \A q \in Addr : q \in ToSet(x) <=> q \in F /\ SlotOf(u, q) = j
   BY <1>5, <1>6, <2>2, <3>2
  <3>9. ChainIs(u, F, j, x)
   BY <1>2, <3>2, <3>6, <3>7, <3>8 DEF ChainIs
  <3> QED BY <3>9
 <2> QED BY <2>1, <2>2
<1> QED BY <1>4, <1>16, <1>17 DEF Chained

--------------------
(* Connecting all elements again. *)

\* With all slots empty no bucket is on a chain.
LEMMA ChainedNone ==
    ASSUME NEW t, \A i \in 0 .. t.nTableSize - 1 : t.arBuckets[i] = NULL
    PROVE  Chained(t, {})
<1>1. ASSUME NEW i \in 0 .. t.nTableSize - 1 PROVE ChainIs(t, {}, i, <<>>)
 <2>1. /\ Links(t.pLast, t.pNext, <<>>) /\ ToSet(<<>>) = {}
       /\ Len(<<>>) = 0 /\ Nth(<<>>, 0) = NULL
  BY LinksEmpty
 <2> QED BY <2>1 DEF ChainIs
<1> QED BY <1>1 DEF Chained

\* c[n] has the first n of list connected, starting from base.
Connects(c, base, list, k) ==
    c = [n \in 0 .. k |->
            IF n = 0 THEN base ELSE ConnectToBucket(c[n - 1], list[n])]

\* There is such a function, from any table.
LEMMA ConnectsExists ==
    ASSUME NEW base, NEW list, NEW n \in Nat
    PROVE  \E c : Connects(c, base, list, n)
<1> DEFINE G == {k \in Nat : \E c : Connects(c, base, list, k)}
<1>1. 0 \in G
 <2> DEFINE c == [i \in 0 .. 0 |-> base]
 <2>1. c = [i \in 0 .. 0 |-> IF i = 0 THEN base ELSE ConnectToBucket(c[i - 1], list[i])]
  <3>1. \A i \in 0 .. 0 : i = 0
   OBVIOUS
  <3> QED BY <3>1, Zenon
 <2>2. Connects(c, base, list, 0)
  <3> HIDE DEF c
  <3> QED BY <2>1, Zenon DEF Connects
 <2> HIDE DEF c
 <2> QED BY <2>2
<1>2. ASSUME NEW k \in Nat, k \in G PROVE k + 1 \in G
 <2>1. PICK c : Connects(c, base, list, k)
  BY <1>2
 <2> DEFINE d == [i \in 0 .. k + 1 |-> IF i = k + 1 THEN ConnectToBucket(c[k], list[k + 1]) ELSE c[i]]
 <2>2. ASSUME NEW i \in 0 .. k + 1
       PROVE  d[i] = IF i = 0 THEN base ELSE ConnectToBucket(d[i - 1], list[i])
  <3>1. CASE i = k + 1
   <4>1. k \in 0 .. k + 1 /\ i # 0 /\ i - 1 = k /\ k # k + 1
    BY <3>1
   <4>2. d[k] = c[k] /\ d[i] = ConnectToBucket(c[k], list[k + 1])
    BY <4>1, <3>1
   <4> HIDE DEF d
   <4> QED BY <4>1, <4>2, <3>1, Zenon
  <3>2. CASE i # k + 1
   <4>1. i \in 0 .. k /\ d[i] = c[i]
    BY <3>2
   <4>2. c[i] = IF i = 0 THEN base ELSE ConnectToBucket(c[i - 1], list[i])
    BY <2>1, <4>1, Zenon DEF Connects
   <4>3. CASE i = 0
    <5> HIDE DEF d
    <5> QED BY <4>1, <4>2, <4>3, Zenon
   <4>4. CASE i # 0
    <5>1. i - 1 \in 0 .. k + 1 /\ i - 1 # k + 1
     BY <4>4, <4>1
    <5>2. d[i - 1] = c[i - 1]
     BY <5>1
    <5> HIDE DEF d
    <5> QED BY <4>1, <4>2, <4>4, <5>2, Zenon
   <4> QED BY <4>3, <4>4
  <3> QED BY <3>1, <3>2
 <2>3. Connects(d, base, list, k + 1)
  <3> d = [i \in 0 .. k + 1 |-> d[i]]
   OBVIOUS
  <3> HIDE DEF d
  <3> QED BY <2>2, Zenon DEF Connects
 <2> HIDE DEF d
 <2> QED BY <2>3
<1>3. Nat \subseteq G
 <2> HIDE DEF G
 <2> QED BY <1>1, <1>2, NatSet
<1> QED BY <1>3

\* The slots emptied.
Emptied(t) == [t EXCEPT !.arBuckets = [i \in 0 .. t.nTableSize - 1 |-> NULL]]

\* The first n of s.
FirstOf(s, n) == {s[i] : i \in 1 .. n}

\* Walking from pListHead gives the elements in their order.
LEMMA ListIs ==
    ASSUME NEW t, NEW s, Elements(t, s)
    PROVE  List(t) = s
BY WalkIs, Zenon DEF List, Elements

\* Whatever the chains were, all elements are on theirs after a rehash.
LEMMA Rehashed ==
    ASSUME NEW t, NEW s, Elements(t, s), NEW base, base = Emptied(t), Shaped(base),
           \A g \in Fields \ ChainFields : base[g] = t[g],
           NEW u, u = zend_hash_rehash(t)
    PROVE  /\ Shaped(u) /\ Chained(u, ToSet(s))
           /\ \A g \in Fields \ ChainFields : u[g] = t[g]
<1>1. s \in Seq(Addr) /\ Len(s) \in Nat /\ (\A i \in 1 .. Len(s) : s[i] \in Addr)
      /\ (\A i, j \in 1 .. Len(s) : s[i] = s[j] => i = j)
 BY LinksFacts DEF Elements
<1> DEFINE c == CHOOSE x : Connects(x, base, s, Len(s))
<1>2. Connects(c, base, s, Len(s))
 BY <1>1, ConnectsExists, Zenon
<1>3. u = c[Len(s)]
 <2>1. List(t) = s
  BY ListIs
 <2> QED BY <2>1, Zenon DEF zend_hash_rehash, Connects, Emptied
<1> HIDE DEF c
<1> DEFINE G == {n \in Nat : n <= Len(s) =>
                   /\ Shaped(c[n]) /\ Chained(c[n], FirstOf(s, n))
                   /\ \A g \in Fields \ ChainFields : c[n][g] = t[g]}
<1>4. 0 \in G
 <2>1. c[0] = base
  <3>1. 0 \in 0 .. Len(s)
   BY <1>1
  <3> QED BY <3>1, <1>2, Zenon DEF Connects
 <2>2. FirstOf(s, 0) = {}
  BY DEF FirstOf
 <2>3. base.arBuckets = [i \in 0 .. base.nTableSize - 1 |-> NULL]
  <3>1. base.nTableSize = t.nTableSize
   BY DEF Fields, ChainFields
  <3>2. base.arBuckets = [i \in 0 .. t.nTableSize - 1 |-> NULL]
   <4>1. DOMAIN base = Fields
    BY DEF Shaped
   <4>2. DOMAIN base = DOMAIN t
    BY DEF Emptied
   <4>3. "arBuckets" \in DOMAIN t
    BY <4>1, <4>2 DEF Fields
   <4> DEFINE A == [i \in 0 .. t.nTableSize - 1 |-> NULL]
   <4>4. base = [t EXCEPT !.arBuckets = A]
    BY DEF Emptied
   <4> HIDE DEF A
   <4>5. base.arBuckets = A
    BY <4>3, <4>4
   <4> QED BY <4>5 DEF A
  <3> QED BY <3>1, <3>2
 <2>4. Chained(base, {})
  BY <2>3, ChainedNone
 <2> QED BY <2>1, <2>2, <2>4
<1>5. ASSUME NEW n \in Nat, n \in G PROVE n + 1 \in G
 <2> SUFFICES ASSUME n + 1 <= Len(s)
              PROVE  /\ Shaped(c[n + 1]) /\ Chained(c[n + 1], FirstOf(s, n + 1))
                     /\ \A g \in Fields \ ChainFields : c[n + 1][g] = t[g]
  OBVIOUS
 <2>1. n + 1 \in 0 .. Len(s) /\ n + 1 # 0 /\ (n + 1) - 1 = n /\ n <= Len(s) /\ n + 1 \in 1 .. Len(s)
  BY <1>1
 <2>2. c[n + 1] = ConnectToBucket(c[n], s[n + 1])
  <3>1. c[n + 1] = IF n + 1 = 0 THEN base ELSE ConnectToBucket(c[(n + 1) - 1], s[n + 1])
   BY <1>2, <2>1, Zenon DEF Connects
  <3> QED BY <3>1, <2>1, Zenon
 <2>3. PICK v, w, p, E, F : v = c[n] /\ w = c[n + 1] /\ p = s[n + 1] /\ E = FirstOf(s, n) /\ F = FirstOf(s, n + 1)
  OBVIOUS
 <2>4. Shaped(v) /\ Chained(v, E) /\ \A g \in Fields \ ChainFields : v[g] = t[g]
  BY <1>5, <2>1, <2>3
 <2>5. p \in Addr /\ p \notin E
  BY <1>1, <2>1, <2>3 DEF FirstOf
 <2>6. \A q : q \in F <=> q \in E \/ q = p
  <3>1. \A i \in 1 .. n + 1 : i \in 1 .. n \/ i = n + 1
   OBVIOUS
  <3>2. \A i \in 1 .. n : i \in 1 .. n + 1
   OBVIOUS
  <3>3. n + 1 \in 1 .. n + 1
   OBVIOUS
  <3> QED BY <3>1, <3>2, <3>3, <2>3 DEF FirstOf
 <2>7. w = ConnectToBucket(v, p)
  BY <2>2, <2>3
 <2>8. Chained(w, F)
  BY <2>4, <2>5, <2>6, <2>7, ChainedConnect
 <2>9. Shaped(w) /\ \A g \in Fields \ ChainFields : w[g] = v[g]
  <3>1. PICK i, head : i = Slot(v, v.key[p].h) /\ head = v.arBuckets[i]
   OBVIOUS
  <3>2. /\ Shaped(w) /\ i \in 0 .. v.nTableSize - 1 /\ head \in Ptr
        /\ w.arBuckets = [v.arBuckets EXCEPT ![i] = p]
        /\ \A q \in Addr : w.pNext[q] = IF q = p THEN head ELSE v.pNext[q]
        /\ \A q \in Addr : w.pLast[q] = IF q = p THEN NULL ELSE IF q = head THEN p ELSE v.pLast[q]
        /\ \A g \in Fields \ ChainFields : w[g] = v[g]
   BY <2>4, <2>5, <2>7, <3>1, ConnectToBucketFields
  <3> QED BY <3>2
 <2> QED BY <2>3, <2>4, <2>8, <2>9
<1>6. Len(s) \in G
 <2> HIDE DEF G
 <2> QED BY <1>1, <1>4, <1>5, NatSet
<1>7. FirstOf(s, Len(s)) = ToSet(s)
 BY <1>1, SeqFacts DEF FirstOf
<1> QED BY <1>1, <1>3, <1>6, <1>7

--------------------
(* A table with the elements s, and what each operation makes of it. *)

Pointed(t, E) == t.pInternalPointer = NULL \/ t.pInternalPointer \in E

Table(t, s) ==
    /\ Shaped(t)
    /\ Elements(t, s)
    /\ Chained(t, ToSet(s))
    /\ Pointed(t, ToSet(s))

\* The fields the lists are made of.
ListFields == {"nTableSize", "arBuckets", "key", "pNext", "pLast",
               "pListHead", "pListTail", "pListNext", "pListLast"}

\* The parts of a table that is in order, and the neighbours of its elements.
LEMMA TableFacts ==
    ASSUME NEW t, NEW s, Table(t, s)
    PROVE  /\ s \in Seq(Addr) /\ Len(s) \in Nat /\ ToSet(s) \subseteq Addr /\ NULL \notin ToSet(s)
           /\ \A i \in 1 .. Len(s) : s[i] \in Addr /\ s[i] # NULL /\ s[i] \in ToSet(s)
           /\ \A i, j \in 1 .. Len(s) : s[i] = s[j] => i = j
           /\ \A i \in 1 .. Len(s) : t.pListNext[s[i]] = Nth(s, i + 1) /\ t.pListLast[s[i]] = Nth(s, i - 1)
           /\ t.pListHead = Nth(s, 1) /\ t.pListTail = Nth(s, Len(s))
           /\ List(t) = s
           /\ s = <<>> <=> Len(s) = 0
<1>1. Links(t.pListNext, t.pListLast, s) /\ t.pListHead = Nth(s, 1) /\ t.pListTail = Nth(s, Len(s))
 BY DEF Table, Elements
<1>2. List(t) = s
 BY ListIs DEF Table
<1>3. /\ s \in Seq(Addr) /\ Len(s) \in Nat /\ ToSet(s) \subseteq Addr /\ NULL \notin ToSet(s)
      /\ \A i \in 1 .. Len(s) : s[i] \in Addr /\ s[i] # NULL
      /\ \A i, j \in 1 .. Len(s) : s[i] = s[j] => i = j
      /\ \A i \in 1 .. Len(s) : t.pListNext[s[i]] = Nth(s, i + 1) /\ t.pListLast[s[i]] = Nth(s, i - 1)
 BY <1>1, LinksFacts
<1>4. \A i \in 1 .. Len(s) : s[i] \in ToSet(s)
 BY <1>3, PlaceOf
<1> QED BY <1>1, <1>2, <1>3, <1>4

\* What follows and precedes an element is an element, if anything.
LEMMA NeighboursListed ==
    ASSUME NEW t, NEW s, Table(t, s)
    PROVE  /\ \A p \in ToSet(s) : /\ t.pListNext[p] = NULL \/ t.pListNext[p] \in ToSet(s)
                                  /\ t.pListLast[p] = NULL \/ t.pListLast[p] \in ToSet(s)
           /\ t.pListHead = NULL \/ t.pListHead \in ToSet(s)
           /\ t.pListTail = NULL \/ t.pListTail \in ToSet(s)
           /\ t.pListHead = NULL <=> s = <<>>
           /\ t.pListTail = NULL <=> s = <<>>
<1>1. /\ s \in Seq(Addr) /\ Len(s) \in Nat
      /\ \A i \in 1 .. Len(s) : s[i] # NULL
      /\ \A i \in 1 .. Len(s) : t.pListNext[s[i]] = Nth(s, i + 1) /\ t.pListLast[s[i]] = Nth(s, i - 1)
      /\ t.pListHead = Nth(s, 1) /\ t.pListTail = Nth(s, Len(s))
      /\ s = <<>> <=> Len(s) = 0
 BY TableFacts
<1>2. \A i \in Int : Nth(s, i) = NULL \/ Nth(s, i) \in ToSet(s)
 BY <1>1, NthFacts
<1>3. ASSUME NEW p \in ToSet(s)
      PROVE  /\ t.pListNext[p] = NULL \/ t.pListNext[p] \in ToSet(s)
             /\ t.pListLast[p] = NULL \/ t.pListLast[p] \in ToSet(s)
 <2>1. PICK i \in 1 .. Len(s) : s[i] = p
  BY <1>1, PlaceOf
 <2>2. i + 1 \in Int /\ i - 1 \in Int /\ t.pListNext[p] = Nth(s, i + 1) /\ t.pListLast[p] = Nth(s, i - 1)
  BY <1>1, <2>1
 <2> QED BY <2>2, <1>2
<1>4. /\ t.pListHead = NULL \/ t.pListHead \in ToSet(s)
      /\ t.pListTail = NULL \/ t.pListTail \in ToSet(s)
 BY <1>1, <1>2
<1>5. t.pListHead = NULL <=> s = <<>>
 BY <1>1 DEF Nth
<1>6. t.pListTail = NULL <=> s = <<>>
 BY <1>1 DEF Nth
<1> QED BY <1>3, <1>4, <1>5, <1>6

\* What the table leaves of its lists keeps it in order.
LEMMA TableSame ==
    ASSUME NEW t, NEW s, Table(t, s), NEW u, Shaped(u), Pointed(u, ToSet(s)),
           \A g \in ListFields : u[g] = t[g]
    PROVE  Table(u, s)
<1>1. /\ u.nTableSize = t.nTableSize /\ u.arBuckets = t.arBuckets /\ u.key = t.key
      /\ u.pNext = t.pNext /\ u.pLast = t.pLast /\ u.pListHead = t.pListHead /\ u.pListTail = t.pListTail
      /\ u.pListNext = t.pListNext /\ u.pListLast = t.pListLast
 BY DEF ListFields
<1>2. Elements(u, s)
 BY <1>1 DEF Table, Elements
<1>3. Chained(u, ToSet(s))
 BY <1>1, ChainedSame DEF Table
<1> QED BY <1>2, <1>3 DEF Table

SizeFields == {"nTableSize", "arBuckets", "pNext", "pLast"}

\* ZEND_HASH_IF_FULL_DO_RESIZE
LEMMA TableResize ==
    ASSUME NEW t, NEW s, Table(t, s), NEW u, u = DoResize(t)
    PROVE  /\ Table(u, s)
           /\ \A g \in Fields \ SizeFields : u[g] = t[g]
<1>1. CASE ~(t.nNumOfElements > t.nTableSize)
 BY <1>1, Zenon DEF DoResize
<1>2. CASE t.nNumOfElements > t.nTableSize
 <2>1. PICK v : v = [t EXCEPT !.nTableSize = 2 * t.nTableSize]
  OBVIOUS
 <2>2. u = zend_hash_rehash(v)
  BY <1>2, <2>1 DEF DoResize
 <2>3. Shaped(t) /\ Elements(t, s)
  BY DEF Table
 <2>4. v.nTableSize = 2 * t.nTableSize /\ DOMAIN v = Fields /\ \A g \in Fields \ {"nTableSize"} : v[g] = t[g]
  BY <2>1, <2>3 DEF Shaped, Fields
 <2>5. v.nTableSize \in Nat \ {0}
  BY <2>3, <2>4 DEF Shaped
 <2> DEFINE A == [i \in 0 .. v.nTableSize - 1 |-> NULL]
 <2>6. PICK base : base = Emptied(v)
  OBVIOUS
 <2>7. base = [v EXCEPT !.arBuckets = A]
  BY <2>6 DEF Emptied
 <2>8. A \in [0 .. v.nTableSize - 1 -> Ptr]
  BY DEF Ptr
 <2> HIDE DEF A
 <2>9. DOMAIN base = Fields /\ base.arBuckets = A /\ \A g \in Fields \ {"arBuckets"} : base[g] = v[g]
  BY <2>4, <2>7 DEF Fields
 <2>10. base.nTableSize = v.nTableSize
  BY <2>9 DEF Fields
 <2>11. \A g \in Fields \ {"arBuckets", "nTableSize"} : base[g] = t[g]
  BY <2>4, <2>9
 <2>12. Shaped(base)
  <3>1. /\ base.nNumOfElements = t.nNumOfElements
        /\ base.nNextFreeElement = t.nNextFreeElement /\ base.pListHead = t.pListHead
        /\ base.pListTail = t.pListTail /\ base.pInternalPointer = t.pInternalPointer
        /\ base.allocated = t.allocated /\ base.key = t.key /\ base.pData = t.pData
        /\ base.pNext = t.pNext /\ base.pLast = t.pLast
        /\ base.pListNext = t.pListNext /\ base.pListLast = t.pListLast
   BY <2>11 DEF Fields
  <3> QED BY <3>1, <2>3, <2>5, <2>8, <2>9, <2>10 DEF Shaped
 <2>13. \A g \in Fields \ ChainFields : base[g] = v[g]
  BY <2>9 DEF ChainFields
 <2>14. Elements(v, s)
  <3>1. v.pListNext = t.pListNext /\ v.pListLast = t.pListLast /\ v.pListHead = t.pListHead /\ v.pListTail = t.pListTail
   BY <2>4 DEF Fields
  <3> QED BY <3>1, <2>3 DEF Elements
 <2>15. Shaped(u) /\ Chained(u, ToSet(s)) /\ \A g \in Fields \ ChainFields : u[g] = v[g]
  BY <2>2, <2>6, <2>12, <2>13, <2>14, Rehashed
 <2>16. \A g \in Fields \ SizeFields : u[g] = t[g]
  BY <2>4, <2>15 DEF SizeFields, ChainFields
 <2>17. Elements(u, s) /\ Pointed(u, ToSet(s))
  <3>1. u.pListNext = t.pListNext /\ u.pListLast = t.pListLast /\ u.pListHead = t.pListHead
        /\ u.pListTail = t.pListTail /\ u.pInternalPointer = t.pInternalPointer
   BY <2>16 DEF Fields, SizeFields
  <3> QED BY <3>1, <2>3 DEF Elements, Pointed, Table
 <2> QED BY <2>15, <2>16, <2>17 DEF Table
<1> QED BY <1>1, <1>2

\* A new table has no elements and is in order.
LEMMA TableEmpty ==
    ASSUME NEW n \in Nat \ {0}, NEW u, u = EmptyTable(n)
    PROVE  /\ Table(u, <<>>)
           /\ u.nTableSize = n /\ u.nNumOfElements = 0 /\ u.nNextFreeElement = 0 /\ u.allocated = {}
           /\ u.pInternalPointer = NULL /\ u.pListHead = NULL
           /\ u.key = [q \in Addr |-> NoKey] /\ u.pData = [q \in Addr |-> NULL]
           /\ u.pListNext = [q \in Addr |-> NULL] /\ u.pListLast = [q \in Addr |-> NULL]
<1>1. /\ DOMAIN u = Fields
      /\ u.nTableSize = n /\ u.nNumOfElements = 0 /\ u.nNextFreeElement = 0 /\ u.allocated = {}
      /\ u.pInternalPointer = NULL /\ u.pListHead = NULL /\ u.pListTail = NULL
      /\ u.key = [q \in Addr |-> NoKey] /\ u.pData = [q \in Addr |-> NULL]
      /\ u.pListNext = [q \in Addr |-> NULL] /\ u.pListLast = [q \in Addr |-> NULL]
      /\ u.pNext = [q \in Addr |-> NULL] /\ u.pLast = [q \in Addr |-> NULL]
      /\ u.arBuckets = [i \in 0 .. n - 1 |-> NULL]
 BY DEF EmptyTable, Fields
<1>2. Shaped(u)
 <2>1. NoKey \in Stored /\ NULL \in Ptr
  BY DEF Stored, Ptr
 <2> QED BY <1>1, <2>1 DEF Shaped
<1>3. /\ Links(u.pListNext, u.pListLast, <<>>) /\ ToSet(<<>>) = {}
      /\ Len(<<>>) = 0 /\ Nth(<<>>, 0) = NULL /\ Nth(<<>>, 1) = NULL
 BY LinksEmpty
<1>4. Elements(u, <<>>)
 BY <1>1, <1>3 DEF Elements
<1>5. \A i \in 0 .. u.nTableSize - 1 : u.arBuckets[i] = NULL
 BY <1>1
<1>6. Chained(u, {})
 BY <1>5, ChainedNone
<1> QED BY <1>1, <1>2, <1>3, <1>4, <1>6 DEF Table, Pointed

\* A new element goes last, on the chain of its slot, in a table that grows.
LEMMA TableInsert ==
    ASSUME NEW t, NEW s, Table(t, s), NEW p \in Addr, p \notin ToSet(s),
           NEW k \in Stored, NEW d \in Data \cup {NULL}, NEW u, u = Insert(t, p, k, d)
    PROVE  /\ Table(u, Append(s, p))
           /\ Len(Append(s, p)) = Len(s) + 1
           /\ ToSet(Append(s, p)) = ToSet(s) \cup {p}
           /\ u.allocated = t.allocated \cup {p}
           /\ \A q \in Addr : u.key[q] = IF q = p THEN k ELSE t.key[q]
           /\ \A q \in Addr : u.pData[q] = IF q = p THEN d ELSE t.pData[q]
           /\ u.nNumOfElements = t.nNumOfElements + 1
           /\ u.nNextFreeElement = NextFree(t, k)
           /\ u.pInternalPointer = IF t.pInternalPointer = NULL THEN p ELSE t.pInternalPointer
           /\ \A q \in Addr : q # p /\ q \notin ToSet(s) => u.pListNext[q] = t.pListNext[q]
<1>1. Shaped(t) /\ Elements(t, s) /\ Chained(t, ToSet(s)) /\ Pointed(t, ToSet(s))
 BY DEF Table
<1>2. ToSet(s) \subseteq Addr /\ NULL \notin ToSet(s) /\ p # NULL
 BY TableFacts, AddrAssumption
<1> DEFINE A == t.allocated \cup {p}
           K == [t.key EXCEPT ![p] = k]
           D == [t.pData EXCEPT ![p] = d]
<1>3. PICK a : a = [t EXCEPT !.allocated = A, !.key = K, !.pData = D]
 OBVIOUS
<1>4. PICK b : b = ConnectToBucket(a, p)
 OBVIOUS
<1>5. PICK v : v = ConnectToGlobal(b, p)
 OBVIOUS
<1>6. PICK w : w = [v EXCEPT !.nNextFreeElement = NextFree(t, k), !.nNumOfElements = v.nNumOfElements + 1]
 OBVIOUS
<1>7. u = DoResize(w)
 <2>1. a = [t EXCEPT !.allocated = @ \cup {p}, !.key[p] = k, !.pData[p] = d]
  BY <1>1, <1>3 DEF Shaped, Fields
 <2>2. v = ConnectToGlobal(ConnectToBucket([t EXCEPT !.allocated = @ \cup {p}, !.key[p] = k, !.pData[p] = d], p), p)
  BY <1>4, <1>5, <2>1, Zenon
 <2>3. w = [v EXCEPT !.nNextFreeElement = NextFree(t, k), !.nNumOfElements = @ + 1]
  BY <1>6
 <2> QED BY <2>2, <2>3, Zenon DEF Insert
<1>8. A \subseteq Addr /\ K \in [Addr -> Stored] /\ D \in [Addr -> Data \cup {NULL}]
 BY <1>1 DEF Shaped
<1>9. /\ \A q \in Addr : K[q] = IF q = p THEN k ELSE t.key[q]
      /\ \A q \in Addr : D[q] = IF q = p THEN d ELSE t.pData[q]
 BY <1>1 DEF Shaped
<1> HIDE DEF A, K, D
<1>10. /\ DOMAIN a = Fields /\ a.allocated = A /\ a.key = K /\ a.pData = D
       /\ \A g \in Fields \ {"allocated", "key", "pData"} : a[g] = t[g]
 BY <1>1, <1>3 DEF Shaped, Fields
<1>11. /\ a.nTableSize = t.nTableSize /\ a.arBuckets = t.arBuckets /\ a.pNext = t.pNext /\ a.pLast = t.pLast
       /\ a.pListHead = t.pListHead /\ a.pListTail = t.pListTail /\ a.pInternalPointer = t.pInternalPointer
       /\ a.pListNext = t.pListNext /\ a.pListLast = t.pListLast
       /\ a.nNumOfElements = t.nNumOfElements /\ a.nNextFreeElement = t.nNextFreeElement
 BY <1>10 DEF Fields
<1>12. Shaped(a)
 BY <1>1, <1>8, <1>10, <1>11 DEF Shaped
<1>13. Chained(a, ToSet(s))
 <2>1. \A q \in ToSet(s) : a.pLast[q] = t.pLast[q] /\ a.pNext[q] = t.pNext[q] /\ a.key[q].h = t.key[q].h
  BY <1>2, <1>9, <1>10, <1>11
 <2> QED BY <1>1, <1>11, <2>1, ChainedSame
<1>14. PICK i, head : i = Slot(a, a.key[p].h) /\ head = a.arBuckets[i]
 OBVIOUS
<1>15. /\ Shaped(b) /\ i \in 0 .. a.nTableSize - 1 /\ head \in Ptr
       /\ b.arBuckets = [a.arBuckets EXCEPT ![i] = p]
       /\ \A q \in Addr : b.pNext[q] = IF q = p THEN head ELSE a.pNext[q]
       /\ \A q \in Addr : b.pLast[q] = IF q = p THEN NULL ELSE IF q = head THEN p ELSE a.pLast[q]
       /\ \A g \in Fields \ ChainFields : b[g] = a[g]
 BY <1>4, <1>12, <1>14, ConnectToBucketFields
<1>16. PICK F : F = ToSet(s) \cup {p}
 OBVIOUS
<1>17. Chained(b, F)
 <2>1. \A q : q \in F <=> q \in ToSet(s) \/ q = p
  BY <1>16
 <2> QED BY <1>4, <1>12, <1>13, <2>1, ChainedConnect
<1>18. /\ b.nTableSize = t.nTableSize /\ b.key = K /\ b.allocated = A /\ b.pData = D
       /\ b.pListHead = t.pListHead /\ b.pListTail = t.pListTail /\ b.pInternalPointer = t.pInternalPointer
       /\ b.pListNext = t.pListNext /\ b.pListLast = t.pListLast
       /\ b.nNumOfElements = t.nNumOfElements /\ b.nNextFreeElement = t.nNextFreeElement
 BY <1>10, <1>11, <1>15 DEF Fields, ChainFields
<1>19. Elements(b, s)
 BY <1>1, <1>18 DEF Elements
<1>20. PICK tail : tail = b.pListTail
 OBVIOUS
<1>21. /\ Shaped(v)
       /\ \A q \in Addr : v.pListNext[q] = IF q = p THEN NULL ELSE IF q = tail THEN p ELSE b.pListNext[q]
       /\ \A q \in Addr : v.pListLast[q] = IF q = p THEN tail ELSE b.pListLast[q]
       /\ v.pListTail = p
       /\ v.pListHead = IF b.pListHead = NULL THEN p ELSE b.pListHead
       /\ v.pInternalPointer = IF b.pInternalPointer = NULL THEN p ELSE b.pInternalPointer
       /\ \A g \in Fields \ {"pListNext", "pListLast", "pListTail", "pListHead", "pInternalPointer"} : v[g] = b[g]
 BY <1>5, <1>15, <1>20, ConnectToGlobalFields
<1>22. /\ Elements(v, Append(s, p))
       /\ Len(Append(s, p)) = Len(s) + 1
       /\ ToSet(Append(s, p)) = ToSet(s) \cup {p}
 BY <1>5, <1>15, <1>19, ElementsAppend
<1>23. /\ v.nTableSize = t.nTableSize /\ v.arBuckets = b.arBuckets /\ v.key = K /\ v.allocated = A /\ v.pData = D
       /\ v.pNext = b.pNext /\ v.pLast = b.pLast
       /\ v.nNumOfElements = t.nNumOfElements /\ v.nNextFreeElement = t.nNextFreeElement
 BY <1>18, <1>21 DEF Fields
<1>24. Chained(v, F)
 BY <1>17, <1>18, <1>23, ChainedSame
<1>25. Table(v, Append(s, p))
 <2>1. Pointed(v, F)
  BY <1>1, <1>16, <1>18, <1>21 DEF Pointed
 <2> QED BY <1>16, <1>21, <1>22, <1>24, <2>1 DEF Table
<1>26. NextFree(t, k) \in Nat
 BY <1>1, StoredFacts, KeyAssumption DEF NextFree, Shaped
<1>27. /\ DOMAIN w = Fields /\ w.nNextFreeElement = NextFree(t, k) /\ w.nNumOfElements = t.nNumOfElements + 1
       /\ \A g \in Fields \ {"nNextFreeElement", "nNumOfElements"} : w[g] = v[g]
 BY <1>6, <1>21, <1>23 DEF Shaped, Fields
<1>28. Shaped(w)
 <2>1. w.nNumOfElements \in Int /\ w.nNextFreeElement \in Nat
  BY <1>1, <1>26, <1>27 DEF Shaped
 <2> QED BY <1>21, <1>27, <2>1 DEF Shaped, Fields
<1>29. Table(w, Append(s, p))
 <2>1. \A g \in ListFields : w[g] = v[g]
  BY <1>27 DEF ListFields, Fields
 <2>2. w.pInternalPointer = v.pInternalPointer
  BY <1>27 DEF Fields
 <2>3. Pointed(w, ToSet(Append(s, p)))
  BY <1>25, <2>2 DEF Pointed, Table
 <2> QED BY <1>25, <1>28, <2>1, <2>3, TableSame
<1>30. Table(u, Append(s, p)) /\ \A g \in Fields \ SizeFields : u[g] = w[g]
 BY <1>7, <1>29, TableResize
<1>31. /\ u.allocated = A /\ u.key = K /\ u.pData = D
       /\ u.nNumOfElements = t.nNumOfElements + 1 /\ u.nNextFreeElement = NextFree(t, k)
       /\ u.pInternalPointer = v.pInternalPointer /\ u.pListNext = v.pListNext
 BY <1>23, <1>27, <1>30 DEF Fields, SizeFields
<1>32. u.pInternalPointer = IF t.pInternalPointer = NULL THEN p ELSE t.pInternalPointer
 BY <1>18, <1>21, <1>31
<1>33. \A q \in Addr : q # p /\ q \notin ToSet(s) => u.pListNext[q] = t.pListNext[q]
 <2>1. tail = NULL \/ tail \in ToSet(s)
  BY <1>18, <1>20, NeighboursListed
 <2> QED BY <1>2, <2>1, <1>18, <1>21, <1>31, AddrAssumption
<1> QED BY <1>9, <1>22, <1>30, <1>31, <1>32, <1>33 DEF A

\* An element is off both lists.
LEMMA TableUnlink ==
    ASSUME NEW t, NEW s, Table(t, s), NEW k \in 1 .. Len(s), NEW p, p = s[k],
           NEW u, u = Unlink(t, p), NEW w, w = Without(s, k)
    PROVE  /\ Table(u, w)
           /\ Len(w) = Len(s) - 1
           /\ ToSet(w) = ToSet(s) \ {p}
           /\ u.nTableSize = t.nTableSize /\ u.nNumOfElements = t.nNumOfElements
           /\ u.nNextFreeElement = t.nNextFreeElement /\ u.allocated = t.allocated
           /\ u.key = t.key /\ u.pData = t.pData
           /\ u.pInternalPointer = IF t.pInternalPointer = p THEN t.pListNext[p] ELSE t.pInternalPointer
           /\ u.pListNext[p] = t.pListNext[p]
           /\ t.pListNext[p] = NULL \/ t.pListNext[p] \in ToSet(w)
           /\ t.pListLast[p] = NULL \/ t.pListLast[p] \in ToSet(w)
           /\ \A q \in Addr : q \notin ToSet(s) => u.pListNext[q] = t.pListNext[q]
           /\ u.pListHead = IF t.pListLast[p] = NULL THEN t.pListNext[p] ELSE t.pListHead
<1>1. Shaped(t) /\ Elements(t, s) /\ Chained(t, ToSet(s)) /\ Pointed(t, ToSet(s))
 BY DEF Table
<1>2. ToSet(s) \subseteq Addr /\ NULL \notin ToSet(s) /\ p \in ToSet(s) /\ p \in Addr
 BY TableFacts
<1>3. PICK v : v = DisconnectFromBucket(t, p)
 OBVIOUS
<1>4. u = DisconnectFromGlobal(v, p)
 BY <1>3 DEF Unlink
<1>5. PICK i, bn, bl : i = Slot(t, t.key[p].h) /\ bn = t.pNext[p] /\ bl = t.pLast[p]
 OBVIOUS
<1>6. /\ Shaped(v) /\ i \in 0 .. t.nTableSize - 1 /\ bn \in Ptr /\ bl \in Ptr
      /\ \A q \in Addr : v.pLast[q] = IF q = bn THEN bl ELSE t.pLast[q]
      /\ \A q \in Addr : v.pNext[q] = IF q = bl THEN bn ELSE t.pNext[q]
      /\ v.arBuckets = IF bl = NULL THEN [t.arBuckets EXCEPT ![i] = bn] ELSE t.arBuckets
      /\ \A g \in Fields \ {"pLast", "pNext", "arBuckets"} : v[g] = t[g]
 BY <1>1, <1>2, <1>3, <1>5, DisconnectFromBucketFields
<1>7. PICK F : F = ToSet(s) \ {p}
 OBVIOUS
<1>8. Chained(v, F)
 <2>1. \A q : q \in F <=> q \in ToSet(s) /\ q # p
  BY <1>7
 <2> QED BY <1>1, <1>2, <1>3, <2>1, ChainedDisconnect
<1>9. /\ v.nTableSize = t.nTableSize /\ v.key = t.key /\ v.allocated = t.allocated /\ v.pData = t.pData
      /\ v.pListHead = t.pListHead /\ v.pListTail = t.pListTail /\ v.pInternalPointer = t.pInternalPointer
      /\ v.pListNext = t.pListNext /\ v.pListLast = t.pListLast
      /\ v.nNumOfElements = t.nNumOfElements /\ v.nNextFreeElement = t.nNextFreeElement
 BY <1>6 DEF Fields
<1>10. Elements(v, s)
 BY <1>1, <1>9 DEF Elements
<1>11. /\ Elements(u, w)
       /\ Len(w) = Len(s) - 1
       /\ ToSet(w) = ToSet(s) \ {p}
       /\ v.pListNext[p] \in ToSet(w) \cup {NULL} /\ v.pListLast[p] \in ToSet(w) \cup {NULL}
       /\ p \in Addr
 BY <1>4, <1>6, <1>10, ElementsRemove
<1>12. PICK next, last : next = v.pListNext[p] /\ last = v.pListLast[p]
 OBVIOUS
<1>13. /\ Shaped(u) /\ next \in Ptr /\ last \in Ptr
       /\ \A q \in Addr : u.pListNext[q] = IF q = last THEN next ELSE v.pListNext[q]
       /\ \A q \in Addr : u.pListLast[q] = IF q = next THEN last ELSE v.pListLast[q]
       /\ u.pListHead = IF last = NULL THEN next ELSE v.pListHead
       /\ u.pListTail = IF next = NULL THEN last ELSE v.pListTail
       /\ u.pInternalPointer = IF v.pInternalPointer = p THEN next ELSE v.pInternalPointer
       /\ \A g \in Fields \ {"pListNext", "pListLast", "pListTail", "pListHead", "pInternalPointer"} : u[g] = v[g]
 BY <1>2, <1>4, <1>6, <1>12, DisconnectFromGlobalFields
<1>14. /\ u.nTableSize = t.nTableSize /\ u.arBuckets = v.arBuckets /\ u.key = t.key /\ u.allocated = t.allocated
       /\ u.pData = t.pData /\ u.pNext = v.pNext /\ u.pLast = v.pLast
       /\ u.nNumOfElements = t.nNumOfElements /\ u.nNextFreeElement = t.nNextFreeElement
 BY <1>9, <1>13 DEF Fields
<1>15. Chained(u, F)
 BY <1>8, <1>9, <1>14, ChainedSame
<1>16. Pointed(u, F)
 BY <1>1, <1>7, <1>9, <1>11, <1>12, <1>13 DEF Pointed
<1>17. Table(u, w)
 BY <1>7, <1>11, <1>13, <1>15, <1>16 DEF Table
<1>18. u.pListNext[p] = t.pListNext[p] /\ \A q \in Addr : q \notin ToSet(s) => u.pListNext[q] = t.pListNext[q]
 BY <1>2, <1>9, <1>11, <1>12, <1>13, AddrAssumption
<1>19. /\ u.pInternalPointer = IF t.pInternalPointer = p THEN t.pListNext[p] ELSE t.pInternalPointer
       /\ u.pListHead = IF t.pListLast[p] = NULL THEN t.pListNext[p] ELSE t.pListHead
 BY <1>9, <1>12, <1>13
<1> QED BY <1>9, <1>11, <1>14, <1>17, <1>18, <1>19

\* What pefree(p) leaves of t.
Freed(t, u, p) ==
    /\ u.allocated = t.allocated \ {p}
    /\ \A q \in Addr : /\ u.key[q] = IF q = p THEN NoKey ELSE t.key[q]
                       /\ u.pData[q] = IF q = p THEN NULL ELSE t.pData[q]
                       /\ u.pNext[q] = IF q = p THEN NULL ELSE t.pNext[q]
                       /\ u.pLast[q] = IF q = p THEN NULL ELSE t.pLast[q]
                       /\ u.pListNext[q] = IF q = p THEN NULL ELSE t.pListNext[q]
                       /\ u.pListLast[q] = IF q = p THEN NULL ELSE t.pListLast[q]
    /\ u.nTableSize = t.nTableSize /\ u.arBuckets = t.arBuckets
    /\ u.nNumOfElements = t.nNumOfElements /\ u.nNextFreeElement = t.nNextFreeElement
    /\ u.pListHead = t.pListHead /\ u.pListTail = t.pListTail /\ u.pInternalPointer = t.pInternalPointer

\* pefree(p), field by field.
LEMMA FreeFields ==
    ASSUME NEW t, Shaped(t), NEW p \in Addr, NEW u, u = Free(t, p)
    PROVE  /\ Shaped(u)
           /\ Freed(t, u, p)
<1> DEFINE A == t.allocated \ {p}
           K == [t.key EXCEPT ![p] = NoKey]
           D == [t.pData EXCEPT ![p] = NULL]
           N == [t.pNext EXCEPT ![p] = NULL]
           L == [t.pLast EXCEPT ![p] = NULL]
           M == [t.pListNext EXCEPT ![p] = NULL]
           J == [t.pListLast EXCEPT ![p] = NULL]
<1>1. u = [t EXCEPT !.allocated = A, !.key = K, !.pData = D, !.pNext = N, !.pLast = L,
                    !.pListNext = M, !.pListLast = J]
 BY DEF Free, Shaped, Fields
<1>2. NoKey \in Stored /\ NULL \in Ptr
 BY DEF Stored, Ptr
<1>3. /\ A \subseteq Addr /\ K \in [Addr -> Stored] /\ D \in [Addr -> Data \cup {NULL}]
      /\ N \in [Addr -> Ptr] /\ L \in [Addr -> Ptr] /\ M \in [Addr -> Ptr] /\ J \in [Addr -> Ptr]
 BY <1>2 DEF Shaped
<1>4. \A q \in Addr : /\ K[q] = IF q = p THEN NoKey ELSE t.key[q]
                      /\ D[q] = IF q = p THEN NULL ELSE t.pData[q]
                      /\ N[q] = IF q = p THEN NULL ELSE t.pNext[q]
                      /\ L[q] = IF q = p THEN NULL ELSE t.pLast[q]
                      /\ M[q] = IF q = p THEN NULL ELSE t.pListNext[q]
                      /\ J[q] = IF q = p THEN NULL ELSE t.pListLast[q]
 BY DEF Shaped
<1> HIDE DEF A, K, D, N, L, M, J
<1>5. /\ DOMAIN u = Fields /\ u.allocated = A /\ u.key = K /\ u.pData = D /\ u.pNext = N /\ u.pLast = L
      /\ u.pListNext = M /\ u.pListLast = J
      /\ u.nTableSize = t.nTableSize /\ u.arBuckets = t.arBuckets
      /\ u.nNumOfElements = t.nNumOfElements /\ u.nNextFreeElement = t.nNextFreeElement
      /\ u.pListHead = t.pListHead /\ u.pListTail = t.pListTail /\ u.pInternalPointer = t.pInternalPointer
 BY <1>1 DEF Shaped, Fields
<1>6. Shaped(u)
 BY <1>3, <1>5 DEF Shaped
<1> QED BY <1>4, <1>5, <1>6 DEF A, Freed

\* A bucket that is on no list is freed.
LEMMA TableFree ==
    ASSUME NEW t, NEW s, Table(t, s), NEW p \in Addr, p \notin ToSet(s), NEW u, u = Free(t, p)
    PROVE  /\ Table(u, s)
           /\ u.allocated = t.allocated \ {p}
           /\ u.nTableSize = t.nTableSize /\ u.nNumOfElements = t.nNumOfElements
           /\ u.nNextFreeElement = t.nNextFreeElement /\ u.pInternalPointer = t.pInternalPointer
           /\ u.pListHead = t.pListHead /\ u.pListTail = t.pListTail
           /\ \A q \in Addr : q # p => /\ u.key[q] = t.key[q] /\ u.pData[q] = t.pData[q]
                                       /\ u.pListNext[q] = t.pListNext[q]
           /\ u.key[p] = NoKey /\ u.pData[p] = NULL /\ u.pListNext[p] = NULL
<1>1. Shaped(t) /\ Elements(t, s) /\ Chained(t, ToSet(s)) /\ Pointed(t, ToSet(s))
 BY DEF Table
<1>2. \A q \in ToSet(s) : q \in Addr /\ q # p
 BY TableFacts
<1>3. /\ Shaped(u)
      /\ u.allocated = t.allocated \ {p}
      /\ \A q \in Addr : /\ u.key[q] = IF q = p THEN NoKey ELSE t.key[q]
                         /\ u.pData[q] = IF q = p THEN NULL ELSE t.pData[q]
                         /\ u.pNext[q] = IF q = p THEN NULL ELSE t.pNext[q]
                         /\ u.pLast[q] = IF q = p THEN NULL ELSE t.pLast[q]
                         /\ u.pListNext[q] = IF q = p THEN NULL ELSE t.pListNext[q]
                         /\ u.pListLast[q] = IF q = p THEN NULL ELSE t.pListLast[q]
      /\ u.nTableSize = t.nTableSize /\ u.arBuckets = t.arBuckets
      /\ u.nNumOfElements = t.nNumOfElements /\ u.nNextFreeElement = t.nNextFreeElement
      /\ u.pListHead = t.pListHead /\ u.pListTail = t.pListTail /\ u.pInternalPointer = t.pInternalPointer
 <2>1. Shaped(u) /\ Freed(t, u, p)
  BY <1>1, FreeFields
 <2> QED BY <2>1 DEF Freed
<1>4. Elements(u, s)
 BY <1>1, <1>2, <1>3, ElementsSame
<1>5. Chained(u, ToSet(s))
 BY <1>1, <1>2, <1>3, ChainedSame
<1>6. Pointed(u, ToSet(s))
 BY <1>1, <1>3 DEF Pointed
<1> QED BY <1>3, <1>4, <1>5, <1>6 DEF Table

\* Assignments to fields, named.
WithCount(t, n) == [t EXCEPT !.nNumOfElements = n]

WithValue(t, p, d, n) == [t EXCEPT !.pData[p] = d, !.nNextFreeElement = n]

WithPointer(t, p) == [t EXCEPT !.pInternalPointer = p]

WithKey(t, p, k) == [t EXCEPT !.key[p] = k]

\* nNumOfElements changes.
LEMMA TableCount ==
    ASSUME NEW t, NEW s, Table(t, s), NEW n \in Int, NEW u, u = WithCount(t, n)
    PROVE  /\ Table(u, s) /\ u.nNumOfElements = n
           /\ \A g \in Fields \ {"nNumOfElements"} : u[g] = t[g]
<1>1. DOMAIN u = Fields /\ u.nNumOfElements = n /\ \A g \in Fields \ {"nNumOfElements"} : u[g] = t[g]
 BY DEF Table, Shaped, Fields, WithCount
<1>2. Shaped(u)
 BY <1>1 DEF Table, Shaped, Fields
<1>3. (\A g \in ListFields : u[g] = t[g]) /\ u.pInternalPointer = t.pInternalPointer
 BY <1>1 DEF ListFields, Fields
<1>4. Pointed(u, ToSet(s))
 BY <1>3 DEF Pointed, Table
<1> QED BY <1>1, <1>2, <1>3, <1>4, TableSame

\* A value and the next index change.
LEMMA TableStore ==
    ASSUME NEW t, NEW s, Table(t, s), NEW p \in Addr, NEW d \in Data \cup {NULL}, NEW n \in Nat,
           NEW u, u = WithValue(t, p, d, n)
    PROVE  /\ Table(u, s) /\ u.nNextFreeElement = n
           /\ \A q \in Addr : u.pData[q] = IF q = p THEN d ELSE t.pData[q]
           /\ \A g \in Fields \ {"nNextFreeElement", "pData"} : u[g] = t[g]
<1> DEFINE D == [t.pData EXCEPT ![p] = d]
<1>0. Shaped(t)
 BY DEF Table
<1>1. u = [t EXCEPT !.pData = D, !.nNextFreeElement = n]
 BY <1>0 DEF Shaped, Fields, WithValue
<1>2. D \in [Addr -> Data \cup {NULL}] /\ \A q \in Addr : D[q] = IF q = p THEN d ELSE t.pData[q]
 BY <1>0 DEF Shaped
<1> HIDE DEF D
<1>3. DOMAIN u = Fields /\ u.nNextFreeElement = n /\ u.pData = D /\ \A g \in Fields \ {"nNextFreeElement", "pData"} : u[g] = t[g]
 BY <1>0, <1>1 DEF Shaped, Fields
<1>4. Shaped(u)
 BY <1>0, <1>2, <1>3 DEF Shaped, Fields
<1>5. (\A g \in ListFields : u[g] = t[g]) /\ u.pInternalPointer = t.pInternalPointer
 BY <1>3 DEF ListFields, Fields
<1>6. Pointed(u, ToSet(s))
 BY <1>5 DEF Pointed, Table
<1> QED BY <1>2, <1>3, <1>4, <1>5, <1>6, TableSame

\* The internal pointer moves to an element, or nowhere.
LEMMA TablePoint ==
    ASSUME NEW t, NEW s, Table(t, s), NEW p, p = NULL \/ p \in ToSet(s),
           NEW u, u = WithPointer(t, p)
    PROVE  /\ Table(u, s) /\ u.pInternalPointer = p
           /\ \A g \in Fields \ {"pInternalPointer"} : u[g] = t[g]
<1>0. p \in Ptr
 BY TableFacts DEF Ptr
<1>1. DOMAIN u = Fields /\ u.pInternalPointer = p /\ \A g \in Fields \ {"pInternalPointer"} : u[g] = t[g]
 BY DEF Table, Shaped, Fields, WithPointer
<1>2. Shaped(u)
 BY <1>0, <1>1 DEF Table, Shaped, Fields
<1>3. \A g \in ListFields : u[g] = t[g]
 BY <1>1 DEF ListFields, Fields
<1>4. Pointed(u, ToSet(s))
 BY <1>1 DEF Pointed
<1> QED BY <1>1, <1>2, <1>3, <1>4, TableSame

\* A key of one bucket changes.
LEMMA KeyFields ==
    ASSUME NEW t, Shaped(t), NEW p \in Addr, NEW k \in Stored, NEW u, u = WithKey(t, p, k)
    PROVE  /\ Shaped(u)
           /\ \A q \in Addr : u.key[q] = IF q = p THEN k ELSE t.key[q]
           /\ \A g \in Fields \ {"key"} : u[g] = t[g]
<1> DEFINE K == [t.key EXCEPT ![p] = k]
<1>1. u = [t EXCEPT !.key = K]
 BY DEF Shaped, Fields, WithKey
<1>2. K \in [Addr -> Stored] /\ \A q \in Addr : K[q] = IF q = p THEN k ELSE t.key[q]
 BY DEF Shaped
<1> HIDE DEF K
<1>3. DOMAIN u = Fields /\ u.key = K /\ \A g \in Fields \ {"key"} : u[g] = t[g]
 BY <1>1 DEF Shaped, Fields
<1>4. Shaped(u)
 BY <1>2, <1>3 DEF Shaped, Fields
<1> QED BY <1>2, <1>3, <1>4

\* An element gets another key and goes to the chain of that.
LEMMA TableRename ==
    ASSUME NEW t, NEW s, Table(t, s), NEW p \in ToSet(s), NEW k \in Stored,
           NEW u, u = ConnectToBucket(WithKey(DisconnectFromBucket(t, p), p, k), p)
    PROVE  /\ Table(u, s)
           /\ \A q \in Addr : u.key[q] = IF q = p THEN k ELSE t.key[q]
           /\ \A g \in Fields \ {"key", "arBuckets", "pNext", "pLast"} : u[g] = t[g]
<1>1. Shaped(t) /\ Elements(t, s) /\ Chained(t, ToSet(s)) /\ Pointed(t, ToSet(s))
 BY DEF Table
<1>2. ToSet(s) \subseteq Addr /\ NULL \notin ToSet(s) /\ p \in Addr
 BY TableFacts
<1>3. PICK v : v = DisconnectFromBucket(t, p)
 OBVIOUS
<1>4. PICK w : w = WithKey(v, p, k)
 OBVIOUS
<1>5. u = ConnectToBucket(w, p)
 BY <1>3, <1>4
<1>6. PICK i, bn, bl : i = Slot(t, t.key[p].h) /\ bn = t.pNext[p] /\ bl = t.pLast[p]
 OBVIOUS
<1>7. /\ Shaped(v) /\ i \in 0 .. t.nTableSize - 1 /\ bn \in Ptr /\ bl \in Ptr
      /\ \A q \in Addr : v.pLast[q] = IF q = bn THEN bl ELSE t.pLast[q]
      /\ \A q \in Addr : v.pNext[q] = IF q = bl THEN bn ELSE t.pNext[q]
      /\ v.arBuckets = IF bl = NULL THEN [t.arBuckets EXCEPT ![i] = bn] ELSE t.arBuckets
      /\ \A g \in Fields \ {"pLast", "pNext", "arBuckets"} : v[g] = t[g]
 BY <1>1, <1>2, <1>3, <1>6, DisconnectFromBucketFields
<1>8. PICK F : F = ToSet(s) \ {p}
 OBVIOUS
<1>9. Chained(v, F)
 <2>1. \A q : q \in F <=> q \in ToSet(s) /\ q # p
  BY <1>8
 <2> QED BY <1>1, <1>2, <1>3, <2>1, ChainedDisconnect
<1>10. /\ Shaped(w)
       /\ \A q \in Addr : w.key[q] = IF q = p THEN k ELSE v.key[q]
       /\ \A g \in Fields \ {"key"} : w[g] = v[g]
 BY <1>2, <1>4, <1>7, KeyFields
<1>11. w.nTableSize = v.nTableSize /\ w.arBuckets = v.arBuckets /\ w.pNext = v.pNext /\ w.pLast = v.pLast
 BY <1>10 DEF Fields
<1>12. Chained(w, F)
 <2>1. \A q \in F : w.pLast[q] = v.pLast[q] /\ w.pNext[q] = v.pNext[q] /\ w.key[q].h = v.key[q].h
  BY <1>2, <1>8, <1>10, <1>11
 <2> QED BY <1>9, <1>11, <2>1, ChainedSame
<1>13. Chained(u, ToSet(s))
 <2>1. p \notin F /\ \A q : q \in ToSet(s) <=> q \in F \/ q = p
  BY <1>8
 <2> QED BY <1>2, <1>5, <1>10, <1>12, <2>1, ChainedConnect
<1>14. PICK j, head : j = Slot(w, w.key[p].h) /\ head = w.arBuckets[j]
 OBVIOUS
<1>15. /\ Shaped(u) /\ j \in 0 .. w.nTableSize - 1 /\ head \in Ptr
       /\ u.arBuckets = [w.arBuckets EXCEPT ![j] = p]
       /\ \A q \in Addr : u.pNext[q] = IF q = p THEN head ELSE w.pNext[q]
       /\ \A q \in Addr : u.pLast[q] = IF q = p THEN NULL ELSE IF q = head THEN p ELSE w.pLast[q]
       /\ \A g \in Fields \ ChainFields : u[g] = w[g]
 BY <1>2, <1>5, <1>10, <1>14, ConnectToBucketFields
<1>16. \A g \in Fields \ {"key", "arBuckets", "pNext", "pLast"} : u[g] = t[g]
 BY <1>7, <1>10, <1>15 DEF ChainFields
<1>17. u.key = w.key /\ v.key = t.key
 BY <1>7, <1>15 DEF Fields, ChainFields
<1>18. Elements(u, s) /\ Pointed(u, ToSet(s))
 <2>1. u.pListNext = t.pListNext /\ u.pListLast = t.pListLast /\ u.pListHead = t.pListHead
       /\ u.pListTail = t.pListTail /\ u.pInternalPointer = t.pInternalPointer
  BY <1>16 DEF Fields
 <2> QED BY <1>1, <2>1 DEF Elements, Pointed
<1> QED BY <1>10, <1>13, <1>15, <1>16, <1>17, <1>18 DEF Table

\* Bucket q takes p's place, field by field.
LEMMA ReplaceFields ==
    ASSUME NEW t, Shaped(t), NEW p \in Addr, NEW q \in Addr, p # q, NEW u, u = Replace(t, p, q),
           NEW next, next = t.pListNext[p], NEW last, last = t.pListLast[p]
    PROVE  /\ Shaped(u) /\ next \in Ptr /\ last \in Ptr
           /\ u.allocated = (t.allocated \cup {q}) \ {p}
           /\ \A x \in Addr :
                /\ u.pListNext[x] = IF x = p THEN NULL ELSE IF x = q THEN next ELSE IF x = last THEN q ELSE t.pListNext[x]
                /\ u.pListLast[x] = IF x = p THEN NULL ELSE IF x = q THEN last ELSE IF x = next THEN q ELSE t.pListLast[x]
                /\ u.pData[x] = IF x = p THEN NULL ELSE IF x = q THEN t.pData[p] ELSE t.pData[x]
                /\ u.key[x] = IF x = p THEN NoKey ELSE t.key[x]
                /\ u.pNext[x] = IF x = p THEN NULL ELSE t.pNext[x]
                /\ u.pLast[x] = IF x = p THEN NULL ELSE t.pLast[x]
           /\ u.pListTail = IF next = NULL THEN q ELSE t.pListTail
           /\ u.pListHead = IF last = NULL THEN q ELSE t.pListHead
           /\ u.pInternalPointer = IF t.pInternalPointer = p THEN q ELSE t.pInternalPointer
           /\ u.nTableSize = t.nTableSize /\ u.arBuckets = t.arBuckets
           /\ u.nNumOfElements = t.nNumOfElements /\ u.nNextFreeElement = t.nNextFreeElement
<1>0. PICK a, b : a = Set(t, "pListLast", next, q) /\ b = Set(a, "pListNext", last, q)
 OBVIOUS
<1>1. next \in Ptr /\ last \in Ptr /\ q \in Ptr
 BY DEF Shaped, Ptr
<1>2. /\ Shaped(a)
      /\ \A x \in Addr : a.pListLast[x] = IF x = next THEN q ELSE t.pListLast[x]
      /\ \A g \in Fields \ {"pListLast"} : a[g] = t[g]
 <2>1. "pListLast" \in LinkFields
  BY DEF LinkFields
 <2> QED BY <1>0, <1>1, <2>1, SetFields
<1>3. /\ Shaped(b)
      /\ \A x \in Addr : b.pListNext[x] = IF x = last THEN q ELSE a.pListNext[x]
      /\ \A g \in Fields \ {"pListNext"} : b[g] = a[g]
 <2>1. "pListNext" \in LinkFields
  BY DEF LinkFields
 <2> QED BY <1>0, <1>1, <1>2, <2>1, SetFields
<1>4. /\ b.pListLast = a.pListLast /\ a.pListNext = t.pListNext
      /\ b.nTableSize = t.nTableSize /\ b.arBuckets = t.arBuckets /\ b.pNext = t.pNext /\ b.pLast = t.pLast
      /\ b.pListHead = t.pListHead /\ b.pListTail = t.pListTail /\ b.pInternalPointer = t.pInternalPointer
      /\ b.nNumOfElements = t.nNumOfElements /\ b.nNextFreeElement = t.nNextFreeElement
      /\ b.key = t.key /\ b.pData = t.pData /\ b.allocated = t.allocated
 BY <1>2, <1>3 DEF Fields
<1> DEFINE A == t.allocated \cup {q}
           D == [t.pData EXCEPT ![q] = t.pData[p]]
           N == [b.pListNext EXCEPT ![q] = next]
           L == [b.pListLast EXCEPT ![q] = last]
           T == IF next = NULL THEN q ELSE t.pListTail
           H == IF last = NULL THEN q ELSE t.pListHead
           I == IF t.pInternalPointer = p THEN q ELSE t.pInternalPointer
<1>5. PICK v : v = [b EXCEPT !.allocated = A, !.pData = D, !.pListNext = N, !.pListLast = L,
                            !.pListTail = T, !.pListHead = H, !.pInternalPointer = I]
 OBVIOUS
<1>6. u = Free(v, p)
 <2>1. v = [b EXCEPT !.allocated = @ \cup {q},
                     !.pData[q] = t.pData[p],
                     !.pListNext[q] = next,
                     !.pListLast[q] = last,
                     !.pListTail = IF next = NULL THEN q ELSE @,
                     !.pListHead = IF last = NULL THEN q ELSE @,
                     !.pInternalPointer = IF @ = p THEN q ELSE @]
  BY <1>3, <1>4, <1>5 DEF Shaped, Fields
 <2> HIDE DEF A, D, N, L, T, H, I
 <2> QED BY <1>0, <2>1 DEF Replace
<1>7. /\ A \subseteq Addr /\ D \in [Addr -> Data \cup {NULL}] /\ N \in [Addr -> Ptr] /\ L \in [Addr -> Ptr]
      /\ T \in Ptr /\ H \in Ptr /\ I \in Ptr
 BY <1>1, <1>3 DEF Shaped
<1>8. \A x \in Addr : /\ D[x] = IF x = q THEN t.pData[p] ELSE t.pData[x]
                      /\ N[x] = IF x = q THEN next ELSE b.pListNext[x]
                      /\ L[x] = IF x = q THEN last ELSE b.pListLast[x]
 BY <1>3 DEF Shaped
<1> HIDE DEF A, D, N, L, T, H, I
<1>9. /\ DOMAIN v = Fields
      /\ v.allocated = A /\ v.pData = D /\ v.pListNext = N /\ v.pListLast = L /\ v.pListTail = T
      /\ v.pListHead = H /\ v.pInternalPointer = I
      /\ v.nTableSize = t.nTableSize /\ v.arBuckets = t.arBuckets /\ v.pNext = t.pNext /\ v.pLast = t.pLast
      /\ v.nNumOfElements = t.nNumOfElements /\ v.nNextFreeElement = t.nNextFreeElement /\ v.key = t.key
 BY <1>3, <1>4, <1>5 DEF Shaped, Fields
<1>10. Shaped(v)
 BY <1>7, <1>9 DEF Shaped
<1>11. /\ Shaped(u)
       /\ u.allocated = v.allocated \ {p}
       /\ \A x \in Addr : /\ u.key[x] = IF x = p THEN NoKey ELSE v.key[x]
                          /\ u.pData[x] = IF x = p THEN NULL ELSE v.pData[x]
                          /\ u.pNext[x] = IF x = p THEN NULL ELSE v.pNext[x]
                          /\ u.pLast[x] = IF x = p THEN NULL ELSE v.pLast[x]
                          /\ u.pListNext[x] = IF x = p THEN NULL ELSE v.pListNext[x]
                          /\ u.pListLast[x] = IF x = p THEN NULL ELSE v.pListLast[x]
       /\ u.nTableSize = v.nTableSize /\ u.arBuckets = v.arBuckets
       /\ u.nNumOfElements = v.nNumOfElements /\ u.nNextFreeElement = v.nNextFreeElement
       /\ u.pListHead = v.pListHead /\ u.pListTail = v.pListTail /\ u.pInternalPointer = v.pInternalPointer
 <2>1. p \in Addr
  OBVIOUS
 <2>2. Shaped(u) /\ Freed(v, u, p)
  BY ONLY <2>1, <1>6, <1>10, FreeFields
 <2> QED BY <2>2 DEF Freed
<1>12. u.allocated = (t.allocated \cup {q}) \ {p}
 BY <1>9, <1>11 DEF A
<1>13. /\ u.pListTail = IF next = NULL THEN q ELSE t.pListTail
       /\ u.pListHead = IF last = NULL THEN q ELSE t.pListHead
       /\ u.pInternalPointer = IF t.pInternalPointer = p THEN q ELSE t.pInternalPointer
 BY <1>9, <1>11 DEF T, H, I
<1>14. ASSUME NEW x \in Addr
       PROVE  /\ u.pListNext[x] = IF x = p THEN NULL ELSE IF x = q THEN next ELSE IF x = last THEN q ELSE t.pListNext[x]
              /\ u.pListLast[x] = IF x = p THEN NULL ELSE IF x = q THEN last ELSE IF x = next THEN q ELSE t.pListLast[x]
              /\ u.pData[x] = IF x = p THEN NULL ELSE IF x = q THEN t.pData[p] ELSE t.pData[x]
              /\ u.key[x] = IF x = p THEN NoKey ELSE t.key[x]
              /\ u.pNext[x] = IF x = p THEN NULL ELSE t.pNext[x]
              /\ u.pLast[x] = IF x = p THEN NULL ELSE t.pLast[x]
 BY <1>2, <1>3, <1>4, <1>8, <1>9, <1>11
<1> QED BY <1>1, <1>9, <1>11, <1>12, <1>13, <1>14

\* An element gets another key and another bucket.
LEMMA TableSubstitute ==
    ASSUME NEW t, NEW s, Table(t, s), NEW n \in 1 .. Len(s), NEW p, p = s[n],
           NEW q \in Addr, q \notin ToSet(s), NEW k \in Stored, NEW v, v = DisconnectFromBucket(t, p),
           NEW u, u = ConnectToBucket(WithKey(Replace(v, p, q), q, k), q)
    PROVE  /\ Table(u, Instead(s, n, q))
           /\ Len(Instead(s, n, q)) = Len(s)
           /\ ToSet(Instead(s, n, q)) = (ToSet(s) \ {p}) \cup {q}
           /\ u.allocated = (t.allocated \cup {q}) \ {p}
           /\ \A x \in Addr : x # p /\ x # q => u.key[x] = t.key[x] /\ u.pData[x] = t.pData[x]
           /\ u.key[q] = k /\ u.pData[q] = t.pData[p] /\ u.key[p] = NoKey /\ u.pData[p] = NULL
           /\ \A x \in Addr : x # p /\ x # q /\ x \notin ToSet(s) => u.pListNext[x] = t.pListNext[x]
           /\ u.nNumOfElements = t.nNumOfElements /\ u.nNextFreeElement = t.nNextFreeElement
           /\ u.pInternalPointer = IF t.pInternalPointer = p THEN q ELSE t.pInternalPointer
<1>1. Shaped(t) /\ Elements(t, s) /\ Chained(t, ToSet(s)) /\ Pointed(t, ToSet(s))
 BY DEF Table
<1>2. ToSet(s) \subseteq Addr /\ NULL \notin ToSet(s) /\ p \in Addr /\ p \in ToSet(s) /\ p # q /\ q # NULL /\ p # NULL
 BY TableFacts, AddrAssumption
<1>3. PICK w, z : w = Replace(v, p, q) /\ z = WithKey(w, q, k)
 OBVIOUS
<1>4. u = ConnectToBucket(z, q)
 BY <1>3
<1>5. PICK i, bn, bl : i = Slot(t, t.key[p].h) /\ bn = t.pNext[p] /\ bl = t.pLast[p]
 OBVIOUS
<1>6. /\ Shaped(v) /\ i \in 0 .. t.nTableSize - 1 /\ bn \in Ptr /\ bl \in Ptr
      /\ \A x \in Addr : v.pLast[x] = IF x = bn THEN bl ELSE t.pLast[x]
      /\ \A x \in Addr : v.pNext[x] = IF x = bl THEN bn ELSE t.pNext[x]
      /\ v.arBuckets = IF bl = NULL THEN [t.arBuckets EXCEPT ![i] = bn] ELSE t.arBuckets
      /\ \A g \in Fields \ {"pLast", "pNext", "arBuckets"} : v[g] = t[g]
 BY <1>1, <1>2, <1>5, DisconnectFromBucketFields
<1>7. PICK F, G : F = ToSet(s) \ {p} /\ G = F \cup {q}
 OBVIOUS
<1>8. Chained(v, F)
 <2>1. \A x : x \in F <=> x \in ToSet(s) /\ x # p
  BY <1>7
 <2> QED BY <1>1, <1>2, <2>1, ChainedDisconnect
<1>9. /\ v.key = t.key /\ v.allocated = t.allocated /\ v.pData = t.pData
      /\ v.pListHead = t.pListHead /\ v.pListTail = t.pListTail /\ v.pInternalPointer = t.pInternalPointer
      /\ v.pListNext = t.pListNext /\ v.pListLast = t.pListLast
      /\ v.nNumOfElements = t.nNumOfElements /\ v.nNextFreeElement = t.nNextFreeElement
 BY <1>6 DEF Fields
<1>10. PICK next, last : next = v.pListNext[p] /\ last = v.pListLast[p]
 OBVIOUS
<1>11. /\ Shaped(w) /\ next \in Ptr /\ last \in Ptr
       /\ w.allocated = (v.allocated \cup {q}) \ {p}
       /\ \A x \in Addr :
            /\ w.pListNext[x] = IF x = p THEN NULL ELSE IF x = q THEN next ELSE IF x = last THEN q ELSE v.pListNext[x]
            /\ w.pListLast[x] = IF x = p THEN NULL ELSE IF x = q THEN last ELSE IF x = next THEN q ELSE v.pListLast[x]
            /\ w.pData[x] = IF x = p THEN NULL ELSE IF x = q THEN v.pData[p] ELSE v.pData[x]
            /\ w.key[x] = IF x = p THEN NoKey ELSE v.key[x]
            /\ w.pNext[x] = IF x = p THEN NULL ELSE v.pNext[x]
            /\ w.pLast[x] = IF x = p THEN NULL ELSE v.pLast[x]
       /\ w.pListTail = IF next = NULL THEN q ELSE v.pListTail
       /\ w.pListHead = IF last = NULL THEN q ELSE v.pListHead
       /\ w.pInternalPointer = IF v.pInternalPointer = p THEN q ELSE v.pInternalPointer
       /\ w.nTableSize = v.nTableSize /\ w.arBuckets = v.arBuckets
       /\ w.nNumOfElements = v.nNumOfElements /\ w.nNextFreeElement = v.nNextFreeElement
 BY <1>2, <1>3, <1>6, <1>10, ReplaceFields
<1>12. Chained(w, F)
 <2>1. \A x \in F : w.pLast[x] = v.pLast[x] /\ w.pNext[x] = v.pNext[x] /\ w.key[x].h = v.key[x].h
  BY <1>2, <1>7, <1>11
 <2> QED BY <1>8, <1>11, <2>1, ChainedSame
<1>13. /\ Shaped(z)
       /\ \A x \in Addr : z.key[x] = IF x = q THEN k ELSE w.key[x]
       /\ \A g \in Fields \ {"key"} : z[g] = w[g]
 BY <1>3, <1>11, KeyFields
<1>14. z.nTableSize = w.nTableSize /\ z.arBuckets = w.arBuckets /\ z.pNext = w.pNext /\ z.pLast = w.pLast
 BY <1>13 DEF Fields
<1>15. Chained(z, F)
 <2>1. \A x \in F : z.pLast[x] = w.pLast[x] /\ z.pNext[x] = w.pNext[x] /\ z.key[x].h = w.key[x].h
  BY <1>2, <1>7, <1>13, <1>14
 <2> QED BY <1>12, <1>14, <2>1, ChainedSame
<1>16. Chained(u, G)
 <2>1. q \notin F /\ \A x : x \in G <=> x \in F \/ x = q
  BY <1>7
 <2> QED BY <1>4, <1>13, <1>15, <2>1, ChainedConnect
<1>17. PICK j, head : j = Slot(z, z.key[q].h) /\ head = z.arBuckets[j]
 OBVIOUS
<1>18. /\ Shaped(u) /\ j \in 0 .. z.nTableSize - 1 /\ head \in Ptr
       /\ u.arBuckets = [z.arBuckets EXCEPT ![j] = q]
       /\ \A x \in Addr : u.pNext[x] = IF x = q THEN head ELSE z.pNext[x]
       /\ \A x \in Addr : u.pLast[x] = IF x = q THEN NULL ELSE IF x = head THEN q ELSE z.pLast[x]
       /\ \A g \in Fields \ ChainFields : u[g] = z[g]
 BY <1>4, <1>13, <1>17, ConnectToBucketFields
<1>19. /\ u.pListNext = w.pListNext /\ u.pListLast = w.pListLast /\ u.pListHead = w.pListHead
       /\ u.pListTail = w.pListTail /\ u.pInternalPointer = w.pInternalPointer
       /\ u.allocated = w.allocated /\ u.pData = w.pData /\ u.key = z.key
       /\ u.nNumOfElements = w.nNumOfElements /\ u.nNextFreeElement = w.nNextFreeElement
 BY <1>13, <1>18 DEF Fields, ChainFields
<1>20. PICK f, b, f2, b2 : f = t.pListNext /\ b = t.pListLast /\ f2 = u.pListNext /\ b2 = u.pListLast
 OBVIOUS
<1>21. /\ \A x \in Addr : x # p /\ x # q =>
            f2[x] = (IF x = last THEN q ELSE f[x]) /\ b2[x] = (IF x = next THEN q ELSE b[x])
       /\ f2[q] = next /\ b2[q] = last
       /\ next = f[p] /\ last = b[p]
 BY <1>2, <1>9, <1>10, <1>11, <1>19, <1>20
<1>22. Links(f, b, s) /\ t.pListHead = Nth(s, 1) /\ t.pListTail = Nth(s, Len(s))
 BY <1>1, <1>20 DEF Elements
<1>23. /\ next = NULL \/ (next \in ToSet(s) /\ next # p)
       /\ last = NULL \/ (last \in ToSet(s) /\ last # p)
 <2>1. PICK u0, w0 : u0 = Unlink(t, p) /\ w0 = Without(s, n)
  OBVIOUS
 <2>2. /\ Table(u0, w0)
       /\ Len(w0) = Len(s) - 1
       /\ ToSet(w0) = ToSet(s) \ {p}
       /\ u0.nTableSize = t.nTableSize /\ u0.nNumOfElements = t.nNumOfElements
       /\ u0.nNextFreeElement = t.nNextFreeElement /\ u0.allocated = t.allocated
       /\ u0.key = t.key /\ u0.pData = t.pData
       /\ u0.pInternalPointer = IF t.pInternalPointer = p THEN t.pListNext[p] ELSE t.pInternalPointer
       /\ u0.pListNext[p] = t.pListNext[p]
       /\ t.pListNext[p] = NULL \/ t.pListNext[p] \in ToSet(w0)
       /\ t.pListLast[p] = NULL \/ t.pListLast[p] \in ToSet(w0)
  BY <2>1, TableUnlink
 <2> QED BY <2>2, <1>20, <1>21
<1>24. LinkInstead(f, b, s, n, p, q, next, last, f2, b2)
 <2>1. /\ last # NULL => f2[last] = q
       /\ next # NULL => b2[next] = q
  BY <1>2, <1>21, <1>23
 <2>2. \A r \in ToSet(s) : r # p => (r # last => f2[r] = f[r]) /\ (r # next => b2[r] = b[r])
  BY <1>2, <1>21
 <2> QED BY <1>21, <1>22, <2>1, <2>2 DEF LinkInstead
<1>25. PICK y : y = Instead(s, n, q)
 OBVIOUS
<1>26. /\ Links(f2, b2, y)
       /\ Len(y) = Len(s)
       /\ ToSet(y) = (ToSet(s) \ {p}) \cup {q}
       /\ Nth(y, 1) = IF last = NULL THEN q ELSE Nth(s, 1)
       /\ Nth(y, Len(s)) = IF next = NULL THEN q ELSE Nth(s, Len(s))
 BY <1>24, <1>25, LinksReplace
<1>27. Elements(u, y)
 BY <1>9, <1>11, <1>19, <1>20, <1>22, <1>26 DEF Elements
<1>28. ToSet(y) = G
 BY <1>7, <1>26
<1>29. Pointed(u, G)
 BY <1>1, <1>7, <1>9, <1>11, <1>19 DEF Pointed
<1>30. Table(u, y)
 BY <1>16, <1>18, <1>27, <1>28, <1>29 DEF Table
<1>31. /\ \A x \in Addr : x # p /\ x # q => u.key[x] = t.key[x] /\ u.pData[x] = t.pData[x]
       /\ u.key[q] = k /\ u.pData[q] = t.pData[p] /\ u.key[p] = NoKey /\ u.pData[p] = NULL
 BY <1>2, <1>9, <1>11, <1>13, <1>19
<1>32. \A x \in Addr : x # p /\ x # q /\ x \notin ToSet(s) => u.pListNext[x] = t.pListNext[x]
 BY <1>2, <1>20, <1>21, <1>23, AddrAssumption
<1> QED BY <1>9, <1>11, <1>19, <1>25, <1>26, <1>30, <1>31, <1>32

--------------------
(* Sorting. *)

\* As many elements as places.
LEMMA ListCardinality ==
    ASSUME NEW T, NEW s \in Seq(T), \A i, j \in 1 .. Len(s) : s[i] = s[j] => i = j
    PROVE  /\ IsFiniteSet(ToSet(s)) /\ Cardinality(ToSet(s)) = Len(s)
           /\ IsFiniteSet(1 .. Len(s)) /\ Cardinality(1 .. Len(s)) = Len(s)
<1>1. Len(s) \in Nat /\ DOMAIN s = 1 .. Len(s) /\ ToSet(s) = {s[i] : i \in 1 .. Len(s)}
 BY SeqFacts
<1>2. IsFiniteSet(1 .. Len(s)) /\ Cardinality(1 .. Len(s)) = Len(s)
 <2>1. 1 \in Int /\ Len(s) \in Int /\ (1 > Len(s) => Len(s) = 0)
  BY <1>1
 <2>2. IsFiniteSet(1 .. Len(s)) /\ Cardinality(1 .. Len(s)) = IF 1 > Len(s) THEN 0 ELSE Len(s) - 1 + 1
  BY <2>1, FS_Interval
 <2> QED BY <2>1, <2>2
<1>3. s \in [1 .. Len(s) -> ToSet(s)]
 BY <1>1, LenProperties
<1>4. s \in Surjection(1 .. Len(s), ToSet(s)) /\ s \in Injection(1 .. Len(s), ToSet(s))
 BY <1>1, <1>3 DEF Surjection, Injection, IsInjective
<1>5. IsFiniteSet(ToSet(s)) /\ Cardinality(ToSet(s)) = Cardinality(1 .. Len(s))
 BY <1>2, <1>4, FS_Surjection
<1> QED BY <1>2, <1>5

\* Another order of the same elements.
Reordering(s, r) == r \in [DOMAIN s -> ToSet(s)] /\ ToSet(r) = ToSet(s)

\* The members of a list in another order.
LEMMA ReorderingFacts ==
    ASSUME NEW s \in Seq(Addr), \A i, j \in 1 .. Len(s) : s[i] = s[j] => i = j, NEW r, Reordering(s, r)
    PROVE  /\ r \in Seq(Addr) /\ Len(r) = Len(s) /\ DOMAIN r = 1 .. Len(s) /\ ToSet(r) = ToSet(s)
           /\ \A i \in 1 .. Len(s) : r[i] \in ToSet(s)
           /\ \A i, j \in 1 .. Len(s) : r[i] = r[j] => i = j
<1>1. Len(s) \in Nat /\ DOMAIN s = 1 .. Len(s) /\ ToSet(s) \subseteq Addr
 BY SeqFacts
<1>2. r \in [1 .. Len(s) -> ToSet(s)] /\ ToSet(r) = ToSet(s)
 BY <1>1 DEF Reordering
<1>3. r \in Seq(Addr) /\ Len(r) = Len(s) /\ DOMAIN r = 1 .. Len(s)
 <2>1. r \in [1 .. Len(s) -> Addr]
  BY <1>1, <1>2
 <2> QED BY <1>1, <2>1
<1>4. ToSet(r) = {r[i] : i \in 1 .. Len(s)}
 BY <1>3, SeqFacts
<1>5. r \in Surjection(1 .. Len(s), ToSet(s))
 BY <1>2, <1>4 DEF Surjection
<1>6. /\ IsFiniteSet(ToSet(s)) /\ Cardinality(ToSet(s)) = Len(s)
      /\ IsFiniteSet(1 .. Len(s)) /\ Cardinality(1 .. Len(s)) = Len(s)
 BY ListCardinality
<1>7. r \in Injection(1 .. Len(s), ToSet(s))
 BY <1>5, <1>6, FS_SurjSameCardinalityImpliesInj
<1> QED BY <1>2, <1>3, <1>7 DEF Injection, IsInjective

Relinking == {"pListHead", "pListTail", "pListNext", "pListLast", "pInternalPointer"}

\* The links follow the new order; the first becomes current.
LEMMA TableRelink ==
    ASSUME NEW t, NEW s, Table(t, s), s # <<>>, NEW r, Reordering(s, r), NEW u, u = Relink(t, r)
    PROVE  /\ Table(u, r)
           /\ Len(r) = Len(s) /\ ToSet(r) = ToSet(s)
           /\ u.pInternalPointer = r[1]
           /\ \A q \in Addr : q \notin ToSet(s) => u.pListNext[q] = t.pListNext[q]
           /\ \A g \in Fields \ Relinking : u[g] = t[g]
<1>1. /\ s \in Seq(Addr) /\ Len(s) \in Nat /\ ToSet(s) \subseteq Addr /\ NULL \notin ToSet(s)
      /\ \A i, j \in 1 .. Len(s) : s[i] = s[j] => i = j
      /\ Len(s) # 0
 BY TableFacts
<1>2. /\ r \in Seq(Addr) /\ Len(r) = Len(s) /\ DOMAIN r = 1 .. Len(s) /\ ToSet(r) = ToSet(s)
      /\ \A i \in 1 .. Len(s) : r[i] \in ToSet(s)
      /\ \A i, j \in 1 .. Len(s) : r[i] = r[j] => i = j
 BY <1>1, ReorderingFacts
<1>3. Shaped(t) /\ DOMAIN t = Fields
 BY DEF Table, Shaped
<1> DEFINE At(i) == IF i \in DOMAIN r THEN r[i] ELSE NULL
           Ix(p) == CHOOSE i \in DOMAIN r : r[i] = p
           N == [p \in Addr |-> IF p \in ToSet(r) THEN At(Ix(p) + 1) ELSE t.pListNext[p]]
           L == [p \in Addr |-> IF p \in ToSet(r) THEN At(Ix(p) - 1) ELSE t.pListLast[p]]
<1>4. u = [t EXCEPT !.pListHead = r[1], !.pListTail = r[Len(r)], !.pListNext = N, !.pListLast = L,
                    !.pInternalPointer = r[1]]
 <2>1. u = [[t EXCEPT !.pListHead = r[1], !.pListTail = Last(r), !.pListNext = N, !.pListLast = L]
                 EXCEPT !.pInternalPointer = r[1]]
  BY DEF Relink, Linked
 <2>2. Last(r) = r[Len(r)]
  BY DEF Last
 <2> HIDE DEF N, L
 <2> QED BY <2>1, <2>2
<1>5. \A i \in Int : At(i) = Nth(r, i)
 BY <1>2 DEF Nth
<1>6. \A i \in 1 .. Len(s) : Ix(r[i]) = i
 BY <1>2
<1>7. \A i \in 1 .. Len(s) : N[r[i]] = Nth(r, i + 1) /\ L[r[i]] = Nth(r, i - 1)
 <2> SUFFICES ASSUME NEW i \in 1 .. Len(s) PROVE N[r[i]] = Nth(r, i + 1) /\ L[r[i]] = Nth(r, i - 1)
  OBVIOUS
 <2>1. r[i] \in Addr /\ r[i] \in ToSet(r) /\ Ix(r[i]) = i
  BY <1>1, <1>2, <1>6
 <2>2. N[r[i]] = At(Ix(r[i]) + 1) /\ L[r[i]] = At(Ix(r[i]) - 1)
  <3> HIDE DEF At, Ix
  <3> QED BY <2>1
 <2>3. N[r[i]] = At(i + 1) /\ L[r[i]] = At(i - 1)
  <3> HIDE DEF At, N, L, Ix
  <3> QED BY <2>1, <2>2
 <2>4. i + 1 \in Int /\ i - 1 \in Int
  OBVIOUS
 <2> HIDE DEF At, N, L
 <2> QED BY <2>3, <2>4, <1>5
<1>8. N \in [Addr -> Ptr] /\ L \in [Addr -> Ptr]
 <2>1. \A i \in Int : At(i) \in Ptr
  BY <1>1, <1>2 DEF Ptr
 <2>2. \A p \in ToSet(r) : Ix(p) \in Int
  <3> SUFFICES ASSUME NEW p \in ToSet(r) PROVE Ix(p) \in Int
   OBVIOUS
  <3>1. PICK i \in 1 .. Len(r) : r[i] = p
   BY <1>2, PlaceOf
  <3> HIDE DEF Ix
  <3> QED BY <3>1, <1>2, <1>6
 <2>3. t.pListNext \in [Addr -> Ptr] /\ t.pListLast \in [Addr -> Ptr]
  BY <1>3 DEF Shaped
 <2> HIDE DEF At, Ix
 <2> QED BY <2>1, <2>2, <2>3
<1>9. \A q \in Addr : q \notin ToSet(s) => N[q] = t.pListNext[q]
 <2> HIDE DEF At, Ix
 <2> QED BY <1>2
<1> HIDE DEF N, L
<1>10. /\ DOMAIN u = Fields /\ u.pListHead = r[1] /\ u.pListTail = r[Len(r)] /\ u.pListNext = N /\ u.pListLast = L
       /\ u.pInternalPointer = r[1]
       /\ \A g \in Fields \ Relinking : u[g] = t[g]
 BY <1>3, <1>4 DEF Fields, Relinking
<1>11. /\ u.nTableSize = t.nTableSize /\ u.arBuckets = t.arBuckets /\ u.nNumOfElements = t.nNumOfElements
       /\ u.nNextFreeElement = t.nNextFreeElement /\ u.allocated = t.allocated /\ u.key = t.key /\ u.pData = t.pData
       /\ u.pNext = t.pNext /\ u.pLast = t.pLast
 BY <1>10 DEF Fields, Relinking
<1>12. 1 \in 1 .. Len(s) /\ Len(s) \in 1 .. Len(s)
 BY <1>1
<1>13. r[1] \in ToSet(s) /\ r[Len(r)] \in ToSet(s) /\ r[1] \in Ptr /\ r[Len(r)] \in Ptr
 BY <1>1, <1>2, <1>12 DEF Ptr
<1>14. Shaped(u)
 BY <1>3, <1>8, <1>10, <1>11, <1>13 DEF Shaped
<1>15. Elements(u, r)
 <2>1. Links(u.pListNext, u.pListLast, r)
  BY <1>2, <1>7, <1>10 DEF Links
 <2>2. Nth(r, 1) = r[1] /\ Nth(r, Len(r)) = r[Len(r)]
  BY <1>2, <1>12 DEF Nth
 <2> QED BY <2>1, <2>2, <1>10 DEF Elements
<1>16. Chained(u, ToSet(r))
 <2>1. Chained(t, ToSet(s))
  BY DEF Table
 <2> QED BY <2>1, <1>2, <1>11, ChainedSame
<1>17. Table(u, r)
 BY <1>2, <1>10, <1>13, <1>14, <1>15, <1>16 DEF Table, Pointed
<1>18. \A q \in Addr : q \notin ToSet(s) => u.pListNext[q] = t.pListNext[q]
 BY <1>9, <1>10
<1> QED BY <1>2, <1>10, <1>17, <1>18

\* The elements get the keys 0, 1, 2, ... and go to the chains of those.
LEMMA TableRenumber ==
    ASSUME NEW t, NEW s, Table(t, s), NEW u, u = Renumber(t, s)
    PROVE  /\ Table(u, s)
           /\ u.nNextFreeElement = Len(s)
           /\ \A i \in 1 .. Len(s) : u.key[s[i]] = Numeric(i - 1)
           /\ \A q \in Addr : q \notin ToSet(s) => u.key[q] = t.key[q]
           /\ \A g \in Fields \ {"nNextFreeElement", "key", "arBuckets", "pNext", "pLast"} : u[g] = t[g]
<1>1. /\ s \in Seq(Addr) /\ Len(s) \in Nat /\ ToSet(s) \subseteq Addr
      /\ \A i, j \in 1 .. Len(s) : s[i] = s[j] => i = j
      /\ \A i \in 1 .. Len(s) : s[i] \in Addr /\ s[i] \in ToSet(s)
      /\ DOMAIN s = 1 .. Len(s)
 BY TableFacts, SeqFacts
<1>2. Shaped(t) /\ DOMAIN t = Fields /\ Elements(t, s)
 BY DEF Table, Shaped
<1> DEFINE Ix(p) == CHOOSE i \in DOMAIN s : s[i] = p
           K == [p \in Addr |-> IF p \in ToSet(s) THEN Numeric(Ix(p) - 1) ELSE t.key[p]]
<1>3. PICK v : v = [t EXCEPT !.nNextFreeElement = Len(s), !.key = K]
 OBVIOUS
<1>4. u = zend_hash_rehash(v)
 BY <1>3 DEF Renumber
<1>5. \A i \in 1 .. Len(s) : Ix(s[i]) = i
 BY <1>1
<1>6. \A i \in 1 .. Len(s) : K[s[i]] = Numeric(i - 1)
 <2> HIDE DEF Ix
 <2> QED BY <1>1, <1>5
<1>7. \A q \in Addr : q \notin ToSet(s) => K[q] = t.key[q]
 <2> HIDE DEF Ix
 <2> QED OBVIOUS
<1>8. K \in [Addr -> Stored]
 <2>1. ASSUME NEW p \in Addr PROVE K[p] \in Stored
  <3>1. CASE p \notin ToSet(s)
   <4>1. K[p] = t.key[p]
    BY <3>1, <1>7
   <4> HIDE DEF K
   <4> QED BY <4>1, <1>2 DEF Shaped
  <3>2. CASE p \in ToSet(s)
   <4>1. PICK i \in 1 .. Len(s) : s[i] = p
    BY <1>1, <3>2, PlaceOf
   <4>2. K[p] = Numeric(i - 1) /\ i - 1 \in Nat
    BY <4>1, <1>1, <1>6
   <4> HIDE DEF K
   <4> QED BY <4>2 DEF Stored
  <3> QED BY <3>1, <3>2
 <2>2. K = [p \in Addr |-> K[p]]
  OBVIOUS
 <2> HIDE DEF K
 <2> QED BY <2>1, <2>2
<1> HIDE DEF K
<1>9. DOMAIN v = Fields /\ v.nNextFreeElement = Len(s) /\ v.key = K
      /\ \A g \in Fields \ {"nNextFreeElement", "key"} : v[g] = t[g]
 BY <1>2, <1>3 DEF Fields
<1>10. PICK base : base = Emptied(v)
 OBVIOUS
<1> DEFINE A == [i \in 0 .. v.nTableSize - 1 |-> NULL]
<1>11. base = [v EXCEPT !.arBuckets = A]
 BY <1>10 DEF Emptied
<1>12. A \in [0 .. v.nTableSize - 1 -> Ptr]
 BY DEF Ptr
<1> HIDE DEF A
<1>13. DOMAIN base = Fields /\ base.arBuckets = A /\ \A g \in Fields \ {"arBuckets"} : base[g] = v[g]
 BY <1>9, <1>11 DEF Fields
<1>14. Shaped(base)
 <2>1. /\ v.nNumOfElements = t.nNumOfElements /\ v.pListHead = t.pListHead /\ v.nTableSize = t.nTableSize
       /\ v.pListTail = t.pListTail /\ v.pInternalPointer = t.pInternalPointer
       /\ v.allocated = t.allocated /\ v.pData = t.pData
       /\ v.pNext = t.pNext /\ v.pLast = t.pLast
       /\ v.pListNext = t.pListNext /\ v.pListLast = t.pListLast
  BY <1>9 DEF Fields
 <2>2. /\ base.nNumOfElements = v.nNumOfElements /\ base.pListHead = v.pListHead /\ base.nTableSize = v.nTableSize
       /\ base.pListTail = v.pListTail /\ base.pInternalPointer = v.pInternalPointer
       /\ base.allocated = v.allocated /\ base.pData = v.pData /\ base.key = v.key
       /\ base.nNextFreeElement = v.nNextFreeElement
       /\ base.pNext = v.pNext /\ base.pLast = v.pLast
       /\ base.pListNext = v.pListNext /\ base.pListLast = v.pListLast
  BY <1>13 DEF Fields
 <2> QED BY <2>1, <2>2, <1>1, <1>2, <1>8, <1>9, <1>12, <1>13 DEF Shaped
<1>15. \A g \in Fields \ ChainFields : base[g] = v[g]
 BY <1>13 DEF ChainFields
<1>16. Elements(v, s)
 <2>1. v.pListNext = t.pListNext /\ v.pListLast = t.pListLast /\ v.pListHead = t.pListHead /\ v.pListTail = t.pListTail
  BY <1>9 DEF Fields
 <2> QED BY <2>1, <1>2 DEF Elements
<1>17. Shaped(u) /\ Chained(u, ToSet(s)) /\ \A g \in Fields \ ChainFields : u[g] = v[g]
 BY <1>4, <1>10, <1>14, <1>15, <1>16, Rehashed
<1>18. \A g \in Fields \ {"nNextFreeElement", "key", "arBuckets", "pNext", "pLast"} : u[g] = t[g]
 BY <1>9, <1>17 DEF ChainFields
<1>19. u.key = K /\ u.nNextFreeElement = Len(s)
 BY <1>9, <1>17 DEF Fields, ChainFields
<1>20. Elements(u, s) /\ Pointed(u, ToSet(s))
 <2>1. u.pListNext = t.pListNext /\ u.pListLast = t.pListLast /\ u.pListHead = t.pListHead
       /\ u.pListTail = t.pListTail /\ u.pInternalPointer = t.pInternalPointer
  BY <1>18 DEF Fields
 <2> QED BY <2>1, <1>2 DEF Elements, Pointed, Table
<1> QED BY <1>6, <1>7, <1>17, <1>18, <1>19, <1>20 DEF Table

--------------------
(* Walking the chains, and looking up. *)

\* A set of natural numbers has a least.
LEMMA Least ==
    ASSUME NEW S \in SUBSET Nat, S # {}
    PROVE  \E i \in S : \A j \in S : i <= j
<1>1. PICK m \in S : \A n \in S : ~(<<n, m>> \in OpToRel(<, Nat))
 BY WFMin, NatLessThanWellFounded, Zenon
<1>2. ASSUME NEW n \in S PROVE m <= n
 <2>1. ~(<<n, m>> \in OpToRel(<, Nat))
  BY <1>1
 <2>2. n < m => <<n, m>> \in OpToRel(<, Nat)
  BY DEF OpToRel
 <2>3. ~(n < m)
  BY <2>1, <2>2, Zenon
 <2>4. n \in Nat /\ m \in Nat
  OBVIOUS
 <2> QED BY <2>3, <2>4
<1> QED BY <1>1, <1>2

\* Walking the chain of a slot meets its buckets, the last one first.
LEMMA ChainWalk ==
    ASSUME NEW t, NEW E, NEW i, NEW r, ChainIs(t, E, i, r)
    PROVE  /\ Chain(t, i) = Reverse(r) /\ Len(Reverse(r)) = Len(r)
           /\ ToSet(Chain(t, i)) = ToSet(r) /\ Links(t.pNext, t.pLast, Reverse(r))
<1>1. Links(t.pLast, t.pNext, r) /\ t.arBuckets[i] = Nth(r, Len(r))
 BY DEF ChainIs
<1>2. /\ Links(t.pNext, t.pLast, Reverse(r))
      /\ Len(Reverse(r)) = Len(r)
      /\ ToSet(Reverse(r)) = ToSet(r)
      /\ Nth(Reverse(r), 1) = Nth(r, Len(r))
 BY <1>1, LinksReverse
<1>3. PICK w : w = Reverse(r)
 OBVIOUS
<1>4. Walk(t, "pNext", Nth(w, 1), Length) = w
 BY <1>2, <1>3, WalkIs
<1>5. Chain(t, i) = w
 BY <1>1, <1>2, <1>3, <1>4, Zenon DEF Chain
<1> QED BY <1>2, <1>3, <1>5

\* The buckets met are the elements of that slot.
LEMMA ChainMembers ==
    ASSUME NEW t, NEW s, Table(t, s), NEW i \in 0 .. t.nTableSize - 1
    PROVE  /\ Chain(t, i) \in Seq(Addr)
           /\ Links(t.pNext, t.pLast, Chain(t, i))
           /\ \A p : p \in ToSet(Chain(t, i)) <=> p \in ToSet(s) /\ SlotOf(t, p) = i
<1>1. PICK r : ChainIs(t, ToSet(s), i, r)
 BY DEF Table, Chained
<1>2. /\ Chain(t, i) = Reverse(r) /\ ToSet(Chain(t, i)) = ToSet(r)
      /\ Links(t.pNext, t.pLast, Reverse(r))
 BY <1>1, ChainWalk
<1>3. ToSet(r) \subseteq Addr
 BY <1>1, LinksFacts DEF ChainIs
<1>4. ToSet(s) \subseteq Addr
 BY TableFacts
<1>5. \A p \in Addr : p \in ToSet(r) <=> p \in ToSet(s) /\ SlotOf(t, p) = i
 BY <1>1 DEF ChainIs
<1>6. Chain(t, i) \in Seq(Addr)
 BY <1>2 DEF Links
<1> QED BY <1>2, <1>3, <1>4, <1>5, <1>6

\* A look-up ends at an element with that key, if there is one.
LEMMA LookupFacts ==
    ASSUME NEW t, NEW s, Table(t, s), NEW k \in Stored
    PROVE  /\ Lookup(t, k) = NULL \/ (Lookup(t, k) \in ToSet(s) /\ t.key[Lookup(t, k)] = k)
           /\ Lookup(t, k) = NULL <=> \A p \in ToSet(s) : t.key[p] # k
<1> DEFINE i == Slot(t, k.h)
           c == Chain(t, i)
           found == {j \in 1 .. Len(c) : t.key[c[j]] = k}
<1>6. Lookup(t, k) = IF found = {} THEN NULL ELSE c[CHOOSE j \in found : \A l \in found : j <= l]
 BY DEF Lookup
<1>5. found = {j \in 1 .. Len(c) : t.key[c[j]] = k}
 OBVIOUS
<1>1. i = Slot(t, k.h) /\ c = Chain(t, i)
 OBVIOUS
<1> HIDE DEF i, c, found
<1>2. i \in 0 .. t.nTableSize - 1
 BY <1>1, SlotType DEF Table, Shaped
<1>3. c \in Seq(Addr) /\ \A p : p \in ToSet(c) <=> p \in ToSet(s) /\ SlotOf(t, p) = i
 BY <1>1, <1>2, ChainMembers
<1>4. Len(c) \in Nat /\ \A j \in 1 .. Len(c) : c[j] \in ToSet(c) /\ c[j] \in Addr
 BY <1>3, SeqFacts
<1>7. CASE found = {}
 <2>1. Lookup(t, k) = NULL
  BY <1>6, <1>7
 <2>2. ASSUME NEW p \in ToSet(s), t.key[p] = k PROVE FALSE
  <3>1. SlotOf(t, p) = i
   BY <2>2, <1>1 DEF SlotOf
  <3>2. p \in ToSet(c)
   BY <3>1, <1>3
  <3>3. PICK j \in 1 .. Len(c) : c[j] = p
   BY <3>2, <1>3, PlaceOf
  <3> QED BY <3>3, <2>2, <1>5, <1>7
 <2> QED BY <2>1, <2>2
<1>8. CASE found # {}
 <2>1. found \in SUBSET Nat
  BY <1>4, <1>5
 <2>2. \E j \in found : \A l \in found : j <= l
  BY <2>1, <1>8, Least
 <2>3. PICK j : j = CHOOSE e \in found : \A l \in found : e <= l
  OBVIOUS
 <2>4. j \in found
  BY <2>2, <2>3
 <2>5. j \in 1 .. Len(c) /\ t.key[c[j]] = k /\ Lookup(t, k) = c[j]
  BY <2>3, <2>4, <1>5, <1>6, <1>8
 <2>6. c[j] \in ToSet(s) /\ c[j] # NULL
  BY <2>5, <1>3, <1>4, AddrAssumption
 <2> QED BY <2>5, <2>6
<1> QED BY <1>7, <1>8

\* With no key twice, it is the element with that key.
LEMMA LookupUnique ==
    ASSUME NEW t, NEW s, Table(t, s), NEW p \in ToSet(s),
           \A q \in ToSet(s) : t.key[q] = t.key[p] => q = p
    PROVE  Lookup(t, t.key[p]) = p
<1>1. PICK k : k = t.key[p]
 OBVIOUS
<1>2. p \in Addr
 BY TableFacts
<1>3. k \in Stored
 BY <1>1, <1>2 DEF Table, Shaped
<1>4. /\ Lookup(t, k) = NULL \/ (Lookup(t, k) \in ToSet(s) /\ t.key[Lookup(t, k)] = k)
      /\ Lookup(t, k) = NULL <=> \A q \in ToSet(s) : t.key[q] # k
 BY <1>3, LookupFacts
<1> QED BY <1>1, <1>4

--------------------
(* What a table with exact lists is to the properties of the module. *)

\* The list reads the same from its tail.
LEMMA TableBackwards ==
    ASSUME NEW t, NEW s, Table(t, s)
    PROVE  Walk(t, "pListLast", t.pListTail, Length) = Reverse(List(t)) /\ IsInjective(List(t))
<1>1. Links(t.pListNext, t.pListLast, s) /\ t.pListTail = Nth(s, Len(s))
 BY DEF Table, Elements
<1>2. List(t) = s
 BY TableFacts
<1>3. /\ Links(t.pListLast, t.pListNext, Reverse(s))
      /\ Nth(Reverse(s), 1) = Nth(s, Len(s))
 BY <1>1, LinksReverse
<1>4. PICK w : w = Reverse(s)
 OBVIOUS
<1>5. Walk(t, "pListLast", Nth(w, 1), Length) = w
 BY <1>3, <1>4, WalkIs
<1>6. IsInjective(s)
 <2>1. DOMAIN s = 1 .. Len(s) /\ \A i, j \in 1 .. Len(s) : s[i] = s[j] => i = j
  BY TableFacts, SeqFacts
 <2> QED BY <2>1 DEF IsInjective
<1> QED BY <1>1, <1>2, <1>3, <1>4, <1>5, <1>6

\* The chain of slot i: only elements of that slot, each once, and the pLast
\* of each is the bucket before it.
ChainExact(t, i) ==
    \A j \in DOMAIN Chain(t, i) :
       /\ Slot(t, t.key[Chain(t, i)[j]].h) = i
       /\ t.pLast[Chain(t, i)[j]] = IF j = 1 THEN NULL ELSE Chain(t, i)[j - 1]
       /\ \A l \in DOMAIN Chain(t, i) : Chain(t, i)[l] = Chain(t, i)[j] => l = j

\* In a table in order every chain is exact.
LEMMA TableChain ==
    ASSUME NEW t, NEW s, Table(t, s), NEW i \in 0 .. t.nTableSize - 1
    PROVE  ChainExact(t, i)
<1>1. PICK c : c = Chain(t, i)
 OBVIOUS
<1>2. c \in Seq(Addr) /\ Links(t.pNext, t.pLast, c)
 BY <1>1, ChainMembers
<1>3. \A p : p \in ToSet(c) <=> p \in ToSet(s) /\ SlotOf(t, p) = i
 BY <1>1, ChainMembers
<1>4. Len(c) \in Nat /\ DOMAIN c = 1 .. Len(c) /\ \A j \in 1 .. Len(c) : c[j] \in ToSet(c)
 BY <1>2, SeqFacts
<1>5. /\ \A j, l \in 1 .. Len(c) : c[j] = c[l] => j = l
      /\ \A j \in 1 .. Len(c) : t.pLast[c[j]] = Nth(c, j - 1)
 BY <1>2 DEF Links
<1>6. ASSUME NEW j \in 1 .. Len(c)
      PROVE  Slot(t, t.key[c[j]].h) = i /\ t.pLast[c[j]] = IF j = 1 THEN NULL ELSE c[j - 1]
 <2>1. SlotOf(t, c[j]) = i
  BY <1>3, <1>4
 <2>2. t.pLast[c[j]] = Nth(c, j - 1)
  BY <1>5
 <2>3. Nth(c, j - 1) = IF j = 1 THEN NULL ELSE c[j - 1]
  BY <1>4 DEF Nth
 <2> QED BY <2>1, <2>2, <2>3 DEF SlotOf
<1> QED BY <1>1, <1>4, <1>5, <1>6 DEF ChainExact

\* The chains together have all elements and nothing else.
LEMMA TableChains ==
    ASSUME NEW t, NEW s, Table(t, s)
    PROVE  UNION {ToSet(Chain(t, i)) : i \in 0 .. t.nTableSize - 1} = ToSet(s)
<1>1. ASSUME NEW p \in ToSet(s) PROVE \E i \in 0 .. t.nTableSize - 1 : p \in ToSet(Chain(t, i))
 <2>1. p \in Addr
  BY TableFacts
 <2>2. PICK k : k = t.key[p]
  OBVIOUS
 <2>3. k \in Stored /\ t.nTableSize \in Nat \ {0}
  BY <2>1, <2>2 DEF Table, Shaped
 <2>4. SlotOf(t, p) \in 0 .. t.nTableSize - 1
  BY <2>2, <2>3, SlotType DEF SlotOf
 <2>5. PICK i \in 0 .. t.nTableSize - 1 : i = SlotOf(t, p)
  BY <2>4
 <2>6. \A q : q \in ToSet(Chain(t, i)) <=> q \in ToSet(s) /\ SlotOf(t, q) = i
  BY ChainMembers
 <2> QED BY <2>5, <2>6
<1>2. ASSUME NEW i \in 0 .. t.nTableSize - 1, NEW p \in ToSet(Chain(t, i)) PROVE p \in ToSet(s)
 <2>1. \A q : q \in ToSet(Chain(t, i)) <=> q \in ToSet(s) /\ SlotOf(t, q) = i
  BY ChainMembers
 <2> QED BY <2>1
<1> QED BY <1>1, <1>2

--------------------
(* The functions under way. *)

Graceful == {"graceful_destroy", "graceful_reverse_destroy"}

\* While these wait their bucket is still listed, or freed by someone else.
Settled == {"update", "apply_func", "update_current_key"}

Waiting ==
    [fn   : Settled \cup Graceful \cup {"del", "apply", "reverse_apply"},
     p    : Addr,
     next : Ptr,
     data : Data \cup {NULL},
     key  : Stored,
     loop : {"none", "apply", "reverse_apply"},
     stop : BOOLEAN]

\* The places of the functions that have taken their bucket off the lists.
Half(K) == {i \in 1 .. Len(K) : K[i].fn \notin Settled}

\* With the elements E: a bucket allocated is listed or waits to be freed, by
\* one function; no function inside that one has it, or is to go on with it.
StackOK(t, E, K) ==
    /\ K \in Seq(Waiting)
    /\ \A x : x \in t.allocated <=> x \in E \/ \E j \in Half(K) : K[j].p = x
    /\ \A j \in Half(K) : K[j].p \notin E
    /\ \A i \in 1 .. Len(K) : \A j \in Half(K) : j < i => K[j].p # K[i].p
    /\ \A i \in Half(K) : \A j \in Half(K) :
          j < i => K[j].p # t.pListNext[K[i].p] /\ K[j].p # K[i].next
    /\ \A i \in 1 .. Len(K) : /\ K[i].fn \in Graceful => i = 1
                              /\ K[i].fn = "apply_func" => K[i].loop # "none"

\* The stack with one more function on top.
LEMMA AppendFacts ==
    ASSUME NEW T, NEW K \in Seq(T), NEW f \in T, NEW K2, K2 = Append(K, f)
    PROVE  /\ K2 \in Seq(T) /\ Len(K) \in Nat /\ Len(K2) = Len(K) + 1
           /\ \A i \in 1 .. Len(K) : K2[i] = K[i]
           /\ K2[Len(K) + 1] = f
           /\ \A i \in 1 .. Len(K2) : i \in 1 .. Len(K) \/ i = Len(K) + 1
           /\ Last(K2) = f /\ K2 # <<>>
<1>1. /\ K2 \in Seq(T) /\ Len(K) \in Nat /\ Len(K2) = Len(K) + 1
      /\ \A i \in 1 .. Len(K) : K2[i] = K[i]
      /\ K2[Len(K) + 1] = f
 BY AppendProperties
<1>2. Last(K2) = f /\ K2 # <<>>
 BY <1>1 DEF Last
<1> QED BY <1>1, <1>2

\* The stack without the function on top.
LEMMA FrontFacts ==
    ASSUME NEW T, NEW K \in Seq(T), K # <<>>, NEW K2, K2 = Front(K), NEW n, n = Len(K)
    PROVE  /\ n \in Nat \ {0} /\ K2 \in Seq(T) /\ Len(K2) = n - 1
           /\ \A i \in 1 .. n - 1 : K2[i] = K[i]
           /\ Last(K) = K[n] /\ K[n] \in T
           /\ \A i \in 1 .. n : i \in 1 .. n - 1 \/ i = n
<1>1. n \in Nat \ {0}
 BY EmptySeq
<1>2. K2 = SubSeq(K, 1, n - 1) /\ Last(K) = K[n]
 BY DEF Front, Last
<1>3. K2 \in Seq(T) /\ Len(K2) = n - 1 /\ \A i \in 1 .. n - 1 : K2[i] = K[i]
 BY <1>1, <1>2, SubSeqProperties
<1> QED BY <1>1, <1>2, <1>3


\* A function that waits with its bucket listed.
LEMMA PushSettled ==
    ASSUME NEW t, NEW E, NEW K, StackOK(t, E, K), NEW f \in Waiting, f.fn \in Settled,
           f.p \in E, f.fn = "apply_func" => f.loop # "none", NEW K2, K2 = Append(K, f)
    PROVE  StackOK(t, E, K2)
<1>1. /\ K \in Seq(Waiting)
      /\ \A x : x \in t.allocated <=> x \in E \/ \E j \in Half(K) : K[j].p = x
      /\ \A j \in Half(K) : K[j].p \notin E
      /\ \A i \in 1 .. Len(K) : \A j \in Half(K) : j < i => K[j].p # K[i].p
      /\ \A i \in Half(K) : \A j \in Half(K) :
            j < i => K[j].p # t.pListNext[K[i].p] /\ K[j].p # K[i].next
      /\ \A i \in 1 .. Len(K) : /\ K[i].fn \in Graceful => i = 1
                                /\ K[i].fn = "apply_func" => K[i].loop # "none"
 BY DEF StackOK
<1>2. /\ K2 \in Seq(Waiting) /\ Len(K) \in Nat /\ Len(K2) = Len(K) + 1
      /\ \A i \in 1 .. Len(K) : K2[i] = K[i]
      /\ K2[Len(K) + 1] = f
      /\ \A i \in 1 .. Len(K2) : i \in 1 .. Len(K) \/ i = Len(K) + 1
 BY <1>1, AppendFacts
<1>3. \A j : j \in Half(K2) <=> j \in Half(K)
 BY <1>2 DEF Half
<1>4. \A j \in Half(K) : j \in 1 .. Len(K) /\ K2[j] = K[j]
 BY <1>2 DEF Half
<1>5. f.fn \notin Graceful
 BY DEF Settled, Graceful
<1>6. \A x : x \in t.allocated <=> x \in E \/ \E j \in Half(K2) : K2[j].p = x
 BY <1>1, <1>3, <1>4
<1>7. \A j \in Half(K2) : K2[j].p \notin E
 BY <1>1, <1>3, <1>4
<1>8. \A i \in 1 .. Len(K2) : \A j \in Half(K2) : j < i => K2[j].p # K2[i].p
 BY <1>1, <1>2, <1>3, <1>4
<1>9. \A i \in Half(K2) : \A j \in Half(K2) :
            j < i => K2[j].p # t.pListNext[K2[i].p] /\ K2[j].p # K2[i].next
 BY <1>1, <1>3, <1>4
<1>10. \A i \in 1 .. Len(K2) : /\ K2[i].fn \in Graceful => i = 1
                               /\ K2[i].fn = "apply_func" => K2[i].loop # "none"
 BY <1>1, <1>2, <1>5
<1> QED BY <1>2, <1>6, <1>7, <1>8, <1>9, <1>10 DEF StackOK

\* u is t, but for the elements and what becomes of them.
SameOutside(t, u, E) ==
    \A x \in Addr : x \notin E => u.pListNext[x] = t.pListNext[x]

\* A function has taken its bucket off the lists and waits to free it.
PushedHalf(t, E, u, F, f) ==
    /\ u.allocated = t.allocated
    /\ f \in Waiting /\ f.fn \notin Settled /\ f.p \in E
    /\ \A x : x \in F <=> x \in E /\ x # f.p
    /\ SameOutside(t, u, E)
    /\ u.pListNext[f.p] \in F \/ u.pListNext[f.p] = NULL
    /\ f.next \in F \/ f.next = NULL

\* A function that has taken its bucket off the lists goes on top.
LEMMA PushHalf ==
    ASSUME NEW t, NEW E, NEW K, StackOK(t, E, K), NEW u, NEW F, NEW f, PushedHalf(t, E, u, F, f),
           f.fn \in Graceful => K = <<>>, NEW K2, K2 = Append(K, f)
    PROVE  StackOK(u, F, K2)
<1>1. /\ K \in Seq(Waiting)
      /\ \A x : x \in t.allocated <=> x \in E \/ \E j \in Half(K) : K[j].p = x
      /\ \A j \in Half(K) : K[j].p \notin E
      /\ \A i \in 1 .. Len(K) : \A j \in Half(K) : j < i => K[j].p # K[i].p
      /\ \A i \in Half(K) : \A j \in Half(K) :
            j < i => K[j].p # t.pListNext[K[i].p] /\ K[j].p # K[i].next
      /\ \A i \in 1 .. Len(K) : /\ K[i].fn \in Graceful => i = 1
                                /\ K[i].fn = "apply_func" => K[i].loop # "none"
 BY DEF StackOK
<1>0. /\ u.allocated = t.allocated
      /\ f \in Waiting /\ f.fn \notin Settled /\ f.p \in E
      /\ \A x : x \in F <=> x \in E /\ x # f.p
      /\ \A x \in Addr : x \notin E => u.pListNext[x] = t.pListNext[x]
      /\ u.pListNext[f.p] \in F \/ u.pListNext[f.p] = NULL
      /\ f.next \in F \/ f.next = NULL
 BY DEF PushedHalf, SameOutside
<1>2. /\ K2 \in Seq(Waiting) /\ Len(K) \in Nat /\ Len(K2) = Len(K) + 1
      /\ \A i \in 1 .. Len(K) : K2[i] = K[i]
      /\ K2[Len(K) + 1] = f
      /\ \A i \in 1 .. Len(K2) : i \in 1 .. Len(K) \/ i = Len(K) + 1
 BY <1>0, <1>1, AppendFacts
<1>3. \A j : j \in Half(K2) <=> j \in Half(K) \/ j = Len(K) + 1
 BY <1>0, <1>2 DEF Half
<1>4. \A j \in Half(K) : j \in 1 .. Len(K) /\ K2[j] = K[j] /\ K[j].p \in Addr /\ K[j].p # NULL
 <2>1. \A j \in 1 .. Len(K) : K[j] \in Waiting
  BY <1>1, SeqFacts
 <2>2. \A g \in Waiting : g.p \in Addr /\ g.p # NULL
  BY AddrAssumption DEF Waiting
 <2> QED BY <1>2, <2>1, <2>2 DEF Half
<1>6. \A x : x \in u.allocated <=> x \in F \/ \E j \in Half(K2) : K2[j].p = x
 <2> SUFFICES ASSUME NEW x PROVE x \in u.allocated <=> x \in F \/ \E j \in Half(K2) : K2[j].p = x
  OBVIOUS
 <2>1. Len(K) + 1 \in Half(K2)
  BY <1>3
 <2>2. (\E j \in Half(K2) : K2[j].p = x) <=> (\E j \in Half(K) : K[j].p = x) \/ x = f.p
  BY <2>1, <1>2, <1>3, <1>4
 <2> QED BY <2>2, <1>0, <1>1
<1>7. \A j \in Half(K2) : K2[j].p \notin F
 BY <1>0, <1>1, <1>2, <1>3, <1>4
<1>8. \A i \in 1 .. Len(K2) : \A j \in Half(K2) : j < i => K2[j].p # K2[i].p
 <2> SUFFICES ASSUME NEW i \in 1 .. Len(K2), NEW j \in Half(K2), j < i PROVE K2[j].p # K2[i].p
  OBVIOUS
 <2>1. j \in Half(K)
  BY <1>2, <1>3
 <2>2. CASE i \in 1 .. Len(K)
  BY <2>1, <2>2, <1>1, <1>2, <1>4
 <2>3. CASE i = Len(K) + 1
  BY <2>1, <2>3, <1>0, <1>1, <1>2, <1>4
 <2> QED BY <2>2, <2>3, <1>2
<1>9. \A i \in Half(K2) : \A j \in Half(K2) :
            j < i => K2[j].p # u.pListNext[K2[i].p] /\ K2[j].p # K2[i].next
 <2> SUFFICES ASSUME NEW i \in Half(K2), NEW j \in Half(K2), j < i
              PROVE  K2[j].p # u.pListNext[K2[i].p] /\ K2[j].p # K2[i].next
  OBVIOUS
 <2>1. j \in Half(K) /\ K2[j].p = K[j].p /\ K[j].p \notin E /\ K[j].p # NULL
  <3>1. i \in 1 .. Len(K2) /\ j \in 1 .. Len(K2)
   BY DEF Half
  <3>2. j # Len(K) + 1
   BY <3>1, <1>2
  <3> QED BY <3>2, <1>1, <1>3, <1>4
 <2>2. CASE i \in Half(K)
  <3>1. K2[i] = K[i] /\ K[i].p \in Addr /\ K[i].p \notin E
   BY <2>2, <1>1, <1>4
  <3>2. u.pListNext[K[i].p] = t.pListNext[K[i].p]
   BY <3>1, <1>0
  <3> QED BY <2>1, <2>2, <3>1, <3>2, <1>1
 <2>3. CASE i = Len(K) + 1
  BY <2>1, <2>3, <1>0, <1>2
 <2> QED BY <2>2, <2>3, <1>3
<1>10. \A i \in 1 .. Len(K2) : /\ K2[i].fn \in Graceful => i = 1
                               /\ K2[i].fn = "apply_func" => K2[i].loop # "none"
 <2>1. K = <<>> => Len(K) = 0
  OBVIOUS
 <2>2. f.fn # "apply_func"
  BY <1>0 DEF Settled
 <2> QED BY <2>1, <2>2, <1>1, <1>2
<1> QED BY <1>2, <1>6, <1>7, <1>8, <1>9, <1>10 DEF StackOK

\* The function on top is done; it had not taken its bucket.
LEMMA PopSettled ==
    ASSUME NEW t, NEW E, NEW K, StackOK(t, E, K), K # <<>>, Last(K).fn \in Settled,
           NEW K2, K2 = Front(K)
    PROVE  /\ StackOK(t, E, K2)
           /\ Last(K).p \in t.allocated => Last(K).p \in E
<1>1. /\ K \in Seq(Waiting)
      /\ \A x : x \in t.allocated <=> x \in E \/ \E j \in Half(K) : K[j].p = x
      /\ \A j \in Half(K) : K[j].p \notin E
      /\ \A i \in 1 .. Len(K) : \A j \in Half(K) : j < i => K[j].p # K[i].p
      /\ \A i \in Half(K) : \A j \in Half(K) :
            j < i => K[j].p # t.pListNext[K[i].p] /\ K[j].p # K[i].next
      /\ \A i \in 1 .. Len(K) : /\ K[i].fn \in Graceful => i = 1
                                /\ K[i].fn = "apply_func" => K[i].loop # "none"
 BY DEF StackOK
<1>2. PICK n : n = Len(K)
 OBVIOUS
<1>3. /\ n \in Nat \ {0} /\ K2 \in Seq(Waiting) /\ Len(K2) = n - 1
      /\ \A i \in 1 .. n - 1 : K2[i] = K[i]
      /\ Last(K) = K[n]
      /\ \A i \in 1 .. n : i \in 1 .. n - 1 \/ i = n
 BY <1>1, <1>2, FrontFacts
<1>4. \A j : j \in Half(K2) <=> j \in Half(K)
 BY <1>2, <1>3 DEF Half
<1>5. \A j \in Half(K) : j \in 1 .. n - 1 /\ K2[j] = K[j]
 BY <1>2, <1>3 DEF Half
<1>6. \A x : x \in t.allocated <=> x \in E \/ \E j \in Half(K2) : K2[j].p = x
 BY <1>1, <1>4, <1>5
<1>7. \A j \in Half(K2) : K2[j].p \notin E
 BY <1>1, <1>4, <1>5
<1>8. \A i \in 1 .. Len(K2) : \A j \in Half(K2) : j < i => K2[j].p # K2[i].p
 <2>1. \A i \in 1 .. Len(K2) : i \in 1 .. Len(K) /\ K2[i] = K[i]
  BY <1>2, <1>3
 <2>2. \A j \in Half(K2) : j \in Half(K) /\ K2[j] = K[j]
  BY <1>4, <1>5
 <2> QED BY <2>1, <2>2, <1>1
<1>9. \A i \in Half(K2) : \A j \in Half(K2) :
            j < i => K2[j].p # t.pListNext[K2[i].p] /\ K2[j].p # K2[i].next
 BY <1>1, <1>4, <1>5
<1>10. \A i \in 1 .. Len(K2) : /\ K2[i].fn \in Graceful => i = 1
                               /\ K2[i].fn = "apply_func" => K2[i].loop # "none"
 BY <1>1, <1>2, <1>3
<1>11. Last(K).p \in t.allocated => Last(K).p \in E
 <2>1. \A j \in Half(K) : j < n /\ n \in 1 .. Len(K)
  BY <1>2, <1>3, <1>5
 <2> QED BY <2>1, <1>1, <1>3
<1> QED BY <1>3, <1>6, <1>7, <1>8, <1>9, <1>10, <1>11 DEF StackOK

\* The function on top is done and has freed its bucket p.
PoppedHalf(t, u, p) ==
    /\ \A x : x \in u.allocated <=> x \in t.allocated /\ x # p
    /\ \A x \in Addr : x # p => u.pListNext[x] = t.pListNext[x]

\* The function on top frees the bucket it had taken, and goes.
LEMMA PopHalf ==
    ASSUME NEW t, NEW E, NEW K, StackOK(t, E, K), K # <<>>, Last(K).fn \notin Settled,
           NEW u, PoppedHalf(t, u, Last(K).p), NEW K2, K2 = Front(K)
    PROVE  /\ StackOK(u, E, K2)
           /\ Last(K).p \notin E /\ Last(K).p \in t.allocated
           /\ t.pListNext[Last(K).p] \in u.allocated => t.pListNext[Last(K).p] \in E
           /\ Last(K).next \in u.allocated => Last(K).next \in E
<1>1. /\ K \in Seq(Waiting)
      /\ \A x : x \in t.allocated <=> x \in E \/ \E j \in Half(K) : K[j].p = x
      /\ \A j \in Half(K) : K[j].p \notin E
      /\ \A i \in 1 .. Len(K) : \A j \in Half(K) : j < i => K[j].p # K[i].p
      /\ \A i \in Half(K) : \A j \in Half(K) :
            j < i => K[j].p # t.pListNext[K[i].p] /\ K[j].p # K[i].next
      /\ \A i \in 1 .. Len(K) : /\ K[i].fn \in Graceful => i = 1
                                /\ K[i].fn = "apply_func" => K[i].loop # "none"
 BY DEF StackOK
<1>2. PICK n, p : n = Len(K) /\ p = Last(K).p
 OBVIOUS
<1>3. /\ n \in Nat \ {0} /\ K2 \in Seq(Waiting) /\ Len(K2) = n - 1
      /\ \A i \in 1 .. n - 1 : K2[i] = K[i]
      /\ Last(K) = K[n]
      /\ \A i \in 1 .. n : i \in 1 .. n - 1 \/ i = n
 BY <1>1, <1>2, FrontFacts
<1>0. /\ \A x : x \in u.allocated <=> x \in t.allocated /\ x # p
      /\ \A x \in Addr : x # p => u.pListNext[x] = t.pListNext[x]
      /\ K[n].p = p
 BY <1>2, <1>3 DEF PoppedHalf
<1>4. /\ \A j : j \in Half(K) <=> j \in Half(K2) \/ j = n
      /\ \A j : j \in Half(K2) => j \in 1 .. n - 1
 BY <1>2, <1>3 DEF Half
<1>5. \A j \in Half(K2) : j \in Half(K) /\ j \in 1 .. n - 1 /\ K2[j] = K[j] /\ K[j].p \in Addr /\ K[j].p # p
 <2>1. \A j \in 1 .. Len(K) : K[j] \in Waiting
  BY <1>1, SeqFacts
 <2>2. \A g \in Waiting : g.p \in Addr
  BY DEF Waiting
 <2>3. n \in 1 .. Len(K)
  BY <1>2, <1>3
 <2>4. ASSUME NEW j \in Half(K2) PROVE j \in Half(K) /\ j \in 1 .. n - 1 /\ j < n /\ K2[j] = K[j] /\ j \in 1 .. Len(K)
  BY <1>2, <1>3, <1>4
 <2>5. \A j \in Half(K2) : K[j].p # K[n].p
  BY <2>3, <2>4, <1>1
 <2> QED BY <2>1, <2>2, <2>4, <2>5, <1>0
<1>6. \A x : x \in u.allocated <=> x \in E \/ \E j \in Half(K2) : K2[j].p = x
 <2> SUFFICES ASSUME NEW x PROVE x \in u.allocated <=> x \in E \/ \E j \in Half(K2) : K2[j].p = x
  OBVIOUS
 <2>1. p \notin E
  BY <1>0, <1>1, <1>4
 <2>2. (\E j \in Half(K) : K[j].p = x) <=> (\E j \in Half(K2) : K2[j].p = x) \/ x = p
  BY <1>0, <1>4, <1>5
 <2>3. ~ \E j \in Half(K2) : K2[j].p = p
  BY <1>5
 <2> QED BY <2>1, <2>2, <2>3, <1>0, <1>1
<1>7. \A j \in Half(K2) : K2[j].p \notin E
 BY <1>1, <1>5
<1>8. \A i \in 1 .. Len(K2) : \A j \in Half(K2) : j < i => K2[j].p # K2[i].p
 <2>1. \A i \in 1 .. Len(K2) : i \in 1 .. Len(K) /\ K2[i] = K[i]
  BY <1>2, <1>3
 <2>2. \A j \in Half(K2) : j \in Half(K) /\ K2[j] = K[j]
  BY <1>5
 <2> QED BY <2>1, <2>2, <1>1
<1>9. \A i \in Half(K2) : \A j \in Half(K2) :
            j < i => K2[j].p # u.pListNext[K2[i].p] /\ K2[j].p # K2[i].next
 BY <1>0, <1>1, <1>5
<1>10. \A i \in 1 .. Len(K2) : /\ K2[i].fn \in Graceful => i = 1
                               /\ K2[i].fn = "apply_func" => K2[i].loop # "none"
 BY <1>1, <1>2, <1>3
<1>11. p \notin E /\ p \in t.allocated
 BY <1>0, <1>1, <1>4
<1>12. /\ t.pListNext[p] \in u.allocated => t.pListNext[p] \in E
       /\ K[n].next \in u.allocated => K[n].next \in E
 <2>1. \A j \in Half(K2) : K2[j].p # t.pListNext[p] /\ K2[j].p # K[n].next
  <3>1. n \in Half(K) /\ \A j \in Half(K2) : j < n
   BY <1>3, <1>4, <1>5
  <3> QED BY <3>1, <1>0, <1>1, <1>5
 <2> QED BY <2>1, <1>6
<1> QED BY <1>2, <1>3, <1>6, <1>7, <1>8, <1>9, <1>10, <1>11, <1>12 DEF StackOK

\* The table changes under the functions under way: F are its elements now.
Shifted(t, E, u, F) ==
    /\ \A x : x \in F \/ x \in E => (x \in u.allocated <=> x \in F)
    /\ \A x : x \notin F /\ x \notin E => (x \in u.allocated <=> x \in t.allocated)
    /\ \A x : x \in F => x \in E \/ x \notin t.allocated
    /\ \A x \in Addr : x \notin E /\ x \notin F => u.pListNext[x] = t.pListNext[x]

\* The functions under way are not disturbed by such a change.
LEMMA ShiftStack ==
    ASSUME NEW t, NEW E, NEW K, StackOK(t, E, K), NEW u, NEW F, Shifted(t, E, u, F)
    PROVE  StackOK(u, F, K)
<1>1. /\ K \in Seq(Waiting)
      /\ \A x : x \in t.allocated <=> x \in E \/ \E j \in Half(K) : K[j].p = x
      /\ \A j \in Half(K) : K[j].p \notin E
      /\ \A i \in 1 .. Len(K) : \A j \in Half(K) : j < i => K[j].p # K[i].p
      /\ \A i \in Half(K) : \A j \in Half(K) :
            j < i => K[j].p # t.pListNext[K[i].p] /\ K[j].p # K[i].next
      /\ \A i \in 1 .. Len(K) : /\ K[i].fn \in Graceful => i = 1
                                /\ K[i].fn = "apply_func" => K[i].loop # "none"
 BY DEF StackOK
<1>0. /\ \A x : x \in F \/ x \in E => (x \in u.allocated <=> x \in F)
      /\ \A x : x \notin F /\ x \notin E => (x \in u.allocated <=> x \in t.allocated)
      /\ \A x : x \in F => x \in E \/ x \notin t.allocated
      /\ \A x \in Addr : x \notin E /\ x \notin F => u.pListNext[x] = t.pListNext[x]
 BY DEF Shifted
<1>2. \A j \in Half(K) : K[j].p \in Addr /\ K[j].p \notin F /\ K[j].p \notin E
 <2>1. \A j \in 1 .. Len(K) : K[j] \in Waiting
  BY <1>1, SeqFacts
 <2>2. \A g \in Waiting : g.p \in Addr
  BY DEF Waiting
 <2>3. \A j \in Half(K) : K[j].p \in Addr
  BY <2>1, <2>2 DEF Half
 <2>4. \A j \in Half(K) : K[j].p \in t.allocated /\ K[j].p \notin E
  BY <1>1
 <2> QED BY <2>3, <2>4, <1>0
<1>3. \A x : x \in u.allocated <=> x \in F \/ \E j \in Half(K) : K[j].p = x
 BY <1>0, <1>1, <1>2
<1>4. \A i \in Half(K) : \A j \in Half(K) :
            j < i => K[j].p # u.pListNext[K[i].p] /\ K[j].p # K[i].next
 BY <1>0, <1>1, <1>2
<1> QED BY <1>1, <1>2, <1>3, <1>4 DEF StackOK

--------------------
(* Deletions under way. *)

Dels(K) == {i \in 1 .. Len(K) : K[i].fn = "del"}

\* The deletions under way can be counted.
LEMMA DelsFinite ==
    ASSUME NEW T, NEW K \in Seq(T)
    PROVE  IsFiniteSet(Dels(K)) /\ Cardinality(Dels(K)) \in Nat
<1>1. Len(K) \in Nat
 OBVIOUS
<1>2. IsFiniteSet(1 .. Len(K))
 <2>1. 1 \in Int /\ Len(K) \in Int
  BY <1>1
 <2> QED BY <2>1, FS_Interval
<1>3. Dels(K) \in SUBSET (1 .. Len(K))
 BY DEF Dels
<1>4. IsFiniteSet(Dels(K))
 BY <1>2, <1>3, FS_Subset
<1> QED BY <1>4, FS_CardinalityType

\* One more deletion under way, or not.
LEMMA DelsPush ==
    ASSUME NEW T, NEW K \in Seq(T), NEW f \in T, NEW K2, K2 = Append(K, f)
    PROVE  Cardinality(Dels(K2)) = Cardinality(Dels(K)) + IF f.fn = "del" THEN 1 ELSE 0
<1>1. /\ Len(K) \in Nat /\ Len(K2) = Len(K) + 1
      /\ \A i \in 1 .. Len(K) : K2[i] = K[i]
      /\ K2[Len(K) + 1] = f
      /\ \A i \in 1 .. Len(K2) : i \in 1 .. Len(K) \/ i = Len(K) + 1
 BY AppendFacts
<1>2. IsFiniteSet(Dels(K)) /\ Cardinality(Dels(K)) \in Nat
 BY DelsFinite
<1>3. PICK n : n = Len(K) + 1
 OBVIOUS
<1>4. n \notin Dels(K)
 BY <1>1, <1>3 DEF Dels
<1>5. CASE f.fn = "del"
 <2>1. Dels(K2) = Dels(K) \cup {n}
  BY <1>1, <1>3, <1>5 DEF Dels
 <2>2. Cardinality(Dels(K) \cup {n}) = IF n \in Dels(K) THEN Cardinality(Dels(K)) ELSE Cardinality(Dels(K)) + 1
  BY <1>2, FS_AddElement
 <2> QED BY <2>1, <2>2, <1>4, <1>5
<1>6. CASE f.fn # "del"
 <2>1. Dels(K2) = Dels(K)
  BY <1>1, <1>3, <1>6 DEF Dels
 <2> QED BY <2>1, <1>2, <1>6
<1> QED BY <1>5, <1>6

\* One deletion less, or not.
LEMMA DelsPop ==
    ASSUME NEW T, NEW K \in Seq(T), K # <<>>, NEW K2, K2 = Front(K)
    PROVE  Cardinality(Dels(K2)) = Cardinality(Dels(K)) - IF Last(K).fn = "del" THEN 1 ELSE 0
<1>1. PICK n : n = Len(K)
 OBVIOUS
<1>2. /\ n \in Nat \ {0} /\ K2 \in Seq(T) /\ Len(K2) = n - 1
      /\ \A i \in 1 .. n - 1 : K2[i] = K[i]
      /\ Last(K) = K[n]
      /\ \A i \in 1 .. n : i \in 1 .. n - 1 \/ i = n
 BY <1>1, FrontFacts
<1>3. IsFiniteSet(Dels(K)) /\ Cardinality(Dels(K)) \in Nat
 BY DelsFinite
<1>4. CASE Last(K).fn = "del"
 <2>1. n \in Dels(K) /\ Dels(K2) = Dels(K) \ {n}
  BY <1>1, <1>2, <1>4 DEF Dels
 <2>2. Cardinality(Dels(K) \ {n}) = IF n \in Dels(K) THEN Cardinality(Dels(K)) - 1 ELSE Cardinality(Dels(K))
  BY <1>3, FS_RemoveElement
 <2> QED BY <2>1, <2>2, <1>4
<1>5. CASE Last(K).fn # "del"
 <2>1. Dels(K2) = Dels(K)
  BY <1>1, <1>2, <1>5 DEF Dels
 <2> QED BY <2>1, <1>3, <1>5
<1> QED BY <1>4, <1>5

--------------------
(* Tables with functions under way. *)

State(t, s, K) ==
    /\ Table(t, s)
    /\ StackOK(t, ToSet(s), K)
    /\ t.nNumOfElements = Len(s) + Cardinality(Dels(K))

\* The parts of a table with functions under way.
LEMMA StateFacts ==
    ASSUME NEW t, NEW s, NEW K, State(t, s, K)
    PROVE  /\ Table(t, s) /\ Shaped(t) /\ StackOK(t, ToSet(s), K) /\ K \in Seq(Waiting)
           /\ List(t) = s /\ s \in Seq(Addr) /\ Len(s) \in Nat
           /\ ToSet(s) \subseteq Addr /\ NULL \notin ToSet(s)
           /\ ToSet(s) \subseteq t.allocated /\ t.allocated \subseteq Addr
           /\ Cardinality(Dels(K)) \in Nat
           /\ t.nNumOfElements = Len(s) + Cardinality(Dels(K))
<1>1. Table(t, s) /\ StackOK(t, ToSet(s), K) /\ Shaped(t)
      /\ t.nNumOfElements = Len(s) + Cardinality(Dels(K))
 BY DEF State, Table
<1>2. List(t) = s /\ s \in Seq(Addr) /\ Len(s) \in Nat /\ ToSet(s) \subseteq Addr /\ NULL \notin ToSet(s)
 BY <1>1, TableFacts
<1>3. K \in Seq(Waiting) /\ \A x : x \in ToSet(s) => x \in t.allocated
 BY <1>1 DEF StackOK
<1>4. t.allocated \subseteq Addr
 BY <1>1 DEF Shaped
<1>5. Cardinality(Dels(K)) \in Nat
 BY <1>3, DelsFinite
<1> QED BY <1>1, <1>2, <1>3, <1>4, <1>5

\* A new table has none under way.
LEMMA StateEmpty ==
    ASSUME NEW n \in Nat \ {0}, NEW u, u = EmptyTable(n)
    PROVE  State(u, <<>>, <<>>) /\ ToSet(<<>>) = {}
<1>1. Table(u, <<>>) /\ u.nNumOfElements = 0 /\ u.allocated = {}
 BY TableEmpty
<1>2. ToSet(<<>>) = {} /\ Len(<<>>) = 0
 BY LinksEmpty
<1>3. <<>> \in Seq(Waiting) /\ Half(<<>>) = {} /\ Dels(<<>>) = {}
 BY DEF Half, Dels
<1>4. StackOK(u, {}, <<>>)
 BY <1>1, <1>2, <1>3 DEF StackOK
<1>5. Cardinality({}) = 0
 BY FS_EmptySet
<1>6. StackOK(u, ToSet(<<>>), <<>>)
 BY <1>2, <1>4, Zenon
<1>7. Cardinality(Dels(<<>>)) = 0
 BY <1>3, <1>5, Zenon
<1>8. u.nNumOfElements = Len(<<>>) + Cardinality(Dels(<<>>))
 BY <1>1, <1>2, <1>7
<1> QED BY <1>1, <1>2, <1>6, <1>8, Zenon DEF State

\* The next index is a number, and not larger than LONG_MAX.
LEMMA NextFreeFacts ==
    ASSUME NEW t, t.nNextFreeElement \in Nat, NEW k \in Stored
    PROVE  /\ NextFree(t, k) \in Nat
           /\ t.nNextFreeElement <= LongMax => NextFree(t, k) <= LongMax
<1>1. k.h \in Int /\ LongMax \in Nat
 BY StoredFacts, KeyAssumption
<1> QED BY <1>1 DEF NextFree

\* A new element goes last.
LEMMA StateInsert ==
    ASSUME NEW t, NEW s, NEW K, State(t, s, K), NEW p \in Addr, p \notin t.allocated,
           NEW k \in Stored, NEW d \in Data, NEW u, u = Insert(t, p, k, d)
    PROVE  /\ State(u, Append(s, p), K)
           /\ \A x : x \in ToSet(Append(s, p)) <=> x \in ToSet(s) \/ x = p
           /\ p \notin ToSet(s)
           /\ \A q \in Addr : u.key[q] = IF q = p THEN k ELSE t.key[q]
           /\ \A q \in Addr : u.pData[q] = IF q = p THEN d ELSE t.pData[q]
           /\ u.nNextFreeElement = NextFree(t, k)
<1>1. Table(t, s) /\ StackOK(t, ToSet(s), K) /\ ToSet(s) \subseteq t.allocated /\ Len(s) \in Nat
      /\ Cardinality(Dels(K)) \in Nat
      /\ t.nNumOfElements = Len(s) + Cardinality(Dels(K))
 BY StateFacts
<1>2. p \notin ToSet(s) /\ d \in Data \cup {NULL}
 BY <1>1
<1>3. /\ Table(u, Append(s, p))
      /\ Len(Append(s, p)) = Len(s) + 1
      /\ ToSet(Append(s, p)) = ToSet(s) \cup {p}
      /\ u.allocated = t.allocated \cup {p}
      /\ \A q \in Addr : u.key[q] = IF q = p THEN k ELSE t.key[q]
      /\ \A q \in Addr : u.pData[q] = IF q = p THEN d ELSE t.pData[q]
      /\ u.nNumOfElements = t.nNumOfElements + 1
      /\ u.nNextFreeElement = NextFree(t, k)
      /\ u.pInternalPointer = IF t.pInternalPointer = NULL THEN p ELSE t.pInternalPointer
      /\ \A q \in Addr : q # p /\ q \notin ToSet(s) => u.pListNext[q] = t.pListNext[q]
 BY <1>1, <1>2, TableInsert
<1>4. PICK E, F : E = ToSet(s) /\ F = ToSet(Append(s, p))
 OBVIOUS
<1>5. Shifted(t, E, u, F)
 BY <1>1, <1>2, <1>3, <1>4 DEF Shifted
<1>6. StackOK(u, F, K)
 BY <1>1, <1>4, <1>5, ShiftStack
<1>7. State(u, Append(s, p), K)
 BY <1>1, <1>3, <1>4, <1>6 DEF State
<1> QED BY <1>2, <1>3, <1>7

\* A function waits; it has not taken its bucket off the lists.
LEMMA StatePush ==
    ASSUME NEW t, NEW s, NEW K, State(t, s, K), NEW f \in Waiting, f.fn \in Settled,
           f.p \in ToSet(s), f.fn = "apply_func" => f.loop # "none", NEW K2, K2 = Append(K, f)
    PROVE  State(t, s, K2)
<1>1. Table(t, s) /\ StackOK(t, ToSet(s), K) /\ K \in Seq(Waiting) /\ Cardinality(Dels(K)) \in Nat
      /\ t.nNumOfElements = Len(s) + Cardinality(Dels(K))
 BY StateFacts
<1>2. StackOK(t, ToSet(s), K2)
 BY <1>1, PushSettled
<1>3. Cardinality(Dels(K2)) = Cardinality(Dels(K)) + IF f.fn = "del" THEN 1 ELSE 0
 BY <1>1, DelsPush
<1>4. f.fn # "del"
 BY DEF Settled
<1> QED BY <1>1, <1>2, <1>3, <1>4 DEF State

Counted(t, u, n) ==
    /\ u.nNumOfElements = n
    /\ \A g \in Fields \ {"nNumOfElements"} : u[g] = t[g]

\* The count of elements is no part of the lists.
LEMMA TableCounted ==
    ASSUME NEW t, NEW s, Table(t, s), NEW n \in Int, NEW u, u = WithCount(t, n)
    PROVE  Table(u, s) /\ Counted(t, u, n)
<1>1. Table(u, s) /\ u.nNumOfElements = n /\ \A g \in Fields \ {"nNumOfElements"} : u[g] = t[g]
 BY TableCount
<1> QED BY <1>1 DEF Counted

\* What taking p off the lists leaves: the keys and values stay.
Unlinked(t, u, p, E, F) ==
    /\ \A x : x \in F <=> x \in E /\ x # p
    /\ u.key = t.key /\ u.pData = t.pData /\ u.nNextFreeElement = t.nNextFreeElement
    /\ u.pListNext[p] = t.pListNext[p]
    /\ t.pListNext[p] = NULL \/ t.pListNext[p] \in F
    /\ t.pListLast[p] = NULL \/ t.pListLast[p] \in F
    /\ u.pListHead = IF t.pListLast[p] = NULL THEN t.pListNext[p] ELSE t.pListHead

\* p is freed: the elements stay as they are.
Released(t, u, p, E) ==
    /\ p \in Addr /\ p \notin E
    /\ \A x \in Addr : x # p => u.key[x] = t.key[x] /\ u.pData[x] = t.pData[x]
    /\ u.key[p] = NoKey
    /\ u.nNextFreeElement = t.nNextFreeElement
    /\ u.pListHead = t.pListHead /\ u.pListTail = t.pListTail

\* A function has taken its bucket off the lists: all deleters.
\* Those but zend_hash_del count the element off at once.
LEMMA StateUnlink ==
    ASSUME NEW t, NEW s, NEW K, State(t, s, K), NEW p \in ToSet(s),
           NEW f \in Waiting, f.fn \notin Settled, f.p = p, f.fn \in Graceful => K = <<>>,
           f.next = NULL \/ f.next = t.pListLast[p] \/ f.next = t.pListNext[p],
           NEW v, v = Unlink(t, p),
           NEW u, u = IF f.fn = "del" THEN v ELSE WithCount(v, v.nNumOfElements - 1),
           NEW K2, K2 = Append(K, f)
    PROVE  \E w : State(u, w, K2) /\ Unlinked(t, u, p, ToSet(s), ToSet(w))
<1>1. /\ Table(t, s) /\ StackOK(t, ToSet(s), K) /\ K \in Seq(Waiting) /\ s \in Seq(Addr) /\ ToSet(s) \subseteq Addr
      /\ Len(s) \in Nat /\ Cardinality(Dels(K)) \in Nat
      /\ t.nNumOfElements = Len(s) + Cardinality(Dels(K))
 BY StateFacts
<1>2. PICK k \in 1 .. Len(s) : s[k] = p
 BY <1>1, PlaceOf
<1>3. PICK w : w = Without(s, k)
 OBVIOUS
<1>4. /\ Table(v, w)
      /\ Len(w) = Len(s) - 1
      /\ ToSet(w) = ToSet(s) \ {p}
      /\ v.nTableSize = t.nTableSize /\ v.nNumOfElements = t.nNumOfElements
      /\ v.nNextFreeElement = t.nNextFreeElement /\ v.allocated = t.allocated
      /\ v.key = t.key /\ v.pData = t.pData
      /\ v.pInternalPointer = IF t.pInternalPointer = p THEN t.pListNext[p] ELSE t.pInternalPointer
      /\ v.pListNext[p] = t.pListNext[p]
      /\ t.pListNext[p] = NULL \/ t.pListNext[p] \in ToSet(w)
      /\ t.pListLast[p] = NULL \/ t.pListLast[p] \in ToSet(w)
      /\ \A q \in Addr : q \notin ToSet(s) => v.pListNext[q] = t.pListNext[q]
      /\ v.pListHead = IF t.pListLast[p] = NULL THEN t.pListNext[p] ELSE t.pListHead
 BY <1>1, <1>2, <1>3, TableUnlink
<1>5. PICK n : n = v.nNumOfElements - 1
 OBVIOUS
<1>6. n \in Int
 BY <1>1, <1>4, <1>5
<1>7. /\ Table(u, w)
      /\ u.nNumOfElements = IF f.fn = "del" THEN t.nNumOfElements ELSE t.nNumOfElements - 1
      /\ \A g \in Fields \ {"nNumOfElements"} : u[g] = v[g]
 <2>1. CASE f.fn = "del"
  BY <2>1, <1>4
 <2>2. CASE f.fn # "del"
  <3>1. u = WithCount(v, n)
   BY <2>2, <1>5
  <3>2. Table(v, w)
   BY <1>4
  <3>3. Table(u, w) /\ Counted(v, u, n)
   BY <3>1, <3>2, <1>6, TableCounted
  <3> QED BY <3>3, <2>2, <1>4, <1>5 DEF Counted
 <2> QED BY <2>1, <2>2
<1>8. /\ u.allocated = v.allocated /\ u.key = v.key /\ u.pData = v.pData /\ u.pListNext = v.pListNext
      /\ u.pListHead = v.pListHead /\ u.nNextFreeElement = v.nNextFreeElement
 BY <1>7 DEF Fields
<1>9. PICK E, F : E = ToSet(s) /\ F = ToSet(w)
 OBVIOUS
<1>10. \A x : x \in F <=> x \in E /\ x # p
 BY <1>4, <1>9
<1>11. PushedHalf(t, E, u, F, f)
 BY <1>4, <1>8, <1>9, <1>10 DEF PushedHalf, SameOutside
<1>12. StackOK(u, F, K2)
 BY <1>1, <1>9, <1>11, PushHalf
<1>13. Cardinality(Dels(K2)) = Cardinality(Dels(K)) + IF f.fn = "del" THEN 1 ELSE 0
 BY <1>1, DelsPush
<1>14. u.nNumOfElements = Len(w) + Cardinality(Dels(K2))
 BY <1>1, <1>4, <1>7, <1>13
<1>15. State(u, w, K2)
 BY <1>7, <1>9, <1>12, <1>14 DEF State
<1>16. Unlinked(t, u, p, E, F)
 BY <1>4, <1>8, <1>9, <1>10 DEF Unlinked
<1> QED BY <1>9, <1>15, <1>16

\* The function on top is done; it had not taken its bucket.
LEMMA StatePop ==
    ASSUME NEW t, NEW s, NEW K, State(t, s, K), K # <<>>, Last(K).fn \in Settled, NEW K2, K2 = Front(K)
    PROVE  State(t, s, K2) /\ (Last(K).p \in t.allocated => Last(K).p \in ToSet(s))
<1>1. Table(t, s) /\ StackOK(t, ToSet(s), K) /\ K \in Seq(Waiting) /\ Cardinality(Dels(K)) \in Nat
      /\ t.nNumOfElements = Len(s) + Cardinality(Dels(K))
 BY StateFacts
<1>2. StackOK(t, ToSet(s), K2) /\ (Last(K).p \in t.allocated => Last(K).p \in ToSet(s))
 BY <1>1, PopSettled
<1>3. Cardinality(Dels(K2)) = Cardinality(Dels(K)) - IF Last(K).fn = "del" THEN 1 ELSE 0
 BY <1>1, DelsPop
<1>4. Last(K).fn # "del"
 BY DEF Settled
<1> QED BY <1>1, <1>2, <1>3, <1>4 DEF State

\* A deleter is done with the bucket it took, and frees it.
LEMMA StateFree ==
    ASSUME NEW t, NEW s, NEW K, State(t, s, K), K # <<>>, Last(K).fn \notin Settled, NEW K2, K2 = Front(K),
           NEW v, v = Free(t, Last(K).p),
           NEW u, u = IF Last(K).fn = "del" THEN WithCount(v, v.nNumOfElements - 1) ELSE v
    PROVE  /\ State(u, s, K2)
           /\ Released(t, u, Last(K).p, ToSet(s))
           /\ t.pListNext[Last(K).p] \in u.allocated => t.pListNext[Last(K).p] \in ToSet(s)
           /\ Last(K).next \in u.allocated => Last(K).next \in ToSet(s)
<1>1. Table(t, s) /\ Shaped(t) /\ StackOK(t, ToSet(s), K) /\ K \in Seq(Waiting) /\ Cardinality(Dels(K)) \in Nat
      /\ Len(s) \in Nat /\ t.nNumOfElements = Len(s) + Cardinality(Dels(K))
 BY StateFacts
<1>2. PICK p, f : f = Last(K) /\ p = f.p
 OBVIOUS
<1>3. f \in Waiting /\ p \in Addr
 <2>1. Last(K) \in Waiting
  <3>1. PICK n : n = Len(K) /\ K2 = Front(K)
   OBVIOUS
  <3>2. Last(K) = K[n] /\ K[n] \in Waiting
   BY <1>1, <3>1, FrontFacts
  <3> QED BY <3>2
 <2> QED BY <2>1, <1>2 DEF Waiting
<1>4. p \notin ToSet(s)
 <2>1. PICK n : n = Len(K)
  OBVIOUS
 <2>2. n \in Nat \ {0} /\ Last(K) = K[n]
  BY <1>1, <2>1, FrontFacts
 <2>3. n \in Half(K)
  BY <2>1, <2>2 DEF Half
 <2> QED BY <2>2, <2>3, <1>1, <1>2 DEF StackOK
<1>5. /\ Table(v, s)
      /\ v.allocated = t.allocated \ {p}
      /\ v.nTableSize = t.nTableSize /\ v.nNumOfElements = t.nNumOfElements
      /\ v.nNextFreeElement = t.nNextFreeElement /\ v.pInternalPointer = t.pInternalPointer
      /\ v.pListHead = t.pListHead /\ v.pListTail = t.pListTail
      /\ \A q \in Addr : q # p => /\ v.key[q] = t.key[q] /\ v.pData[q] = t.pData[q]
                                  /\ v.pListNext[q] = t.pListNext[q]
      /\ v.key[p] = NoKey /\ v.pData[p] = NULL /\ v.pListNext[p] = NULL
 BY <1>1, <1>2, <1>3, <1>4, TableFree
<1>6. PICK n : n = v.nNumOfElements - 1
 OBVIOUS
<1>7. n \in Int
 BY <1>1, <1>5, <1>6
<1>8. /\ Table(u, s)
      /\ u.nNumOfElements = IF f.fn = "del" THEN t.nNumOfElements - 1 ELSE t.nNumOfElements
      /\ \A g \in Fields \ {"nNumOfElements"} : u[g] = v[g]
 <2>1. CASE f.fn # "del"
  BY <2>1, <1>2, <1>5
 <2>2. CASE f.fn = "del"
  <3>1. u = WithCount(v, n)
   BY <2>2, <1>2, <1>6
  <3>2. Table(v, s)
   BY <1>5
  <3>3. Table(u, s) /\ Counted(v, u, n)
   BY <3>1, <3>2, <1>7, TableCounted
  <3> QED BY <3>3, <2>2, <1>5, <1>6 DEF Counted
 <2> QED BY <2>1, <2>2
<1>9. /\ u.allocated = v.allocated /\ u.key = v.key /\ u.pData = v.pData /\ u.pListNext = v.pListNext
      /\ u.pListHead = v.pListHead /\ u.pListTail = v.pListTail /\ u.nNextFreeElement = v.nNextFreeElement
 BY <1>8 DEF Fields
<1>10. PoppedHalf(t, u, p)
 BY <1>5, <1>9 DEF PoppedHalf
<1>11. PICK E : E = ToSet(s)
 OBVIOUS
<1>12. /\ StackOK(u, E, K2)
       /\ t.pListNext[Last(K).p] \in u.allocated => t.pListNext[Last(K).p] \in E
       /\ Last(K).next \in u.allocated => Last(K).next \in E
 BY <1>1, <1>2, <1>10, <1>11, PopHalf
<1>13. Cardinality(Dels(K2)) = Cardinality(Dels(K)) - IF Last(K).fn = "del" THEN 1 ELSE 0
 BY <1>1, DelsPop
<1>14. State(u, s, K2)
 BY <1>1, <1>2, <1>8, <1>11, <1>12, <1>13 DEF State
<1>15. Released(t, u, p, E)
 BY <1>3, <1>4, <1>5, <1>9, <1>11 DEF Released
<1> QED BY <1>2, <1>11, <1>12, <1>14, <1>15

\* A change of the table that frees nothing a function under way has.
LEMMA StateTable ==
    ASSUME NEW t, NEW s, NEW K, State(t, s, K), NEW u, NEW w, Table(u, w), Len(w) = Len(s),
           u.nNumOfElements = t.nNumOfElements, Shifted(t, ToSet(s), u, ToSet(w))
    PROVE  State(u, w, K)
<1>1. StackOK(t, ToSet(s), K) /\ t.nNumOfElements = Len(s) + Cardinality(Dels(K))
 BY DEF State
<1>2. PICK E, F : E = ToSet(s) /\ F = ToSet(w)
 OBVIOUS
<1>3. StackOK(u, F, K)
 BY <1>1, <1>2, ShiftStack
<1> QED BY <1>1, <1>2, <1>3 DEF State

\* The same elements, and the same buckets allocated.
LEMMA StateSame ==
    ASSUME NEW t, NEW s, NEW K, State(t, s, K), NEW u, NEW w, Table(u, w), Len(w) = Len(s), ToSet(w) = ToSet(s),
           u.nNumOfElements = t.nNumOfElements, u.allocated = t.allocated,
           \A x \in Addr : x \notin ToSet(s) => u.pListNext[x] = t.pListNext[x]
    PROVE  State(u, w, K)
<1>1. ToSet(s) \subseteq t.allocated
 BY StateFacts
<1>2. PICK E, F : E = ToSet(s) /\ F = ToSet(w)
 OBVIOUS
<1>3. Shifted(t, E, u, F)
 BY <1>1, <1>2 DEF Shifted
<1> QED BY <1>2, <1>3, StateTable

\* A value is stored in its bucket.
LEMMA StateStore ==
    ASSUME NEW t, NEW s, NEW K, State(t, s, K), NEW p \in Addr, NEW d \in Data \cup {NULL}, NEW n \in Nat,
           NEW u, u = WithValue(t, p, d, n)
    PROVE  /\ State(u, s, K) /\ u.key = t.key /\ u.nNextFreeElement = n
           /\ \A q \in Addr : u.pData[q] = IF q = p THEN d ELSE t.pData[q]
<1>1. Table(t, s)
 BY StateFacts
<1>2. /\ Table(u, s) /\ u.nNextFreeElement = n
      /\ \A q \in Addr : u.pData[q] = IF q = p THEN d ELSE t.pData[q]
      /\ \A g \in Fields \ {"nNextFreeElement", "pData"} : u[g] = t[g]
 BY <1>1, TableStore
<1>3. u.nNumOfElements = t.nNumOfElements /\ u.allocated = t.allocated /\ u.key = t.key
      /\ u.pListNext = t.pListNext
 BY <1>2 DEF Fields
<1>4. State(u, s, K)
 BY <1>2, <1>3, StateSame
<1> QED BY <1>2, <1>3, <1>4

\* The internal pointer moves to an element, or off the table.
LEMMA StatePoint ==
    ASSUME NEW t, NEW s, NEW K, State(t, s, K), NEW p, p = NULL \/ p \in ToSet(s), NEW u, u = WithPointer(t, p)
    PROVE  State(u, s, K) /\ \A g \in Fields \ {"pInternalPointer"} : u[g] = t[g]
<1>1. Table(t, s)
 BY StateFacts
<1>2. /\ Table(u, s) /\ u.pInternalPointer = p
      /\ \A g \in Fields \ {"pInternalPointer"} : u[g] = t[g]
 BY <1>1, TablePoint
<1>3. u.nNumOfElements = t.nNumOfElements /\ u.allocated = t.allocated
      /\ u.pListNext = t.pListNext
 BY <1>2 DEF Fields
<1>4. State(u, s, K)
 BY <1>2, <1>3, StateSame
<1> QED BY <1>2, <1>4

\* An element gets another key.
LEMMA StateRename ==
    ASSUME NEW t, NEW s, NEW K, State(t, s, K), NEW p \in ToSet(s), NEW k \in Stored,
           NEW u, u = ConnectToBucket(WithKey(DisconnectFromBucket(t, p), p, k), p)
    PROVE  /\ State(u, s, K)
           /\ \A q \in Addr : u.key[q] = IF q = p THEN k ELSE t.key[q]
           /\ u.pData = t.pData /\ u.nNextFreeElement = t.nNextFreeElement
<1>1. Table(t, s)
 BY StateFacts
<1>2. /\ Table(u, s)
      /\ \A q \in Addr : u.key[q] = IF q = p THEN k ELSE t.key[q]
      /\ \A g \in Fields \ {"key", "arBuckets", "pNext", "pLast"} : u[g] = t[g]
 BY <1>1, TableRename
<1>3. u.nNumOfElements = t.nNumOfElements /\ u.allocated = t.allocated
      /\ u.pListNext = t.pListNext /\ u.pData = t.pData /\ u.nNextFreeElement = t.nNextFreeElement
 BY <1>2 DEF Fields
<1>4. State(u, s, K)
 BY <1>2, <1>3, StateSame
<1> QED BY <1>2, <1>3, <1>4

\* An element gets another key, and for that another bucket.
LEMMA StateSubstitute ==
    ASSUME NEW t, NEW s, NEW K, State(t, s, K), NEW p \in ToSet(s), NEW k \in Stored,
           NEW q \in Addr, q \notin t.allocated, NEW v, v = DisconnectFromBucket(t, p),
           NEW u, u = ConnectToBucket(WithKey(Replace(v, p, q), q, k), q)
    PROVE  \E w : /\ State(u, w, K)
                  /\ \A x : x \in ToSet(w) <=> x = q \/ (x \in ToSet(s) /\ x # p)
                  /\ \A x \in Addr : x # p /\ x # q => u.key[x] = t.key[x] /\ u.pData[x] = t.pData[x]
                  /\ u.key[q] = k /\ u.pData[q] = t.pData[p] /\ u.key[p] = NoKey
                  /\ u.nNextFreeElement = t.nNextFreeElement
<1>1. Table(t, s) /\ s \in Seq(Addr) /\ ToSet(s) \subseteq t.allocated
 BY StateFacts
<1>2. q \notin ToSet(s) /\ p # q
 BY <1>1
<1>3. PICK n \in 1 .. Len(s) : s[n] = p
 BY <1>1, PlaceOf
<1>4. PICK w : w = Instead(s, n, q)
 OBVIOUS
<1>5. /\ Table(u, w)
      /\ Len(w) = Len(s)
      /\ ToSet(w) = (ToSet(s) \ {p}) \cup {q}
      /\ u.allocated = (t.allocated \cup {q}) \ {p}
      /\ \A x \in Addr : x # p /\ x # q => u.key[x] = t.key[x] /\ u.pData[x] = t.pData[x]
      /\ u.key[q] = k /\ u.pData[q] = t.pData[p] /\ u.key[p] = NoKey /\ u.pData[p] = NULL
      /\ \A x \in Addr : x # p /\ x # q /\ x \notin ToSet(s) => u.pListNext[x] = t.pListNext[x]
      /\ u.nNumOfElements = t.nNumOfElements /\ u.nNextFreeElement = t.nNextFreeElement
      /\ u.pInternalPointer = IF t.pInternalPointer = p THEN q ELSE t.pInternalPointer
 BY <1>1, <1>2, <1>3, <1>4, TableSubstitute
<1>6. PICK E, F : E = ToSet(s) /\ F = ToSet(w)
 OBVIOUS
<1>7. Shifted(t, E, u, F)
 BY <1>1, <1>2, <1>5, <1>6 DEF Shifted
<1>8. State(u, w, K)
 BY <1>5, <1>6, <1>7, StateTable
<1> QED BY <1>2, <1>5, <1>8

\* The elements are put into another order, and get the keys 0, 1, 2, ... if
\* that is asked for.
LEMMA StateSort ==
    ASSUME NEW t, NEW s, NEW K, State(t, s, K), s # <<>>, NEW r, Reordering(s, r), NEW renumber \in BOOLEAN,
           NEW v, v = Relink(t, r), NEW u, u = IF renumber THEN Renumber(v, r) ELSE v
    PROVE  /\ State(u, r, K) /\ ToSet(r) = ToSet(s)
           /\ u.pData = t.pData
           /\ u.nNextFreeElement = IF renumber THEN Len(s) ELSE t.nNextFreeElement
           /\ ~renumber => u.key = t.key
           /\ renumber => \A i \in 1 .. Len(s) : u.key[r[i]] = Numeric(i - 1)
           /\ \A q \in Addr : q \notin ToSet(s) => u.key[q] = t.key[q]
<1>1. Table(t, s)
 BY StateFacts
<1>2. /\ Table(v, r)
      /\ Len(r) = Len(s) /\ ToSet(r) = ToSet(s)
      /\ v.pInternalPointer = r[1]
      /\ \A q \in Addr : q \notin ToSet(s) => v.pListNext[q] = t.pListNext[q]
      /\ \A g \in Fields \ Relinking : v[g] = t[g]
 BY <1>1, TableRelink
<1>3. v.nNumOfElements = t.nNumOfElements /\ v.allocated = t.allocated /\ v.key = t.key /\ v.pData = t.pData
      /\ v.nNextFreeElement = t.nNextFreeElement
 BY <1>2 DEF Fields, Relinking
<1>4. State(v, r, K)
 BY <1>2, <1>3, StateSame
<1>5. CASE ~renumber
 BY <1>2, <1>3, <1>4, <1>5
<1>6. CASE renumber
 <2>1. u = Renumber(v, r)
  BY <1>6
 <2>2. /\ Table(u, r)
       /\ u.nNextFreeElement = Len(r)
       /\ \A i \in 1 .. Len(r) : u.key[r[i]] = Numeric(i - 1)
       /\ \A q \in Addr : q \notin ToSet(r) => u.key[q] = v.key[q]
       /\ \A g \in Fields \ {"nNextFreeElement", "key", "arBuckets", "pNext", "pLast"} : u[g] = v[g]
  BY <1>2, <2>1, TableRenumber
 <2>3. u.nNumOfElements = v.nNumOfElements /\ u.allocated = v.allocated /\ u.pData = v.pData
       /\ u.pListNext = v.pListNext
  BY <2>2 DEF Fields
 <2>4. State(u, r, K)
  BY <1>4, <2>2, <2>3, StateSame
 <2> QED BY <1>2, <1>3, <1>6, <2>2, <2>3, <2>4
<1> QED BY <1>5, <1>6
=============================================================================
