------------------------- MODULE ApcCacheProofs -------------------------------
(***************************************************************************)
(* Theorems about the caches of APC, for any number of processes, blocks   *)
(* and keys, and any ttl's.                                                *)
(*                                                                         *)
(* The lemmas come first: what the operators of ApcCache do to a shared    *)
(* memory that is in order. Only, RemovedAll, Collected and Expunged are   *)
(* recursive functions on lists; their facts are proved by induction over  *)
(* a set of numbers or of lists (NatSet, SeqSet). A memory in order        *)
(* (Heap) has each entry at one place of one list and each block with one  *)
(* owner; Shrinks says what removing and collecting entries may do, and    *)
(* Reduced joins both. LinkedHeap is the converse: an entry joins a chain  *)
(* whose place for it (PlaceOf) is still there.                            *)
(*                                                                         *)
(* Then the locks: LInv ties them to the place each process is at. Then    *)
(* the shared memory, which stays in order until a process links an entry  *)
(* at a place that was freed while it waited for memory, or an entry in    *)
(* use is collected after gc_ttl (damage). IInv is the inductive           *)
(* invariant. Besides the properties it says which block belongs to whom   *)
(* (Heap, Distinct), that a block which is no entry has no references      *)
(* (RefsOK), and that the chain a process is about to link into has its    *)
(* place as the walk left it, and not its key (PlaceKept), because its     *)
(* lock lets others only remove entries there. Each action has a lemma     *)
(* HAction: it keeps all that, and frees no entry that was not to go       *)
(* (HStep).                                                                *)
(***************************************************************************)
EXTENDS ApcCache, TLAPS, SequenceTheorems, NaturalsInduction,
        WellFoundedInduction, FiniteSetTheorems

--------------------
(* Induction, with a set for the property. *)

\* A set of natural numbers with 0 and each successor has them all.
LEMMA NatSet ==
    ASSUME NEW G, 0 \in G, \A n \in Nat : n \in G => n + 1 \in G
    PROVE  Nat \subseteq G
<1> DEFINE Bad == {n \in Nat : n \notin G}
<1>1. SUFFICES ASSUME Bad # {} PROVE FALSE
 BY <1>1
<1>2. PICK m \in Bad : \A n \in Bad : ~(<<n, m>> \in OpToRel(<, Nat))
 <2>1. Bad \in SUBSET Nat
  OBVIOUS
 <2> HIDE DEF Bad
 <2> QED BY <1>1, <2>1, WFMin, NatLessThanWellFounded, Zenon
<1>3. m # 0 /\ m \in Nat /\ m \notin G
 BY <1>2
<1>4. m - 1 \in Nat /\ (m - 1) + 1 = m /\ m - 1 < m
 BY <1>3
<1>5. m - 1 \in Bad
 BY <1>3, <1>4
<1>6. <<m - 1, m>> \in OpToRel(<, Nat)
 BY <1>3, <1>4 DEF OpToRel
<1> QED BY <1>2, <1>5, <1>6

\* A set with the empty sequence and each longer one has all sequences.
LEMMA SeqSet ==
    ASSUME NEW T, NEW G, <<>> \in G,
           \A s \in Seq(T), x \in T : s \in G => Append(s, x) \in G
    PROVE  Seq(T) \subseteq G
<1> DEFINE H == {n \in Nat : \A s \in Seq(T) : Len(s) = n => s \in G}
<1>1. 0 \in H
 <2>1. \A s \in Seq(T) : Len(s) = 0 => s = <<>>
  BY EmptySeq
 <2> QED BY <2>1
<1>2. ASSUME NEW n \in Nat, n \in H PROVE n + 1 \in H
 <2> SUFFICES ASSUME NEW s \in Seq(T), Len(s) = n + 1 PROVE s \in G
  OBVIOUS
 <2> DEFINE r == SubSeq(s, 1, n)
 <2>1. r \in Seq(T) /\ Len(r) = n
  BY SubSeqProperties
 <2>2. n + 1 \in 1 .. Len(s) /\ s[n + 1] \in T
  BY ElementOfSeq
 <2>3. Append(r, s[n + 1]) = s
  <3>1. Append(r, s[n + 1]) \in Seq(T) /\ Len(Append(r, s[n + 1])) = n + 1
   BY <2>1, <2>2
  <3>2. \A i \in 1 .. n + 1 : Append(r, s[n + 1])[i] = s[i]
   BY <2>1, <2>2
  <3> HIDE DEF r
  <3> QED BY <3>1, <3>2, SeqEqual
 <2>4. r \in G
  BY <2>1, <1>2
 <2> HIDE DEF r
 <2> QED BY <2>1, <2>2, <2>3, <2>4
<1>3. Nat \subseteq H
 <2> HIDE DEF H
 <2> QED BY <1>1, <1>2, NatSet
<1>4. ASSUME NEW s \in Seq(T) PROVE s \in G
 <2>1. Len(s) \in H
  BY <1>3
 <2> QED BY <2>1
<1> QED BY <1>4

--------------------
(* Only. *)

\* f has the first members of s that are in S.
Filters(f, s, S, n) ==
    f = [i \in 0 .. n |->
            IF i = 0 THEN <<>> ELSE IF s[i] \in S THEN Append(f[i - 1], s[i]) ELSE f[i - 1]]

\* The function that Only takes its value from exists.
LEMMA FilterExists ==
    ASSUME NEW s, NEW S, NEW n \in Nat
    PROVE  \E f : Filters(f, s, S, n)
<1> DEFINE G == {k \in Nat : \E f : Filters(f, s, S, k)}
<1>1. 0 \in G
 <2>1. Filters([i \in 0 .. 0 |-> <<>>], s, S, 0)
  BY DEF Filters
 <2>2. 0 \in Nat
  OBVIOUS
 <2> QED BY <2>1, <2>2, Zenon
<1>2. ASSUME NEW k \in Nat, k \in G PROVE k + 1 \in G
 <2>1. PICK f : Filters(f, s, S, k)
  BY <1>2
 <2> DEFINE g == [i \in 0 .. k + 1 |->
                    IF i = k + 1 THEN IF s[i] \in S THEN Append(f[k], s[i]) ELSE f[k]
                    ELSE f[i]]
 <2>2. ASSUME NEW i \in 0 .. k + 1
       PROVE  g[i] = IF i = 0 THEN <<>> ELSE IF s[i] \in S THEN Append(g[i - 1], s[i]) ELSE g[i - 1]
  <3>1. CASE i = k + 1
   <4>1. k \in 0 .. k + 1 /\ i # 0 /\ i - 1 = k /\ k # k + 1
    BY <3>1
   <4>2. g[k] = f[k]
    BY <4>1
   <4>3. g[i] = IF s[i] \in S THEN Append(f[k], s[i]) ELSE f[k]
    BY <3>1
   <4> HIDE DEF g
   <4> QED BY <4>1, <4>2, <4>3
  <3>2. CASE i # k + 1
   <4>1. i \in 0 .. k /\ g[i] = f[i]
    BY <3>2
   <4>2. f[i] = IF i = 0 THEN <<>> ELSE IF s[i] \in S THEN Append(f[i - 1], s[i]) ELSE f[i - 1]
    BY <2>1, <4>1, Zenon DEF Filters
   <4>3. CASE i = 0
    BY <4>1, <4>2, <4>3
   <4>4. CASE i # 0
    <5>1. i - 1 \in 0 .. k + 1 /\ i - 1 # k + 1
     BY <4>4, <4>1
    <5>2. g[i - 1] = f[i - 1]
     BY <5>1
    <5> HIDE DEF g
    <5> QED BY <4>1, <4>2, <4>4, <5>2
   <4> QED BY <4>3, <4>4
  <3> QED BY <3>1, <3>2
 <2>3. Filters(g, s, S, k + 1)
  <3> g = [i \in 0 .. k + 1 |-> g[i]]
   OBVIOUS
  <3> HIDE DEF g
  <3> QED BY <2>2, Zenon DEF Filters
 <2> HIDE DEF g
 <2> QED BY <2>3
<1>3. Nat \subseteq G
 <2> HIDE DEF G
 <2> QED BY <1>1, <1>2, NatSet
<1> QED BY <1>3

\* Only, unfolded.
LEMMA OnlyIs ==
    ASSUME NEW s, NEW S, Len(s) \in Nat
    PROVE  \E f : Filters(f, s, S, Len(s)) /\ Only(s, S) = f[Len(s)]
<1> DEFINE c == CHOOSE f : Filters(f, s, S, Len(s))
<1>1. Filters(c, s, S, Len(s))
 BY FilterExists
<1>2. Only(s, S) = c[Len(s)]
 BY DEF Only, Filters
<1> QED BY <1>1, <1>2

\* Of nothing, nothing is kept.
LEMMA OnlyEmpty ==
    ASSUME NEW S PROVE Only(<<>>, S) = <<>>
<1>1. PICK f : Filters(f, <<>>, S, 0) /\ Only(<<>>, S) = f[0]
 BY OnlyIs
<1>2. 0 \in 0 .. 0
 OBVIOUS
<1> QED BY <1>1, <1>2, Zenon DEF Filters

\* The last member is kept or not; the rest is filtered by itself.
LEMMA OnlyAppend ==
    ASSUME NEW T, NEW S, NEW s \in Seq(T), NEW x \in T
    PROVE  Only(Append(s, x), S) = IF x \in S THEN Append(Only(s, S), x) ELSE Only(s, S)
<1> DEFINE t == Append(s, x)
           n == Len(s)
<1>1. n \in Nat /\ Len(t) = n + 1 /\ t[n + 1] = x /\ \A i \in 1 .. n : t[i] = s[i]
 OBVIOUS
<1> HIDE DEF t
<1>2. PICK f : Filters(f, s, S, n) /\ Only(s, S) = f[n]
 BY <1>1, OnlyIs
<1> HIDE DEF n
<1>3. PICK g : Filters(g, t, S, n + 1) /\ Only(t, S) = g[n + 1]
 BY <1>1, OnlyIs
<1>4. \A i \in 0 .. n : f[i] = IF i = 0 THEN <<>> ELSE IF s[i] \in S THEN Append(f[i - 1], s[i]) ELSE f[i - 1]
 BY <1>2, Zenon DEF Filters
<1>5. \A i \in 0 .. n + 1 : g[i] = IF i = 0 THEN <<>> ELSE IF t[i] \in S THEN Append(g[i - 1], t[i]) ELSE g[i - 1]
 BY <1>3, Zenon DEF Filters
<1> DEFINE G == {k \in Nat : k <= n => f[k] = g[k]}
<1>6. 0 \in G
 <2>1. 0 \in 0 .. n /\ 0 \in 0 .. n + 1 /\ 0 \in Nat
  BY <1>1
 <2> QED BY <2>1, <1>4, <1>5
<1>7. ASSUME NEW k \in Nat, k \in G PROVE k + 1 \in G
 <2> SUFFICES ASSUME k + 1 <= n PROVE f[k + 1] = g[k + 1]
  OBVIOUS
 <2>1. /\ k + 1 \in 0 .. n /\ k + 1 \in 0 .. n + 1 /\ k + 1 # 0 /\ (k + 1) - 1 = k /\ k <= n
       /\ k + 1 \in 1 .. n
  BY <1>1
 <2>2. f[k] = g[k] /\ t[k + 1] = s[k + 1]
  BY <2>1, <1>7, <1>1
 <2>3. f[k + 1] = IF s[k + 1] \in S THEN Append(f[k], s[k + 1]) ELSE f[k]
  BY <2>1, <1>4
 <2>4. g[k + 1] = IF t[k + 1] \in S THEN Append(g[k], t[k + 1]) ELSE g[k]
  BY <2>1, <1>5
 <2> QED BY <2>2, <2>3, <2>4
<1>8. n \in G
 <2> HIDE DEF G
 <2> QED BY <1>6, <1>7, NatSet, <1>1
<1>9. g[n + 1] = IF t[n + 1] \in S THEN Append(g[n], t[n + 1]) ELSE g[n]
 <2>1. n + 1 \in 0 .. n + 1 /\ n + 1 # 0 /\ (n + 1) - 1 = n
  BY <1>1
 <2> QED BY <2>1, <1>5
<1>10. f[n] = g[n]
 BY <1>8, <1>1
<1> QED BY <1>1, <1>2, <1>3, <1>9, <1>10 DEF t

\* What a longer sequence has.
LEMMA AppendFacts ==
    ASSUME NEW T, NEW s \in Seq(T), NEW x \in T
    PROVE  /\ Append(s, x) \in Seq(T) /\ Len(Append(s, x)) = Len(s) + 1
           /\ Append(s, x)[Len(s) + 1] = x
           /\ \A i \in 1 .. Len(s) : Append(s, x)[i] = s[i]
           /\ DOMAIN Append(s, x) = 1 .. Len(s) + 1 /\ DOMAIN s = 1 .. Len(s)
           /\ Len(s) \in Nat
           /\ ToSet(Append(s, x)) = ToSet(s) \cup {x}
<1>1. /\ Append(s, x) \in Seq(T) /\ Len(Append(s, x)) = Len(s) + 1
      /\ Append(s, x)[Len(s) + 1] = x
      /\ \A i \in 1 .. Len(s) : Append(s, x)[i] = s[i]
      /\ DOMAIN Append(s, x) = 1 .. Len(s) + 1 /\ DOMAIN s = 1 .. Len(s)
      /\ Len(s) \in Nat
 OBVIOUS
<1> DEFINE t == Append(s, x)
           n == Len(s)
<1> HIDE DEF t, n
<1>2. /\ \A i \in 1 .. n : t[i] = s[i]
      /\ t[n + 1] = x /\ DOMAIN t = 1 .. n + 1 /\ DOMAIN s = 1 .. n /\ n \in Nat
 BY <1>1 DEF t, n
<1>3. {t[i] : i \in 1 .. n + 1} = {s[i] : i \in 1 .. n} \cup {x}
 <2>1. ASSUME NEW y \in {t[i] : i \in 1 .. n + 1} PROVE y \in {s[i] : i \in 1 .. n} \cup {x}
  <3>1. PICK i \in 1 .. n + 1 : y = t[i]
   BY <2>1
  <3>2. i = n + 1 \/ i \in 1 .. n
   BY <1>2
  <3> QED BY <3>1, <3>2, <1>2
 <2>2. ASSUME NEW y \in {s[i] : i \in 1 .. n} \cup {x} PROVE y \in {t[i] : i \in 1 .. n + 1}
  <3>1. CASE y = x
   <4>1. n + 1 \in 1 .. n + 1
    BY <1>2
   <4> QED BY <4>1, <3>1, <1>2
  <3>2. CASE y # x
   <4>1. PICK i \in 1 .. n : y = s[i]
    BY <3>2
   <4>2. i \in 1 .. n + 1
    BY <1>2
   <4> QED BY <4>1, <4>2, <1>2
  <3> QED BY <3>1, <3>2
 <2> QED BY <2>1, <2>2
<1>4. ToSet(t) = ToSet(s) \cup {x}
 BY <1>2, <1>3 DEF ToSet
<1> QED BY <1>1, <1>4 DEF t

\* The empty list.
LEMMA EmptyFacts ==
    /\ ToSet(<<>>) = {} /\ Len(<<>>) = 0
    /\ \A T : <<>> \in Seq(T)
BY DEF ToSet

\* What Only returns.
LEMMA OnlyFacts ==
    ASSUME NEW T, NEW S, NEW s \in Seq(T)
    PROVE  /\ Only(s, S) \in Seq(T)
           /\ ToSet(Only(s, S)) = ToSet(s) \cap S
<1> DEFINE G == {r \in Seq(T) : Only(r, S) \in Seq(T) /\ ToSet(Only(r, S)) = ToSet(r) \cap S}
<1>1. <<>> \in G
 BY OnlyEmpty, EmptyFacts
<1>2. ASSUME NEW r \in Seq(T), NEW x \in T, r \in G PROVE Append(r, x) \in G
 <2>1. Only(r, S) \in Seq(T) /\ ToSet(Only(r, S)) = ToSet(r) \cap S
  BY <1>2
 <2>2. Append(r, x) \in Seq(T) /\ ToSet(Append(r, x)) = ToSet(r) \cup {x}
  BY AppendFacts
 <2>3. Only(Append(r, x), S) = IF x \in S THEN Append(Only(r, S), x) ELSE Only(r, S)
  BY OnlyAppend
 <2>4. /\ Append(Only(r, S), x) \in Seq(T)
       /\ ToSet(Append(Only(r, S), x)) = ToSet(Only(r, S)) \cup {x}
  BY <2>1, AppendFacts
 <2>5. CASE x \in S
  BY <2>1, <2>2, <2>3, <2>4, <2>5
 <2>6. CASE x \notin S
  BY <2>1, <2>2, <2>3, <2>6
 <2> QED BY <2>5, <2>6
<1>3. Seq(T) \subseteq G
 <2> HIDE DEF G
 <2> QED BY <1>1, <1>2, SeqSet
<1> QED BY <1>3

\* No member twice.
NoDup(s) == \A i, j \in DOMAIN s : s[i] = s[j] => i = j

\* A list stays without repetitions when something new is appended.
LEMMA NoDupAppend ==
    ASSUME NEW T, NEW s \in Seq(T), NEW x \in T
    PROVE  NoDup(Append(s, x)) <=> NoDup(s) /\ x \notin ToSet(s)
<1> DEFINE t == Append(s, x)
           n == Len(s)
<1>1. /\ \A i \in 1 .. n : t[i] = s[i]
      /\ t[n + 1] = x /\ DOMAIN t = 1 .. n + 1 /\ DOMAIN s = 1 .. n /\ n \in Nat
 BY AppendFacts
<1> HIDE DEF t, n
<1>2. ASSUME NoDup(t) PROVE NoDup(s) /\ x \notin ToSet(s)
 <2>1. NoDup(s)
  BY <1>1, <1>2 DEF NoDup
 <2>2. ASSUME NEW i \in 1 .. n PROVE s[i] # x
  <3>1. i \in 1 .. n + 1 /\ n + 1 \in 1 .. n + 1 /\ i # n + 1
   BY <1>1
  <3> QED BY <3>1, <1>1, <1>2 DEF NoDup
 <2> QED BY <2>1, <2>2, <1>1 DEF ToSet
<1>3. ASSUME NoDup(s), x \notin ToSet(s) PROVE NoDup(t)
 <2> SUFFICES ASSUME NEW i \in 1 .. n + 1, NEW j \in 1 .. n + 1, t[i] = t[j] PROVE i = j
  BY <1>1 DEF NoDup
 <2>1. (i = n + 1 \/ i \in 1 .. n) /\ (j = n + 1 \/ j \in 1 .. n)
  BY <1>1
 <2>2. \A k \in 1 .. n : s[k] # x
  BY <1>1, <1>3 DEF ToSet
 <2>3. CASE i \in 1 .. n /\ j \in 1 .. n
  BY <2>3, <1>1, <1>3 DEF NoDup
 <2> QED BY <2>1, <2>2, <2>3, <1>1
<1> QED BY <1>2, <1>3 DEF t

\* What is kept of a list without repetitions has none.
LEMMA OnlyNoDup ==
    ASSUME NEW T, NEW S, NEW s \in Seq(T), NoDup(s)
    PROVE  NoDup(Only(s, S))
<1> DEFINE G == {r \in Seq(T) : NoDup(r) => NoDup(Only(r, S))}
<1>1. <<>> \in G
 BY OnlyEmpty, EmptyFacts
<1>2. ASSUME NEW r \in Seq(T), NEW x \in T, r \in G PROVE Append(r, x) \in G
 <2> SUFFICES ASSUME NoDup(Append(r, x)) PROVE NoDup(Only(Append(r, x), S))
  BY AppendFacts
 <2>1. NoDup(r) /\ x \notin ToSet(r)
  BY NoDupAppend
 <2>2. NoDup(Only(r, S))
  BY <1>2, <2>1
 <2>3. Only(r, S) \in Seq(T) /\ x \notin ToSet(Only(r, S))
  BY <2>1, OnlyFacts
 <2>4. NoDup(Append(Only(r, S), x))
  BY <2>2, <2>3, NoDupAppend
 <2>5. Only(Append(r, x), S) = IF x \in S THEN Append(Only(r, S), x) ELSE Only(r, S)
  BY OnlyAppend
 <2> QED BY <2>2, <2>4, <2>5
<1>3. Seq(T) \subseteq G
 <2> HIDE DEF G
 <2> QED BY <1>1, <1>2, SeqSet
<1> QED BY <1>3

\* Only what is in the sequence matters; nothing else removed, it is unchanged.
LEMMA OnlySame ==
    ASSUME NEW T, NEW S, NEW R, NEW s \in Seq(T), ToSet(s) \cap S = ToSet(s) \cap R
    PROVE  Only(s, S) = Only(s, R)
<1> DEFINE G == {r \in Seq(T) : ToSet(r) \cap S = ToSet(r) \cap R => Only(r, S) = Only(r, R)}
<1>1. <<>> \in G
 BY OnlyEmpty, EmptyFacts
<1>2. ASSUME NEW r \in Seq(T), NEW x \in T, r \in G PROVE Append(r, x) \in G
 <2> SUFFICES ASSUME ToSet(Append(r, x)) \cap S = ToSet(Append(r, x)) \cap R
              PROVE  Only(Append(r, x), S) = Only(Append(r, x), R)
  BY AppendFacts
 <2>1. ToSet(Append(r, x)) = ToSet(r) \cup {x}
  BY AppendFacts
 <2>2. ToSet(r) \cap S = ToSet(r) \cap R /\ (x \in S <=> x \in R)
  BY <2>1
 <2>3. Only(r, S) = Only(r, R)
  BY <2>2, <1>2
 <2> QED BY <2>2, <2>3, OnlyAppend
<1>3. Seq(T) \subseteq G
 <2> HIDE DEF G
 <2> QED BY <1>1, <1>2, SeqSet
<1> QED BY <1>3

\* If all is kept, nothing changes.
LEMMA OnlyAll ==
    ASSUME NEW T, NEW S, NEW s \in Seq(T), ToSet(s) \subseteq S
    PROVE  Only(s, S) = s
<1> DEFINE G == {r \in Seq(T) : ToSet(r) \subseteq S => Only(r, S) = r}
<1>1. <<>> \in G
 BY OnlyEmpty, EmptyFacts
<1>2. ASSUME NEW r \in Seq(T), NEW x \in T, r \in G PROVE Append(r, x) \in G
 <2> SUFFICES ASSUME ToSet(Append(r, x)) \subseteq S
              PROVE  Only(Append(r, x), S) = Append(r, x)
  BY AppendFacts
 <2>1. ToSet(Append(r, x)) = ToSet(r) \cup {x}
  BY AppendFacts
 <2>2. ToSet(r) \subseteq S /\ x \in S
  BY <2>1
 <2>3. Only(r, S) = r
  BY <2>2, <1>2
 <2> QED BY <2>2, <2>3, OnlyAppend
<1>3. Seq(T) \subseteq G
 <2> HIDE DEF G
 <2> QED BY <1>1, <1>2, SeqSet
<1> QED BY <1>3

\* Only twice.
LEMMA OnlyOnly ==
    ASSUME NEW T, NEW S, NEW R, NEW s \in Seq(T)
    PROVE  Only(Only(s, S), R) = Only(s, S \cap R)
<1> DEFINE G == {r \in Seq(T) : Only(Only(r, S), R) = Only(r, S \cap R)}
<1>1. <<>> \in G
 BY OnlyEmpty, EmptyFacts
<1>2. ASSUME NEW r \in Seq(T), NEW x \in T, r \in G PROVE Append(r, x) \in G
 <2>1. Only(Only(r, S), R) = Only(r, S \cap R)
  BY <1>2
 <2>2. Only(r, S) \in Seq(T) /\ Append(r, x) \in Seq(T)
  BY OnlyFacts, AppendFacts
 <2>3. Only(Append(r, x), S) = IF x \in S THEN Append(Only(r, S), x) ELSE Only(r, S)
  BY OnlyAppend
 <2>4. Only(Append(r, x), S \cap R) = IF x \in S \cap R THEN Append(Only(r, S \cap R), x)
                                      ELSE Only(r, S \cap R)
  BY OnlyAppend
 <2>5. Only(Append(Only(r, S), x), R) = IF x \in R THEN Append(Only(Only(r, S), R), x)
                                        ELSE Only(Only(r, S), R)
  BY <2>2, OnlyAppend
 <2>6. Only(Only(Append(r, x), S), R) = Only(Append(r, x), S \cap R)
  <3>1. CASE x \in S
   <4>1. Only(Append(r, x), S) = Append(Only(r, S), x)
    BY <2>3, <3>1
   <4>2. x \in S \cap R <=> x \in R
    BY <3>1
   <4>3. Only(Append(r, x), S \cap R) = IF x \in R THEN Append(Only(r, S \cap R), x)
                                        ELSE Only(r, S \cap R)
    BY <2>4, <4>2, Zenon
   <4> QED BY <2>1, <2>5, <4>1, <4>3, Zenon
  <3>2. CASE x \notin S
   <4>1. x \notin S \cap R
    BY <3>2
   <4> QED BY <2>1, <2>3, <2>4, <3>2, <4>1, Zenon
  <3> QED BY <3>1, <3>2
 <2> QED BY <2>2, <2>6
<1>3. Seq(T) \subseteq G
 <2> HIDE DEF G
 <2> QED BY <1>1, <1>2, SeqSet
<1> QED BY <1>3

\* Two sequences, one after the other.
LEMMA ConcatFacts ==
    ASSUME NEW T, NEW r \in Seq(T), NEW s \in Seq(T), NEW x \in T
    PROVE  r \o Append(s, x) = Append(r \o s, x)
<1> DEFINE t == r \o Append(s, x)
           u == Append(r \o s, x)
<1>1. r \o s \in Seq(T) /\ Append(s, x) \in Seq(T)
 BY ConcatProperties, AppendFacts
<1>2. t \in Seq(T) /\ u \in Seq(T) /\ Len(t) = Len(r) + Len(s) + 1 /\ Len(u) = Len(t)
 BY <1>1, ConcatProperties, AppendFacts
<1>3. ASSUME NEW i \in 1 .. Len(t) PROVE t[i] = u[i]
 OBVIOUS
<1> HIDE DEF t, u
<1>4. t = u
 BY <1>2, <1>3, SeqEqual
<1> QED BY <1>4 DEF t, u

\* Two lists, one after the other, are filtered each by itself.
LEMMA OnlyConcat ==
    ASSUME NEW T, NEW S, NEW r \in Seq(T), NEW s \in Seq(T)
    PROVE  Only(r \o s, S) = Only(r, S) \o Only(s, S)
<1> DEFINE G == {q \in Seq(T) : Only(r \o q, S) = Only(r, S) \o Only(q, S)}
<1>0. Only(r, S) \in Seq(T)
 BY OnlyFacts
<1>1. <<>> \in G
 <2>1. r \o <<>> = r /\ Only(r, S) \o <<>> = Only(r, S)
  BY <1>0, ConcatEmptySeq
 <2> QED BY <2>1, OnlyEmpty, EmptyFacts
<1>2. ASSUME NEW q \in Seq(T), NEW x \in T, q \in G PROVE Append(q, x) \in G
 <2>1. Only(r \o q, S) = Only(r, S) \o Only(q, S)
  BY <1>2
 <2>2. Only(q, S) \in Seq(T) /\ r \o q \in Seq(T) /\ Append(q, x) \in Seq(T)
  BY OnlyFacts, ConcatProperties, AppendFacts
 <2>3. r \o Append(q, x) = Append(r \o q, x)
  BY ConcatFacts
 <2>4. Only(Append(r \o q, x), S) = IF x \in S THEN Append(Only(r \o q, S), x) ELSE Only(r \o q, S)
  <3> DEFINE rq == r \o q
  <3>1. rq \in Seq(T)
   BY <2>2
  <3> HIDE DEF rq
  <3>2. Only(Append(rq, x), S) = IF x \in S THEN Append(Only(rq, S), x) ELSE Only(rq, S)
   BY <3>1, OnlyAppend
  <3> QED BY <3>2 DEF rq
 <2>5. Only(Append(q, x), S) = IF x \in S THEN Append(Only(q, S), x) ELSE Only(q, S)
  BY OnlyAppend
 <2>6. Only(r, S) \o Append(Only(q, S), x) = Append(Only(r, S) \o Only(q, S), x)
  BY <1>0, <2>2, ConcatFacts
 <2>7. Only(r \o Append(q, x), S) = Only(r, S) \o Only(Append(q, x), S)
  BY <2>1, <2>3, <2>4, <2>5, <2>6
 <2> QED BY <2>2, <2>7
<1>3. Seq(T) \subseteq G
 <2> HIDE DEF G
 <2> QED BY <1>1, <1>2, SeqSet
<1> QED BY <1>3

\* A sequence without x is one shorter, if it had x once.
LEMMA OnlyLen ==
    ASSUME NEW T, NEW s \in Seq(T), NEW x \in ToSet(s), NoDup(s)
    PROVE  Len(Only(s, T \ {x})) = Len(s) - 1
<1> DEFINE G == {r \in Seq(T) : NoDup(r) /\ x \in ToSet(r) => Len(Only(r, T \ {x})) = Len(r) - 1}
<1>1. <<>> \in G
 BY EmptyFacts
<1>2. ASSUME NEW r \in Seq(T), NEW y \in T, r \in G PROVE Append(r, y) \in G
 <2> SUFFICES ASSUME NoDup(Append(r, y)), x \in ToSet(Append(r, y))
              PROVE  Len(Only(Append(r, y), T \ {x})) = Len(Append(r, y)) - 1
  BY AppendFacts
 <2>1. NoDup(r) /\ y \notin ToSet(r) /\ x \in ToSet(r) \cup {y}
  BY NoDupAppend, AppendFacts
 <2>2. Len(r) \in Nat /\ Len(Append(r, y)) = Len(r) + 1
  BY AppendFacts
 <2>3. Only(Append(r, y), T \ {x}) = IF y \in T \ {x} THEN Append(Only(r, T \ {x}), y)
                                     ELSE Only(r, T \ {x})
  BY OnlyAppend
 <2>4. CASE x = y
  <3>1. ToSet(r) \subseteq T \ {x}
   <4>1. ToSet(r) \subseteq T
    BY ElementOfSeq DEF ToSet
   <4> QED BY <4>1, <2>1, <2>4
  <3>2. Only(r, T \ {x}) = r
   BY <3>1, OnlyAll
  <3> QED BY <2>2, <2>3, <2>4, <3>2
 <2>5. CASE x # y
  <3>1. Len(Only(r, T \ {x})) = Len(r) - 1
   BY <2>1, <2>5, <1>2
  <3>2. Only(r, T \ {x}) \in Seq(T)
   BY OnlyFacts
  <3>3. Len(Append(Only(r, T \ {x}), y)) = Len(Only(r, T \ {x})) + 1
   BY <3>2, AppendFacts
  <3>4. Only(Append(r, y), T \ {x}) = Append(Only(r, T \ {x}), y)
   BY <2>3, <2>5
  <3> QED BY <2>2, <3>1, <3>3, <3>4
 <2> QED BY <2>4, <2>5
<1>3. Seq(T) \subseteq G
 <2> HIDE DEF G
 <2> QED BY <1>1, <1>2, SeqSet
<1> QED BY <1>3

--------------------
(* The shared memory m, when the pools in P belong to processes.             *)

\* The slot_t of an entry, and APC_SLOT's fields that the caches use.
SlotType == [key : FileKeys \cup UserKeys \cup {NULL}, mtime : Mtimes \cup {0}, ttl : Nat,
             ref_count : Nat, creation_time : Nat, access_time : Nat, deletion_time : Nat,
             block : Blocks \cup {NULL}]

\* cache->header->lastkey.
LastKeys == [key : UserKeys, mtime : Nat, pid : Procs] \cup {NULL}

\* The header and the lists of one cache.
CacheType == [chain : Seq(Blocks), deleted_list : Seq(Blocks), num_entries : Int,
              busy : BOOLEAN, lastkey : LastKeys]

\* The shared memory.
MemType == [used : SUBSET Blocks, slot : [Blocks -> SlotType], cache : [Caches -> CacheType]]

\* Entries on the chain of cache c.
Chained(m, c) == ToSet(m.cache[c].chain)

\* Entries on its deleted list.
Deleted(m, c) == ToSet(m.cache[c].deleted_list)

\* Entries of both caches.
Entries(m) == UNION {Chained(m, c) \cup Deleted(m, c) : c \in Caches}

\* An entry is in one place of one list.
ListsOK(m) ==
    \A c \in Caches :
        /\ NoDup(m.cache[c].chain) /\ NoDup(m.cache[c].deleted_list)
        /\ \A d \in Caches :
              /\ Chained(m, c) \cap Deleted(m, d) = {}
              /\ c # d => /\ Chained(m, c) \cap Chained(m, d) = {}
                          /\ Deleted(m, c) \cap Deleted(m, d) = {}

\* A block in use is an entry's pool, its slot_t, or the pool of a process.
BlocksOK(m, P) ==
    /\ Entries(m) \subseteq m.used /\ P \subseteq m.used /\ P \cap Entries(m) = {}
    /\ \A b \in Entries(m) : m.slot[b].block # NULL =>
          /\ m.slot[b].block \in m.used \ (Entries(m) \cup P)
          /\ \A a \in Entries(m) : m.slot[a].block = m.slot[b].block => a = b
    /\ \A b \in Blocks \ Entries(m) : m.slot[b] = BlankSlot
    /\ \A b \in m.used : b \in Entries(m) \cup P \/ \E a \in Entries(m) : m.slot[a].block = b

\* An entry has a key of its cache, alone on its chain; the header counts them.
KeysOK(m) ==
    \A c \in Caches :
        /\ m.cache[c].num_entries = Len(m.cache[c].chain)
        /\ \A a, b \in Chained(m, c) : m.slot[a].key = m.slot[b].key => a = b
        /\ \A b \in Chained(m, c) : m.slot[b].key \in Keys(c)

\* The memory is in order, apart from the counts of its entries.
Heap(m, P) == m \in MemType /\ ListsOK(m) /\ BlocksOK(m, P) /\ KeysOK(m)

--------------------
(* Entries are removed.                                                      *)

\* All but deletion_time.
SameEntry(r, s) ==
    /\ r.key = s.key /\ r.mtime = s.mtime /\ r.ttl = s.ttl /\ r.ref_count = s.ref_count
    /\ r.block = s.block

\* Entry b may be freed: it is not used, or on a deleted list for too long.
Goes(m, b) ==
    \/ m.slot[b].ref_count <= 0
    \/ \E c \in Caches : b \in Deleted(m, c) /\ now - m.slot[b].deletion_time > GcTtl

\* v is m after entries were put on the deleted lists, or freed.
Shrinks(m, v) ==
    /\ Entries(v) \subseteq Entries(m)
    /\ \A b \in Entries(m) \ Entries(v) : b \notin v.used /\ Goes(m, b)
    /\ \A b \in Entries(v) : SameEntry(m.slot[b], v.slot[b])
    /\ \A c \in Caches :
          /\ v.cache[c].chain = Only(m.cache[c].chain, Chained(v, c))
          /\ \A b \in Deleted(v, c) :
                \/ b \in Deleted(m, c) /\ v.slot[b].deletion_time = m.slot[b].deletion_time
                \/ v.slot[b].deletion_time = now

\* What the types say of a cache.
LEMMA MemTypes ==
    ASSUME NEW m \in MemType, NEW c \in Caches
    PROVE  /\ m.used \subseteq Blocks /\ m.slot \in [Blocks -> SlotType]
           /\ m.cache \in [Caches -> CacheType] /\ m.cache[c] \in CacheType
           /\ m.cache[c].chain \in Seq(Blocks) /\ m.cache[c].deleted_list \in Seq(Blocks)
           /\ m.cache[c].num_entries \in Int
           /\ Chained(m, c) \subseteq Blocks /\ Deleted(m, c) \subseteq Blocks
<1>1. m.cache \in [Caches -> CacheType] /\ m.used \subseteq Blocks /\ m.slot \in [Blocks -> SlotType]
 BY DEF MemType
<1>2. m.cache[c] \in CacheType
 BY <1>1
<1>3. /\ m.cache[c].chain \in Seq(Blocks) /\ m.cache[c].deleted_list \in Seq(Blocks)
      /\ m.cache[c].num_entries \in Int
 BY <1>2 DEF CacheType
<1>4. \A s \in Seq(Blocks) : ToSet(s) \subseteq Blocks
 BY ElementOfSeq DEF ToSet
<1> QED BY <1>1, <1>2, <1>3, <1>4 DEF Chained, Deleted

\* Entries are blocks.
LEMMA EntriesTypes ==
    ASSUME NEW m \in MemType PROVE Entries(m) \subseteq Blocks
BY MemTypes DEF Entries

\* An entry is on a list of some cache.
LEMMA EntriesAre ==
    ASSUME NEW m, NEW b
    PROVE  b \in Entries(m) <=> \E c \in Caches : b \in Chained(m, c) \/ b \in Deleted(m, c)
BY DEF Entries

\* One removal after another.
LEMMA ShrinksTrans ==
    ASSUME NEW m \in MemType, NEW v \in MemType, NEW w \in MemType, now \in Nat,
           Entries(w) \subseteq w.used,
           Shrinks(m, v), Shrinks(v, w), w.used \subseteq v.used
    PROVE  Shrinks(m, w)
<1>1. Entries(w) \subseteq Entries(m)
 BY DEF Shrinks
<1>2. ASSUME NEW b \in Entries(w) PROVE SameEntry(m.slot[b], w.slot[b])
 BY DEF Shrinks, SameEntry
<1>3. ASSUME NEW b \in Entries(m) \ Entries(w) PROVE b \notin w.used /\ Goes(m, b)
 <2>1. CASE b \notin Entries(v)
  BY <2>1 DEF Shrinks
 <2>2. CASE b \in Entries(v)
  <3>1. b \notin w.used /\ Goes(v, b)
   BY <2>2 DEF Shrinks
  <3>2. CASE v.slot[b].ref_count <= 0
   BY <3>1, <3>2, <2>2 DEF Shrinks, SameEntry, Goes
  <3>3. CASE \E c \in Caches : b \in Deleted(v, c) /\ now - v.slot[b].deletion_time > GcTtl
   <4>1. PICK c \in Caches : b \in Deleted(v, c) /\ now - v.slot[b].deletion_time > GcTtl
    BY <3>3
   <4>2. v.slot[b].deletion_time # now
    <5>1. now - now = 0 /\ GcTtl \in Nat
     BY CacheAssumption
    <5> QED BY <4>1, <5>1
   <4>3. b \in Deleted(m, c) /\ v.slot[b].deletion_time = m.slot[b].deletion_time
    BY <4>1, <4>2 DEF Shrinks
   <4> QED BY <3>1, <4>1, <4>3 DEF Goes
  <3> QED BY <3>1, <3>2, <3>3 DEF Goes
 <2> QED BY <2>1, <2>2
<1>4. ASSUME NEW c \in Caches
      PROVE  /\ w.cache[c].chain = Only(m.cache[c].chain, Chained(w, c))
             /\ \A b \in Deleted(w, c) :
                   \/ b \in Deleted(m, c) /\ w.slot[b].deletion_time = m.slot[b].deletion_time
                   \/ w.slot[b].deletion_time = now
 <2>1. /\ v.cache[c].chain = Only(m.cache[c].chain, Chained(v, c))
       /\ w.cache[c].chain = Only(v.cache[c].chain, Chained(w, c))
  BY DEF Shrinks
 <2>2. Chained(w, c) \subseteq Chained(v, c)
  BY <2>1, MemTypes, OnlyFacts DEF Chained
 <2>3. Only(Only(m.cache[c].chain, Chained(v, c)), Chained(w, c))
         = Only(m.cache[c].chain, Chained(v, c) \cap Chained(w, c))
  BY MemTypes, OnlyOnly
 <2>4. Chained(v, c) \cap Chained(w, c) = Chained(w, c)
  BY <2>2
 <2>5. w.cache[c].chain = Only(m.cache[c].chain, Chained(w, c))
  BY <2>1, <2>3, <2>4
 <2>6. ASSUME NEW b \in Deleted(w, c), w.slot[b].deletion_time # now
       PROVE  b \in Deleted(m, c) /\ w.slot[b].deletion_time = m.slot[b].deletion_time
  <3>1. b \in Deleted(v, c) /\ w.slot[b].deletion_time = v.slot[b].deletion_time
   BY <2>6 DEF Shrinks
  <3> QED BY <3>1, <2>6 DEF Shrinks
 <2> QED BY <2>5, <2>6
<1> QED BY <1>1, <1>2, <1>3, <1>4 DEF Shrinks

\* A memory is left as it is.
LEMMA ShrinksSelf ==
    ASSUME NEW m \in MemType
    PROVE  Shrinks(m, m)
<1>1. ASSUME NEW c \in Caches PROVE m.cache[c].chain = Only(m.cache[c].chain, Chained(m, c))
 BY MemTypes, OnlyAll DEF Chained
<1> QED BY <1>1 DEF Shrinks, SameEntry

\* Only the lists, their headers and the blocks in use count.
SameLists(m, v) ==
    /\ v.used = m.used
    /\ \A c \in Caches : /\ v.cache[c].chain = m.cache[c].chain
                          /\ v.cache[c].deleted_list = m.cache[c].deleted_list
                          /\ v.cache[c].num_entries = m.cache[c].num_entries

\* Only busy or lastkey change.
LEMMA FlagsHeap ==
    ASSUME NEW P, NEW m, NEW v \in MemType, Heap(m, P), SameLists(m, v), v.slot = m.slot
    PROVE  Heap(v, P) /\ Shrinks(m, v) /\ Entries(v) = Entries(m)
<1>1. /\ \A c \in Caches : Chained(v, c) = Chained(m, c) /\ Deleted(v, c) = Deleted(m, c)
      /\ Entries(v) = Entries(m)
 BY DEF SameLists, Chained, Deleted, Entries
<1>2. ListsOK(v)
 BY <1>1 DEF Heap, ListsOK, SameLists
<1>3. BlocksOK(v, P)
 BY <1>1 DEF Heap, BlocksOK, SameLists
<1>4. KeysOK(v)
 BY <1>1 DEF Heap, KeysOK, SameLists
<1>5. Shrinks(m, v)
 <2>1. Shrinks(m, m)
  BY ShrinksSelf DEF Heap
 <2> QED BY <1>1, <2>1 DEF Shrinks, SameLists
<1> QED BY <1>1, <1>2, <1>3, <1>4, <1>5 DEF Heap

\* Entry b is out of cache c's lists: what is left of each.
Without(m, v, c, b) ==
    /\ v.cache[c].chain = Only(m.cache[c].chain, Blocks \ {b})
    /\ v.cache[c].deleted_list = Only(m.cache[c].deleted_list, Blocks \ {b})
    /\ v.cache[c].num_entries = Len(v.cache[c].chain)
    /\ \A d \in Caches \ {c} : v.cache[d] = m.cache[d]

\* It is freed, with the block of its slot_t.
LEMMA FreedHeap ==
    ASSUME NEW P, NEW m, NEW v \in MemType, Heap(m, P), NEW c \in Caches, NEW b \in Blocks,
           b \in Chained(m, c) \/ b \in Deleted(m, c), Without(m, v, c, b),
           v.used = m.used \ PoolOf(m, b), v.slot = [m.slot EXCEPT ![b] = BlankSlot]
    PROVE  /\ Heap(v, P) /\ Entries(v) = Entries(m) \ {b} /\ b \notin v.used
           /\ \A d \in Caches : /\ Chained(v, d) = Chained(m, d) \ {b}
                                /\ Deleted(v, d) = Deleted(m, d) \ {b}
           /\ Goes(m, b) => Shrinks(m, v)
<1>0. /\ m \in MemType /\ m.slot \in [Blocks -> SlotType] /\ b \in Entries(m)
      /\ Entries(m) \subseteq Blocks
 BY MemTypes, EntriesTypes, EntriesAre DEF Heap
<1>1. ASSUME NEW d \in Caches
      PROVE  /\ Chained(v, d) = Chained(m, d) \ {b} /\ Deleted(v, d) = Deleted(m, d) \ {b}
             /\ NoDup(v.cache[d].chain) /\ NoDup(v.cache[d].deleted_list)
             /\ v.cache[d].num_entries = Len(v.cache[d].chain)
             /\ v.cache[d].chain = Only(m.cache[d].chain, Chained(v, d))
 <2>1. /\ m.cache[d].chain \in Seq(Blocks) /\ m.cache[d].deleted_list \in Seq(Blocks)
       /\ Chained(m, d) \subseteq Blocks /\ Deleted(m, d) \subseteq Blocks
       /\ NoDup(m.cache[d].chain) /\ NoDup(m.cache[d].deleted_list)
       /\ m.cache[d].num_entries = Len(m.cache[d].chain)
  BY <1>0, MemTypes DEF Heap, ListsOK, KeysOK
 <2>2. CASE d = c
  <3>1. /\ Chained(v, d) = Chained(m, d) \cap (Blocks \ {b})
        /\ Deleted(v, d) = Deleted(m, d) \cap (Blocks \ {b})
   BY <2>1, <2>2, OnlyFacts DEF Without, Chained, Deleted
  <3>2. NoDup(v.cache[d].chain) /\ NoDup(v.cache[d].deleted_list)
   BY <2>1, <2>2, OnlyNoDup DEF Without
  <3>3. Chained(m, d) \cap Chained(v, d) = Chained(m, d) \cap (Blocks \ {b})
   BY <3>1
  <3>4. Only(m.cache[d].chain, Chained(v, d)) = Only(m.cache[d].chain, Blocks \ {b})
   BY <3>3, <2>1, OnlySame DEF Chained
  <3> QED BY <3>1, <3>2, <3>4, <2>1, <2>2 DEF Without
 <2>3. CASE d # c
  <3>1. v.cache[d] = m.cache[d]
   BY <2>3 DEF Without
  <3>2. b \notin Chained(m, d) /\ b \notin Deleted(m, d)
   BY <2>3 DEF Heap, ListsOK
  <3>3. Chained(v, d) = Chained(m, d) /\ Deleted(v, d) = Deleted(m, d)
   BY <3>1 DEF Chained, Deleted
  <3>4. Only(m.cache[d].chain, Chained(m, d)) = m.cache[d].chain
   BY <2>1, OnlyAll DEF Chained
  <3> QED BY <3>1, <3>2, <3>3, <3>4, <2>1
 <2> QED BY <2>2, <2>3
<1>2. Entries(v) = Entries(m) \ {b}
 BY <1>1 DEF Entries
<1>3. ListsOK(v)
 <2>1. \A d, e \in Caches : /\ Chained(m, d) \cap Deleted(m, e) = {}
                            /\ d # e => /\ Chained(m, d) \cap Chained(m, e) = {}
                                        /\ Deleted(m, d) \cap Deleted(m, e) = {}
  BY DEF Heap, ListsOK
 <2> QED BY <1>1, <2>1 DEF ListsOK
<1>4. \A a \in Blocks \ {b} : v.slot[a] = m.slot[a]
 BY <1>0
<1>5. v.slot[b] = BlankSlot
 BY <1>0
<1>6. BlocksOK(v, P)
 <2>1. BlocksOK(m, P)
  BY DEF Heap
 <2>2. PoolOf(m, b) \cap (Entries(m) \cup P) = {b}
  BY <1>0, <2>1 DEF BlocksOK, PoolOf
 <2>3. \A a \in Entries(m) \ {b} : m.slot[a].block # NULL => m.slot[a].block \notin PoolOf(m, b)
  BY <1>0, <2>1 DEF BlocksOK, PoolOf
 <2>4. Entries(v) \subseteq v.used /\ P \subseteq v.used /\ P \cap Entries(v) = {}
  BY <1>2, <2>1, <2>2, <1>0 DEF BlocksOK
 <2>5. ASSUME NEW a \in Entries(v), v.slot[a].block # NULL
       PROVE  /\ v.slot[a].block \in v.used \ (Entries(v) \cup P)
              /\ \A e \in Entries(v) : v.slot[e].block = v.slot[a].block => e = a
  <3>1. v.slot[a] = m.slot[a] /\ a \in Entries(m) \ {b}
   BY <1>0, <1>2, <1>4
  <3>2. m.slot[a].block \in m.used \ (Entries(m) \cup P) /\ m.slot[a].block \notin PoolOf(m, b)
   BY <3>1, <2>1, <2>3, <2>5 DEF BlocksOK
  <3>3. \A e \in Entries(v) : v.slot[e] = m.slot[e] /\ e \in Entries(m)
   BY <1>0, <1>2, <1>4
  <3>4. \A e \in Entries(m) : m.slot[e].block = m.slot[a].block => e = a
   BY <3>1, <2>1, <2>5 DEF BlocksOK
  <3> QED BY <3>1, <3>2, <3>3, <3>4, <1>2
 <2>6. ASSUME NEW a \in Blocks \ Entries(v) PROVE v.slot[a] = BlankSlot
  BY <1>2, <1>4, <1>5, <2>1 DEF BlocksOK
 <2>7. ASSUME NEW a \in v.used
       PROVE  a \in Entries(v) \cup P \/ \E e \in Entries(v) : v.slot[e].block = a
  <3>1. a \in m.used /\ a # b /\ a \notin PoolOf(m, b)
   BY DEF PoolOf
  <3>2. CASE a \in Entries(m) \cup P
   BY <3>1, <3>2, <1>2
  <3>3. CASE \E e \in Entries(m) : m.slot[e].block = a
   <4>1. PICK e \in Entries(m) : m.slot[e].block = a
    BY <3>3
   <4>2. a # NULL
    BY <3>1, <1>0, MemTypes, CacheAssumption
   <4>3. e # b
    BY <3>1, <4>1, <4>2 DEF PoolOf
   <4> QED BY <4>1, <4>3, <1>0, <1>2, <1>4
  <3> QED BY <2>1, <3>1, <3>2, <3>3 DEF BlocksOK
 <2> QED BY <2>4, <2>5, <2>6, <2>7 DEF BlocksOK
<1>7. KeysOK(v)
 <2> SUFFICES ASSUME NEW d \in Caches
              PROVE  /\ v.cache[d].num_entries = Len(v.cache[d].chain)
                     /\ \A a, e \in Chained(v, d) : v.slot[a].key = v.slot[e].key => a = e
                     /\ \A a \in Chained(v, d) : v.slot[a].key \in Keys(d)
  BY DEF KeysOK
 <2>1. \A a \in Chained(v, d) : a \in Chained(m, d) /\ v.slot[a] = m.slot[a]
  BY <1>0, <1>1, <1>4, EntriesAre
 <2>2. /\ \A a, e \in Chained(m, d) : m.slot[a].key = m.slot[e].key => a = e
       /\ \A a \in Chained(m, d) : m.slot[a].key \in Keys(d)
  BY DEF Heap, KeysOK
 <2> QED BY <1>1, <2>1, <2>2
<1>8. ASSUME Goes(m, b) PROVE Shrinks(m, v)
 <2>1. \A a \in Entries(v) : v.slot[a] = m.slot[a]
  BY <1>0, <1>2, <1>4
 <2>2. \A d \in Caches : \A a \in Deleted(v, d) : a \in Deleted(m, d) /\ v.slot[a] = m.slot[a]
  BY <1>1, <2>1, EntriesAre
 <2>3. b \notin v.used
  BY DEF PoolOf
 <2> QED BY <1>1, <1>2, <1>8, <2>1, <2>2, <2>3 DEF Shrinks, SameEntry
<1> QED BY <1>1, <1>2, <1>3, <1>6, <1>7, <1>8 DEF Heap, PoolOf

\* A sequence with x in front.
LEMMA ConsFacts ==
    ASSUME NEW T, NEW s \in Seq(T), NEW x \in T
    PROVE  /\ <<x>> \o s \in Seq(T) /\ ToSet(<<x>> \o s) = ToSet(s) \cup {x}
           /\ NoDup(s) /\ x \notin ToSet(s) => NoDup(<<x>> \o s)
<1> DEFINE t == <<x>> \o s
           n == Len(s)
<1>1. /\ t \in Seq(T) /\ t[1] = x /\ \A i \in 1 .. n : t[i + 1] = s[i]
      /\ DOMAIN t = 1 .. n + 1 /\ DOMAIN s = 1 .. n /\ n \in Nat
 OBVIOUS
<1> HIDE DEF t, n
<1>2. ASSUME NEW i \in 1 .. n + 1, i # 1 PROVE i - 1 \in 1 .. n /\ t[i] = s[i - 1]
 <2>1. i - 1 \in 1 .. n /\ (i - 1) + 1 = i
  BY <1>1, <1>2
 <2> QED BY <2>1, <1>1
<1>3. 1 \in 1 .. n + 1 /\ \A i \in 1 .. n : i + 1 \in 1 .. n + 1
 BY <1>1
<1>4. {t[i] : i \in 1 .. n + 1} = {s[i] : i \in 1 .. n} \cup {x}
 <2>1. ASSUME NEW y \in {t[i] : i \in 1 .. n + 1} PROVE y \in {s[i] : i \in 1 .. n} \cup {x}
  <3>1. PICK i \in 1 .. n + 1 : y = t[i]
   BY <2>1
  <3> QED BY <3>1, <1>1, <1>2
 <2>2. ASSUME NEW y \in {s[i] : i \in 1 .. n} \cup {x} PROVE y \in {t[i] : i \in 1 .. n + 1}
  <3>1. CASE y = x
   BY <3>1, <1>1, <1>3
  <3>2. CASE y # x
   <4>1. PICK i \in 1 .. n : y = s[i]
    BY <3>2
   <4> QED BY <4>1, <1>1, <1>3
  <3> QED BY <3>1, <3>2
 <2> QED BY <2>1, <2>2
<1>5. ASSUME NoDup(s), x \notin ToSet(s) PROVE NoDup(t)
 <2>0. \A k \in 1 .. n : s[k] # x
  BY <1>1, <1>5 DEF ToSet
 <2> SUFFICES ASSUME NEW i \in 1 .. n + 1, NEW j \in 1 .. n + 1, t[i] = t[j] PROVE i = j
  BY <1>1 DEF NoDup
 <2>1. CASE i = 1 \/ j = 1
  BY <2>1, <2>0, <1>1, <1>2
 <2>2. CASE i # 1 /\ j # 1
  <3>1. i - 1 \in 1 .. n /\ j - 1 \in 1 .. n /\ s[i - 1] = s[j - 1]
   BY <2>2, <1>2
  <3>2. i - 1 = j - 1
   BY <3>1, <1>1, <1>5 DEF NoDup
  <3> QED BY <3>2, <1>1
 <2> QED BY <2>1, <2>2
<1> QED BY <1>1, <1>4, <1>5 DEF t, ToSet

\* Entry b goes from cache c's chain to its deleted list.
Moved(m, v, c, b) ==
    /\ v.used = m.used
    /\ v.slot = [m.slot EXCEPT ![b].deletion_time = now]
    /\ v.cache[c].chain = Only(m.cache[c].chain, Blocks \ {b})
    /\ v.cache[c].deleted_list = <<b>> \o m.cache[c].deleted_list
    /\ v.cache[c].num_entries = Len(v.cache[c].chain)
    /\ \A d \in Caches \ {c} : v.cache[d] = m.cache[d]

\* An entry goes from its cache's chain to the deleted list.
LEMMA MovedHeap ==
    ASSUME NEW P, NEW m, NEW v \in MemType, Heap(m, P), NEW c \in Caches, NEW b \in Chained(m, c),
           Moved(m, v, c, b)
    PROVE  /\ Heap(v, P) /\ Entries(v) = Entries(m) /\ Shrinks(m, v)
           /\ \A d \in Caches : Chained(v, d) = Chained(m, d) \ {b}
<1>0. /\ m \in MemType /\ m.slot \in [Blocks -> SlotType] /\ b \in Entries(m)
      /\ Entries(m) \subseteq Blocks /\ b \in Blocks
 BY MemTypes, EntriesTypes, EntriesAre DEF Heap
<1>1. ASSUME NEW d \in Caches
      PROVE  /\ Chained(v, d) = Chained(m, d) \ {b}
             /\ Deleted(v, d) = IF d = c THEN Deleted(m, d) \cup {b} ELSE Deleted(m, d)
             /\ NoDup(v.cache[d].chain) /\ NoDup(v.cache[d].deleted_list)
             /\ v.cache[d].num_entries = Len(v.cache[d].chain)
             /\ v.cache[d].chain = Only(m.cache[d].chain, Chained(v, d))
 <2>1. /\ m.cache[d].chain \in Seq(Blocks) /\ m.cache[d].deleted_list \in Seq(Blocks)
       /\ Chained(m, d) \subseteq Blocks /\ Deleted(m, d) \subseteq Blocks
       /\ NoDup(m.cache[d].chain) /\ NoDup(m.cache[d].deleted_list)
       /\ m.cache[d].num_entries = Len(m.cache[d].chain)
       /\ b \notin Deleted(m, d)
  BY <1>0, MemTypes DEF Heap, ListsOK, KeysOK
 <2>2. CASE d = c
  <3>1. Chained(v, d) = Chained(m, d) \cap (Blocks \ {b})
   BY <2>1, <2>2, OnlyFacts DEF Moved, Chained
  <3>2. NoDup(v.cache[d].chain)
   BY <2>1, <2>2, OnlyNoDup DEF Moved
  <3>3. Chained(m, d) \cap Chained(v, d) = Chained(m, d) \cap (Blocks \ {b})
   BY <3>1
  <3>4. Only(m.cache[d].chain, Chained(v, d)) = Only(m.cache[d].chain, Blocks \ {b})
   BY <3>3, <2>1, OnlySame DEF Chained
  <3>5. b \notin ToSet(m.cache[d].deleted_list)
   BY <2>1 DEF Deleted
  <3>6. /\ ToSet(v.cache[d].deleted_list) = ToSet(m.cache[d].deleted_list) \cup {b}
        /\ NoDup(v.cache[d].deleted_list)
   <4> DEFINE dl == m.cache[d].deleted_list
   <4>1. dl \in Seq(Blocks) /\ b \in Blocks /\ b \notin ToSet(dl) /\ NoDup(dl)
    BY <3>5, <2>1, <1>0
   <4>2. v.cache[d].deleted_list = <<b>> \o dl
    BY <2>2 DEF Moved
   <4> HIDE DEF dl
   <4>3. ToSet(<<b>> \o dl) = ToSet(dl) \cup {b} /\ NoDup(<<b>> \o dl)
    BY <4>1, ConsFacts
   <4>4. ToSet(v.cache[d].deleted_list) = ToSet(dl) \cup {b} /\ NoDup(v.cache[d].deleted_list)
    BY <4>2, <4>3
   <4> QED BY <4>4 DEF dl
  <3> QED BY <3>1, <3>2, <3>4, <3>6, <2>1, <2>2 DEF Moved, Deleted
 <2>3. CASE d # c
  <3>1. v.cache[d] = m.cache[d]
   BY <2>3 DEF Moved
  <3>2. b \notin Chained(m, d)
   BY <2>3 DEF Heap, ListsOK
  <3>3. Chained(v, d) = Chained(m, d) /\ Deleted(v, d) = Deleted(m, d)
   BY <3>1 DEF Chained, Deleted
  <3>4. Only(m.cache[d].chain, Chained(m, d)) = m.cache[d].chain
   BY <2>1, OnlyAll DEF Chained
  <3> QED BY <2>3, <3>1, <3>2, <3>3, <3>4, <2>1
 <2> QED BY <2>2, <2>3
<1>2. Entries(v) = Entries(m)
 <2>1. \A a : a \in Entries(v) => a \in Entries(m)
  BY <1>0, <1>1, EntriesAre
 <2>2. b \in Entries(v)
  BY <1>1, EntriesAre
 <2>3. \A a : a \in Entries(m) => a \in Entries(v)
  BY <1>1, <2>2, EntriesAre
 <2> QED BY <2>1, <2>3
<1>3. ListsOK(v)
 <2>1. \A d, e \in Caches : /\ Chained(m, d) \cap Deleted(m, e) = {}
                            /\ d # e => /\ Chained(m, d) \cap Chained(m, e) = {}
                                        /\ Deleted(m, d) \cap Deleted(m, e) = {}
                            /\ b \notin Deleted(m, d)
  BY DEF Heap, ListsOK
 <2> QED BY <1>1, <2>1 DEF ListsOK
<1>4. /\ \A a \in Blocks \ {b} : v.slot[a] = m.slot[a]
      /\ v.slot[b] = [m.slot[b] EXCEPT !.deletion_time = now]
 BY <1>0 DEF Moved
<1>5. \A a \in Blocks : SameEntry(m.slot[a], v.slot[a])
 <2>1. m.slot[b] \in SlotType
  BY <1>0
 <2>2. SameEntry(m.slot[b], v.slot[b])
  BY <2>1, <1>4 DEF SameEntry, SlotType
 <2> QED BY <2>2, <1>4 DEF SameEntry
<1>6. v.slot[b].deletion_time = now
 <2>1. m.slot[b] \in SlotType
  BY <1>0
 <2> QED BY <2>1, <1>4 DEF SlotType
<1>7. BlocksOK(v, P)
 <2>1. BlocksOK(m, P) /\ v.used = m.used
  BY DEF Heap, Moved
 <2>2. \A a \in Entries(m) : v.slot[a].block = m.slot[a].block
  BY <1>0, <1>5 DEF SameEntry
 <2>3. ASSUME NEW a \in Blocks \ Entries(v) PROVE v.slot[a] = BlankSlot
  BY <1>0, <1>2, <1>4, <2>1 DEF BlocksOK
 <2> QED BY <1>2, <2>1, <2>2, <2>3 DEF BlocksOK
<1>8. KeysOK(v)
 <2> SUFFICES ASSUME NEW d \in Caches
              PROVE  /\ v.cache[d].num_entries = Len(v.cache[d].chain)
                     /\ \A a, e \in Chained(v, d) : v.slot[a].key = v.slot[e].key => a = e
                     /\ \A a \in Chained(v, d) : v.slot[a].key \in Keys(d)
  BY DEF KeysOK
 <2>1. \A a \in Chained(v, d) : a \in Chained(m, d) /\ v.slot[a].key = m.slot[a].key
  BY <1>0, <1>1, <1>5, EntriesAre DEF SameEntry
 <2>2. /\ \A a, e \in Chained(m, d) : m.slot[a].key = m.slot[e].key => a = e
       /\ \A a \in Chained(m, d) : m.slot[a].key \in Keys(d)
  BY DEF Heap, KeysOK
 <2> QED BY <1>1, <2>1, <2>2
<1>9. Shrinks(m, v)
 <2>1. ASSUME NEW d \in Caches, NEW a \in Deleted(v, d)
       PROVE  \/ a \in Deleted(m, d) /\ v.slot[a].deletion_time = m.slot[a].deletion_time
              \/ v.slot[a].deletion_time = now
  <3>1. CASE a = b
   BY <3>1, <1>6
  <3>2. CASE a # b
   BY <3>2, <1>0, <1>1, <1>4, EntriesAre
  <3> QED BY <3>1, <3>2
 <2>2. \A a \in Entries(v) : SameEntry(m.slot[a], v.slot[a])
  BY <1>0, <1>2, <1>5
 <2> QED BY <1>1, <1>2, <2>1, <2>2 DEF Shrinks
<1>10. \A d \in Caches : Chained(v, d) = Chained(m, d) \ {b}
 BY <1>1
<1> QED BY <1>2, <1>3, <1>7, <1>8, <1>9, <1>10 DEF Heap

\* A blank slot_t is one.
LEMMA BlankType == BlankSlot \in SlotType
BY DEF BlankSlot, SlotType

\* An entry is dated when it goes to the deleted list.
LEMMA DatedType ==
    ASSUME NEW r \in SlotType, now \in Nat
    PROVE  [r EXCEPT !.deletion_time = now] \in SlotType
BY DEF SlotType

\* A cache whose chain, and count, or deleted list changes.
WithChain(k, s, n) == [[k EXCEPT !.chain = s] EXCEPT !.num_entries = n]

\* A cache with another chain is one.
LEMMA ChainType ==
    ASSUME NEW k \in CacheType, NEW s \in Seq(Blocks), NEW n \in Int
    PROVE  /\ WithChain(k, s, n) \in CacheType
           /\ WithChain(k, s, n).chain = s /\ WithChain(k, s, n).num_entries = n
           /\ WithChain(k, s, n).deleted_list = k.deleted_list
           /\ [k EXCEPT !.chain = s].num_entries = k.num_entries
BY DEF CacheType, WithChain

\* A cache with another deleted list is one.
LEMMA ListType ==
    ASSUME NEW k \in CacheType, NEW s \in Seq(Blocks)
    PROVE  LET v == [k EXCEPT !.deleted_list = s]
           IN  /\ v \in CacheType /\ v.chain = k.chain /\ v.num_entries = k.num_entries
               /\ v.deleted_list = s
BY DEF CacheType

\* The fields of a memory.
LEMMA MemFields ==
    ASSUME NEW m, NEW U, NEW S, NEW C,
           U \subseteq Blocks, S \in [Blocks -> SlotType], C \in [Caches -> CacheType],
           m = [used |-> U, slot |-> S, cache |-> C]
    PROVE  m \in MemType /\ m.used = U /\ m.slot = S /\ m.cache = C
BY DEF MemType

\* apc_pool_destroy, field by field.
LEMMA FreedIs ==
    ASSUME NEW m \in MemType, NEW b \in Blocks
    PROVE  /\ Freed(m, b) \in MemType /\ Freed(m, b).cache = m.cache
           /\ Freed(m, b).used = m.used \ PoolOf(m, b)
           /\ Freed(m, b).slot = [m.slot EXCEPT ![b] = BlankSlot]
<1> DEFINE U == m.used \ PoolOf(m, b)
           S == [m.slot EXCEPT ![b] = BlankSlot]
<1>1. U \subseteq Blocks /\ S \in [Blocks -> SlotType] /\ m.cache \in [Caches -> CacheType]
 BY BlankType DEF MemType
<1>2. Freed(m, b) = [used |-> U, slot |-> S, cache |-> m.cache]
 <2> DEFINE w == [m EXCEPT !.used = U]
 <2>1. Freed(m, b) = [w EXCEPT !.slot[b] = BlankSlot]
  BY DEF Freed
 <2>2. w = [used |-> U, slot |-> m.slot, cache |-> m.cache]
  <3> HIDE DEF U
  <3> QED BY DEF MemType
 <2> HIDE DEF w, U
 <2>3. [w EXCEPT !.slot[b] = BlankSlot] = [w EXCEPT !.slot = S]
  BY <2>2
 <2> HIDE DEF S
 <2> QED BY <2>1, <2>2, <2>3
<1> HIDE DEF U, S
<1>3. Freed(m, b) \in MemType /\ Freed(m, b).used = U /\ Freed(m, b).slot = S /\ Freed(m, b).cache = m.cache
 BY <1>1, <1>2, MemFields
<1> QED BY <1>3 DEF U, S

\* remove_slot, before the entry is freed or listed.
LEMMA UnchainedIs ==
    ASSUME NEW m \in MemType, NEW c \in Caches, NEW b \in Blocks
    PROVE  LET u == [m EXCEPT !.cache[c] = [@ EXCEPT !.chain = Only(m.cache[c].chain, Blocks \ {b}),
                                                     !.num_entries = m.cache[c].num_entries - 1]]
           IN  /\ u \in MemType /\ u.used = m.used /\ u.slot = m.slot
               /\ u.cache[c].chain = Only(m.cache[c].chain, Blocks \ {b})
               /\ u.cache[c].num_entries = m.cache[c].num_entries - 1
               /\ u.cache[c].deleted_list = m.cache[c].deleted_list
               /\ \A d \in Caches \ {c} : u.cache[d] = m.cache[d]
<1> DEFINE s == Only(m.cache[c].chain, Blocks \ {b})
           n == m.cache[c].num_entries - 1
           k == WithChain(m.cache[c], s, n)
           C == [m.cache EXCEPT ![c] = k]
           u == [m EXCEPT !.cache[c] = [@ EXCEPT !.chain = Only(m.cache[c].chain, Blocks \ {b}),
                                                 !.num_entries = m.cache[c].num_entries - 1]]
<1>1. m.cache[c] \in CacheType /\ s \in Seq(Blocks) /\ n \in Int /\ m.cache \in [Caches -> CacheType]
 BY MemTypes, OnlyFacts
<1>2. u = [m EXCEPT !.cache = C]
 BY DEF WithChain
<1>3. k \in CacheType /\ k.chain = s /\ k.num_entries = n /\ k.deleted_list = m.cache[c].deleted_list
 <2> HIDE DEF s, n
 <2> QED BY <1>1, ChainType
<1> HIDE DEF k, s, n
<1>4. C \in [Caches -> CacheType] /\ C[c] = k /\ \A d \in Caches \ {c} : C[d] = m.cache[d]
 BY <1>1, <1>3
<1> HIDE DEF C, u
<1>5. u = [used |-> m.used, slot |-> m.slot, cache |-> C]
 BY <1>2 DEF MemType
<1>6. m.used \subseteq Blocks /\ m.slot \in [Blocks -> SlotType]
 BY MemTypes
<1>7. u \in MemType /\ u.used = m.used /\ u.slot = m.slot /\ u.cache = C
 BY <1>4, <1>5, <1>6, MemFields
<1>8. /\ u \in MemType /\ u.used = m.used /\ u.slot = m.slot
      /\ u.cache[c].chain = s /\ u.cache[c].num_entries = n
      /\ u.cache[c].deleted_list = m.cache[c].deleted_list
      /\ \A d \in Caches \ {c} : u.cache[d] = m.cache[d]
 BY <1>3, <1>4, <1>7
<1> QED BY <1>8 DEF u, s, n

\* Entry b of a chain is removed: freed if it is not used, else kept on the
\* deleted list.
LEMMA RemovedHeap ==
    ASSUME NEW P, NEW m, Heap(m, P), NEW c \in Caches, NEW b \in Chained(m, c), now \in Nat
    PROVE  /\ Heap(Removed(m, c, b, now), P)
           /\ Shrinks(m, Removed(m, c, b, now))
           /\ Removed(m, c, b, now).used \subseteq m.used
           /\ \A d \in Caches : Chained(Removed(m, c, b, now), d) = Chained(m, d) \ {b}
<1> DEFINE v == Removed(m, c, b, now)
           u == [m EXCEPT !.cache[c] = [@ EXCEPT !.chain = Only(m.cache[c].chain, Blocks \ {b}),
                                                 !.num_entries = m.cache[c].num_entries - 1]]
<1>1. m \in MemType /\ b \in Blocks /\ m.slot[b].ref_count \in Nat
 <2>1. m \in MemType /\ b \in Blocks
  BY MemTypes DEF Heap
 <2>2. m.slot[b] \in SlotType
  BY <2>1, MemTypes
 <2> QED BY <2>1, <2>2 DEF SlotType
<1>2. /\ u \in MemType /\ u.used = m.used /\ u.slot = m.slot
      /\ u.cache[c].chain = Only(m.cache[c].chain, Blocks \ {b})
      /\ u.cache[c].num_entries = m.cache[c].num_entries - 1
      /\ u.cache[c].deleted_list = m.cache[c].deleted_list
      /\ \A d \in Caches \ {c} : u.cache[d] = m.cache[d]
 BY <1>1, UnchainedIs
<1>3. v = IF m.slot[b].ref_count <= 0 THEN Freed(u, b)
          ELSE [u EXCEPT !.cache[c].deleted_list = <<b>> \o @, !.slot[b].deletion_time = now]
 BY DEF Removed
<1> HIDE DEF u, v
<1>4. u.cache[c].num_entries = Len(u.cache[c].chain)
 <2> DEFINE ch == m.cache[c].chain
 <2>1. ch \in Seq(Blocks) /\ NoDup(ch) /\ b \in ToSet(ch) /\ m.cache[c].num_entries = Len(ch)
  BY <1>1, MemTypes DEF Heap, ListsOK, KeysOK, Chained
 <2>2. u.cache[c].chain = Only(ch, Blocks \ {b}) /\ u.cache[c].num_entries = Len(ch) - 1
  BY <1>2, <2>1
 <2> HIDE DEF ch
 <2> QED BY <2>1, <2>2, OnlyLen
<1>5. b \notin Deleted(m, c)
 BY DEF Heap, ListsOK
<1>6. CASE m.slot[b].ref_count <= 0
 <2>1. v = Freed(u, b)
  BY <1>3, <1>6
 <2>2. /\ v \in MemType /\ v.cache = u.cache /\ v.used = u.used \ PoolOf(u, b)
       /\ v.slot = [u.slot EXCEPT ![b] = BlankSlot]
  BY <1>1, <1>2, <2>1, FreedIs
 <2>3. PoolOf(u, b) = PoolOf(m, b)
  BY <1>2 DEF PoolOf
 <2>4. Only(m.cache[c].deleted_list, Blocks \ {b}) = m.cache[c].deleted_list
  <3>1. ToSet(m.cache[c].deleted_list) \subseteq Blocks \ {b}
   BY <1>1, <1>5, MemTypes DEF Deleted
  <3> QED BY <3>1, <1>1, MemTypes, OnlyAll
 <2>5. Without(m, v, c, b)
  BY <1>2, <1>4, <2>2, <2>4 DEF Without
 <2>6. Goes(m, b)
  BY <1>6 DEF Goes
 <2>7. v.used = m.used \ PoolOf(m, b) /\ v.slot = [m.slot EXCEPT ![b] = BlankSlot]
  BY <1>2, <2>2, <2>3
 <2>8. /\ Heap(v, P) /\ Shrinks(m, v) /\ \A d \in Caches : Chained(v, d) = Chained(m, d) \ {b}
  BY <1>1, <2>2, <2>5, <2>6, <2>7, FreedHeap
 <2> QED BY <2>7, <2>8 DEF v
<1>7. CASE ~(m.slot[b].ref_count <= 0)
 <2> DEFINE s == <<b>> \o m.cache[c].deleted_list
            k == [u.cache[c] EXCEPT !.deleted_list = s]
            C == [u.cache EXCEPT ![c] = k]
            S == [m.slot EXCEPT ![b].deletion_time = now]
 <2>1. s \in Seq(Blocks)
  <3> DEFINE dl == m.cache[c].deleted_list
  <3>1. dl \in Seq(Blocks)
   BY <1>1, MemTypes
  <3> HIDE DEF dl
  <3>2. <<b>> \o dl \in Seq(Blocks)
   BY <1>1, <3>1, ConsFacts
  <3> QED BY <3>2 DEF dl
 <2>2. /\ k \in CacheType /\ k.chain = u.cache[c].chain /\ k.num_entries = u.cache[c].num_entries
       /\ k.deleted_list = s
  <3>1. u.cache[c] \in CacheType
   BY <1>2, MemTypes
  <3> HIDE DEF s
  <3> QED BY <2>1, <3>1, ListType
 <2>3. u.cache \in [Caches -> CacheType] /\ m.slot \in [Blocks -> SlotType] /\ m.used \subseteq Blocks
  BY <1>1, <1>2, MemTypes
 <2>4. C \in [Caches -> CacheType] /\ C[c] = k /\ \A d \in Caches \ {c} : C[d] = u.cache[d]
  <3> HIDE DEF k
  <3> QED BY <2>2, <2>3
 <2>5. S \in [Blocks -> SlotType]
  <3>1. [m.slot[b] EXCEPT !.deletion_time = now] \in SlotType
   BY <1>1, <2>3, DatedType
  <3> QED BY <3>1, <2>3
 <2>6. v = [used |-> m.used, slot |-> S, cache |-> C]
  <3>1. v = [u EXCEPT !.cache[c].deleted_list = <<b>> \o @, !.slot[b].deletion_time = now]
   BY <1>3, <1>7
  <3>2. C = [u.cache EXCEPT ![c].deleted_list = <<b>> \o @]
   BY <1>2
  <3>3. S = [u.slot EXCEPT ![b].deletion_time = now]
   BY <1>2
  <3> HIDE DEF C, S
  <3>4. v = [u EXCEPT !.cache = C, !.slot = S]
   <4>1. v = [[u EXCEPT !.cache = C] EXCEPT !.slot[b].deletion_time = now]
    BY <3>1, <3>2
   <4>2. [u EXCEPT !.cache = C].slot = u.slot
    BY <1>2 DEF MemType
   <4> QED BY <4>1, <4>2, <3>3
  <3> QED BY <3>4, <1>2 DEF MemType
 <2> HIDE DEF C, S, k, s
 <2>7. v \in MemType /\ v.used = m.used /\ v.slot = S /\ v.cache = C
  BY <2>3, <2>4, <2>5, <2>6, MemFields
 <2>8. Moved(m, v, c, b)
  <3>1. v.cache[c].chain = Only(m.cache[c].chain, Blocks \ {b}) /\ v.cache[c].deleted_list = s
   BY <1>2, <2>2, <2>4, <2>7
  <3>2. v.cache[c].num_entries = Len(v.cache[c].chain)
   BY <1>4, <2>2, <2>4, <2>7
  <3>3. \A d \in Caches \ {c} : v.cache[d] = m.cache[d]
   BY <1>2, <2>4, <2>7
  <3> QED BY <2>7, <3>1, <3>2, <3>3 DEF Moved, S, s
 <2>9. /\ Heap(v, P) /\ Shrinks(m, v) /\ \A d \in Caches : Chained(v, d) = Chained(m, d) \ {b}
  BY <2>7, <2>8, MovedHeap
 <2> QED BY <2>7, <2>9 DEF v
<1> QED BY <1>6, <1>7

\* f has the memory after the first entries of s are removed, in turn.
Removes(f, m, c, s, t, n) ==
    f = [i \in 0 .. n |-> IF i = 0 THEN m ELSE Removed(f[i - 1], c, s[i], t)]

\* Such a function exists.
LEMMA RemovesExists ==
    ASSUME NEW m, NEW c, NEW s, NEW t, NEW n \in Nat
    PROVE  \E f : Removes(f, m, c, s, t, n)
<1> DEFINE G == {k \in Nat : \E f : Removes(f, m, c, s, t, k)}
<1>1. 0 \in G
 <2>1. Removes([i \in 0 .. 0 |-> m], m, c, s, t, 0)
  BY DEF Removes
 <2> QED BY <2>1
<1>2. ASSUME NEW k \in Nat, k \in G PROVE k + 1 \in G
 <2>1. PICK f : Removes(f, m, c, s, t, k)
  BY <1>2
 <2> DEFINE g == [i \in 0 .. k + 1 |-> IF i = k + 1 THEN Removed(f[k], c, s[i], t) ELSE f[i]]
 <2>2. ASSUME NEW i \in 0 .. k + 1
       PROVE  g[i] = IF i = 0 THEN m ELSE Removed(g[i - 1], c, s[i], t)
  <3>1. CASE i = k + 1
   <4>1. k \in 0 .. k + 1 /\ i # 0 /\ i - 1 = k /\ k # k + 1
    BY <3>1
   <4>2. g[k] = f[k]
    BY <4>1
   <4>3. g[i] = Removed(f[k], c, s[i], t)
    BY <3>1
   <4> HIDE DEF g
   <4> QED BY <4>1, <4>2, <4>3
  <3>2. CASE i # k + 1
   <4>1. i \in 0 .. k /\ g[i] = f[i]
    BY <3>2
   <4>2. f[i] = IF i = 0 THEN m ELSE Removed(f[i - 1], c, s[i], t)
    BY <2>1, <4>1, Zenon DEF Removes
   <4>3. CASE i = 0
    BY <4>1, <4>2, <4>3
   <4>4. CASE i # 0
    <5>1. i - 1 \in 0 .. k + 1 /\ i - 1 # k + 1
     BY <4>4, <4>1
    <5>2. g[i - 1] = f[i - 1]
     BY <5>1
    <5> HIDE DEF g
    <5> QED BY <4>1, <4>2, <4>4, <5>2
   <4> QED BY <4>3, <4>4
  <3> QED BY <3>1, <3>2
 <2>3. Removes(g, m, c, s, t, k + 1)
  <3> g = [i \in 0 .. k + 1 |-> g[i]]
   OBVIOUS
  <3> HIDE DEF g
  <3> QED BY <2>2, Zenon DEF Removes
 <2> HIDE DEF g
 <2> QED BY <2>3
<1>3. Nat \subseteq G
 <2> HIDE DEF G
 <2> QED BY <1>1, <1>2, NatSet
<1> QED BY <1>3

\* It is the one that RemovedAll takes its value from.
LEMMA RemovedAllIs ==
    ASSUME NEW m, NEW c, NEW s, NEW t, Len(s) \in Nat
    PROVE  \E f : Removes(f, m, c, s, t, Len(s)) /\ RemovedAll(m, c, s, t) = f[Len(s)]
<1> DEFINE g == CHOOSE f : Removes(f, m, c, s, t, Len(s))
<1>1. Removes(g, m, c, s, t, Len(s))
 BY RemovesExists
<1>2. RemovedAll(m, c, s, t) = g[Len(s)]
 BY DEF RemovedAll, Removes
<1> QED BY <1>1, <1>2

\* v is memory m without the first n entries of s in its chains.
WithoutFirst(m, v, P, s, n) ==
    /\ Heap(v, P) /\ Shrinks(m, v) /\ v.used \subseteq m.used
    /\ \A d \in Caches : Chained(v, d) = Chained(m, d) \ {s[i] : i \in 1 .. n}

\* The pools of entries are in use.
LEMMA UsedEntries ==
    ASSUME NEW m, NEW P, Heap(m, P)
    PROVE  m \in MemType /\ Entries(m) \subseteq m.used
BY DEF Heap, BlocksOK

\* The entries of a sequence, all of them in cache c's chain, are removed.
LEMMA RemovedAllHeap ==
    ASSUME NEW P, NEW m, NEW c \in Caches, NEW s \in Seq(Blocks),
           Heap(m, P), NoDup(s), ToSet(s) \subseteq Chained(m, c), now \in Nat
    PROVE  /\ Heap(RemovedAll(m, c, s, now), P)
           /\ Shrinks(m, RemovedAll(m, c, s, now))
           /\ RemovedAll(m, c, s, now).used \subseteq m.used
           /\ \A d \in Caches : Chained(RemovedAll(m, c, s, now), d) = Chained(m, d) \ ToSet(s)
<1> DEFINE n == Len(s)
<1>0. n \in Nat /\ DOMAIN s = 1 .. n
 OBVIOUS
<1> HIDE DEF n
<1>1. PICK f : Removes(f, m, c, s, now, n) /\ RemovedAll(m, c, s, now) = f[n]
 BY <1>0, RemovedAllIs DEF n
<1>2. \A i \in 0 .. n : f[i] = IF i = 0 THEN m ELSE Removed(f[i - 1], c, s[i], now)
 BY <1>1, Zenon DEF Removes
<1> DEFINE G == {k \in Nat : k <= n => WithoutFirst(m, f[k], P, s, k)}
<1>3. 0 \in G
 <2>1. f[0] = m
  BY <1>0, <1>2
 <2>2. {s[i] : i \in 1 .. 0} = {}
  OBVIOUS
 <2>3. Shrinks(m, m)
  BY ShrinksSelf DEF Heap
 <2>4. WithoutFirst(m, f[0], P, s, 0)
  BY <2>1, <2>2, <2>3 DEF WithoutFirst
 <2> QED BY <2>4
<1>4. ASSUME NEW k \in Nat, k \in G PROVE k + 1 \in G
 <2> SUFFICES ASSUME k + 1 <= n PROVE WithoutFirst(m, f[k + 1], P, s, k + 1)
  OBVIOUS
 <2>1. k + 1 \in 0 .. n /\ k + 1 # 0 /\ (k + 1) - 1 = k /\ k <= n /\ k + 1 \in 1 .. n
  BY <1>0
 <2>2. WithoutFirst(m, f[k], P, s, k)
  BY <2>1, <1>4
 <2>3. f[k + 1] = Removed(f[k], c, s[k + 1], now)
  BY <2>1, <1>2
 <2>4. \A i \in 1 .. k : s[i] # s[k + 1]
  BY <1>0, <2>1 DEF NoDup
 <2>5. s[k + 1] \in Chained(m, c)
  BY <1>0, <2>1 DEF ToSet
 <2> DEFINE v == f[k]
            w == f[k + 1]
            b == s[k + 1]
 <2>6. Heap(v, P) /\ Shrinks(m, v) /\ v.used \subseteq m.used /\ b \in Chained(v, c) /\ w = Removed(v, c, b, now)
  BY <2>2, <2>3, <2>4, <2>5 DEF WithoutFirst
 <2>7. {s[i] : i \in 1 .. k + 1} = {s[i] : i \in 1 .. k} \cup {b}
  <3>1. 1 .. k + 1 = (1 .. k) \cup {k + 1}
   BY <1>0
  <3> QED BY <3>1
 <2>8. \A d \in Caches : Chained(v, d) = Chained(m, d) \ {s[i] : i \in 1 .. k}
  BY <2>2 DEF WithoutFirst
 <2> HIDE DEF v, w, b
 <2>9. /\ Heap(w, P) /\ Shrinks(v, w) /\ w.used \subseteq v.used
       /\ \A d \in Caches : Chained(w, d) = Chained(v, d) \ {b}
  BY <2>6, RemovedHeap
 <2>10. Shrinks(m, w)
  <3>1. m \in MemType /\ v \in MemType /\ w \in MemType /\ Entries(w) \subseteq w.used
   BY <2>6, <2>9, UsedEntries
  <3> QED BY <2>6, <2>9, <3>1, ShrinksTrans
 <2>11. WithoutFirst(m, w, P, s, k + 1)
  <3>1. \A d \in Caches : Chained(w, d) = Chained(m, d) \ {s[i] : i \in 1 .. k + 1}
   BY <2>7, <2>8, <2>9
  <3> QED BY <2>6, <2>9, <2>10, <3>1 DEF WithoutFirst
 <2> QED BY <2>11 DEF w
<1>5. n \in G
 <2> HIDE DEF G
 <2> QED BY <1>0, <1>3, <1>4, NatSet
<1>6. WithoutFirst(m, f[n], P, s, n)
 BY <1>0, <1>5
<1>7. ToSet(s) = {s[i] : i \in 1 .. n}
 BY <1>0 DEF ToSet
<1> QED BY <1>1, <1>6, <1>7 DEF WithoutFirst

--------------------
(* process_pending_removals.                                                 *)

\* An entry is taken off the deleted list, field by field.
LEMMA UnlistedIs ==
    ASSUME NEW m \in MemType, NEW c \in Caches, NEW b \in Blocks
    PROVE  LET u == [m EXCEPT !.cache[c].deleted_list = Only(@, Blocks \ {b})]
           IN  /\ u \in MemType /\ u.used = m.used /\ u.slot = m.slot
               /\ u.cache[c].chain = m.cache[c].chain
               /\ u.cache[c].num_entries = m.cache[c].num_entries
               /\ u.cache[c].deleted_list = Only(m.cache[c].deleted_list, Blocks \ {b})
               /\ \A d \in Caches \ {c} : u.cache[d] = m.cache[d]
<1> DEFINE s == Only(m.cache[c].deleted_list, Blocks \ {b})
           k == [m.cache[c] EXCEPT !.deleted_list = s]
           C == [m.cache EXCEPT ![c] = k]
           u == [m EXCEPT !.cache[c].deleted_list = Only(@, Blocks \ {b})]
<1>1. m.cache[c] \in CacheType /\ s \in Seq(Blocks) /\ m.cache \in [Caches -> CacheType]
 BY MemTypes, OnlyFacts
<1>2. u = [m EXCEPT !.cache = C]
 OBVIOUS
<1>3. /\ k \in CacheType /\ k.chain = m.cache[c].chain /\ k.num_entries = m.cache[c].num_entries
      /\ k.deleted_list = s
 <2> HIDE DEF s
 <2> QED BY <1>1, ListType
<1> HIDE DEF k, s
<1>4. C \in [Caches -> CacheType] /\ C[c] = k /\ \A d \in Caches \ {c} : C[d] = m.cache[d]
 BY <1>1, <1>3
<1> HIDE DEF C, u
<1>5. u = [used |-> m.used, slot |-> m.slot, cache |-> C]
 BY <1>2 DEF MemType
<1>6. m.used \subseteq Blocks /\ m.slot \in [Blocks -> SlotType]
 BY MemTypes
<1>7. u \in MemType /\ u.used = m.used /\ u.slot = m.slot /\ u.cache = C
 BY <1>4, <1>5, <1>6, MemFields
<1>8. /\ u \in MemType /\ u.used = m.used /\ u.slot = m.slot
      /\ u.cache[c].chain = m.cache[c].chain /\ u.cache[c].num_entries = m.cache[c].num_entries
      /\ u.cache[c].deleted_list = s
      /\ \A d \in Caches \ {c} : u.cache[d] = m.cache[d]
 BY <1>3, <1>4, <1>7
<1> QED BY <1>8 DEF u, s

\* A removed entry is taken off the deleted list and freed.
LEMMA UnlinkedHeap ==
    ASSUME NEW P, NEW m, Heap(m, P), NEW c \in Caches, NEW b \in Deleted(m, c), Goes(m, b)
    PROVE  /\ Heap(Unlinked(m, c, b), P) /\ Shrinks(m, Unlinked(m, c, b))
           /\ Unlinked(m, c, b).used \subseteq m.used
           /\ \A d \in Caches : /\ Chained(Unlinked(m, c, b), d) = Chained(m, d)
                                /\ Deleted(Unlinked(m, c, b), d) = Deleted(m, d) \ {b}
           /\ \A a \in Blocks \ {b} : Unlinked(m, c, b).slot[a] = m.slot[a]
<1> DEFINE v == Unlinked(m, c, b)
           u == [m EXCEPT !.cache[c].deleted_list = Only(@, Blocks \ {b})]
<1>1. m \in MemType /\ b \in Blocks /\ m.slot \in [Blocks -> SlotType]
 BY MemTypes DEF Heap
<1>2. /\ u \in MemType /\ u.used = m.used /\ u.slot = m.slot
      /\ u.cache[c].chain = m.cache[c].chain
      /\ u.cache[c].num_entries = m.cache[c].num_entries
      /\ u.cache[c].deleted_list = Only(m.cache[c].deleted_list, Blocks \ {b})
      /\ \A d \in Caches \ {c} : u.cache[d] = m.cache[d]
 BY <1>1, UnlistedIs
<1>3. v = Freed(u, b)
 BY DEF Unlinked
<1> HIDE DEF u, v
<1>4. /\ v \in MemType /\ v.cache = u.cache /\ v.used = u.used \ PoolOf(u, b)
      /\ v.slot = [u.slot EXCEPT ![b] = BlankSlot]
 BY <1>1, <1>2, <1>3, FreedIs
<1>5. PoolOf(u, b) = PoolOf(m, b)
 BY <1>2 DEF PoolOf
<1>6. \A d \in Caches : b \notin Chained(m, d)
 BY DEF Heap, ListsOK
<1>7. Only(m.cache[c].chain, Blocks \ {b}) = m.cache[c].chain
 <2>1. ToSet(m.cache[c].chain) \subseteq Blocks \ {b}
  BY <1>1, <1>6, MemTypes DEF Chained
 <2> QED BY <2>1, <1>1, MemTypes, OnlyAll
<1>8. Without(m, v, c, b)
 BY <1>2, <1>4, <1>7 DEF Without, Heap, KeysOK
<1>9. v.used = m.used \ PoolOf(m, b) /\ v.slot = [m.slot EXCEPT ![b] = BlankSlot]
 BY <1>2, <1>4, <1>5
<1>10. /\ Heap(v, P) /\ Shrinks(m, v)
       /\ \A d \in Caches : Chained(v, d) = Chained(m, d) \ {b} /\ Deleted(v, d) = Deleted(m, d) \ {b}
 BY <1>1, <1>4, <1>8, <1>9, FreedHeap
<1>11. \A a \in Blocks \ {b} : v.slot[a] = m.slot[a]
 BY <1>1, <1>9
<1>12. /\ Heap(v, P) /\ Shrinks(m, v) /\ v.used \subseteq m.used
       /\ \A d \in Caches : Chained(v, d) = Chained(m, d) /\ Deleted(v, d) = Deleted(m, d) \ {b}
       /\ \A a \in Blocks \ {b} : v.slot[a] = m.slot[a]
 BY <1>6, <1>9, <1>10, <1>11
<1> QED BY <1>12 DEF v

\* f has the memory after the first entries of s are unlinked, in turn.
Unlinks(f, m, c, s, n) ==
    f = [i \in 0 .. n |-> IF i = 0 THEN m ELSE Unlinked(f[i - 1], c, s[i])]

\* Such a function exists.
LEMMA UnlinksExists ==
    ASSUME NEW m, NEW c, NEW s, NEW n \in Nat
    PROVE  \E f : Unlinks(f, m, c, s, n)
<1> DEFINE G == {k \in Nat : \E f : Unlinks(f, m, c, s, k)}
<1>1. 0 \in G
 <2>1. Unlinks([i \in 0 .. 0 |-> m], m, c, s, 0)
  BY DEF Unlinks
 <2> QED BY <2>1
<1>2. ASSUME NEW k \in Nat, k \in G PROVE k + 1 \in G
 <2>1. PICK f : Unlinks(f, m, c, s, k)
  BY <1>2
 <2> DEFINE g == [i \in 0 .. k + 1 |-> IF i = k + 1 THEN Unlinked(f[k], c, s[i]) ELSE f[i]]
 <2>2. ASSUME NEW i \in 0 .. k + 1
       PROVE  g[i] = IF i = 0 THEN m ELSE Unlinked(g[i - 1], c, s[i])
  <3>1. CASE i = k + 1
   <4>1. k \in 0 .. k + 1 /\ i # 0 /\ i - 1 = k /\ k # k + 1
    BY <3>1
   <4>2. g[k] = f[k]
    BY <4>1
   <4>3. g[i] = Unlinked(f[k], c, s[i])
    BY <3>1
   <4> HIDE DEF g
   <4> QED BY <4>1, <4>2, <4>3
  <3>2. CASE i # k + 1
   <4>1. i \in 0 .. k /\ g[i] = f[i]
    BY <3>2
   <4>2. f[i] = IF i = 0 THEN m ELSE Unlinked(f[i - 1], c, s[i])
    BY <2>1, <4>1, Zenon DEF Unlinks
   <4>3. CASE i = 0
    BY <4>1, <4>2, <4>3
   <4>4. CASE i # 0
    <5>1. i - 1 \in 0 .. k + 1 /\ i - 1 # k + 1
     BY <4>4, <4>1
    <5>2. g[i - 1] = f[i - 1]
     BY <5>1
    <5> HIDE DEF g
    <5> QED BY <4>1, <4>2, <4>4, <5>2
   <4> QED BY <4>3, <4>4
  <3> QED BY <3>1, <3>2
 <2>3. Unlinks(g, m, c, s, k + 1)
  <3> g = [i \in 0 .. k + 1 |-> g[i]]
   OBVIOUS
  <3> HIDE DEF g
  <3> QED BY <2>2, Zenon DEF Unlinks
 <2> HIDE DEF g
 <2> QED BY <2>3
<1>3. Nat \subseteq G
 <2> HIDE DEF G
 <2> QED BY <1>1, <1>2, NatSet
<1> QED BY <1>3

\* The entries that process_pending_removals frees.
Dead(m, c) == Only(m.cache[c].deleted_list, {b \in Blocks : Collectable(m, b)})

\* Collected takes its value from such a function.
LEMMA CollectedIs ==
    ASSUME NEW m, NEW c, Len(Dead(m, c)) \in Nat
    PROVE  \E f : Unlinks(f, m, c, Dead(m, c), Len(Dead(m, c))) /\ Collected(m, c) = f[Len(Dead(m, c))]
<1> DEFINE g == CHOOSE f : Unlinks(f, m, c, Dead(m, c), Len(Dead(m, c)))
<1>1. Unlinks(g, m, c, Dead(m, c), Len(Dead(m, c)))
 BY UnlinksExists
<1>2. Collected(m, c) = g[Len(Dead(m, c))]
 BY DEF Collected, Unlinks, Dead
<1> QED BY <1>1, <1>2

\* v is memory m without the first n entries of s on its deleted list.
WithoutDead(m, v, c, P, s, n) ==
    /\ Heap(v, P) /\ Shrinks(m, v) /\ v.used \subseteq m.used
    /\ \A d \in Caches : Chained(v, d) = Chained(m, d)
    /\ Deleted(v, c) = Deleted(m, c) \ {s[i] : i \in 1 .. n}
    /\ \A b \in Blocks : b \notin {s[i] : i \in 1 .. n} => v.slot[b] = m.slot[b]

\* The entries that are dead are unlinked and freed.
LEMMA CollectedHeap ==
    ASSUME NEW P, NEW m, NEW c \in Caches, Heap(m, P), now \in Nat
    PROVE  /\ Heap(Collected(m, c), P)
           /\ Shrinks(m, Collected(m, c))
           /\ Collected(m, c).used \subseteq m.used
           /\ \A d \in Caches : Chained(Collected(m, c), d) = Chained(m, d)
<1> DEFINE s == Dead(m, c)
           n == Len(s)
<1>0. /\ s \in Seq(Blocks) /\ NoDup(s) /\ ToSet(s) \subseteq Deleted(m, c)
      /\ \A b \in ToSet(s) : Goes(m, b) /\ b \in Blocks
 <2> DEFINE D == {b \in Blocks : Collectable(m, b)}
 <2>1. /\ m.cache[c].deleted_list \in Seq(Blocks) /\ NoDup(m.cache[c].deleted_list)
       /\ Deleted(m, c) \subseteq Blocks
  BY MemTypes DEF Heap, ListsOK
 <2>2. s = Only(m.cache[c].deleted_list, D)
  BY DEF Dead
 <2> HIDE DEF D, s
 <2>3. s \in Seq(Blocks) /\ NoDup(s) /\ ToSet(s) = Deleted(m, c) \cap D
  BY <2>1, <2>2, OnlyFacts, OnlyNoDup DEF Deleted
 <2>4. \A b \in Deleted(m, c) \cap D : Goes(m, b) /\ b \in Blocks
  BY DEF D, Collectable, Goes
 <2> QED BY <2>3, <2>4
<1>1. PICK f : Unlinks(f, m, c, s, n) /\ Collected(m, c) = f[n]
 BY <1>0, CollectedIs
<1> HIDE DEF s
<1>2. n \in Nat /\ DOMAIN s = 1 .. n
 BY <1>0
<1> HIDE DEF n
<1>3. \A i \in 0 .. n : f[i] = IF i = 0 THEN m ELSE Unlinked(f[i - 1], c, s[i])
 BY <1>1, Zenon DEF Unlinks
<1> DEFINE G == {k \in Nat : k <= n => WithoutDead(m, f[k], c, P, s, k)}
<1>4. 0 \in G
 <2>1. f[0] = m
  BY <1>2, <1>3
 <2>2. {s[i] : i \in 1 .. 0} = {}
  OBVIOUS
 <2>3. Shrinks(m, m)
  BY ShrinksSelf DEF Heap
 <2>4. WithoutDead(m, f[0], c, P, s, 0)
  BY <2>1, <2>2, <2>3 DEF WithoutDead
 <2> QED BY <2>4
<1>5. ASSUME NEW k \in Nat, k \in G PROVE k + 1 \in G
 <2> SUFFICES ASSUME k + 1 <= n PROVE WithoutDead(m, f[k + 1], c, P, s, k + 1)
  OBVIOUS
 <2>1. k + 1 \in 0 .. n /\ k + 1 # 0 /\ (k + 1) - 1 = k /\ k <= n /\ k + 1 \in 1 .. n
  BY <1>2
 <2>2. WithoutDead(m, f[k], c, P, s, k)
  BY <2>1, <1>5
 <2>3. f[k + 1] = Unlinked(f[k], c, s[k + 1])
  BY <2>1, <1>3
 <2>4. s[k + 1] \notin {s[i] : i \in 1 .. k}
  BY <1>0, <1>2, <2>1 DEF NoDup
 <2>5. s[k + 1] \in Deleted(m, c) /\ Goes(m, s[k + 1]) /\ s[k + 1] \in Blocks
  BY <1>0, <1>2, <2>1 DEF ToSet
 <2> DEFINE v == f[k]
            w == f[k + 1]
            b == s[k + 1]
 <2>6. /\ Heap(v, P) /\ Shrinks(m, v) /\ v.used \subseteq m.used /\ b \in Deleted(v, c)
       /\ w = Unlinked(v, c, b) /\ v.slot[b] = m.slot[b] /\ Deleted(v, c) \subseteq Deleted(m, c)
  BY <2>2, <2>3, <2>4, <2>5 DEF WithoutDead
 <2>7. {s[i] : i \in 1 .. k + 1} = {s[i] : i \in 1 .. k} \cup {b}
  <3>1. 1 .. k + 1 = (1 .. k) \cup {k + 1}
   BY <1>2
  <3> QED BY <3>1
 <2>8. /\ \A d \in Caches : Chained(v, d) = Chained(m, d)
       /\ Deleted(v, c) = Deleted(m, c) \ {s[i] : i \in 1 .. k}
       /\ \A a \in Blocks : a \notin {s[i] : i \in 1 .. k} => v.slot[a] = m.slot[a]
  BY <2>2 DEF WithoutDead
 <2>9. Goes(v, b)
  <3>1. CASE m.slot[b].ref_count <= 0
   BY <2>6, <3>1 DEF Goes
  <3>2. CASE \E d \in Caches : b \in Deleted(m, d) /\ now - m.slot[b].deletion_time > GcTtl
   BY <2>6, <3>2 DEF Goes
  <3> QED BY <3>1, <3>2, <2>5 DEF Goes
 <2> HIDE DEF v, w
 <2>10. /\ Heap(w, P) /\ Shrinks(v, w) /\ w.used \subseteq v.used
        /\ \A d \in Caches : Chained(w, d) = Chained(v, d) /\ Deleted(w, d) = Deleted(v, d) \ {b}
        /\ \A a \in Blocks \ {b} : w.slot[a] = v.slot[a]
  BY <2>6, <2>9, UnlinkedHeap
 <2>11. Shrinks(m, w)
  <3>1. m \in MemType /\ v \in MemType /\ w \in MemType /\ Entries(w) \subseteq w.used
   BY <2>6, <2>10, UsedEntries
  <3> QED BY <2>6, <2>10, <3>1, ShrinksTrans
 <2>12. WithoutDead(m, w, c, P, s, k + 1)
  <3>1. Deleted(w, c) = Deleted(m, c) \ {s[i] : i \in 1 .. k + 1}
   BY <2>7, <2>8, <2>10
  <3>2. ASSUME NEW a \in Blocks, a \notin {s[i] : i \in 1 .. k + 1} PROVE w.slot[a] = m.slot[a]
   BY <2>7, <2>8, <2>10, <3>2
  <3>3. \A d \in Caches : Chained(w, d) = Chained(m, d)
   BY <2>8, <2>10
  <3>4. w.used \subseteq m.used
   BY <2>6, <2>10
  <3> QED BY <2>10, <2>11, <3>1, <3>2, <3>3, <3>4 DEF WithoutDead
 <2> QED BY <2>12 DEF w
<1>6. n \in G
 <2> HIDE DEF G
 <2> QED BY <1>2, <1>4, <1>5, NatSet
<1>7. WithoutDead(m, f[n], c, P, s, n)
 BY <1>2, <1>6
<1> QED BY <1>1, <1>7 DEF WithoutDead

--------------------
(* Flags and lastkey: changes of a cache that leave its lists alone.         *)

\* The busy flag changes nothing else.
LEMMA BusyIs ==
    ASSUME NEW m \in MemType, NEW c \in Caches, NEW y \in BOOLEAN
    PROVE  LET u == [m EXCEPT !.cache[c].busy = y]
           IN  u \in MemType /\ SameLists(m, u) /\ u.slot = m.slot
<1> DEFINE k == [m.cache[c] EXCEPT !.busy = y]
           C == [m.cache EXCEPT ![c] = k]
           u == [m EXCEPT !.cache[c].busy = y]
<1>1. m.cache[c] \in CacheType /\ m.cache \in [Caches -> CacheType]
 BY MemTypes
<1>2. u = [m EXCEPT !.cache = C]
 OBVIOUS
<1>3. /\ k \in CacheType /\ k.chain = m.cache[c].chain /\ k.num_entries = m.cache[c].num_entries
      /\ k.deleted_list = m.cache[c].deleted_list
 BY <1>1 DEF CacheType
<1> HIDE DEF k
<1>4. C \in [Caches -> CacheType] /\ C[c] = k /\ \A d \in Caches \ {c} : C[d] = m.cache[d]
 BY <1>1, <1>3
<1> HIDE DEF C, u
<1>5. u = [used |-> m.used, slot |-> m.slot, cache |-> C]
 BY <1>2 DEF MemType
<1>6. m.used \subseteq Blocks /\ m.slot \in [Blocks -> SlotType]
 BY MemTypes
<1>7. u \in MemType /\ u.used = m.used /\ u.slot = m.slot /\ u.cache = C
 BY <1>4, <1>5, <1>6, MemFields
<1>8. SameLists(m, u)
 BY <1>3, <1>4, <1>7 DEF SameLists
<1>9. u \in MemType /\ SameLists(m, u) /\ u.slot = m.slot
 BY <1>7, <1>8
<1> QED BY <1>9 DEF u

\* Nor does lastkey.
LEMMA LastKeyIs ==
    ASSUME NEW m \in MemType, NEW c \in Caches, NEW x \in LastKeys
    PROVE  LET u == [m EXCEPT !.cache[c].lastkey = x]
           IN  u \in MemType /\ SameLists(m, u) /\ u.slot = m.slot
<1> DEFINE k == [m.cache[c] EXCEPT !.lastkey = x]
           C == [m.cache EXCEPT ![c] = k]
           u == [m EXCEPT !.cache[c].lastkey = x]
<1>1. m.cache[c] \in CacheType /\ m.cache \in [Caches -> CacheType]
 BY MemTypes
<1>2. u = [m EXCEPT !.cache = C]
 OBVIOUS
<1>3. /\ k \in CacheType /\ k.chain = m.cache[c].chain /\ k.num_entries = m.cache[c].num_entries
      /\ k.deleted_list = m.cache[c].deleted_list
 BY <1>1 DEF CacheType
<1> HIDE DEF k
<1>4. C \in [Caches -> CacheType] /\ C[c] = k /\ \A d \in Caches \ {c} : C[d] = m.cache[d]
 BY <1>1, <1>3
<1> HIDE DEF C, u
<1>5. u = [used |-> m.used, slot |-> m.slot, cache |-> C]
 BY <1>2 DEF MemType
<1>6. m.used \subseteq Blocks /\ m.slot \in [Blocks -> SlotType]
 BY MemTypes
<1>7. u \in MemType /\ u.used = m.used /\ u.slot = m.slot /\ u.cache = C
 BY <1>4, <1>5, <1>6, MemFields
<1>8. SameLists(m, u)
 BY <1>3, <1>4, <1>7 DEF SameLists
<1>9. u \in MemType /\ SameLists(m, u) /\ u.slot = m.slot
 BY <1>7, <1>8
<1> QED BY <1>9 DEF u

\* What a sweep or a clear leaves: no last key, and the cache not busy.
LEMMA ResetIs ==
    ASSUME NEW m \in MemType, NEW c \in Caches
    PROVE  LET u == [m EXCEPT !.cache[c] = [@ EXCEPT !.lastkey = NULL, !.busy = FALSE]]
           IN  u \in MemType /\ SameLists(m, u) /\ u.slot = m.slot
<1> DEFINE v == [m EXCEPT !.cache[c].lastkey = NULL]
           u == [v EXCEPT !.cache[c].busy = FALSE]
<1>1. v \in MemType /\ SameLists(m, v) /\ v.slot = m.slot
 BY LastKeyIs DEF LastKeys
<1> HIDE DEF v
<1>2. u \in MemType /\ SameLists(v, u) /\ u.slot = v.slot
 BY <1>1, BusyIs
<1> HIDE DEF u
<1>3. u \in MemType /\ SameLists(m, u) /\ u.slot = m.slot
 BY <1>1, <1>2 DEF SameLists
<1> QED BY <1>3 DEF u, v

\* v is the well-formed memory m is reduced to.
Reduced(m, v, P) == Heap(v, P) /\ Shrinks(m, v) /\ v.used \subseteq m.used

\* What is reduced twice is reduced.
LEMMA ReducedTrans ==
    ASSUME NEW P, NEW m, NEW v, NEW w, now \in Nat, Heap(m, P), Reduced(m, v, P), Reduced(v, w, P)
    PROVE  Reduced(m, w, P)
<1>1. m \in MemType /\ v \in MemType /\ w \in MemType /\ Entries(w) \subseteq w.used
 BY UsedEntries DEF Reduced
<1>2. Shrinks(m, w)
 BY <1>1, ShrinksTrans DEF Reduced
<1> QED BY <1>2 DEF Reduced

\* A memory is one of its own reductions.
LEMMA ReducedSelf ==
    ASSUME NEW P, NEW m, Heap(m, P)
    PROVE  Reduced(m, m, P)
BY ShrinksSelf DEF Reduced, Heap

\* So is a memory with other flags.
LEMMA ReducedFlags ==
    ASSUME NEW P, NEW m, NEW v \in MemType, Heap(m, P), SameLists(m, v), v.slot = m.slot
    PROVE  Reduced(m, v, P) /\ \A d \in Caches : Chained(v, d) = Chained(m, d)
BY FlagsHeap DEF Reduced, SameLists, Chained

\* The sweep of an expunge.
LEMMA ExpungedHeap ==
    ASSUME NEW P, NEW m, NEW c \in Caches, Heap(m, P), now \in Nat
    PROVE  Reduced(m, Expunged(m, c), P)
<1> DEFINE s == Only(m.cache[c].chain, {b \in Blocks : Stale(m, c, b, now)})
           u == IF CacheTtl[c] = 0 THEN m ELSE RemovedAll(m, c, s, now)
           v == IF CacheTtl[c] = 0 \/ u.used = Blocks
                THEN RemovedAll(u, c, u.cache[c].chain, now) ELSE u
           w == [v EXCEPT !.cache[c] = [@ EXCEPT !.lastkey = NULL, !.busy = FALSE]]
<1>1. Expunged(m, c) = w
 BY DEF Expunged
<1>2. s \in Seq(Blocks) /\ NoDup(s) /\ ToSet(s) \subseteq Chained(m, c)
 <2> DEFINE S == {b \in Blocks : Stale(m, c, b, now)}
 <2>1. m.cache[c].chain \in Seq(Blocks) /\ NoDup(m.cache[c].chain)
  BY MemTypes DEF Heap, ListsOK
 <2>2. s = Only(m.cache[c].chain, S)
  OBVIOUS
 <2> HIDE DEF S, s
 <2> QED BY <2>1, <2>2, OnlyFacts, OnlyNoDup DEF Chained
<1> HIDE DEF s
<1>3. Reduced(m, u, P)
 <2>1. CASE CacheTtl[c] = 0
  BY <2>1, ReducedSelf
 <2>2. CASE CacheTtl[c] # 0
  BY <2>2, <1>2, RemovedAllHeap DEF Reduced
 <2> QED BY <2>1, <2>2
<1> HIDE DEF u
<1>4. Reduced(u, v, P)
 <2>1. CASE CacheTtl[c] = 0 \/ u.used = Blocks
  <3> DEFINE ch == u.cache[c].chain
  <3>1. /\ Heap(u, P) /\ ch \in Seq(Blocks) /\ NoDup(ch) /\ ToSet(ch) \subseteq Chained(u, c)
   BY <1>3, MemTypes DEF Reduced, Heap, ListsOK, Chained
  <3>2. v = RemovedAll(u, c, ch, now)
   BY <2>1
  <3> HIDE DEF ch, v
  <3> QED BY <3>1, <3>2, RemovedAllHeap DEF Reduced
 <2>2. CASE ~(CacheTtl[c] = 0 \/ u.used = Blocks)
  BY <2>2, <1>3, ReducedSelf DEF Reduced
 <2> QED BY <2>1, <2>2
<1> HIDE DEF v
<1>5. Reduced(m, v, P) /\ Heap(v, P) /\ v \in MemType
 <2>1. Reduced(m, v, P)
  BY <1>3, <1>4, ReducedTrans
 <2> QED BY <2>1 DEF Reduced, Heap
<1>6. w \in MemType /\ SameLists(v, w) /\ w.slot = v.slot
 BY <1>5, ResetIs
<1> HIDE DEF w
<1>7. Reduced(v, w, P)
 BY <1>5, <1>6, ReducedFlags
<1>8. Reduced(m, w, P)
 BY <1>5, <1>7, ReducedTrans
<1> QED BY <1>1, <1>8

\* apc_cache_clear's end.
LEMMA ClearedHeap ==
    ASSUME NEW P, NEW m, NEW c \in Caches, Heap(m, P), now \in Nat
    PROVE  LET v == RemovedAll(m, c, m.cache[c].chain, now)
           IN  Reduced(m, [v EXCEPT !.cache[c] = [@ EXCEPT !.lastkey = NULL, !.busy = FALSE]], P)
<1> DEFINE ch == m.cache[c].chain
           v == RemovedAll(m, c, ch, now)
           w == [v EXCEPT !.cache[c] = [@ EXCEPT !.lastkey = NULL, !.busy = FALSE]]
<1>1. ch \in Seq(Blocks) /\ NoDup(ch) /\ ToSet(ch) \subseteq Chained(m, c)
 BY MemTypes DEF Heap, ListsOK, Chained
<1>2. Reduced(m, v, P)
 <2> HIDE DEF ch
 <2> QED BY <1>1, RemovedAllHeap DEF Reduced
<1> HIDE DEF v
<1>3. Heap(v, P) /\ v \in MemType
 BY <1>2 DEF Reduced, Heap
<1>4. w \in MemType /\ SameLists(v, w) /\ w.slot = v.slot
 BY <1>3, ResetIs
<1> HIDE DEF w
<1>5. Reduced(m, w, P)
 BY <1>2, <1>3, <1>4, ReducedFlags, ReducedTrans
<1> QED BY <1>5 DEF w, v, ch

--------------------
(* Where a key is.                                                           *)

\* The least of a set of numbers.
LEMMA MinNat ==
    ASSUME NEW S, S \subseteq Nat, S # {}
    PROVE  Min(S) \in S /\ \A x \in S : Min(S) <= x
<1>1. PICK a \in S : \A x \in S : ~(<<x, a>> \in OpToRel(<, Nat))
 BY WFMin, NatLessThanWellFounded, Zenon
<1>2. \A x \in S : a <= x
 <2> SUFFICES ASSUME NEW x \in S PROVE a <= x
  OBVIOUS
 <2>1. x \in Nat /\ a \in Nat
  OBVIOUS
 <2>2. ~(x < a)
  BY <1>1, <2>1 DEF OpToRel
 <2> QED BY <2>1, <2>2
<1> QED BY <1>2 DEF Min

\* The place of a key on a chain.
LEMMA PositionIs ==
    ASSUME NEW m, NEW c, NEW k, m.cache[c].chain \in Seq(Blocks)
    PROVE  /\ Position(m, c, k) \in 0 .. Len(m.cache[c].chain)
           /\ Position(m, c, k) # 0 =>
                 /\ Position(m, c, k) \in DOMAIN m.cache[c].chain
                 /\ m.slot[m.cache[c].chain[Position(m, c, k)]].key = k
                 /\ m.cache[c].chain[Position(m, c, k)] \in Chained(m, c)
           /\ Position(m, c, k) = 0 => \A b \in Chained(m, c) : m.slot[b].key # k
<1> DEFINE s == m.cache[c].chain
           at == {i \in DOMAIN s : m.slot[s[i]].key = k}
<1>1. Position(m, c, k) = IF at = {} THEN 0 ELSE Min(at)
 BY DEF Position
<1>2. DOMAIN s = 1 .. Len(s) /\ Len(s) \in Nat
 OBVIOUS
<1>3. CASE at = {}
 <2>1. \A i \in DOMAIN s : m.slot[s[i]].key # k
  BY <1>3
 <2> HIDE DEF at
 <2>2. Position(m, c, k) = 0
  BY <1>1, <1>3
 <2> QED BY <1>2, <2>1, <2>2 DEF Chained, ToSet
<1>4. CASE at # {}
 <2>1. at \subseteq Nat
  BY <1>2
 <2> HIDE DEF at
 <2>2. Position(m, c, k) \in at
  BY <1>1, <1>4, <2>1, MinNat
 <2>3. Position(m, c, k) \in DOMAIN s /\ m.slot[s[Position(m, c, k)]].key = k
  BY <2>2 DEF at
 <2> QED BY <1>2, <2>3 DEF Chained, ToSet
<1> QED BY <1>3, <1>4

--------------------
(* The walk of an insertion.                                                 *)

\* Members of a part of a sequence.
LEMMA PartFacts ==
    ASSUME NEW T, NEW s \in Seq(T), NEW i \in Int, NEW j \in Int, 1 <= i, j <= Len(s)
    PROVE  /\ SubSeq(s, i, j) \in Seq(T)
           /\ ToSet(SubSeq(s, i, j)) = {s[k] : k \in i .. j}
           /\ NoDup(s) => NoDup(SubSeq(s, i, j))
<1> DEFINE t == SubSeq(s, i, j)
           n == Len(s)
<1>1. n \in Nat /\ DOMAIN s = 1 .. n /\ \A k \in i .. j : k \in 1 .. n /\ s[k] \in T
 OBVIOUS
<1>2. /\ t \in Seq(T) /\ Len(t) = (IF i <= j THEN j - i + 1 ELSE 0)
      /\ \A k \in 1 .. j - i + 1 : t[k] = s[i + k - 1]
 BY <1>1, SubSeqProperties
<1>3. DOMAIN t = 1 .. Len(t)
 BY <1>2
<1> HIDE DEF t, n
<1>4. DOMAIN t = 1 .. (j - i + 1)
 BY <1>2, <1>3
<1>5. ASSUME NEW x \in ToSet(t) PROVE x \in {s[k] : k \in i .. j}
 <2>1. PICK k \in 1 .. (j - i + 1) : x = t[k]
  BY <1>4 DEF ToSet
 <2>2. i + k - 1 \in i .. j
  BY <2>1
 <2> QED BY <1>2, <2>1, <2>2
<1>6. ASSUME NEW x \in {s[k] : k \in i .. j} PROVE x \in ToSet(t)
 <2>1. PICK k \in i .. j : x = s[k]
  OBVIOUS
 <2>2. k - i + 1 \in 1 .. (j - i + 1) /\ i + (k - i + 1) - 1 = k
  BY <2>1
 <2>3. t[k - i + 1] = s[k]
  BY <1>2, <2>2
 <2> QED BY <1>4, <2>1, <2>2, <2>3 DEF ToSet
<1>7. ASSUME NoDup(s) PROVE NoDup(t)
 <2> SUFFICES ASSUME NEW k \in 1 .. (j - i + 1), NEW l \in 1 .. (j - i + 1), t[k] = t[l] PROVE k = l
  BY <1>4 DEF NoDup
 <2>1. s[i + k - 1] = s[i + l - 1] /\ i + k - 1 \in i .. j /\ i + l - 1 \in i .. j
  BY <1>2
 <2>2. i + k - 1 = i + l - 1
  BY <1>1, <1>7, <2>1 DEF NoDup
 <2> QED BY <2>2
<1> QED BY <1>2, <1>5, <1>6, <1>7 DEF t

\* The memory after the walk.
LEMMA WalkedHeap ==
    ASSUME NEW P, NEW m, NEW r, NEW exclusive, Heap(m, P), now \in Nat, r.c \in Caches
    PROVE  /\ Reduced(m, Walked(m, r, exclusive), P)
           /\ ~Kept(m, r, Position(m, r.c, r.key), exclusive) =>
                 \A b \in Chained(Walked(m, r, exclusive), r.c) :
                     Walked(m, r, exclusive).slot[b].key # r.key
<1> DEFINE c == r.c
           ch == m.cache[c].chain
           j == Position(m, c, r.key)
           s == Passed(m, c, j, r.t)
           u == RemovedAll(m, c, s, now)
           w == Walked(m, r, exclusive)
           kept == Kept(m, r, j, exclusive)
<1>1. w = IF j = 0 \/ kept THEN u ELSE Removed(u, c, ch[j], now)
 BY DEF Walked
<1>2. /\ ch \in Seq(Blocks) /\ NoDup(ch) /\ m \in MemType /\ c \in Caches
      /\ \A a, b \in Chained(m, c) : m.slot[a].key = m.slot[b].key => a = b
 BY MemTypes DEF Heap, ListsOK, KeysOK
<1>3. /\ j \in 0 .. Len(ch)
      /\ j # 0 => j \in DOMAIN ch /\ m.slot[ch[j]].key = r.key /\ ch[j] \in Chained(m, c)
      /\ j = 0 => \A b \in Chained(m, c) : m.slot[b].key # r.key
 BY <1>2, PositionIs
<1>4. s \in Seq(Blocks) /\ NoDup(s) /\ ToSet(s) \subseteq Chained(m, c) /\ (j # 0 => ch[j] \notin ToSet(s))
 <2> DEFINE upto == IF j = 0 THEN Len(ch) ELSE j - 1
            B == {b \in Blocks : Idle(m, c, b, r.t) \/ (c = "user" /\ Expired(m, b, r.t))}
            part == SubSeq(ch, 1, upto)
 <2>1. s = Only(part, B)
  BY DEF Passed
 <2> HIDE DEF j, ch, B, s
 <2>2. upto \in Int /\ upto <= Len(ch) /\ (j # 0 => upto = j - 1) /\ DOMAIN ch = 1 .. Len(ch) /\ Len(ch) \in Nat
  BY <1>2, <1>3
 <2> HIDE DEF upto
 <2>3. part \in Seq(Blocks) /\ ToSet(part) = {ch[k] : k \in 1 .. upto} /\ NoDup(part)
  BY <1>2, <2>2, PartFacts
 <2> HIDE DEF part
 <2>4. s \in Seq(Blocks) /\ NoDup(s) /\ ToSet(s) \subseteq {ch[k] : k \in 1 .. upto}
  BY <2>1, <2>3, OnlyFacts, OnlyNoDup
 <2>5. {ch[k] : k \in 1 .. upto} \subseteq ToSet(ch)
  BY <2>2 DEF ToSet
 <2>6. ASSUME j # 0 PROVE ch[j] \notin {ch[k] : k \in 1 .. upto}
  <3> SUFFICES ASSUME NEW k \in 1 .. upto, ch[k] = ch[j] PROVE FALSE
   OBVIOUS
  <3>1. k \in DOMAIN ch /\ j \in DOMAIN ch /\ k # j
   BY <1>3, <2>2, <2>6
  <3> QED BY <1>2, <3>1 DEF NoDup
 <2>7. ToSet(ch) = Chained(m, c)
  BY DEF Chained, ch
 <2> QED BY <2>4, <2>5, <2>6, <2>7
<1> HIDE DEF s
<1>5. /\ Reduced(m, u, P) /\ \A d \in Caches : Chained(u, d) = Chained(m, d) \ ToSet(s)
 BY <1>2, <1>4, RemovedAllHeap DEF Reduced
<1> HIDE DEF u, w, j, kept
<1>6. CASE j = 0 \/ kept
 <2>1. w = u
  BY <1>1, <1>6
 <2>2. ASSUME ~kept, NEW b \in Chained(u, c) PROVE u.slot[b].key # r.key
  <3>1. b \in Chained(m, c) /\ m.slot[b].key # r.key
   BY <1>2, <1>3, <1>5, <1>6, <2>2
  <3>2. b \in Entries(u)
   BY <1>2, <2>2, EntriesAre
  <3>3. SameEntry(m.slot[b], u.slot[b])
   BY <1>5, <3>2 DEF Reduced, Shrinks
  <3> QED BY <3>1, <3>3 DEF SameEntry
 <2> QED BY <1>5, <2>1, <2>2 DEF w, c, j, kept
<1>7. CASE ~(j = 0 \/ kept)
 <2> DEFINE b0 == ch[j]
 <2>1. w = Removed(u, c, b0, now) /\ b0 \in Chained(u, c) /\ Heap(u, P)
  BY <1>1, <1>2, <1>3, <1>4, <1>5, <1>7 DEF Reduced
 <2>0. b0 \in Chained(m, c) /\ m.slot[b0].key = r.key
  BY <1>3, <1>7
 <2> HIDE DEF b0
 <2>2. Reduced(u, w, P) /\ \A d \in Caches : Chained(w, d) = Chained(u, d) \ {b0}
  BY <2>1, <1>2, RemovedHeap DEF Reduced
 <2>3. Reduced(m, w, P)
  BY <1>5, <2>2, ReducedTrans
 <2>4. ASSUME NEW b \in Chained(w, c) PROVE w.slot[b].key # r.key
  <3>1. b \in Chained(m, c) /\ b # b0
   BY <1>2, <1>5, <2>2
  <3>2. b \in Entries(w)
   BY <1>2, EntriesAre
  <3>3. SameEntry(m.slot[b], w.slot[b])
   BY <2>3, <3>2 DEF Reduced, Shrinks
  <3> QED BY <1>2, <2>0, <3>1, <3>3 DEF SameEntry
 <2> QED BY <2>3, <2>4 DEF w, c
<1> QED BY <1>6, <1>7

\* The walk begins.
LEMMA PreparedHeap ==
    ASSUME NEW P, NEW m, NEW p \in Procs, NEW r, Heap(m, P), now \in Nat, r.c \in Caches,
           r.c = "user" => r.key \in UserKeys /\ r.t \in Nat
    PROVE  Reduced(m, Prepared(m, p, r), P)
<1> DEFINE u == Collected(m, r.c)
           x == [key |-> r.key, mtime |-> r.t, pid |-> p]
           v == [u EXCEPT !.cache["user"].lastkey = x]
<1>1. Reduced(m, u, P)
 BY CollectedHeap DEF Reduced
<1>2. Prepared(m, p, r) = IF r.c = "file" THEN u ELSE v
 BY DEF Prepared
<1> HIDE DEF u
<1>3. CASE r.c = "file"
 BY <1>1, <1>2, <1>3
<1>4. CASE r.c # "file"
 <2>1. r.c = "user" /\ "user" \in Caches
  BY <1>4 DEF Caches
 <2>2. x \in LastKeys
  BY <2>1 DEF LastKeys
 <2> HIDE DEF x
 <2>3. v \in MemType /\ SameLists(u, v) /\ v.slot = u.slot
  BY <1>1, <2>1, <2>2, LastKeyIs DEF Reduced, Heap
 <2> HIDE DEF v
 <2>4. Reduced(m, v, P)
  <3>1. Reduced(u, v, P)
   BY <1>1, <2>3, ReducedFlags DEF Reduced
  <3> QED BY <1>1, <3>1, ReducedTrans
 <2> QED BY <1>2, <1>4, <2>4
<1> QED BY <1>3, <1>4

--------------------
(* Where an insertion links its entry.                                       *)

\* The members of two sequences, one after the other.
LEMMA ConcatMembers ==
    ASSUME NEW T, NEW a \in Seq(T), NEW b \in Seq(T)
    PROVE  /\ a \o b \in Seq(T) /\ Len(a \o b) = Len(a) + Len(b)
           /\ ToSet(a \o b) = ToSet(a) \cup ToSet(b)
           /\ NoDup(a \o b) <=> NoDup(a) /\ NoDup(b) /\ ToSet(a) \cap ToSet(b) = {}
<1> DEFINE G == {q \in Seq(T) : /\ ToSet(a \o q) = ToSet(a) \cup ToSet(q)
                                /\ NoDup(a \o q) <=> NoDup(a) /\ NoDup(q) /\ ToSet(a) \cap ToSet(q) = {}}
<1>1. <<>> \in G
 <2>1. a \o <<>> = a
  BY ConcatEmptySeq
 <2>2. NoDup(<<>>)
  BY DEF NoDup
 <2> QED BY <2>1, <2>2, EmptyFacts
<1>2. ASSUME NEW q \in Seq(T), NEW x \in T, q \in G PROVE Append(q, x) \in G
 <2> DEFINE aq == a \o q
 <2>1. /\ ToSet(aq) = ToSet(a) \cup ToSet(q)
       /\ NoDup(aq) <=> NoDup(a) /\ NoDup(q) /\ ToSet(a) \cap ToSet(q) = {}
  BY <1>2
 <2>2. aq \in Seq(T) /\ a \o Append(q, x) = Append(aq, x)
  BY ConcatProperties, ConcatFacts
 <2> HIDE DEF aq
 <2>3. /\ ToSet(Append(aq, x)) = ToSet(aq) \cup {x}
       /\ NoDup(Append(aq, x)) <=> NoDup(aq) /\ x \notin ToSet(aq)
  BY <2>2, AppendFacts, NoDupAppend
 <2>4. /\ Append(q, x) \in Seq(T) /\ ToSet(Append(q, x)) = ToSet(q) \cup {x}
       /\ NoDup(Append(q, x)) <=> NoDup(q) /\ x \notin ToSet(q)
  BY AppendFacts, NoDupAppend
 <2>5. ToSet(a \o Append(q, x)) = ToSet(a) \cup ToSet(Append(q, x))
  BY <2>1, <2>2, <2>3, <2>4
 <2>6. NoDup(a \o Append(q, x)) <=> NoDup(a) /\ NoDup(Append(q, x)) /\ ToSet(a) \cap ToSet(Append(q, x)) = {}
  BY <2>1, <2>2, <2>3, <2>4
 <2> QED BY <2>4, <2>5, <2>6
<1>3. Seq(T) \subseteq G
 <2> HIDE DEF G
 <2> QED BY <1>1, <1>2, SeqSet
<1> QED BY <1>3, ConcatProperties

\* The two parts of such a sequence.
LEMMA ConcatParts ==
    ASSUME NEW T, NEW a \in Seq(T), NEW b \in Seq(T)
    PROVE  /\ SubSeq(a \o b, 1, Len(a)) = a
           /\ SubSeq(a \o b, Len(a) + 1, Len(a \o b)) = b
<1> DEFINE s == a \o b
           n == Len(a)
           l == Len(b)
           t == SubSeq(s, 1, n)
           u == SubSeq(s, n + 1, Len(s))
<1>1. /\ s \in Seq(T) /\ Len(s) = n + l /\ n \in Nat /\ l \in Nat
      /\ \A i \in 1 .. n + l : s[i] = IF i <= n THEN a[i] ELSE b[i - n]
 BY ConcatProperties
<1>2. \A i \in 1 .. n + l : s[i] \in T
 BY <1>1, ElementOfSeq
<1> HIDE DEF s, n, l
<1>3. t \in Seq(T) /\ Len(t) = n /\ \A i \in 1 .. n : t[i] = s[i]
 <2>1. \A i \in 1 .. n : s[i] \in T
  BY <1>1, <1>2
 <2>2. /\ t \in Seq(T) /\ Len(t) = (IF 1 <= n THEN n - 1 + 1 ELSE 0)
       /\ \A i \in 1 .. n - 1 + 1 : t[i] = s[1 + i - 1]
  BY <1>1, <2>1, SubSeqProperties
 <2> HIDE DEF t
 <2>3. \A i \in 1 .. n : t[i] = s[i]
  <3> SUFFICES ASSUME NEW i \in 1 .. n PROVE t[i] = s[i]
   OBVIOUS
  <3>1. i \in 1 .. n - 1 + 1 /\ 1 + i - 1 = i
   BY <1>1
  <3> QED BY <2>2, <3>1
 <2> QED BY <1>1, <2>2, <2>3
<1>4. u \in Seq(T) /\ Len(u) = l /\ \A i \in 1 .. l : u[i] = s[n + i]
 <2>1. \A i \in n + 1 .. Len(s) : s[i] \in T
  BY <1>1, <1>2
 <2>2. /\ u \in Seq(T) /\ Len(u) = (IF n + 1 <= Len(s) THEN Len(s) - (n + 1) + 1 ELSE 0)
       /\ \A i \in 1 .. Len(s) - (n + 1) + 1 : u[i] = s[n + 1 + i - 1]
  BY <1>1, <2>1, SubSeqProperties
 <2> HIDE DEF u
 <2>3. \A i \in 1 .. l : u[i] = s[n + i]
  <3> SUFFICES ASSUME NEW i \in 1 .. l PROVE u[i] = s[n + i]
   OBVIOUS
  <3>1. i \in 1 .. Len(s) - (n + 1) + 1 /\ n + 1 + i - 1 = n + i
   BY <1>1
  <3> QED BY <2>2, <3>1
 <2> QED BY <1>1, <2>2, <2>3
<1> HIDE DEF t, u
<1>5. \A i \in 1 .. n : t[i] = a[i]
 BY <1>1, <1>3
<1>6. \A i \in 1 .. l : u[i] = b[i]
 <2> SUFFICES ASSUME NEW i \in 1 .. l PROVE u[i] = b[i]
  OBVIOUS
 <2>1. n + i \in 1 .. n + l /\ ~(n + i <= n) /\ (n + i) - n = i
  BY <1>1
 <2> QED BY <1>1, <1>4, <2>1
<1>7. t = a
 BY <1>3, <1>5, SeqEqual DEF n
<1>8. u = b
 BY <1>4, <1>6, SeqEqual DEF l
<1> QED BY <1>7, <1>8 DEF t, u, s, n

\* A sequence that is not empty, from its ends.
LEMMA EndsFacts ==
    ASSUME NEW T, NEW s \in Seq(T), s # <<>>
    PROVE  /\ Last(s) \in T /\ \E a \in Seq(T) : s = Append(a, Last(s))
           /\ Head(s) \in T /\ \E a \in Seq(T) : s = <<Head(s)>> \o a
           /\ Last(s) \in ToSet(s) /\ Head(s) \in ToSet(s)
<1>1. \E a \in Seq(T), x \in T : s = Append(a, x)
 BY SequenceEmptyOrAppend
<1>2. PICK a \in Seq(T), x \in T : s = Append(a, x)
 BY <1>1
<1>3. Last(s) = x
 BY <1>2, AppendFacts DEF Last
<1>4. Len(s) \in Nat /\ Len(s) # 0 /\ DOMAIN s = 1 .. Len(s)
 BY EmptySeq
<1>5. 1 \in 1 .. Len(s) /\ Len(s) \in 1 .. Len(s)
 BY <1>4
<1>6. s = <<Head(s)>> \o SubSeq(s, 2, Len(s)) /\ SubSeq(s, 2, Len(s)) \in Seq(T)
 <2>1. SubSeq(s, 1, Len(s)) = <<s[1]>> \o SubSeq(s, 1 + 1, Len(s))
  BY <1>5, SubSeqRecursiveFirst
 <2>2. SubSeq(s, 1, Len(s)) = s /\ Head(s) = s[1]
  BY SubSeqFull
 <2>3. SubSeq(s, 2, Len(s)) \in Seq(T)
  BY <1>4, SubSeqProperties
 <2> QED BY <2>1, <2>2, <2>3
<1>7. Head(s) \in T /\ Head(s) = s[1]
 BY <1>5
<1> QED BY <1>2, <1>3, <1>4, <1>5, <1>6, <1>7 DEF ToSet, Last

\* Chain s is split where r links its entry: after r.prev and before r.next, those
\* of them that are still in the chain.
PlaceOf(s, r) ==
    \E pre, post \in Seq(Blocks) :
        /\ s = pre \o post
        /\ r.prev = NULL => pre = <<>>
        /\ r.prev \in ToSet(s) => \E a \in Seq(Blocks) : pre = Append(a, r.prev)
        /\ r.next = NULL => post = <<>>
        /\ r.next \in ToSet(s) => \E a \in Seq(Blocks) : post = <<r.next>> \o a

\* A chain from which entries were removed has the place still.
LEMMA PlaceOnly ==
    ASSUME NEW s \in Seq(Blocks), NEW r, NEW S, PlaceOf(s, r)
    PROVE  PlaceOf(Only(s, S), r)
<1>1. PICK pre \in Seq(Blocks), post \in Seq(Blocks) :
        /\ s = pre \o post
        /\ r.prev = NULL => pre = <<>>
        /\ r.prev \in ToSet(s) => \E a \in Seq(Blocks) : pre = Append(a, r.prev)
        /\ r.next = NULL => post = <<>>
        /\ r.next \in ToSet(s) => \E a \in Seq(Blocks) : post = <<r.next>> \o a
 BY DEF PlaceOf
<1> DEFINE t == Only(s, S)
           p1 == Only(pre, S)
           p2 == Only(post, S)
<1>2. t = p1 \o p2 /\ p1 \in Seq(Blocks) /\ p2 \in Seq(Blocks)
 <2>1. Only(pre \o post, S) = Only(pre, S) \o Only(post, S)
  BY OnlyConcat
 <2> QED BY <1>1, <2>1, OnlyFacts
<1>3. \A x : x \in ToSet(t) <=> x \in ToSet(s) /\ x \in S
 BY OnlyFacts
<1>4. r.prev = NULL => p1 = <<>>
 BY <1>1, OnlyEmpty
<1>5. r.next = NULL => p2 = <<>>
 BY <1>1, OnlyEmpty
<1> HIDE DEF t
<1>6. ASSUME r.prev \in ToSet(t) PROVE \E a \in Seq(Blocks) : p1 = Append(a, r.prev)
 <2>1. PICK a \in Seq(Blocks) : pre = Append(a, r.prev)
  BY <1>1, <1>3, <1>6
 <2>2. r.prev \in Blocks /\ r.prev \in S
  <3>1. ToSet(s) \subseteq Blocks
   BY ElementOfSeq DEF ToSet
  <3> QED BY <3>1, <1>3, <1>6
 <2>3. p1 = Append(Only(a, S), r.prev)
  BY <2>1, <2>2, OnlyAppend
 <2> QED BY <2>3, OnlyFacts
<1>7. ASSUME r.next \in ToSet(t) PROVE \E a \in Seq(Blocks) : p2 = <<r.next>> \o a
 <2>1. PICK a \in Seq(Blocks) : post = <<r.next>> \o a
  BY <1>1, <1>3, <1>7
 <2>2. r.next \in Blocks /\ r.next \in S
  <3>1. ToSet(s) \subseteq Blocks
   BY ElementOfSeq DEF ToSet
  <3> QED BY <3>1, <1>3, <1>7
 <2> DEFINE one == <<r.next>>
 <2>3. one \in Seq(Blocks) /\ ToSet(one) \subseteq S
  BY <2>2 DEF ToSet
 <2> HIDE DEF one
 <2>4. Only(one \o a, S) = Only(one, S) \o Only(a, S)
  BY <2>3, OnlyConcat
 <2>5. Only(one, S) = one
  BY <2>3, OnlyAll
 <2>6. p2 = <<r.next>> \o Only(a, S)
  BY <2>1, <2>4, <2>5 DEF one
 <2> QED BY <2>6, OnlyFacts
<1> HIDE DEF p1, p2
<1>8. PlaceOf(t, r)
 BY <1>2, <1>4, <1>5, <1>6, <1>7 DEF PlaceOf
<1> QED BY <1>8 DEF t

\* Where the walk of an insertion stops: chain s0, of which the members in S are
\* left, at j.
LEMMA WalkStops ==
    ASSUME NEW s0 \in Seq(Blocks), NEW S, NEW j \in 0 .. Len(s0)
    PROVE  LET s == Only(s0, S)
               rest == Rest(s0, s, j)
           IN  /\ rest \in Seq(Blocks)
               /\ SubSeq(s, 1, Len(s) - Len(rest)) \in Seq(Blocks)
               /\ s = SubSeq(s, 1, Len(s) - Len(rest)) \o rest
<1> DEFINE s == Only(s0, S)
           rest == Rest(s0, s, j)
           pre == SubSeq(s, 1, Len(s) - Len(rest))
<1>1. s \in Seq(Blocks) /\ ToSet(s) = ToSet(s0) \cap S
 BY OnlyFacts
<1>2. CASE j = 0
 <2>1. rest = <<>>
  BY <1>2 DEF Rest
 <2> HIDE DEF rest, s
 <2>2. Len(rest) = 0 /\ Len(s) \in Nat
  BY <1>1, <2>1
 <2>3. Len(s) - Len(rest) = Len(s)
  BY <2>2
 <2>4. pre = s
  BY <1>1, <2>3, SubSeqFull
 <2>5. s \o <<>> = s
  BY <1>1, ConcatEmptySeq
 <2>6. rest \in Seq(Blocks) /\ pre \in Seq(Blocks) /\ s = pre \o rest
  BY <1>1, <2>1, <2>4, <2>5
 <2> QED BY <2>6 DEF rest, s
<1>3. CASE j # 0
 <2> DEFINE A == SubSeq(s0, 1, j)
            B == SubSeq(s0, j + 1, Len(s0))
            a == Only(A, S)
            b == Only(B, S)
 <2>1. A \in Seq(Blocks) /\ B \in Seq(Blocks) /\ ToSet(B) \subseteq ToSet(s0) /\ s0 = A \o B
  <3>1. Len(s0) \in Nat /\ j \in Nat /\ 1 <= j /\ j <= Len(s0) /\ DOMAIN s0 = 1 .. Len(s0)
   BY <1>3
  <3>2. A \in Seq(Blocks)
   BY <3>1, PartFacts
  <3>3. B \in Seq(Blocks) /\ ToSet(B) = {s0[k] : k \in j + 1 .. Len(s0)}
   <4>1. j + 1 \in Int /\ Len(s0) \in Int /\ 1 <= j + 1 /\ Len(s0) <= Len(s0)
    BY <3>1
   <4> HIDE DEF B
   <4>2. LET x == SubSeq(s0, j + 1, Len(s0))
         IN x \in Seq(Blocks) /\ ToSet(x) = {s0[k] : k \in j + 1 .. Len(s0)}
    BY <4>1, PartFacts
   <4> QED BY <4>2 DEF B
  <3>4. {s0[k] : k \in j + 1 .. Len(s0)} \subseteq ToSet(s0)
   BY <3>1 DEF ToSet
  <3>5. A \o B = SubSeq(s0, 1, Len(s0))
   <4>1. 1 \in 1 .. Len(s0) + 1 /\ j \in 1 - 1 .. Len(s0) /\ Len(s0) \in j .. Len(s0)
    BY <3>1
   <4> QED BY <4>1, ConcatAdjacentSubSeq
  <3>6. SubSeq(s0, 1, Len(s0)) = s0
   BY SubSeqFull
  <3> QED BY <3>2, <3>3, <3>4, <3>5, <3>6
 <2>2. rest = Only(B, ToSet(s))
  BY <1>3 DEF Rest
 <2> HIDE DEF A, B, rest, s
 <2>3. Only(B, ToSet(s)) = b
  <3>1. ToSet(B) \cap ToSet(s) = ToSet(B) \cap S
   BY <1>1, <2>1
  <3> QED BY <2>1, <3>1, OnlySame
 <2>4. s = a \o b /\ a \in Seq(Blocks) /\ b \in Seq(Blocks)
  <3>1. Only(A \o B, S) = Only(A, S) \o Only(B, S)
   BY <2>1, OnlyConcat
  <3> QED BY <2>1, <3>1, OnlyFacts DEF s
 <2> HIDE DEF a, b
 <2>5. Len(s) - Len(rest) = Len(a)
  <3>1. Len(s) = Len(a) + Len(b) /\ Len(a) \in Nat /\ Len(b) \in Nat
   BY <2>4, ConcatMembers
  <3> QED BY <2>2, <2>3, <3>1
 <2>6. pre = a
  BY <2>4, <2>5, ConcatParts
 <2>7. rest \in Seq(Blocks) /\ pre \in Seq(Blocks) /\ s = pre \o rest
  BY <2>2, <2>3, <2>4, <2>6
 <2> QED BY <2>7 DEF rest, s
<1> QED BY <1>2, <1>3

\* The place an insertion goes on with.
LEMMA StopIsPlace ==
    ASSUME NEW s, NEW pre \in Seq(Blocks), NEW rest \in Seq(Blocks), NEW r,
           s = pre \o rest,
           r.prev = IF pre = <<>> THEN NULL ELSE Last(pre),
           r.next = IF rest = <<>> THEN NULL ELSE Head(rest)
    PROVE  /\ PlaceOf(s, r) /\ {r.prev, r.next} \subseteq Blocks \cup {NULL}
           /\ {r.prev, r.next} \ {NULL} \subseteq ToSet(s)
<1>1. ToSet(s) = ToSet(pre) \cup ToSet(rest)
 BY ConcatMembers
<1>2. /\ pre # <<>> => r.prev \in Blocks /\ r.prev \in ToSet(s) /\ \E a \in Seq(Blocks) : pre = Append(a, r.prev)
      /\ rest # <<>> => r.next \in Blocks /\ r.next \in ToSet(s) /\ \E a \in Seq(Blocks) : rest = <<r.next>> \o a
 <2>1. ASSUME pre # <<>>
       PROVE  r.prev \in Blocks /\ r.prev \in ToSet(s) /\ \E a \in Seq(Blocks) : pre = Append(a, r.prev)
  <3>1. r.prev = Last(pre)
   BY <2>1
  <3>2. /\ Last(pre) \in Blocks /\ Last(pre) \in ToSet(pre)
        /\ \E a \in Seq(Blocks) : pre = Append(a, Last(pre))
   BY <2>1, EndsFacts
  <3> QED BY <1>1, <3>1, <3>2
 <2>2. ASSUME rest # <<>>
       PROVE  r.next \in Blocks /\ r.next \in ToSet(s) /\ \E a \in Seq(Blocks) : rest = <<r.next>> \o a
  <3>1. r.next = Head(rest)
   BY <2>2
  <3>2. /\ Head(rest) \in Blocks /\ Head(rest) \in ToSet(rest)
        /\ \E a \in Seq(Blocks) : rest = <<Head(rest)>> \o a
   BY <2>2, EndsFacts
  <3> QED BY <1>1, <3>1, <3>2
 <2> QED BY <2>1, <2>2
<1>3. NULL \notin Blocks
 BY CacheAssumption
<1>4. ToSet(s) \subseteq Blocks
 <2>1. \A q \in Seq(Blocks) : ToSet(q) \subseteq Blocks
  BY ElementOfSeq DEF ToSet
 <2> QED BY <1>1, <2>1
<1>5. r.prev = NULL => pre = <<>>
 BY <1>2, <1>3
<1>6. r.next = NULL => rest = <<>>
 BY <1>2, <1>3
<1>7. r.prev \in ToSet(s) => \E a \in Seq(Blocks) : pre = Append(a, r.prev)
 BY <1>2, <1>3, <1>4
<1>8. r.next \in ToSet(s) => \E a \in Seq(Blocks) : rest = <<r.next>> \o a
 BY <1>2, <1>3, <1>4
<1>9. PlaceOf(s, r)
 BY <1>5, <1>6, <1>7, <1>8 DEF PlaceOf
<1> QED BY <1>2, <1>9

--------------------
(* An entry is linked into a chain.                                          *)

\* A list contains its members.
LEMMA ContainsIs ==
    ASSUME NEW s \in Seq(Blocks), NEW x
    PROVE  Contains(s, x) <=> x \in ToSet(s)
<1>1. DOMAIN s = 1 .. Len(s)
 OBVIOUS
<1> QED BY <1>1 DEF Contains, ToSet

\* The place of a member, the only one if none is repeated.
LEMMA IndexIs ==
    ASSUME NEW s \in Seq(Blocks), NEW x \in ToSet(s)
    PROVE  /\ IndexOf(s, x) \in 1 .. Len(s)
           /\ NoDup(s) => \A k \in 1 .. Len(s) : s[k] = x => IndexOf(s, x) = k
<1>1. DOMAIN s = 1 .. Len(s)
 OBVIOUS
<1>2. \E i \in DOMAIN s : s[i] = x
 BY DEF ToSet
<1>3. IndexOf(s, x) \in DOMAIN s /\ s[IndexOf(s, x)] = x
 BY <1>2 DEF IndexOf
<1> QED BY <1>1, <1>3 DEF NoDup

\* What follows the new entry.
After(s, r) ==
    IF r.next = NULL THEN <<>>
    ELSE IF Contains(s, r.next) THEN SubSeq(s, IndexOf(s, r.next), Len(s))
    ELSE <<r.next>>

\* What precedes it.
Before(s, r) == SubSeq(s, 1, IF r.prev = NULL THEN 0 ELSE IndexOf(s, r.prev))

\* Chain s with the entry of r.
NewChain(s, r) ==
    IF r.prev # NULL /\ ~Contains(s, r.prev) THEN s
    ELSE Before(s, r) \o <<r.e>> \o After(s, r)

\* A list of one.
LEMMA OneFacts ==
    ASSUME NEW x \in Blocks
    PROVE  <<x>> \in Seq(Blocks) /\ ToSet(<<x>>) = {x} /\ NoDup(<<x>>) /\ Len(<<x>>) = 1
BY DEF ToSet, NoDup

\* What is around a new entry are lists of blocks.
LEMMA AroundTypes ==
    ASSUME NEW s \in Seq(Blocks), NEW r, r.prev \in Blocks \cup {NULL}, r.next \in Blocks \cup {NULL},
           r.prev # NULL => Contains(s, r.prev)
    PROVE  Before(s, r) \in Seq(Blocks) /\ After(s, r) \in Seq(Blocks)
<1>1. Before(s, r) \in Seq(Blocks)
 <2>1. CASE r.prev = NULL
  <3>1. Before(s, r) = <<>>
   BY <2>1, SubSeqEmpty DEF Before
  <3> QED BY <3>1
 <2>2. CASE r.prev # NULL
  <3> DEFINE i == IndexOf(s, r.prev)
  <3>1. i \in 1 .. Len(s)
   BY <2>2, ContainsIs, IndexIs
  <3>2. Before(s, r) = SubSeq(s, 1, i)
   BY <2>2 DEF Before
  <3> HIDE DEF i
  <3>3. i \in Int /\ 1 <= 1 /\ i <= Len(s)
   BY <3>1
  <3> QED BY <3>2, <3>3, PartFacts
 <2> QED BY <2>1, <2>2
<1>2. After(s, r) \in Seq(Blocks)
 <2>1. CASE r.next = NULL
  BY <2>1 DEF After
 <2>2. CASE r.next # NULL /\ Contains(s, r.next)
  <3> DEFINE i == IndexOf(s, r.next)
  <3>1. i \in 1 .. Len(s) /\ Len(s) \in Nat
   BY <2>2, ContainsIs, IndexIs
  <3>2. After(s, r) = SubSeq(s, i, Len(s))
   BY <2>2 DEF After
  <3> HIDE DEF i
  <3>3. i \in Int /\ 1 <= i /\ Len(s) <= Len(s)
   BY <3>1
  <3> QED BY <3>1, <3>2, <3>3, PartFacts
 <2>3. CASE r.next # NULL /\ ~Contains(s, r.next)
  <3>1. After(s, r) = <<r.next>> /\ r.next \in Blocks
   BY <2>3 DEF After
  <3> QED BY <3>1, OneFacts
 <2> QED BY <2>1, <2>2, <2>3
<1> QED BY <1>1, <1>2

\* So is the chain it is linked into.
LEMMA NewChainType ==
    ASSUME NEW s \in Seq(Blocks), NEW r, r.prev \in Blocks \cup {NULL}, r.next \in Blocks \cup {NULL},
           r.e \in Blocks
    PROVE  NewChain(s, r) \in Seq(Blocks)
<1>1. CASE r.prev # NULL /\ ~Contains(s, r.prev)
 BY <1>1 DEF NewChain
<1>2. CASE ~(r.prev # NULL /\ ~Contains(s, r.prev))
 <2> DEFINE a == Before(s, r)
            b == After(s, r)
            o == <<r.e>>
 <2>1. a \in Seq(Blocks) /\ b \in Seq(Blocks) /\ o \in Seq(Blocks)
  BY <1>2, AroundTypes, OneFacts
 <2>2. NewChain(s, r) = (a \o o) \o b
  BY <1>2 DEF NewChain
 <2> HIDE DEF a, b, o
 <2>3. a \o o \in Seq(Blocks)
  BY <2>1, ConcatProperties
 <2>4. (a \o o) \o b \in Seq(Blocks)
  BY <2>1, <2>3, ConcatProperties
 <2> QED BY <2>2, <2>4
<1> QED BY <1>1, <1>2

\* In its place, the entry is one more of the chain.
LEMMA NewChainIs ==
    ASSUME NEW s \in Seq(Blocks), NEW r, r.prev \in Blocks \cup {NULL}, r.next \in Blocks \cup {NULL},
           r.e \in Blocks, NoDup(s), PlaceOf(s, r), {r.prev, r.next} \ {NULL} \subseteq ToSet(s),
           r.e \notin ToSet(s)
    PROVE  /\ NewChain(s, r) \in Seq(Blocks) /\ NoDup(NewChain(s, r))
           /\ ToSet(NewChain(s, r)) = ToSet(s) \cup {r.e}
           /\ Len(NewChain(s, r)) = Len(s) + 1
<1>1. PICK pre \in Seq(Blocks), post \in Seq(Blocks) :
        /\ s = pre \o post
        /\ r.prev = NULL => pre = <<>>
        /\ r.prev \in ToSet(s) => \E a \in Seq(Blocks) : pre = Append(a, r.prev)
        /\ r.next = NULL => post = <<>>
        /\ r.next \in ToSet(s) => \E a \in Seq(Blocks) : post = <<r.next>> \o a
 BY DEF PlaceOf
<1>2. /\ Len(s) = Len(pre) + Len(post) /\ Len(pre) \in Nat /\ Len(post) \in Nat
      /\ ToSet(s) = ToSet(pre) \cup ToSet(post)
      /\ NoDup(pre) /\ NoDup(post) /\ ToSet(pre) \cap ToSet(post) = {}
      /\ SubSeq(s, 1, Len(pre)) = pre /\ SubSeq(s, Len(pre) + 1, Len(s)) = post
 <2>1. /\ Len(pre \o post) = Len(pre) + Len(post)
       /\ ToSet(pre \o post) = ToSet(pre) \cup ToSet(post)
       /\ NoDup(pre \o post) <=> NoDup(pre) /\ NoDup(post) /\ ToSet(pre) \cap ToSet(post) = {}
  BY ConcatMembers
 <2>2. SubSeq(pre \o post, 1, Len(pre)) = pre /\ SubSeq(pre \o post, Len(pre) + 1, Len(pre \o post)) = post
  BY ConcatParts
 <2>3. Len(pre) \in Nat /\ Len(post) \in Nat
  OBVIOUS
 <2> QED BY <1>1, <2>1, <2>2, <2>3
<1>3. \A i \in 1 .. Len(pre) + Len(post) : s[i] = IF i <= Len(pre) THEN pre[i] ELSE post[i - Len(pre)]
 BY <1>1, ConcatProperties
<1>4. Before(s, r) = pre
 <2>1. CASE r.prev = NULL
  <3>1. SubSeq(s, 1, 0) = <<>>
   BY SubSeqEmpty
  <3> QED BY <1>1, <2>1, <3>1 DEF Before
 <2>2. CASE r.prev # NULL
  <3>1. r.prev \in ToSet(s)
   BY <2>2
  <3>2. PICK a \in Seq(Blocks) : pre = Append(a, r.prev)
   BY <1>1, <3>1
  <3>3. r.prev \in Blocks
   BY <2>2
  <3>4. Len(pre) = Len(a) + 1 /\ pre[Len(a) + 1] = r.prev /\ Len(a) \in Nat
   BY <3>2, <3>3, AppendFacts
  <3>5. Len(pre) \in 1 .. Len(s) /\ s[Len(pre)] = r.prev
   BY <1>2, <1>3, <3>4
  <3>6. IndexOf(s, r.prev) = Len(pre)
   BY <3>1, <3>5, IndexIs
  <3> QED BY <1>2, <2>2, <3>6 DEF Before
 <2> QED BY <2>1, <2>2
<1>5. After(s, r) = post
 <2>1. CASE r.next = NULL
  BY <1>1, <2>1 DEF After
 <2>2. CASE r.next # NULL
  <3>1. r.next \in ToSet(s) /\ Contains(s, r.next)
   BY <2>2, ContainsIs
  <3>2. PICK a \in Seq(Blocks) : post = <<r.next>> \o a
   BY <1>1, <3>1
  <3>3. r.next \in Blocks
   BY <2>2
  <3>4. Len(post) = 1 + Len(a) /\ Len(a) \in Nat /\ post[1] = r.next
   <4> DEFINE o == <<r.next>>
   <4>1. o \in Seq(Blocks) /\ Len(o) = 1 /\ o[1] = r.next
    BY <3>3
   <4>2. post = o \o a
    BY <3>2
   <4> HIDE DEF o
   <4>3. Len(o \o a) = Len(o) + Len(a) /\ Len(a) \in Nat
    <5>1. Len(o \o a) = Len(o) + Len(a)
     BY <4>1, ConcatProperties
    <5> QED BY <5>1
   <4>4. \A i \in 1 .. Len(o) + Len(a) : (o \o a)[i] = IF i <= Len(o) THEN o[i] ELSE a[i - Len(o)]
    BY <4>1, ConcatProperties
   <4>5. 1 \in 1 .. Len(o) + Len(a) /\ 1 <= Len(o)
    BY <4>1, <4>3
   <4>6. (o \o a)[1] = o[1]
    BY <4>4, <4>5
   <4> QED BY <4>1, <4>2, <4>3, <4>6
  <3>5. Len(pre) + 1 \in 1 .. Len(s) /\ s[Len(pre) + 1] = r.next
   <4>1. Len(pre) + 1 \in 1 .. Len(pre) + Len(post) /\ ~(Len(pre) + 1 <= Len(pre)) /\ (Len(pre) + 1) - Len(pre) = 1
    BY <1>2, <3>4
   <4> QED BY <1>2, <1>3, <3>4, <4>1
  <3>6. IndexOf(s, r.next) = Len(pre) + 1
   BY <3>1, <3>5, IndexIs
  <3> QED BY <1>2, <2>2, <3>1, <3>6 DEF After
 <2> QED BY <2>1, <2>2
<1>6. r.prev # NULL => Contains(s, r.prev)
 BY ContainsIs
<1> DEFINE o == <<r.e>>
           po == pre \o o
<1>7. NewChain(s, r) = po \o post
 BY <1>4, <1>5, <1>6 DEF NewChain
<1>8. o \in Seq(Blocks) /\ ToSet(o) = {r.e} /\ NoDup(o) /\ Len(o) = 1
 BY OneFacts
<1> HIDE DEF o
<1>9. po \in Seq(Blocks) /\ Len(po) = Len(pre) + 1 /\ ToSet(po) = ToSet(pre) \cup {r.e} /\ NoDup(po)
 <2>1. ToSet(pre) \cap ToSet(o) = {}
  BY <1>2, <1>8
 <2>2. /\ pre \o o \in Seq(Blocks) /\ Len(pre \o o) = Len(pre) + Len(o)
       /\ ToSet(pre \o o) = ToSet(pre) \cup ToSet(o)
       /\ NoDup(pre \o o) <=> NoDup(pre) /\ NoDup(o) /\ ToSet(pre) \cap ToSet(o) = {}
  BY <1>8, ConcatMembers
 <2> QED BY <1>2, <1>8, <2>1, <2>2
<1> HIDE DEF po
<1>10. ToSet(po) \cap ToSet(post) = {}
 BY <1>2, <1>9
<1>11. /\ po \o post \in Seq(Blocks) /\ Len(po \o post) = Len(po) + Len(post)
       /\ ToSet(po \o post) = ToSet(po) \cup ToSet(post) /\ NoDup(po \o post)
 BY <1>2, <1>9, <1>10, ConcatMembers
<1> QED BY <1>2, <1>7, <1>9, <1>11

\* An entry for r that can be linked, and what v has when it was.
Links(m, r, block) ==
    /\ m \in MemType /\ block \in Blocks \cup {NULL} /\ r.c \in Caches /\ r.e \in Blocks
    /\ r.prev \in Blocks \cup {NULL} /\ r.next \in Blocks \cup {NULL}
    /\ SlotFor(r, block) \in SlotType

\* v is m with the entry linked, in its place or not.
LinkedAs(m, v, r, block) ==
    /\ v \in MemType /\ v.used = m.used \cup ({block} \ {NULL})
    /\ v.slot = [m.slot EXCEPT ![r.e] = SlotFor(r, block)]
    /\ v.cache[r.c].chain = NewChain(m.cache[r.c].chain, r)
    /\ v.cache[r.c].num_entries = m.cache[r.c].num_entries + 1
    /\ v.cache[r.c].deleted_list = m.cache[r.c].deleted_list
    /\ \A d \in Caches \ {r.c} : v.cache[d] = m.cache[d]

\* What linking changes.
LEMMA LinkedIs ==
    ASSUME NEW m, NEW r, NEW block, Links(m, r, block)
    PROVE  LinkedAs(m, Linked(m, r, block), r, block)
<1>0. /\ m \in MemType /\ block \in Blocks \cup {NULL} /\ r.c \in Caches /\ r.e \in Blocks
      /\ r.prev \in Blocks \cup {NULL} /\ r.next \in Blocks \cup {NULL}
      /\ SlotFor(r, block) \in SlotType
 BY DEF Links
<1> USE <1>0
<1> DEFINE c == r.c
           s == NewChain(m.cache[c].chain, r)
           n == m.cache[c].num_entries + 1
           k == [[m.cache[c] EXCEPT !.num_entries = n] EXCEPT !.chain = s]
           C == [m.cache EXCEPT ![c] = k]
           S == [m.slot EXCEPT ![r.e] = SlotFor(r, block)]
           U == m.used \cup ({block} \ {NULL})
           v == Linked(m, r, block)
<1>1. /\ m.cache[c] \in CacheType /\ s \in Seq(Blocks) /\ n \in Int /\ m.cache \in [Caches -> CacheType]
      /\ m.used \subseteq Blocks /\ m.slot \in [Blocks -> SlotType]
 BY MemTypes, NewChainType
<1>2. v = [m EXCEPT !.slot[r.e] = SlotFor(r, block), !.used = @ \cup ({block} \ {NULL}),
                    !.cache[c] = k]
 BY DEF Linked, NewChain, Before, After
<1> HIDE DEF s, k
<1>3. v = [used |-> U, slot |-> S, cache |-> C]
 <2> DEFINE w1 == [m EXCEPT !.slot[r.e] = SlotFor(r, block)]
            w2 == [w1 EXCEPT !.used = @ \cup ({block} \ {NULL})]
 <2>1. w1 = [used |-> m.used, slot |-> S, cache |-> m.cache]
  <3>1. w1 = [m EXCEPT !.slot = S]
   OBVIOUS
  <3> HIDE DEF S, w1
  <3> QED BY <3>1 DEF MemType
 <2>2. v = [w2 EXCEPT !.cache[c] = k]
  BY <1>2
 <2> HIDE DEF w1, S, v
 <2>3. w2 = [used |-> U, slot |-> S, cache |-> m.cache]
  <3>1. w1.used = m.used
   BY <2>1
  <3>2. w2 = [w1 EXCEPT !.used = U]
   BY <3>1
  <3> HIDE DEF w2, U
  <3> QED BY <2>1, <3>2
 <2> HIDE DEF w2, U
 <2>4. v = [w2 EXCEPT !.cache = [w2.cache EXCEPT ![c] = k]] /\ w2.cache = m.cache
  BY <2>2, <2>3
 <2>5. v = [w2 EXCEPT !.cache = C]
  BY <2>4
 <2> HIDE DEF C
 <2> QED BY <2>3, <2>5
<1>4. /\ k \in CacheType /\ k.chain = s /\ k.num_entries = n /\ k.deleted_list = m.cache[c].deleted_list
 <2> HIDE DEF n
 <2> QED BY <1>1 DEF CacheType, k
<1>5. C \in [Caches -> CacheType] /\ C[c] = k /\ \A d \in Caches \ {c} : C[d] = m.cache[d]
 BY <1>1, <1>4
<1>6. S \in [Blocks -> SlotType]
 BY <1>1
<1>7. U \subseteq Blocks
 BY <1>1
<1> HIDE DEF C, S, U, v
<1>8. v \in MemType /\ v.used = U /\ v.slot = S /\ v.cache = C
 BY <1>3, <1>5, <1>6, <1>7, MemFields
<1>9. /\ v \in MemType /\ v.used = U /\ v.slot = S /\ v.cache[c].chain = s
      /\ v.cache[c].num_entries = n /\ v.cache[c].deleted_list = m.cache[c].deleted_list
      /\ \A d \in Caches \ {c} : v.cache[d] = m.cache[d]
 BY <1>4, <1>5, <1>8
<1> QED BY <1>9 DEF v, U, S, s, n, LinkedAs

\* What a memory in order consists of.
LEMMA HeapTypes ==
    ASSUME NEW m, NEW P, Heap(m, P)
    PROVE  /\ m \in MemType /\ Entries(m) \subseteq Blocks
           /\ BlocksOK(m, P) /\ ListsOK(m) /\ KeysOK(m)
           /\ m.used \subseteq Blocks /\ m.slot \in [Blocks -> SlotType]
           /\ m.cache \in [Caches -> CacheType] /\ NULL \notin Blocks
<1>1. "file" \in Caches
 BY DEF Caches
<1> QED BY <1>1, EntriesTypes, MemTypes, CacheAssumption DEF Heap

\* v is m with one entry more, e, which was a process's pool.
Joined(m, v, e) ==
    /\ Entries(v) = Entries(m) \cup {e} /\ e \notin Entries(m)
    /\ m.used \subseteq v.used
    /\ v.slot[e].ref_count = 0
    /\ \A b \in Entries(m) : v.slot[b] = m.slot[b]

\* Memory m has r's pool, which is in P, and its place; block is free, or none.
CanLink(P, m, r, block) ==
    /\ Heap(m, P) /\ r.c \in Caches /\ r.e \in P /\ r.key \in Keys(r.c)
    /\ block \in (Blocks \ m.used) \cup {NULL} /\ SlotFor(r, block) \in SlotType
    /\ {r.prev, r.next} \subseteq Blocks \cup {NULL}
    /\ PlaceOf(m.cache[r.c].chain, r) /\ PlaceIntact(m, r)
    /\ \A b \in Chained(m, r.c) : m.slot[b].key # r.key

\* v is m after that.
LinkedWell(P, m, v, r, block) ==
    /\ Heap(v, P \ {r.e}) /\ Joined(m, v, r.e) /\ v \in MemType
    /\ v.used = m.used \cup ({block} \ {NULL})
    /\ \A d \in Caches \ {r.c} : v.cache[d] = m.cache[d]

\* The entry of r is linked in its place.
LEMMA LinkedHeap ==
    ASSUME NEW P, NEW m, NEW r, NEW block, CanLink(P, m, r, block)
    PROVE  LinkedWell(P, m, Linked(m, r, block), r, block)
<1>0. /\ block \in (Blocks \ m.used) \cup {NULL}
      /\ Heap(m, P) /\ r.c \in Caches /\ r.e \in P
      /\ {r.prev, r.next} \subseteq Blocks \cup {NULL} /\ SlotFor(r, block) \in SlotType
      /\ PlaceOf(m.cache[r.c].chain, r) /\ PlaceIntact(m, r)
      /\ r.key \in Keys(r.c) /\ \A b \in Chained(m, r.c) : m.slot[b].key # r.key
 BY DEF CanLink
<1> USE <1>0
<1> DEFINE c == r.c
           e == r.e
           ch == m.cache[c].chain
           nc == NewChain(ch, r)
           x == SlotFor(r, block)
           v == Linked(m, r, block)
<1>1. /\ m \in MemType /\ Entries(m) \subseteq Blocks /\ BlocksOK(m, P) /\ ListsOK(m) /\ KeysOK(m)
      /\ m.used \subseteq Blocks /\ m.slot \in [Blocks -> SlotType] /\ NULL \notin Blocks
 BY HeapTypes
<1>2. /\ e \in m.used /\ e \in Blocks /\ e \notin Entries(m)
      /\ \A d \in Caches : e \notin Chained(m, d) /\ e \notin Deleted(m, d)
 BY <1>1, EntriesAre DEF BlocksOK
<1>3. /\ v \in MemType /\ v.used = m.used \cup ({block} \ {NULL})
      /\ v.slot = [m.slot EXCEPT ![e] = x]
      /\ v.cache[c].chain = nc
      /\ v.cache[c].num_entries = m.cache[c].num_entries + 1
      /\ v.cache[c].deleted_list = m.cache[c].deleted_list
      /\ \A d \in Caches \ {c} : v.cache[d] = m.cache[d]
 <2>1. Links(m, r, block)
  BY <1>1, <1>2 DEF Links
 <2>2. LinkedAs(m, v, r, block)
  BY <2>1, LinkedIs
 <2> HIDE DEF v
 <2> QED BY <2>2 DEF LinkedAs
<1>4. /\ nc \in Seq(Blocks) /\ NoDup(nc) /\ ToSet(nc) = Chained(m, c) \cup {e}
      /\ Len(nc) = m.cache[c].num_entries + 1
 <2>1. ch \in Seq(Blocks) /\ NoDup(ch) /\ e \notin ToSet(ch) /\ Len(ch) = m.cache[c].num_entries
  BY <1>1, <1>2, MemTypes DEF ListsOK, KeysOK, Chained
 <2>2. PlaceOf(ch, r) /\ {r.prev, r.next} \ {NULL} \subseteq ToSet(ch)
  BY DEF PlaceIntact
 <2>3. r.prev \in Blocks \cup {NULL} /\ r.next \in Blocks \cup {NULL}
  OBVIOUS
 <2> HIDE DEF ch
 <2>4. /\ nc \in Seq(Blocks) /\ NoDup(nc) /\ ToSet(nc) = ToSet(ch) \cup {e} /\ Len(nc) = Len(ch) + 1
  BY <1>2, <2>1, <2>2, <2>3, NewChainIs
 <2> QED BY <2>1, <2>4 DEF Chained, ch
<1>5. x.key = r.key /\ x.block = block /\ x.ref_count = 0
 BY DEF SlotFor
<1> HIDE DEF nc, x, v
<1>6. /\ \A d \in Caches : Chained(v, d) = IF d = c THEN Chained(m, d) \cup {e} ELSE Chained(m, d)
      /\ \A d \in Caches : Deleted(v, d) = Deleted(m, d)
 BY <1>3, <1>4 DEF Chained, Deleted
<1>7. Entries(v) = Entries(m) \cup {e}
 <2>1. \A b : b \in Entries(v) => b \in Entries(m) \cup {e}
  BY <1>6, EntriesAre
 <2>2. e \in Entries(v)
  BY <1>6, EntriesAre
 <2>3. \A b : b \in Entries(m) => b \in Entries(v)
  BY <1>6, EntriesAre
 <2> QED BY <2>1, <2>2, <2>3
<1>8. v.slot[e] = x /\ \A b \in Blocks \ {e} : v.slot[b] = m.slot[b]
 BY <1>1, <1>2, <1>3
<1>9. ListsOK(v)
 <2> SUFFICES ASSUME NEW d \in Caches
              PROVE  /\ NoDup(v.cache[d].chain) /\ NoDup(v.cache[d].deleted_list)
                     /\ \A f \in Caches :
                           /\ Chained(v, d) \cap Deleted(v, f) = {}
                           /\ d # f => /\ Chained(v, d) \cap Chained(v, f) = {}
                                       /\ Deleted(v, d) \cap Deleted(v, f) = {}
  BY DEF ListsOK
 <2>1. NoDup(v.cache[d].chain) /\ NoDup(v.cache[d].deleted_list)
  <3>1. CASE d = c
   BY <3>1, <1>1, <1>3, <1>4 DEF ListsOK
  <3>2. CASE d # c
   <4>1. v.cache[d] = m.cache[d]
    BY <1>3, <3>2
   <4> QED BY <4>1, <1>1 DEF ListsOK
  <3> QED BY <3>1, <3>2
 <2>2. \A f \in Caches :
           /\ Chained(m, d) \cap Deleted(m, f) = {}
           /\ d # f => /\ Chained(m, d) \cap Chained(m, f) = {}
                       /\ Deleted(m, d) \cap Deleted(m, f) = {}
  BY <1>1 DEF ListsOK
 <2> QED BY <1>2, <1>6, <2>1, <2>2
<1>10. BlocksOK(v, P \ {e})
 <2>1. Entries(v) \subseteq v.used /\ P \ {e} \subseteq v.used /\ (P \ {e}) \cap Entries(v) = {}
  BY <1>1, <1>2, <1>3, <1>7 DEF BlocksOK
 <2>2. ASSUME NEW b \in Entries(v), v.slot[b].block # NULL
       PROVE  /\ v.slot[b].block \in v.used \ (Entries(v) \cup (P \ {e}))
              /\ \A a \in Entries(v) : v.slot[a].block = v.slot[b].block => a = b
  <3>1. \A a \in Entries(m) : a # e /\ v.slot[a] = m.slot[a]
   BY <1>1, <1>2, <1>8
  <3>2. \A a \in Entries(m) : m.slot[a].block # NULL =>
           /\ m.slot[a].block \in m.used \ (Entries(m) \cup P)
           /\ \A f \in Entries(m) : m.slot[f].block = m.slot[a].block => f = a
   BY <1>1 DEF BlocksOK
  <3>3. CASE b = e
   <4>1. v.slot[b].block = block /\ block \in Blocks \ m.used /\ block # NULL
    BY <3>3, <2>2, <1>5, <1>8
   <4>2. block \in v.used /\ block \notin Entries(v) /\ block \notin P
    BY <4>1, <1>1, <1>2, <1>3, <1>7 DEF BlocksOK
   <4>3. \A a \in Entries(m) : v.slot[a].block # block
    BY <3>1, <3>2, <4>1
   <4> QED BY <3>3, <4>1, <4>2, <4>3, <1>7
  <3>4. CASE b # e
   <4>1. b \in Entries(m) /\ v.slot[b] = m.slot[b]
    BY <3>1, <3>4, <1>7
   <4>2. m.slot[b].block \in m.used \ (Entries(m) \cup P)
    BY <2>2, <3>2, <4>1
   <4>3. v.slot[e].block # m.slot[b].block
    BY <4>2, <1>1, <1>5, <1>8
   <4>4. \A a \in Entries(v) : v.slot[a].block = v.slot[b].block => a = b
    BY <2>2, <3>1, <3>2, <4>1, <4>3, <1>7
   <4>5. m.slot[b].block # e
    BY <4>2
   <4> QED BY <4>1, <4>2, <4>4, <4>5, <1>3, <1>7
  <3> QED BY <3>3, <3>4
 <2>3. ASSUME NEW b \in Blocks \ Entries(v) PROVE v.slot[b] = BlankSlot
  BY <1>1, <1>7, <1>8 DEF BlocksOK
 <2>4. ASSUME NEW b \in v.used
       PROVE  b \in Entries(v) \cup (P \ {e}) \/ \E a \in Entries(v) : v.slot[a].block = b
  <3>1. CASE b \in m.used
   <4>1. CASE b \in Entries(m) \cup P
    BY <4>1, <1>7
   <4>2. CASE \E a \in Entries(m) : m.slot[a].block = b
    BY <4>2, <1>1, <1>2, <1>7, <1>8
   <4> QED BY <3>1, <4>1, <4>2, <1>1 DEF BlocksOK
  <3>2. CASE b \notin m.used
   <4>1. b = block
    BY <3>2, <1>3
   <4> QED BY <4>1, <1>5, <1>7, <1>8
  <3> QED BY <3>1, <3>2
 <2> QED BY <2>1, <2>2, <2>3, <2>4 DEF BlocksOK
<1>11. KeysOK(v)
 <2> SUFFICES ASSUME NEW d \in Caches
              PROVE  /\ v.cache[d].num_entries = Len(v.cache[d].chain)
                     /\ \A a, b \in Chained(v, d) : v.slot[a].key = v.slot[b].key => a = b
                     /\ \A b \in Chained(v, d) : v.slot[b].key \in Keys(d)
  BY DEF KeysOK
 <2>1. \A b \in Chained(m, d) : b # e /\ v.slot[b] = m.slot[b]
  BY <1>1, <1>2, <1>8, EntriesAre
 <2>2. /\ m.cache[d].num_entries = Len(m.cache[d].chain)
       /\ \A a, b \in Chained(m, d) : m.slot[a].key = m.slot[b].key => a = b
       /\ \A b \in Chained(m, d) : m.slot[b].key \in Keys(d)
  BY <1>1 DEF KeysOK
 <2>3. CASE d = c
  <3>1. v.cache[d].num_entries = Len(v.cache[d].chain)
   BY <2>3, <1>3, <1>4
  <3>2. \A b \in Chained(m, d) : v.slot[b].key # v.slot[e].key
   BY <2>1, <2>3, <1>5, <1>8
  <3>3. Chained(v, d) = Chained(m, d) \cup {e}
   BY <2>3, <1>6
  <3>4. v.slot[e].key \in Keys(d)
   BY <2>3, <1>5, <1>8
  <3> QED BY <2>1, <2>2, <3>1, <3>2, <3>3, <3>4
 <2>4. CASE d # c
  <3>1. v.cache[d] = m.cache[d] /\ Chained(v, d) = Chained(m, d)
   BY <2>4, <1>3, <1>6
  <3> QED BY <2>1, <2>2, <3>1
 <2> QED BY <2>3, <2>4
<1>12. Joined(m, v, e)
 <2>1. \A b \in Entries(m) : v.slot[b] = m.slot[b]
  BY <1>1, <1>2, <1>8
 <2> QED BY <1>2, <1>3, <1>5, <1>7, <1>8, <2>1 DEF Joined
<1>13. /\ Heap(v, P \ {e}) /\ Joined(m, v, e) /\ \A d \in Caches \ {c} : v.cache[d] = m.cache[d]
       /\ v \in MemType /\ v.used = m.used \cup ({block} \ {NULL})
 BY <1>3, <1>9, <1>10, <1>11, <1>12 DEF Heap
<1> QED BY <1>13 DEF v, LinkedWell

--------------------
(* The pools of processes.                                                   *)

\* A pool that is not an entry is given back.
LEMMA PrivateFreed ==
    ASSUME NEW P, NEW m, NEW e \in P, Heap(m, P)
    PROVE  /\ Heap(Freed(m, e), P \ {e})
           /\ Freed(m, e).used = m.used \ {e} /\ Freed(m, e).cache = m.cache
           /\ Freed(m, e).slot = m.slot /\ Freed(m, e) \in MemType
           /\ e \in Blocks /\ e \notin Entries(m)
<1> DEFINE v == Freed(m, e)
<1>1. /\ m \in MemType /\ Entries(m) \subseteq Blocks /\ BlocksOK(m, P) /\ ListsOK(m) /\ KeysOK(m)
      /\ m.used \subseteq Blocks /\ m.slot \in [Blocks -> SlotType]
 BY HeapTypes
<1>2. e \in m.used /\ e \in Blocks /\ e \notin Entries(m) /\ m.slot[e] = BlankSlot
 BY <1>1 DEF BlocksOK
<1>3. PoolOf(m, e) = {e}
 BY <1>2 DEF PoolOf, BlankSlot
<1>4. /\ v \in MemType /\ v.cache = m.cache /\ v.used = m.used \ {e} /\ v.slot = [m.slot EXCEPT ![e] = BlankSlot]
 BY <1>1, <1>2, <1>3, FreedIs
<1>5. v.slot = m.slot
 BY <1>1, <1>2, <1>4
<1> HIDE DEF v
<1>6. Entries(v) = Entries(m) /\ \A d \in Caches : Chained(v, d) = Chained(m, d) /\ Deleted(v, d) = Deleted(m, d)
 BY <1>4 DEF Entries, Chained, Deleted
<1>7. BlocksOK(v, P \ {e})
 BY <1>1, <1>2, <1>4, <1>5, <1>6 DEF BlocksOK
<1>8. ListsOK(v)
 BY <1>1, <1>4, <1>6 DEF ListsOK
<1>9. KeysOK(v)
 BY <1>1, <1>4, <1>5, <1>6 DEF KeysOK
<1>10. Heap(v, P \ {e}) /\ v.used = m.used \ {e} /\ v.cache = m.cache /\ v.slot = m.slot /\ v \in MemType
 BY <1>4, <1>5, <1>7, <1>8, <1>9 DEF Heap
<1> QED BY <1>2, <1>10 DEF v

\* A free block becomes a pool.
LEMMA PrivateTaken ==
    ASSUME NEW P, NEW m, NEW e \in Blocks \ m.used, Heap(m, P)
    PROVE  LET v == [m EXCEPT !.used = @ \cup {e}]
           IN  /\ Heap(v, P \cup {e}) /\ v.used = m.used \cup {e} /\ v.cache = m.cache
               /\ v.slot = m.slot /\ v \in MemType /\ e \notin P
<1> DEFINE v == [m EXCEPT !.used = @ \cup {e}]
<1>1. /\ m \in MemType /\ Entries(m) \subseteq Blocks /\ BlocksOK(m, P) /\ ListsOK(m) /\ KeysOK(m)
      /\ m.used \subseteq Blocks /\ m.slot \in [Blocks -> SlotType] /\ m.cache \in [Caches -> CacheType]
 BY HeapTypes
<1>2. v \in MemType /\ v.cache = m.cache /\ v.used = m.used \cup {e} /\ v.slot = m.slot
 BY <1>1 DEF MemType
<1> HIDE DEF v
<1>3. e \notin P /\ e \notin Entries(m)
 BY <1>1 DEF BlocksOK
<1>4. Entries(v) = Entries(m) /\ \A d \in Caches : Chained(v, d) = Chained(m, d) /\ Deleted(v, d) = Deleted(m, d)
 BY <1>2 DEF Entries, Chained, Deleted
<1>5. BlocksOK(v, P \cup {e})
 <2>1. ASSUME NEW b \in Entries(v), v.slot[b].block # NULL
       PROVE  v.slot[b].block \in v.used \ (Entries(v) \cup P \cup {e})
  <3>1. m.slot[b].block \in m.used \ (Entries(m) \cup P)
   BY <1>1, <1>2, <1>4, <2>1 DEF BlocksOK
  <3> QED BY <1>2, <1>4, <3>1
 <2>2. \A b \in Entries(v) : v.slot[b].block # NULL =>
           \A a \in Entries(v) : v.slot[a].block = v.slot[b].block => a = b
  BY <1>1, <1>2, <1>4 DEF BlocksOK
 <2>3. \A b \in v.used : b \in Entries(v) \cup P \cup {e} \/ \E a \in Entries(v) : v.slot[a].block = b
  BY <1>1, <1>2, <1>4 DEF BlocksOK
 <2>4. /\ Entries(v) \subseteq v.used /\ P \cup {e} \subseteq v.used /\ (P \cup {e}) \cap Entries(v) = {}
       /\ \A b \in Blocks \ Entries(v) : v.slot[b] = BlankSlot
  BY <1>1, <1>2, <1>3, <1>4 DEF BlocksOK
 <2> QED BY <2>1, <2>2, <2>3, <2>4 DEF BlocksOK
<1>6. ListsOK(v)
 BY <1>1, <1>2, <1>4 DEF ListsOK
<1>7. KeysOK(v)
 BY <1>1, <1>2, <1>4 DEF KeysOK
<1>8. Heap(v, P \cup {e}) /\ v.used = m.used \cup {e} /\ v.cache = m.cache /\ v.slot = m.slot /\ v \in MemType
 BY <1>2, <1>5, <1>6, <1>7 DEF Heap
<1> QED BY <1>3, <1>8 DEF v

--------------------
(* References.                                                               *)

\* Memory v has x for entry b of memory m.
Recounts(P, m, v, b, x) ==
    /\ Heap(m, P) /\ b \in Entries(m) /\ x \in SlotType
    /\ v = [m EXCEPT !.slot = [m.slot EXCEPT ![b] = x]]
    /\ x.key = m.slot[b].key /\ x.block = m.slot[b].block

\* What v keeps of m.
Recounted(P, m, v, b, x) ==
    /\ Heap(v, P) /\ v.used = m.used /\ v.cache = m.cache /\ v \in MemType
    /\ Entries(v) = Entries(m) /\ v.slot[b] = x
    /\ \A a \in Blocks \ {b} : v.slot[a] = m.slot[a]

\* An entry's count and times change.
LEMMA CountedHeap ==
    ASSUME NEW P, NEW m, NEW v, NEW b, NEW x, Recounts(P, m, v, b, x)
    PROVE  Recounted(P, m, v, b, x)
<1>0. /\ Heap(m, P) /\ b \in Entries(m) /\ x \in SlotType
      /\ v = [m EXCEPT !.slot = [m.slot EXCEPT ![b] = x]]
      /\ x.key = m.slot[b].key /\ x.block = m.slot[b].block
 BY DEF Recounts
<1> USE <1>0
<1>1. /\ m \in MemType /\ Entries(m) \subseteq Blocks /\ BlocksOK(m, P) /\ ListsOK(m) /\ KeysOK(m)
      /\ m.used \subseteq Blocks /\ m.slot \in [Blocks -> SlotType] /\ m.cache \in [Caches -> CacheType]
 BY HeapTypes
<1> DEFINE S == [m.slot EXCEPT ![b] = x]
<1>2. S \in [Blocks -> SlotType] /\ S[b] = x /\ \A a \in Blocks \ {b} : S[a] = m.slot[a]
 BY <1>1
<1> HIDE DEF S
<1>3. v = [m EXCEPT !.slot = S]
 BY DEF S
<1>4. v \in MemType /\ v.cache = m.cache /\ v.used = m.used /\ v.slot = S
 BY <1>1, <1>2, <1>3 DEF MemType
<1>5. Entries(v) = Entries(m) /\ \A d \in Caches : Chained(v, d) = Chained(m, d) /\ Deleted(v, d) = Deleted(m, d)
 BY <1>4 DEF Entries, Chained, Deleted
<1>6. \A a \in Entries(m) : v.slot[a].key = m.slot[a].key /\ v.slot[a].block = m.slot[a].block
 BY <1>1, <1>2, <1>4
<1>7. \A a \in Blocks \ Entries(m) : v.slot[a] = m.slot[a]
 BY <1>2, <1>4
<1>8. BlocksOK(v, P)
 BY <1>1, <1>4, <1>5, <1>6, <1>7 DEF BlocksOK
<1>9. ListsOK(v)
 BY <1>1, <1>4, <1>5 DEF ListsOK
<1>10. KeysOK(v)
 <2>1. \A c \in Caches : \A a \in Chained(v, c) : v.slot[a].key = m.slot[a].key
  BY <1>5, <1>6, EntriesAre
 <2> QED BY <1>1, <1>4, <1>5, <2>1 DEF KeysOK
<1> QED BY <1>2, <1>4, <1>5, <1>8, <1>9, <1>10 DEF Heap, Recounted

\* A slot_t with another count is one.
LEMMA CountTypes ==
    ASSUME NEW x \in SlotType, NEW n \in Nat, now \in Nat
    PROVE  /\ [[x EXCEPT !.ref_count = n] EXCEPT !.access_time = now] \in SlotType
           /\ [[x EXCEPT !.ref_count = n] EXCEPT !.access_time = now].key = x.key
           /\ [[x EXCEPT !.ref_count = n] EXCEPT !.access_time = now].block = x.block
           /\ [[x EXCEPT !.ref_count = n] EXCEPT !.access_time = now].ref_count = n
           /\ [x EXCEPT !.ref_count = n] \in SlotType
           /\ [x EXCEPT !.ref_count = n].key = x.key
           /\ [x EXCEPT !.ref_count = n].block = x.block
           /\ [x EXCEPT !.ref_count = n].ref_count = n
           /\ x.ref_count \in Nat
BY DEF SlotType

--------------------
(* The locks.                                                                *)

\* The fields of a process's record.
Fields == DOMAIN AtRest

\* Where a process is: what it inserts or clears has a cache, and it sweeps a
\* cache only from inside an allocation.
PlaceOK(p) ==
    /\ DOMAIN pc[p] = Fields
    /\ pc[p].sweep \in BOOLEAN
    /\ pc[p].at \in {"miss", "pool", "checks", "insert", "slot", "clear"} => pc[p].c \in Caches
    /\ pc[p].at = "miss" => pc[p].c = "file"
    /\ pc[p].at = "checks" => pc[p].c = "user"
    /\ InMalloc(p) => pc[p].i \in Nat \ {0}
    /\ pc[p].sweep => InMalloc(p) /\ pc[p].i \in 1 .. 8 /\ Does(p) \in Caches

\* The critical sections of cache c.
Inside(p, c) ==
    \/ pc[p].at \in {"slot", "clear"} /\ pc[p].c = c
    \/ pc[p].sweep /\ Does(p) = c

\* Process p holds wrlock.
Writes(p) == pc[p].c = "file" /\ pc[p].at \in {"pool", "insert", "slot"}

\* The locks follow the places of the processes.
LInv ==
    /\ lock \in [Caches -> Procs \cup {NULL}] /\ wrlock \in Procs \cup {NULL}
    /\ DOMAIN pc = Procs
    /\ \A p \in Procs : /\ PlaceOK(p)
                        /\ \A c \in Caches : lock[c] = p <=> Inside(p, c)
                        /\ wrlock = p <=> Writes(p)

\* What an allocation does is try the memory or expunge a cache.
LEMMA Doing ==
    ASSUME NEW p, pc[p].i \in Nat \ {0}, ~GaveUp(p), InMalloc(p)
    PROVE  /\ pc[p].i \in 1 .. 8
           /\ Does(p) \in Caches => Does(p) # "try"
<1>1. Len(MallocScript(pc[p].c)) = 8
 BY DEF MallocScript
<1> QED BY <1>1 DEF GaveUp, Caches

\* A step of process p that leaves the other processes where they are, and the
\* locks that are not its own.
LOnly(p) ==
    /\ DOMAIN pc' = Procs
    /\ \A q \in Procs \ {p} : pc'[q] = pc[q]
    /\ \A c \in Caches : lock'[c] # lock[c] => {lock[c], lock'[c]} \subseteq {p, NULL}
    /\ wrlock' # wrlock => {wrlock, wrlock'} \subseteq {p, NULL}

\* Such a step keeps the invariant when it keeps it for p.
LEMMA LStepOfOne ==
    ASSUME LInv, NEW p \in Procs, LOnly(p),
           lock' \in [Caches -> Procs \cup {NULL}], wrlock' \in Procs \cup {NULL},
           PlaceOK(p)',
           \A c \in Caches : lock'[c] = p <=> Inside(p, c)',
           wrlock' = p <=> Writes(p)'
    PROVE  LInv'
<1>1. ASSUME NEW q \in Procs \ {p}
      PROVE  /\ PlaceOK(q)'
             /\ \A c \in Caches : lock'[c] = q <=> Inside(q, c)'
             /\ wrlock' = q <=> Writes(q)'
 <2>1. /\ pc'[q] = pc[q] /\ q # NULL /\ PlaceOK(q)
       /\ wrlock = q <=> Writes(q)
       /\ \A c \in Caches : lock[c] = q <=> Inside(q, c)
  BY CacheAssumption DEF LInv, LOnly
 <2>2. /\ PlaceOK(q)'
       /\ Writes(q)' <=> Writes(q)
       /\ \A c \in Caches : Inside(q, c)' <=> Inside(q, c)
  BY <2>1 DEF PlaceOK, Writes, Inside, InMalloc, Does
 <2>3. \A c \in Caches : lock'[c] = q <=> lock[c] = q
  BY <2>1 DEF LOnly
 <2>4. wrlock' = q <=> wrlock = q
  BY <2>1 DEF LOnly
 <2> QED BY <2>1, <2>2, <2>3, <2>4
<1> QED BY <1>1 DEF LInv, LOnly

\* A process goes to a place outside of every critical section, with no lock.
LEMMA LLeaves ==
    ASSUME LInv, NEW p \in Procs, LOnly(p),
           lock' \in [Caches -> Procs \cup {NULL}], wrlock' \in Procs \cup {NULL},
           DOMAIN pc'[p] = Fields, ~pc'[p].sweep, pc'[p].sweep \in BOOLEAN,
           pc'[p].at \in {"idle", "miss", "checks", "copy", "deactivate"},
           pc'[p].at = "miss" => pc'[p].c = "file",
           pc'[p].at = "checks" => pc'[p].c = "user",
           \A c \in Caches : lock'[c] # p, wrlock' # p
    PROVE  LInv'
<1>1. PlaceOK(p)' /\ ~Writes(p)' /\ \A c \in Caches : ~Inside(p, c)'
 BY DEF PlaceOK, Writes, Inside, InMalloc, Caches
<1> QED BY <1>1, LStepOfOne

\* What the invariant says of one process.
LEMMA LFacts ==
    ASSUME LInv, NEW p \in Procs
    PROVE  /\ lock \in [Caches -> Procs \cup {NULL}] /\ wrlock \in Procs \cup {NULL}
           /\ DOMAIN pc = Procs /\ p # NULL /\ PlaceOK(p)
           /\ \A c \in Caches : lock[c] = p <=> Inside(p, c)
           /\ wrlock = p <=> Writes(p)
BY CacheAssumption DEF LInv

\* Calls of process p that take and release no lock: the first step of a store,
\* find, delete or fetch, the end of a request, and releasing what was used.
LEMMA LSimple ==
    ASSUME LInv, NEW p \in Procs, UNCHANGED <<lock, wrlock>>,
           pc[p].at \in {"idle", "copy", "deactivate"},
           NEW r, DOMAIN r = Fields, r.sweep = FALSE,
           r.at \in {"idle", "miss", "copy", "deactivate"}, r.at = "miss" => r.c = "file",
           pc' = pc \/ pc' = [pc EXCEPT ![p] = r]
    PROVE  LInv'
<1>1. CASE pc' = pc
 BY <1>1 DEF LInv, PlaceOK, InMalloc, Does, Inside, Writes
<1>2. CASE pc' = [pc EXCEPT ![p] = r]
 <2>1. pc'[p] = r /\ LOnly(p)
  BY <1>2, LFacts DEF LOnly
 <2>2. wrlock # p /\ \A c \in Caches : lock[c] # p
  BY LFacts DEF PlaceOK, Inside, Writes, InMalloc
 <2> QED BY <2>1, <2>2, LFacts, LLeaves
<1> QED BY <1>1, <1>2

\* The records that a process at rest goes on with.
LEMMA AtRestFields ==
    /\ DOMAIN AtRest = Fields /\ AtRest.sweep = FALSE /\ AtRest.at = "idle"
    /\ \A b : LET r == [AtRest EXCEPT !.at = "copy", !.e = b]
              IN  DOMAIN r = Fields /\ r.sweep = FALSE /\ r.at = "copy"
    /\ LET r == [AtRest EXCEPT !.at = "deactivate"]
       IN  DOMAIN r = Fields /\ r.sweep = FALSE /\ r.at = "deactivate"
    /\ \A k, mtime, t :
          LET r == [AtRest EXCEPT !.at = "miss", !.c = "file", !.key = k, !.mtime = mtime, !.t = t]
          IN  DOMAIN r = Fields /\ r.sweep = FALSE /\ r.at = "miss" /\ r.c = "file"
BY DEF AtRest, Fields

\* my_compile_file looks for the script.
LEMMA LFileFind ==
    ASSUME LInv, NEW p \in Procs, NEW k, NEW mtime, FileFind(p, k, mtime)
    PROVE  LInv'
<1> DEFINE r == [AtRest EXCEPT !.at = "miss", !.c = "file", !.key = k, !.mtime = mtime, !.t = now]
<1>1. DOMAIN r = Fields /\ r.sweep = FALSE /\ r.at = "miss" /\ r.c = "file"
 BY AtRestFields
<1>2. /\ UNCHANGED <<lock, wrlock>> /\ pc[p].at = "idle"
      /\ pc' = pc \/ pc' = [pc EXCEPT ![p] = r]
 BY DEF FileFind, Calls
<1> HIDE DEF r
<1> QED BY <1>1, <1>2, LSimple

\* apc_fetch finds an entry, copies it, or bails out of that; a request ends and
\* releases its scripts; entries are deleted.
LEMMA LReads ==
    ASSUME LInv, NEW p \in Procs,
           \/ \E k \in UserKeys : UserFind(p, k)
           \/ CopyDone(p) \/ CopyBailsOut(p) \/ RequestEnds(p) \/ Deactivate(p)
           \/ \E c \in Caches : \E k \in Keys(c) : Delete(p, c, k)
    PROVE  LInv'
<1>1. CASE \E k \in UserKeys : UserFind(p, k)
 <2>1. PICK b : pc' = pc \/ pc' = [pc EXCEPT ![p] = [AtRest EXCEPT !.at = "copy", !.e = b]]
  BY <1>1 DEF UserFind
 <2> DEFINE r == [AtRest EXCEPT !.at = "copy", !.e = b]
 <2>2. DOMAIN r = Fields /\ r.sweep = FALSE /\ r.at = "copy"
  BY AtRestFields
 <2>3. UNCHANGED <<lock, wrlock>> /\ pc[p].at = "idle" /\ (pc' = pc \/ pc' = [pc EXCEPT ![p] = r])
  BY <1>1, <2>1 DEF UserFind, Calls
 <2> HIDE DEF r
 <2> QED BY <2>2, <2>3, LSimple
<1>2. CASE \/ CopyDone(p) \/ CopyBailsOut(p) \/ RequestEnds(p) \/ Deactivate(p)
           \/ \E c \in Caches : \E k \in Keys(c) : Delete(p, c, k)
 <2> DEFINE r == [AtRest EXCEPT !.at = "deactivate"]
 <2>1. UNCHANGED <<lock, wrlock>> /\ pc[p].at \in {"idle", "copy", "deactivate"}
  BY <1>2 DEF CopyDone, CopyBailsOut, RequestEnds, Deactivate, Delete, Calls
 <2>2. pc' = pc \/ pc' = [pc EXCEPT ![p] = AtRest] \/ pc' = [pc EXCEPT ![p] = r]
  BY <1>2 DEF CopyDone, CopyBailsOut, RequestEnds, Deactivate, Delete
 <2>3. DOMAIN r = Fields /\ r.sweep = FALSE /\ r.at = "deactivate"
  BY AtRestFields
 <2> HIDE DEF r
 <2>4. CASE pc' = [pc EXCEPT ![p] = r]
  BY <2>1, <2>3, <2>4, LSimple
 <2>5. CASE pc' = pc \/ pc' = [pc EXCEPT ![p] = AtRest]
  <3>1. DOMAIN AtRest = Fields /\ AtRest.sweep = FALSE /\ AtRest.at = "idle"
   BY AtRestFields
  <3>2. /\ AtRest.at \in {"idle", "miss", "copy", "deactivate"}
        /\ AtRest.at = "miss" => AtRest.c = "file"
   BY <3>1
  <3> QED BY <2>1, <2>5, <3>1, <3>2, LSimple
 <2> QED BY <2>2, <2>4, <2>5
<1> QED BY <1>1, <1>2

\* A script is compiled, and cached unless another process caches one.
LEMMA LCompile ==
    ASSUME LInv, NEW p \in Procs, Compile(p)
    PROVE  LInv'
<1>0. /\ PlaceOK(p) /\ pc[p].at = "miss" /\ pc[p].c = "file" /\ ~pc[p].sweep
      /\ wrlock # p /\ \A c \in Caches : lock[c] # p
 BY LFacts DEF Compile, PlaceOK, InMalloc, Inside, Writes
<1>1. CASE wrlock = NULL
 <2>1. /\ wrlock' = p /\ UNCHANGED lock
       /\ pc' = [pc EXCEPT ![p] = [@ EXCEPT !.at = "pool", !.i = 1]]
  BY <1>1 DEF Compile
 <2>2. /\ DOMAIN pc' = Procs /\ \A q \in Procs \ {p} : pc'[q] = pc[q]
       /\ pc'[p] = [pc[p] EXCEPT !.at = "pool", !.i = 1]
  BY <2>1, LFacts
 <2>3. /\ DOMAIN pc'[p] = Fields /\ pc'[p].at = "pool" /\ pc'[p].i = 1 /\ pc'[p].c = "file"
       /\ ~pc'[p].sweep /\ pc'[p].sweep \in BOOLEAN
  BY <1>0, <2>2 DEF PlaceOK, Fields, AtRest
 <2>4. LOnly(p)
  BY <1>1, <2>1, <2>2, LFacts DEF LOnly
 <2>5. PlaceOK(p)' /\ Writes(p)' /\ \A c \in Caches : ~Inside(p, c)'
  BY <2>3 DEF PlaceOK, Writes, Inside, InMalloc, Caches
 <2> QED BY <1>0, <2>1, <2>4, <2>5, LFacts, LStepOfOne
<1>2. CASE wrlock # NULL
 <2>1. UNCHANGED <<lock, wrlock>> /\ pc' = [pc EXCEPT ![p] = AtRest]
  BY <1>2 DEF Compile
 <2>2. pc'[p] = AtRest /\ LOnly(p)
  BY <2>1, LFacts DEF LOnly
 <2> QED BY <1>0, <2>1, <2>2, LFacts, LLeaves, AtRestFields
<1> QED BY <1>1, <1>2

\* The call returns: process p rests, with no lock left.
LEMMA LReturns ==
    ASSUME LInv, NEW p \in Procs, Returns(p), lock' \in [Caches -> Procs \cup {NULL}],
           \A c \in Caches : lock'[c] # lock[c] => lock[c] = p /\ lock'[c] = NULL,
           \A c \in Caches : lock'[c] # p
    PROVE  LInv'
<1>1. /\ pc' = [pc EXCEPT ![p] = AtRest]
      /\ wrlock' = IF wrlock = p THEN NULL ELSE wrlock
 BY DEF Returns
<1>2. pc'[p] = AtRest /\ LOnly(p) /\ wrlock' # p /\ wrlock' \in Procs \cup {NULL}
 BY <1>1, LFacts DEF LOnly
<1> QED BY <1>2, LLeaves, AtRestFields

\* A step inside an allocation that goes on to the next thing to try.
LEMMA LNext ==
    ASSUME LInv, NEW p \in Procs, InMalloc(p), ~GaveUp(p), ~pc[p].sweep,
           pc' = [pc EXCEPT ![p].i = @ + 1], UNCHANGED <<lock, wrlock>>
    PROVE  LInv'
<1>1. /\ PlaceOK(p) /\ pc[p].i \in Nat \ {0}
 BY LFacts DEF PlaceOK
<1>2. /\ DOMAIN pc' = Procs /\ \A q \in Procs \ {p} : pc'[q] = pc[q]
      /\ pc'[p] = [pc[p] EXCEPT !.i = pc[p].i + 1]
 BY LFacts
<1>3. /\ DOMAIN pc'[p] = Fields /\ pc'[p].i = pc[p].i + 1 /\ pc'[p].at = pc[p].at
      /\ pc'[p].c = pc[p].c /\ pc'[p].sweep = pc[p].sweep
 BY <1>1, <1>2 DEF PlaceOK, Fields, AtRest
<1>4. PlaceOK(p)' /\ (Writes(p)' <=> Writes(p)) /\ \A c \in Caches : Inside(p, c)' <=> Inside(p, c)
 BY <1>1, <1>3 DEF PlaceOK, Writes, Inside, InMalloc
<1>5. LOnly(p)
 BY <1>2 DEF LOnly
<1> QED BY <1>4, <1>5, LFacts, LStepOfOne

\* apc_sma_malloc_ex finds no block.
LEMMA LTryFails ==
    ASSUME LInv, NEW p \in Procs, TryFails(p)
    PROVE  LInv'
<1>1. ~pc[p].sweep
 BY LFacts, Doing DEF PlaceOK, TryFails, Caches
<1> QED BY <1>1, LNext DEF TryFails

\* An expunge begins: what was collected is enough, or the process goes on to
\* sweep the cache, which is now its own.
LEMMA LExpungeBegins ==
    ASSUME LInv, NEW p \in Procs, ExpungeBegins(p)
    PROVE  LInv'
<1>0. /\ PlaceOK(p) /\ InMalloc(p) /\ ~GaveUp(p) /\ ~pc[p].sweep
      /\ Does(p) \in Caches /\ SafeLock(p, Does(p)) /\ UNCHANGED wrlock
 BY LFacts DEF ExpungeBegins
<1>1. CASE pc' = [pc EXCEPT ![p].i = @ + 1] /\ UNCHANGED lock
 BY <1>0, <1>1, LNext
<1>2. CASE /\ pc' = [pc EXCEPT ![p].sweep = TRUE]
           /\ lock' = [lock EXCEPT ![Does(p)] = p]
 <2>1. /\ DOMAIN pc' = Procs /\ \A q \in Procs \ {p} : pc'[q] = pc[q]
       /\ pc'[p] = [pc[p] EXCEPT !.sweep = TRUE]
  BY <1>2, LFacts
 <2>2. /\ DOMAIN pc'[p] = Fields /\ pc'[p].i = pc[p].i /\ pc'[p].at = pc[p].at
       /\ pc'[p].c = pc[p].c /\ pc'[p].sweep = TRUE
  BY <1>0, <2>1 DEF PlaceOK, Fields, AtRest
 <2>3. Does(p)' = Does(p) /\ InMalloc(p)' /\ pc[p].i \in 1 .. 8
  BY <1>0, <2>2, Doing DEF Does, InMalloc, PlaceOK
 <2>4. PlaceOK(p)' /\ (Writes(p)' <=> Writes(p))
  BY <1>0, <2>2, <2>3 DEF PlaceOK, Writes, InMalloc
 <2>5. \A c \in Caches : lock'[c] = p <=> Inside(p, c)'
  BY <1>0, <1>2, <2>2, <2>3, LFacts DEF Inside
 <2>6. LOnly(p) /\ lock' \in [Caches -> Procs \cup {NULL}]
  BY <1>0, <1>2, <2>1, LFacts DEF LOnly, SafeLock
 <2> QED BY <1>0, <2>4, <2>5, <2>6, LFacts, LStepOfOne
<1> QED BY <1>1, <1>2 DEF ExpungeBegins

\* The sweep ends: the lock is released, unless an insertion holds it.
LEMMA LExpungeSweeps ==
    ASSUME LInv, NEW p \in Procs, ExpungeSweeps(p)
    PROVE  LInv'
<1>0. /\ PlaceOK(p) /\ InMalloc(p) /\ pc[p].sweep /\ pc[p].i \in 1 .. 8
      /\ Does(p) \in Caches /\ lock[Does(p)] = p /\ UNCHANGED wrlock
 BY LFacts DEF ExpungeSweeps, PlaceOK, Inside
<1>1. /\ lock' = [lock EXCEPT ![Does(p)] =
                     IF pc[p].at = "slot" /\ Does(p) = pc[p].c THEN p ELSE NULL]
      /\ pc' = [pc EXCEPT ![p] = [@ EXCEPT !.i = pc[p].i + 1, !.sweep = FALSE]]
 BY DEF ExpungeSweeps
<1>2. /\ DOMAIN pc' = Procs /\ \A q \in Procs \ {p} : pc'[q] = pc[q]
      /\ pc'[p] = [pc[p] EXCEPT !.i = pc[p].i + 1, !.sweep = FALSE]
 BY <1>1, LFacts
<1>3. /\ DOMAIN pc'[p] = Fields /\ pc'[p].i = pc[p].i + 1 /\ pc'[p].at = pc[p].at
      /\ pc'[p].c = pc[p].c /\ pc'[p].sweep = FALSE
 BY <1>0, <1>2 DEF PlaceOK, Fields, AtRest
<1>4. PlaceOK(p)' /\ (Writes(p)' <=> Writes(p))
 <2>1. ~pc'[p].sweep /\ pc'[p].sweep \in BOOLEAN
  BY <1>3
 <2> QED BY <1>0, <1>3, <2>1 DEF PlaceOK, Writes, InMalloc
<1>5. \A c \in Caches : lock'[c] = p <=> Inside(p, c)'
 <2> SUFFICES ASSUME NEW c \in Caches PROVE lock'[c] = p <=> Inside(p, c)'
  OBVIOUS
 <2>1. lock[c] = p <=> Inside(p, c)
  BY LFacts
 <2>2. Inside(p, c)' <=> pc[p].at = "slot" /\ pc[p].c = c
  BY <1>0, <1>3 DEF Inside, InMalloc
 <2>3. CASE c = Does(p)
  BY <1>0, <1>1, <2>2, <2>3, LFacts
 <2>4. CASE c # Does(p)
  BY <1>0, <1>1, <2>1, <2>2, <2>4, LFacts DEF Inside, InMalloc
 <2> QED BY <2>3, <2>4
<1>6. LOnly(p) /\ lock' \in [Caches -> Procs \cup {NULL}]
 BY <1>0, <1>1, <1>2, LFacts DEF LOnly
<1> QED BY <1>0, <1>4, <1>5, <1>6, LFacts, LStepOfOne

\* A store is called.
LEMMA LStoreBegins ==
    ASSUME LInv, NEW p \in Procs, NEW k, NEW entry_ttl, StoreBegins(p, k, entry_ttl)
    PROVE  LInv'
<1> DEFINE r == [AtRest EXCEPT !.at = "pool", !.c = "user", !.key = k, !.ttl = entry_ttl,
                               !.t = now, !.i = 1]
<1>1. DOMAIN r = Fields /\ r.at = "pool" /\ r.c = "user" /\ r.i = 1 /\ r.sweep = FALSE
 BY DEF AtRest, Fields
<1>2. pc' = [pc EXCEPT ![p] = r] /\ UNCHANGED <<lock, wrlock>> /\ pc[p].at = "idle"
 BY DEF StoreBegins, Calls
<1> HIDE DEF r
<1>3. pc'[p] = r /\ LOnly(p)
 BY <1>2, LFacts DEF LOnly
<1>4. wrlock # p /\ \A c \in Caches : lock[c] # p
 BY <1>2, LFacts DEF PlaceOK, Inside, Writes, InMalloc
<1>5. PlaceOK(p)' /\ ~Writes(p)' /\ \A c \in Caches : ~Inside(p, c)'
 <2>1. ~pc'[p].sweep /\ pc'[p].sweep \in BOOLEAN
  BY <1>1, <1>3
 <2> QED BY <1>1, <1>3, <2>1 DEF PlaceOK, Writes, Inside, InMalloc, Caches
<1> QED BY <1>2, <1>3, <1>4, <1>5, LFacts, LStepOfOne

\* Compiling bails out before anything was allocated.
LEMMA LCompileBailsOut ==
    ASSUME LInv, NEW p \in Procs, CompileBailsOut(p)
    PROVE  LInv'
<1> DEFINE r == [AtRest EXCEPT !.at = "deactivate"]
<1>1. DOMAIN r = Fields /\ r.sweep = FALSE /\ r.at = "deactivate"
 BY AtRestFields
<1>2. /\ pc' = [pc EXCEPT ![p] = r] /\ wrlock' = NULL /\ UNCHANGED lock
      /\ pc[p].at = "pool" /\ pc[p].c = "file" /\ pc[p].i = 1
 BY DEF CompileBailsOut
<1> HIDE DEF r
<1>3. Does(p) = "try"
 BY <1>2 DEF Does, MallocScript
<1>4. wrlock = p /\ \A c \in Caches : lock[c] # p
 BY <1>2, <1>3, LFacts DEF PlaceOK, Inside, Writes, Caches
<1>5. pc'[p] = r /\ LOnly(p)
 BY <1>2, <1>4, LFacts DEF LOnly
<1> QED BY <1>1, <1>2, <1>4, <1>5, LFacts, LLeaves

\* The pool of an insertion is allocated, or cannot be.
LEMMA LPool ==
    ASSUME LInv, NEW p \in Procs, PoolFails(p) \/ \E b \in Blocks : PoolCreated(p, b)
    PROVE  LInv'
<1>0. /\ PlaceOK(p) /\ pc[p].at = "pool" /\ ~pc[p].sweep /\ UNCHANGED lock
      /\ \A c \in Caches : lock[c] # p
 <2>1. PlaceOK(p) /\ pc[p].at = "pool" /\ InMalloc(p) /\ UNCHANGED lock
  BY LFacts DEF PoolFails, PoolCreated, InMalloc
 <2>2. ~pc[p].sweep
  <3>1. CASE GaveUp(p)
   <4>1. Len(MallocScript(pc[p].c)) = 8
    BY DEF MallocScript
   <4> QED BY <2>1, <3>1, <4>1 DEF GaveUp, PlaceOK
  <3>2. CASE ~GaveUp(p) /\ Does(p) = "try"
   BY <2>1, <3>2 DEF PlaceOK, Caches
  <3> QED BY <3>1, <3>2 DEF PoolFails, PoolCreated
 <2> QED BY <2>1, <2>2, LFacts DEF Inside
<1>1. CASE Returns(p)
 BY <1>0, <1>1, LFacts, LReturns
<1>2. CASE \E b \in Blocks :
              /\ pc' = [pc EXCEPT ![p] = [@ EXCEPT !.e = b, !.i = 0,
                                                   !.at = IF pc[p].c = "user" THEN "checks" ELSE "insert"]]
              /\ UNCHANGED wrlock
 <2>1. PICK b : /\ pc' = [pc EXCEPT ![p] = [@ EXCEPT !.e = b, !.i = 0,
                                                     !.at = IF pc[p].c = "user" THEN "checks" ELSE "insert"]]
                /\ UNCHANGED wrlock
  BY <1>2
 <2>2. /\ DOMAIN pc' = Procs /\ \A q \in Procs \ {p} : pc'[q] = pc[q]
       /\ pc'[p] = [pc[p] EXCEPT !.e = b, !.i = 0,
                                 !.at = IF pc[p].c = "user" THEN "checks" ELSE "insert"]
  BY <2>1, LFacts
 <2>3. /\ DOMAIN pc'[p] = Fields /\ pc'[p].c = pc[p].c /\ pc'[p].sweep = pc[p].sweep
       /\ pc'[p].at = IF pc[p].c = "user" THEN "checks" ELSE "insert"
  BY <1>0, <2>2 DEF PlaceOK, Fields, AtRest
 <2>4. pc[p].c \in {"file", "user"}
  BY <1>0 DEF PlaceOK, Caches
 <2>5. /\ PlaceOK(p)' /\ (Writes(p)' <=> Writes(p))
       /\ \A c \in Caches : ~Inside(p, c)'
  BY <1>0, <2>3, <2>4 DEF PlaceOK, Writes, Inside, InMalloc, Caches
 <2>6. LOnly(p)
  BY <1>0, <2>1, <2>2 DEF LOnly
 <2> QED BY <1>0, <2>1, <2>5, <2>6, LFacts, LStepOfOne
<1> QED BY <1>1, <1>2 DEF PoolFails, PoolCreated

\* The unlocked tests of apc_cache_user_insert.
LEMMA LStoreChecks ==
    ASSUME LInv, NEW p \in Procs, StoreChecks(p)
    PROVE  LInv'
<1>0. /\ PlaceOK(p) /\ pc[p].at = "checks" /\ pc[p].c = "user" /\ ~pc[p].sweep /\ UNCHANGED lock
      /\ \A c \in Caches : lock[c] # p
 BY LFacts DEF StoreChecks, PlaceOK, InMalloc, Inside
<1>1. CASE Returns(p)
 BY <1>0, <1>1, LFacts, LReturns
<1>2. CASE pc' = [pc EXCEPT ![p].at = "insert"] /\ UNCHANGED wrlock
 <2>1. /\ DOMAIN pc' = Procs /\ \A q \in Procs \ {p} : pc'[q] = pc[q]
       /\ pc'[p] = [pc[p] EXCEPT !.at = "insert"]
  BY <1>2, LFacts
 <2>2. /\ DOMAIN pc'[p] = Fields /\ pc'[p].c = pc[p].c /\ pc'[p].sweep = pc[p].sweep
       /\ pc'[p].at = "insert"
  BY <1>0, <2>1 DEF PlaceOK, Fields, AtRest
 <2>3. /\ PlaceOK(p)' /\ (Writes(p)' <=> Writes(p))
       /\ \A c \in Caches : ~Inside(p, c)'
  BY <1>0, <2>2 DEF PlaceOK, Writes, Inside, InMalloc, Caches
 <2>4. LOnly(p)
  BY <1>0, <1>2, <2>1 DEF LOnly
 <2> QED BY <1>0, <1>2, <2>3, <2>4, LFacts, LStepOfOne
<1> QED BY <1>1, <1>2 DEF StoreChecks

\* The insertion: done under the lock, which it keeps while its slot_t needs
\* memory.
LEMMA LInsert ==
    ASSUME LInv, NEW p \in Procs, NEW exclusive, Insert(p, exclusive)
    PROVE  LInv'
<1>0. /\ PlaceOK(p) /\ pc[p].at = "insert" /\ pc[p].c \in Caches /\ ~pc[p].sweep
      /\ lock[pc[p].c] = NULL /\ \A c \in Caches : lock[c] # p
 BY LFacts DEF Insert, PlaceOK, InMalloc, Inside
<1>1. CASE Returns(p) /\ UNCHANGED lock
 BY <1>0, <1>1, LFacts, LReturns
<1>2. CASE \E prev, next :
              /\ pc' = [pc EXCEPT ![p] = [[pc[p] EXCEPT !.prev = prev, !.next = next]
                                             EXCEPT !.at = "slot", !.i = 1]]
              /\ lock' = [lock EXCEPT ![pc[p].c] = p]
              /\ UNCHANGED wrlock
 <2>1. PICK prev, next :
             /\ pc' = [pc EXCEPT ![p] = [[pc[p] EXCEPT !.prev = prev, !.next = next]
                                            EXCEPT !.at = "slot", !.i = 1]]
             /\ lock' = [lock EXCEPT ![pc[p].c] = p]
             /\ UNCHANGED wrlock
  BY <1>2
 <2>2. /\ DOMAIN pc' = Procs /\ \A q \in Procs \ {p} : pc'[q] = pc[q]
       /\ pc'[p] = [[pc[p] EXCEPT !.prev = prev, !.next = next] EXCEPT !.at = "slot", !.i = 1]
  BY <2>1, LFacts
 <2>3. /\ DOMAIN pc'[p] = Fields /\ pc'[p].c = pc[p].c /\ pc'[p].sweep = pc[p].sweep
       /\ pc'[p].at = "slot" /\ pc'[p].i = 1
  BY <1>0, <2>2 DEF PlaceOK, Fields, AtRest
 <2>4. /\ PlaceOK(p)' /\ (Writes(p)' <=> Writes(p))
       /\ \A c \in Caches : Inside(p, c)' <=> c = pc[p].c
  BY <1>0, <2>3 DEF PlaceOK, Writes, Inside, InMalloc, Caches
 <2>5. /\ LOnly(p) /\ lock' \in [Caches -> Procs \cup {NULL}]
       /\ \A c \in Caches : lock'[c] = p <=> c = pc[p].c
  BY <1>0, <2>1, <2>2, LFacts DEF LOnly
 <2> QED BY <1>0, <2>1, <2>4, <2>5, LFacts, LStepOfOne
<1>3. ASSUME ~(Returns(p) /\ UNCHANGED lock)
      PROVE  \E prev, next :
                /\ pc' = [pc EXCEPT ![p] = [[pc[p] EXCEPT !.prev = prev, !.next = next]
                                               EXCEPT !.at = "slot", !.i = 1]]
                /\ lock' = [lock EXCEPT ![pc[p].c] = p]
                /\ UNCHANGED wrlock
 <2> DEFINE m == Prepared(shm, p, pc[p])
            j == Position(m, pc[p].c, pc[p].key)
            u == Walked(m, pc[p], exclusive)
            rest == Rest(m.cache[pc[p].c].chain, u.cache[pc[p].c].chain, j)
            pre == SubSeq(u.cache[pc[p].c].chain, 1, Len(u.cache[pc[p].c].chain) - Len(rest))
            prev == IF pre = <<>> THEN NULL ELSE Last(pre)
            next == IF rest = <<>> THEN NULL ELSE Head(rest)
 <2>1. /\ pc' = [pc EXCEPT ![p] = [[pc[p] EXCEPT !.prev = prev, !.next = next]
                                       EXCEPT !.at = "slot", !.i = 1]]
       /\ lock' = [lock EXCEPT ![pc[p].c] = p]
       /\ UNCHANGED wrlock
  BY <1>3 DEF Insert
 <2> HIDE DEF prev, next
 <2> QED BY <2>1
<1> QED BY <1>1, <1>2, <1>3

\* make_slot gets its memory or does not: the insertion ends and the lock is
\* released.
LEMMA LSlot ==
    ASSUME LInv, NEW p \in Procs, SlotFails(p) \/ \E b \in Blocks : SlotAllocated(p, b)
    PROVE  LInv'
<1>1. /\ PlaceOK(p) /\ pc[p].at = "slot" /\ InMalloc(p) /\ pc[p].c \in Caches /\ Returns(p)
      /\ lock' = [lock EXCEPT ![pc[p].c] = NULL]
 BY LFacts DEF SlotFails, SlotAllocated, InMalloc, PlaceOK
<1>2. ~pc[p].sweep
 <2>1. CASE GaveUp(p)
  <3>1. Len(MallocScript(pc[p].c)) = 8
   BY DEF MallocScript
  <3> QED BY <1>1, <2>1, <3>1 DEF GaveUp, PlaceOK
 <2>2. CASE ~GaveUp(p) /\ Does(p) = "try"
  BY <1>1, <2>2 DEF PlaceOK, Caches
 <2> QED BY <2>1, <2>2 DEF SlotFails, SlotAllocated
<1>3. \A c \in Caches : lock[c] = p <=> c = pc[p].c
 BY <1>1, <1>2, LFacts DEF Inside
<1>4. /\ lock' \in [Caches -> Procs \cup {NULL}] /\ \A c \in Caches : lock'[c] # p
      /\ \A c \in Caches : lock'[c] # lock[c] => lock[c] = p /\ lock'[c] = NULL
 BY <1>1, <1>3, LFacts
<1> QED BY <1>1, <1>4, LReturns

\* apc_cache_clear takes the lock for as long as it is busy.
LEMMA LClear ==
    ASSUME LInv, NEW p \in Procs, ClearEnds(p) \/ \E c \in Caches : ClearBegins(p, c)
    PROVE  LInv'
<1>1. CASE ClearEnds(p)
 <2>1. /\ PlaceOK(p) /\ pc[p].at = "clear" /\ ~pc[p].sweep /\ pc[p].c \in Caches
       /\ lock' = [lock EXCEPT ![pc[p].c] = NULL] /\ pc' = [pc EXCEPT ![p] = AtRest]
       /\ UNCHANGED wrlock /\ wrlock # p
  BY <1>1, LFacts DEF ClearEnds, PlaceOK, InMalloc, Writes
 <2>2. \A c \in Caches : lock[c] = p <=> c = pc[p].c
  BY <2>1, LFacts DEF Inside
 <2>3. LOnly(p) /\ pc'[p] = AtRest /\ lock' \in [Caches -> Procs \cup {NULL}]
  BY <2>1, <2>2, LFacts DEF LOnly
 <2>4. \A c \in Caches : lock'[c] # p
  BY <2>1, <2>2, LFacts
 <2> QED BY <2>1, <2>3, <2>4, LFacts, LLeaves, AtRestFields
<1>2. CASE \E c \in Caches : ClearBegins(p, c)
 <2>1. PICK c \in Caches : ClearBegins(p, c)
  BY <1>2
 <2> DEFINE r == [AtRest EXCEPT !.at = "clear", !.c = c]
 <2>2. DOMAIN r = Fields /\ r.at = "clear" /\ r.c = c /\ ~r.sweep /\ r.sweep \in BOOLEAN
  BY DEF AtRest, Fields
 <2>3. /\ pc[p].at = "idle" /\ lock[c] = NULL /\ lock' = [lock EXCEPT ![c] = p]
       /\ pc' = [pc EXCEPT ![p] = r] /\ UNCHANGED wrlock
  BY <2>1 DEF ClearBegins, Calls
 <2> HIDE DEF r
 <2>4. wrlock # p /\ \A d \in Caches : lock[d] # p
  BY <2>3, LFacts DEF PlaceOK, Inside, Writes, InMalloc
 <2>5. /\ LOnly(p) /\ pc'[p] = r /\ lock' \in [Caches -> Procs \cup {NULL}]
       /\ \A d \in Caches : lock'[d] = p <=> d = c
  BY <2>3, <2>4, LFacts DEF LOnly
 <2>6. PlaceOK(p)' /\ ~Writes(p)' /\ \A d \in Caches : Inside(p, d)' <=> d = c
  BY <2>2, <2>5 DEF PlaceOK, Writes, Inside, InMalloc, Caches
 <2> QED BY <2>3, <2>4, <2>5, <2>6, LFacts, LStepOfOne
<1> QED BY <1>1, <1>2

\* Every step keeps the locks with the places.
LEMMA LStep ==
    ASSUME LInv, [Next]_vars
    PROVE  LInv'
<1>1. ASSUME NEW p \in Procs, Step(p)
      PROVE  LInv'
 <2>1. CASE \/ \E k \in UserKeys, t \in UserTtls : StoreBegins(p, k, t)
            \/ \E k \in FileKeys, mtime \in Mtimes : FileFind(p, k, mtime)
            \/ Compile(p) \/ CompileBailsOut(p)
  BY <2>1, LStoreBegins, LFileFind, LCompile, LCompileBailsOut
 <2>2. CASE TryFails(p) \/ ExpungeBegins(p) \/ ExpungeSweeps(p)
  BY <2>2, LTryFails, LExpungeBegins, LExpungeSweeps
 <2>3. CASE \/ \E b \in Blocks : PoolCreated(p, b) \/ SlotAllocated(p, b)
            \/ PoolFails(p) \/ SlotFails(p) \/ StoreChecks(p)
            \/ \E exclusive \in BOOLEAN : Insert(p, exclusive)
  BY <2>3, LPool, LSlot, LStoreChecks, LInsert
 <2>4. CASE \/ \E k \in UserKeys : UserFind(p, k)
            \/ CopyDone(p) \/ CopyBailsOut(p) \/ RequestEnds(p) \/ Deactivate(p)
            \/ \E c \in Caches : \E k \in Keys(c) : Delete(p, c, k)
  BY <2>4, LReads
 <2>5. CASE ClearEnds(p) \/ \E c \in Caches : ClearBegins(p, c)
  BY <2>5, LClear
 <2> QED BY <1>1, <2>1, <2>2, <2>3, <2>4, <2>5 DEF Step
<1>2. CASE UNCHANGED <<lock, wrlock, pc>>
 BY <1>2 DEF LInv, PlaceOK, InMalloc, Does, Inside, Writes
<1> QED BY <1>1, <1>2 DEF Next, Tick, vars

\* At first no lock is taken.
LEMMA LInit == Init => LInv
<1> SUFFICES ASSUME Init PROVE LInv
 OBVIOUS
<1>1. /\ lock \in [Caches -> Procs \cup {NULL}] /\ wrlock = NULL /\ DOMAIN pc = Procs
      /\ \A p \in Procs : pc[p] = AtRest /\ p # NULL
      /\ \A c \in Caches : lock[c] = NULL
 BY CacheAssumption DEF Init
<1>2. ASSUME NEW p \in Procs
      PROVE  PlaceOK(p) /\ ~Writes(p) /\ \A c \in Caches : ~Inside(p, c)
 <2>1. DOMAIN pc[p] = Fields /\ ~pc[p].sweep /\ pc[p].sweep \in BOOLEAN /\ pc[p].at = "idle"
  BY <1>1, AtRestFields
 <2> QED BY <2>1 DEF PlaceOK, Writes, Inside, InMalloc
<1> QED BY <1>1, <1>2 DEF LInv

\* A cache is locked exactly by the process that is inside one of its critical
\* sections, and wrlock is held exactly while a process inserts a script.
THEOREM LocksCorrect == Spec => []LocksExact
<1>1. LInv /\ [Next]_vars => LInv'
 BY LStep
<1>2. LInv => LocksExact
 BY DEF LInv, LocksExact, Inside, Writes
<1> QED BY <1>1, <1>2, LInit, PTL DEF Spec

\* At most one process is in the critical sections of a cache.
Exclusive == \A p, q \in Procs, c \in Caches : Inside(p, c) /\ Inside(q, c) => p = q

\* Two processes never insert into, clear or expunge one cache at a time, though an
\* insertion that has to allocate its slot may expunge that cache or the other one.
THEOREM MutualExclusion == Spec => []Exclusive
<1>1. LInv /\ [Next]_vars => LInv'
 BY LStep
<1>2. LInv => Exclusive
 BY DEF LInv, Exclusive
<1> QED BY <1>1, <1>2, LInit, PTL DEF Spec

--------------------
(* The invariant.                                                            *)

\* Processes with a pool of their own, and those pools.
Inserting == {p \in Procs : pc[p].at \in {"checks", "insert", "slot"}}

\* The blocks those processes allocated and have not linked yet.
Pools == {pc[p].e : p \in Inserting}

\* No two processes have the same.
Distinct == \A p, q \in Inserting : pc[p].e = pc[q].e => p = q

\* The values of a process's variables, by the place it is at.
RecOK(r) ==
    /\ r.at \in {"checks", "insert", "slot", "copy"} => r.e \in Blocks
    /\ r.at \in {"miss", "pool", "checks", "insert", "slot"} =>
          r.key \in Keys(r.c) /\ r.mtime \in Mtimes \cup {0} /\ r.ttl \in Nat /\ r.t \in Nat
    /\ r.at = "slot" => {r.prev, r.next} \subseteq Blocks \cup {NULL}

\* Types of the variables that locks do not depend on.
Types ==
    /\ shm \in MemType
    /\ leaked \in [Blocks -> Nat]
    /\ cache_stack \in [Procs -> Seq(Blocks)]
    /\ \A p \in Procs : Len(cache_stack[p]) <= MaxStack
    /\ now \in Nat
    /\ damage \in {"none", "gc", "slot"}
    /\ \A p \in Procs : RecOK(pc[p])

\* References to entries are counted, and to nothing else are there any.
RefsOK ==
    \A b \in Blocks :
        IF b \in Entries(shm)
        THEN shm.slot[b].ref_count = Cardinality(References(b)) + leaked[b]
        ELSE References(b) = {} /\ leaked[b] = 0

\* Where process p goes on to link its entry, and that its key is not there.
PlaceKept(p) ==
    /\ PlaceOf(shm.cache[pc[p].c].chain, pc[p])
    /\ \A b \in Chained(shm, pc[p].c) : shm.slot[b].key # pc[p].key

\* Whoever waits for the memory of a slot_t still has its place on the chain.
PlacesOK == \A p \in Procs : pc[p].at = "slot" => PlaceKept(p)

\* What holds until freed memory is relied on.
HeapInv == Heap(shm, Pools) /\ Distinct /\ RefsOK /\ PlacesOK

\* The inductive invariant.
IInv == LInv /\ Types /\ (damage = "none" => HeapInv)

--------------------
(* One step.                                                                 *)

\* Entries that are freed were to go.
GoneOK == \A b \in Entries(shm) : b \notin shm'.used => Goes(shm, b)

\* What is shown of each step.
HStep == Types' /\ (damage' = "none" => HeapInv') /\ GoneOK

\* Only process p goes on.
PcStep(p) ==
    /\ DOMAIN pc' = Procs
    /\ \A q \in Procs \ {p} : pc'[q] = pc[q]

\* m has entries of the memory that keep their counts, and new ones; those it
\* lacks were to go, and are freed.
Successor(m) ==
    /\ \A b \in Entries(m) :
          m.slot[b].ref_count = IF b \in Entries(shm) THEN shm.slot[b].ref_count ELSE 0
    /\ \A b \in Entries(shm) \ Entries(m) : b \notin m.used /\ Goes(shm, b)

\* Cache c's chain in m is what is left of it.
Shrunk(m, c) ==
    /\ \E S : m.cache[c].chain = Only(shm.cache[c].chain, S)
    /\ \A b \in Chained(m, c) : m.slot[b].key = shm.slot[b].key

\* A reduction of the memory succeeds it, and shortens its chains.
LEMMA ReducedIs ==
    ASSUME NEW m, NEW P, Types, Reduced(shm, m, P)
    PROVE  /\ Successor(m) /\ \A c \in Caches : Shrunk(m, c)
           /\ m \in MemType /\ Heap(m, P) /\ m.used \subseteq shm.used
           /\ Entries(m) \subseteq Entries(shm) /\ Entries(m) \subseteq m.used
<1>1. Heap(m, P) /\ Shrinks(shm, m) /\ m.used \subseteq shm.used /\ m \in MemType /\ Entries(m) \subseteq m.used
 BY UsedEntries DEF Reduced
<1>2. Entries(m) \subseteq Entries(shm)
 BY <1>1 DEF Shrinks
<1>3. Successor(m)
 BY <1>1, <1>2 DEF Shrinks, Successor, SameEntry
<1>4. ASSUME NEW c \in Caches PROVE Shrunk(m, c)
 <2>1. m.cache[c].chain = Only(shm.cache[c].chain, Chained(m, c))
  BY <1>1 DEF Shrinks
 <2>2. \A b \in Chained(m, c) : b \in Entries(m)
  BY EntriesAre
 <2>3. \A b \in Entries(m) : m.slot[b].key = shm.slot[b].key
  BY <1>1 DEF Shrinks, SameEntry
 <2> QED BY <2>1, <2>2, <2>3 DEF Shrunk
<1> QED BY <1>1, <1>2, <1>3, <1>4

\* A place on a chain that only loses entries stays one.
LEMMA ShrunkPlace ==
    ASSUME NEW m, NEW c \in Caches, NEW r, shm \in MemType, Shrunk(m, c),
           PlaceOf(shm.cache[c].chain, r), \A b \in Chained(shm, c) : shm.slot[b].key # r.key
    PROVE  PlaceOf(m.cache[c].chain, r) /\ \A b \in Chained(m, c) : m.slot[b].key # r.key
<1> DEFINE s == shm.cache[c].chain
<1>1. s \in Seq(Blocks)
 BY MemTypes
<1>2. PICK S : m.cache[c].chain = Only(s, S)
 BY DEF Shrunk
<1>3. PlaceOf(s, r) /\ Chained(shm, c) = ToSet(s)
 BY DEF Chained
<1> HIDE DEF s
<1>4. PlaceOf(Only(s, S), r)
 BY <1>1, <1>3, PlaceOnly
<1>5. ToSet(Only(s, S)) \subseteq ToSet(s)
 BY <1>1, OnlyFacts
<1>6. Chained(m, c) \subseteq Chained(shm, c)
 BY <1>2, <1>3, <1>5 DEF Chained
<1> QED BY <1>2, <1>4, <1>6 DEF Shrunk

\* The places of processes other than p, whose caches it may not change but by
\* removing entries.
LEMMA PlacesStep ==
    ASSUME LInv, PlacesOK, shm \in MemType, NEW p \in Procs, PcStep(p),
           \A c \in Caches : lock[c] \notin {NULL, p} => Shrunk(shm', c),
           pc'[p].at = "slot" => PlaceKept(p)'
    PROVE  PlacesOK'
<1> SUFFICES ASSUME NEW q \in Procs \ {p}, pc'[q].at = "slot" PROVE PlaceKept(q)'
 BY DEF PlacesOK
<1>1. pc'[q] = pc[q]
 BY DEF PcStep
<1>2. pc[q].c \in Caches /\ lock[pc[q].c] = q /\ q # NULL
 BY <1>1, LFacts DEF PlaceOK, Inside
<1>3. Shrunk(shm', pc[q].c)
 BY <1>2
<1>4. PlaceOf(shm.cache[pc[q].c].chain, pc[q]) /\ \A b \in Chained(shm, pc[q].c) : shm.slot[b].key # pc[q].key
 BY <1>1 DEF PlacesOK, PlaceKept
<1>5. /\ PlaceOf(shm'.cache[pc[q].c].chain, pc[q])
      /\ \A b \in Chained(shm', pc[q].c) : shm'.slot[b].key # pc[q].key
 BY <1>2, <1>3, <1>4, ShrunkPlace
<1> QED BY <1>1, <1>5 DEF PlaceKept, Chained

\* A memory that has all entries still is one the variables become.
LEMMA BecomesSame ==
    ASSUME NEW m, Types, RefsOK, shm' = m, Entries(shm) \subseteq m.used, UNCHANGED <<leaked, damage>>
    PROVE  Becomes(m)
<1>1. \A b \in Blocks \ Entries(shm) : leaked[b] = 0 /\ References(b) = {}
 BY DEF RefsOK
<1>2. leaked' = [b \in Blocks |-> IF b \in m.used THEN leaked[b] ELSE 0]
 <2>1. \A b \in Blocks : leaked[b] = IF b \in m.used THEN leaked[b] ELSE 0
  BY <1>1
 <2> QED BY <2>1 DEF Types
<1>3. ~ \E b \in shm.used \ m.used : References(b) # {}
 <2>1. shm.used \subseteq Blocks
  BY DEF Types, MemType
 <2> QED BY <1>1, <2>1
<1> QED BY <1>2, <1>3 DEF Becomes

\* What the variables become with memory m.
LEMMA BecomesTypes ==
    ASSUME NEW m, Types, Becomes(m)
    PROVE  /\ leaked' \in [Blocks -> Nat] /\ damage' \in {"none", "gc", "slot"} /\ shm' = m
           /\ \A b \in Blocks : leaked'[b] = IF b \in m.used THEN leaked[b] ELSE 0
           /\ damage' = "none" => \A b \in shm.used \ m.used : References(b) = {}
BY DEF Types, Becomes

\* References are counted still when none comes or goes.
LEMMA RefsStep ==
    ASSUME NEW m, Types, RefsOK, Becomes(m), damage' = "none", m \in MemType,
           Entries(m) \subseteq m.used, Entries(shm) \subseteq shm.used, Successor(m),
           \A b \in Blocks : References(b)' = References(b)
    PROVE  RefsOK'
<1>1. /\ shm' = m
      /\ \A b \in Blocks : leaked'[b] = IF b \in m.used THEN leaked[b] ELSE 0
      /\ \A b \in shm.used \ m.used : References(b) = {}
 BY BecomesTypes
<1>2. ASSUME NEW b \in Blocks
      PROVE  IF b \in Entries(m)
             THEN m.slot[b].ref_count = Cardinality(References(b)) + leaked'[b]
             ELSE References(b) = {} /\ leaked'[b] = 0
 <2>1. CASE b \in Entries(m)
  <3>1. leaked'[b] = leaked[b]
   BY <1>1, <2>1
  <3>2. CASE b \in Entries(shm)
   <4>1. shm.slot[b].ref_count = Cardinality(References(b)) + leaked[b]
    BY <3>2 DEF RefsOK
   <4> QED BY <2>1, <3>1, <3>2, <4>1 DEF Successor
  <3>3. CASE b \notin Entries(shm)
   <4>1. References(b) = {} /\ leaked[b] = 0
    BY <3>3 DEF RefsOK
   <4>2. m.slot[b].ref_count = 0
    BY <2>1, <3>3 DEF Successor
   <4>3. Cardinality({}) = 0
    BY FS_EmptySet
   <4> QED BY <2>1, <3>1, <4>1, <4>2, <4>3
  <3> QED BY <3>2, <3>3
 <2>2. CASE b \notin Entries(m)
  <3>1. CASE b \in Entries(shm)
   <4>1. b \in shm.used \ m.used
    BY <2>2, <3>1 DEF Successor
   <4> QED BY <1>1, <2>2, <4>1
  <3>2. CASE b \notin Entries(shm)
   <4>1. References(b) = {} /\ leaked[b] = 0
    BY <3>2 DEF RefsOK
   <4> QED BY <1>1, <2>2, <4>1
  <3> QED BY <3>1, <3>2
 <2> QED BY <2>1, <2>2
<1>3. \A b \in Blocks : References(b)' = References(b)
 OBVIOUS
<1>4. Entries(shm)' = Entries(m)
 BY <1>1 DEF Entries, Chained, Deleted
<1>5. ASSUME NEW b \in Blocks
      PROVE  IF b \in Entries(shm)'
             THEN shm'.slot[b].ref_count = Cardinality(References(b)') + leaked'[b]
             ELSE References(b)' = {} /\ leaked'[b] = 0
 BY <1>1, <1>2, <1>3, <1>4, Zenon
<1> QED BY <1>5 DEF RefsOK

\* A process that copies nothing, before and after, has the references that are
\* on its stack.
LEMMA RefsKept ==
    ASSUME NEW p \in Procs, PcStep(p), UNCHANGED cache_stack, pc[p].at # "copy", pc'[p].at # "copy",
           NEW b
    PROVE  References(b)' = References(b)
<1>1. ASSUME NEW r \in Procs \X (0 .. MaxStack)
      PROVE  /\ cache_stack'[r[1]] = cache_stack[r[1]]
             /\ pc'[r[1]].at = "copy" /\ pc'[r[1]].e = b <=> pc[r[1]].at = "copy" /\ pc[r[1]].e = b
 <2>1. r[1] \in Procs
  OBVIOUS
 <2>2. CASE r[1] = p
  BY <2>2
 <2>3. CASE r[1] # p
  <3>1. pc'[r[1]] = pc[r[1]]
   BY <2>1, <2>3 DEF PcStep
  <3> QED BY <3>1
 <2> QED BY <2>2, <2>3
<1> QED BY <1>1 DEF References

\* A step without references that come or go.
LEMMA MemoryStep ==
    ASSUME IInv, damage = "none", NEW p \in Procs, NEW m, m \in MemType, Becomes(m),
           UNCHANGED <<now, cache_stack>>, PcStep(p), RecOK(pc'[p]),
           pc[p].at # "copy", pc'[p].at # "copy",
           Successor(m), Heap(m, Pools'), Distinct',
           \A c \in Caches : lock[c] \notin {NULL, p} => Shrunk(m, c),
           pc'[p].at = "slot" => PlaceKept(p)'
    PROVE  HStep
<1>1. LInv /\ Types /\ HeapInv /\ Heap(shm, Pools)
 BY DEF IInv, HeapInv
<1>2. /\ leaked' \in [Blocks -> Nat] /\ damage' \in {"none", "gc", "slot"} /\ shm' = m
 BY <1>1, BecomesTypes
<1>3. Types'
 <2>1. \A q \in Procs : RecOK(pc'[q])
  BY <1>1 DEF Types, PcStep
 <2>2. /\ shm' \in MemType
       /\ cache_stack' \in [Procs -> Seq(Blocks)]
       /\ \A q \in Procs : Len(cache_stack'[q]) <= MaxStack
       /\ now' \in Nat
  BY <1>1, <1>2 DEF Types
 <2> QED BY <1>2, <2>1, <2>2 DEF Types, RecOK
<1>4. ASSUME damage' = "none" PROVE HeapInv'
 <2>1. RefsOK'
  <3>1. Entries(m) \subseteq m.used /\ Entries(shm) \subseteq shm.used
   BY <1>1, UsedEntries
  <3>2. \A b \in Blocks : References(b)' = References(b)
   BY RefsKept
  <3> QED BY <1>1, <1>4, <3>1, <3>2, RefsStep DEF HeapInv
 <2>2. PlacesOK'
  <3>1. shm \in MemType /\ PlacesOK
   BY <1>1 DEF Types, HeapInv
  <3> QED BY <1>1, <1>2, <3>1, PlacesStep
 <2>3. Heap(shm, Pools)'
  <3>1. Heap(shm', Pools')
   BY <1>2
  <3> QED BY <3>1 DEF Heap, ListsOK, BlocksOK, KeysOK, Entries, Chained, Deleted
 <2> QED BY <2>1, <2>2, <2>3 DEF HeapInv
<1>5. GoneOK
 <2>1. Entries(m) \subseteq m.used
  BY UsedEntries
 <2> QED BY <1>2, <2>1 DEF GoneOK, Successor
<1> QED BY <1>3, <1>4, <1>5 DEF HStep

--------------------
(* The pools of the processes after a step of one.                           *)

\* Process p keeps the pool it has, or has none.
LEMMA PoolsSame ==
    ASSUME Distinct, NEW p \in Procs, PcStep(p),
           p \in Inserting <=> p \in Inserting', p \in Inserting => pc'[p].e = pc[p].e
    PROVE  Pools' = Pools /\ Distinct'
<1>1. Inserting' = Inserting /\ \A q \in Inserting : pc'[q].e = pc[q].e
 BY DEF PcStep, Inserting
<1> QED BY <1>1 DEF Pools, Distinct

\* Process p inserted its pool or gave it back.
LEMMA PoolsLeave ==
    ASSUME Distinct, NEW p \in Procs, PcStep(p), p \in Inserting, p \notin Inserting'
    PROVE  Pools' = Pools \ {pc[p].e} /\ Distinct'
<1>1. Inserting' = Inserting \ {p} /\ \A q \in Inserting \ {p} : pc'[q].e = pc[q].e
 BY DEF PcStep, Inserting
<1>2. \A q \in Inserting \ {p} : pc[q].e # pc[p].e
 BY DEF Distinct
<1> QED BY <1>1, <1>2 DEF Pools, Distinct

\* Process p has a new pool.
LEMMA PoolsJoin ==
    ASSUME Distinct, NEW p \in Procs, PcStep(p), p \notin Inserting, p \in Inserting',
           pc'[p].e \notin Pools
    PROVE  Pools' = Pools \cup {pc'[p].e} /\ Distinct'
<1>1. Inserting' = Inserting \cup {p} /\ \A q \in Inserting : pc'[q].e = pc[q].e
 BY DEF PcStep, Inserting
<1> QED BY <1>1 DEF Pools, Distinct

\* Process p goes on to r.
LEMMA PcSet ==
    ASSUME LInv, NEW p \in Procs, NEW r, pc' = [pc EXCEPT ![p] = r]
    PROVE  PcStep(p) /\ pc'[p] = r
BY DEF LInv, PcStep

\* Process p stays where it is.
LEMMA PcSame ==
    ASSUME LInv, NEW p \in Procs, pc' = pc
    PROVE  PcStep(p)
BY DEF LInv, PcStep

\* A process is at one place.
LEMMA InsertingIs ==
    ASSUME NEW p \in Procs
    PROVE  /\ p \in Inserting <=> pc[p].at \in {"checks", "insert", "slot"}
           /\ p \in Inserting' <=> pc'[p].at \in {"checks", "insert", "slot"}
BY DEF Inserting

\* What the invariant says while no damage is done.
LEMMA IFacts ==
    ASSUME IInv, damage = "none", NEW p \in Procs
    PROVE  /\ LInv /\ Types /\ HeapInv /\ Heap(shm, Pools) /\ Distinct /\ RefsOK
           /\ shm \in MemType /\ now \in Nat /\ RecOK(pc[p]) /\ PlaceOK(p) /\ DOMAIN pc = Procs
           /\ Entries(shm) \subseteq shm.used /\ Reduced(shm, shm, Pools)
           /\ pc[p].at = "slot" => PlaceKept(p)
<1>1. LInv /\ Types /\ HeapInv /\ Heap(shm, Pools) /\ Distinct /\ RefsOK
 BY DEF IInv, HeapInv
<1>2. shm \in MemType /\ now \in Nat /\ RecOK(pc[p]) /\ PlaceOK(p) /\ DOMAIN pc = Procs
 BY <1>1 DEF Types, LInv
<1>3. Entries(shm) \subseteq shm.used /\ Reduced(shm, shm, Pools)
 BY <1>1, <1>2, UsedEntries, ReducedSelf
<1> QED BY <1>1, <1>2, <1>3 DEF HeapInv, PlacesOK

--------------------
(* Steps that only remove entries.                                           *)

\* Process p stays where it is, or goes somewhere else without a pool.
LEMMA ShrinkStep ==
    ASSUME IInv, damage = "none", NEW p \in Procs, NEW m, Becomes(m), Reduced(shm, m, Pools),
           UNCHANGED <<now, cache_stack>>, PcStep(p), RecOK(pc'[p]),
           pc[p].at # "copy", pc'[p].at # "copy",
           p \in Inserting <=> p \in Inserting', p \in Inserting => pc'[p].e = pc[p].e,
           pc'[p].at = "slot" =>
              /\ pc[p].at = "slot" /\ pc'[p].c = pc[p].c /\ pc'[p].key = pc[p].key
              /\ pc'[p].prev = pc[p].prev /\ pc'[p].next = pc[p].next
    PROVE  HStep
<1>1. Types /\ Distinct /\ shm \in MemType /\ (pc[p].at = "slot" => PlaceKept(p) /\ pc[p].c \in Caches)
 BY IFacts DEF PlaceOK
<1>2. Pools' = Pools /\ Distinct'
 BY <1>1, PoolsSame
<1>3. /\ Successor(m) /\ m \in MemType /\ Heap(m, Pools)
      /\ \A c \in Caches : Shrunk(m, c)
 BY <1>1, ReducedIs
<1>4. shm' = m
 BY DEF Becomes
<1>5. ASSUME pc'[p].at = "slot" PROVE PlaceKept(p)'
 <2>1. /\ pc[p].at = "slot" /\ pc'[p].c = pc[p].c /\ pc'[p].key = pc[p].key
       /\ pc'[p].prev = pc[p].prev /\ pc'[p].next = pc[p].next /\ pc[p].c \in Caches
  BY <1>1, <1>5
 <2>2. /\ PlaceOf(shm.cache[pc[p].c].chain, pc[p])
       /\ \A b \in Chained(shm, pc[p].c) : shm.slot[b].key # pc[p].key
  BY <1>1, <2>1 DEF PlaceKept
 <2>3. Shrunk(m, pc[p].c)
  BY <1>3, <2>1
 <2>4. /\ PlaceOf(m.cache[pc[p].c].chain, pc[p])
       /\ \A b \in Chained(m, pc[p].c) : m.slot[b].key # pc[p].key
  BY <1>1, <2>1, <2>2, <2>3, ShrunkPlace
 <2>5. PlaceOf(m.cache[pc[p].c].chain, pc'[p])
  BY <2>1, <2>4 DEF PlaceOf
 <2> QED BY <1>4, <2>1, <2>4, <2>5 DEF PlaceKept, Chained
<1>6. Heap(m, Pools') /\ (pc'[p].at = "slot" => PlaceKept(p)')
 BY <1>2, <1>3, <1>5
<1> QED BY <1>2, <1>3, <1>6, MemoryStep

\* Process p goes from one place to another, without a pool.
LEMMA ShrinkGoes ==
    ASSUME IInv, damage = "none", NEW p \in Procs, NEW m, NEW r, Becomes(m), Reduced(shm, m, Pools),
           UNCHANGED <<now, cache_stack>>, pc' = pc \/ pc' = [pc EXCEPT ![p] = r],
           pc[p].at \in {"idle", "miss", "pool", "deactivate", "clear"},
           r.at \in {"idle", "miss", "pool", "deactivate", "clear"}, RecOK(r)
    PROVE  HStep
<1>1. LInv /\ RecOK(pc[p])
 BY IFacts
<1>2. PcStep(p) /\ RecOK(pc'[p]) /\ pc'[p].at \in {"idle", "miss", "pool", "deactivate", "clear"}
 BY <1>1, PcSet, PcSame
<1>3. p \notin Inserting /\ p \notin Inserting'
 BY <1>2, InsertingIs
<1> QED BY <1>2, <1>3, ShrinkStep

\* It goes on inside an allocation.
LEMMA ShrinkStays ==
    ASSUME IInv, damage = "none", NEW p \in Procs, NEW m, NEW i, NEW sweep,
           Becomes(m), Reduced(shm, m, Pools), UNCHANGED <<now, cache_stack>>, InMalloc(p),
           pc' = [pc EXCEPT ![p] = [[pc[p] EXCEPT !.i = i] EXCEPT !.sweep = sweep]]
    PROVE  HStep
<1> DEFINE r == [[pc[p] EXCEPT !.i = i] EXCEPT !.sweep = sweep]
<1>1. LInv /\ RecOK(pc[p]) /\ DOMAIN pc[p] = Fields
 BY IFacts DEF PlaceOK
<1>2. /\ r.at = pc[p].at /\ r.c = pc[p].c /\ r.key = pc[p].key /\ r.mtime = pc[p].mtime
      /\ r.ttl = pc[p].ttl /\ r.t = pc[p].t /\ r.e = pc[p].e /\ r.prev = pc[p].prev
      /\ r.next = pc[p].next
 BY <1>1 DEF Fields, AtRest
<1> HIDE DEF r
<1>3. PcStep(p) /\ pc'[p] = r
 BY <1>1, PcSet DEF r
<1>4. RecOK(r)
 BY <1>1, <1>2 DEF RecOK
<1>5. /\ pc[p].at # "copy" /\ r.at # "copy"
      /\ p \in Inserting <=> p \in Inserting'
 BY <1>2, <1>3, InsertingIs DEF InMalloc
<1> QED BY <1>2, <1>3, <1>4, <1>5, ShrinkStep

--------------------
(* Steps that change no memory.                                              *)

\* The memory is its own successor.
LEMMA QuietIs ==
    ASSUME IInv, damage = "none", NEW p \in Procs, UNCHANGED <<shm, leaked, damage>>
    PROVE  Becomes(shm) /\ Reduced(shm, shm, Pools)
<1>1. Types /\ RefsOK /\ Entries(shm) \subseteq shm.used /\ Reduced(shm, shm, Pools)
 BY IFacts
<1>2. shm' = shm
 OBVIOUS
<1> QED BY <1>1, <1>2, BecomesSame

\* Records of processes without a pool.
LEMMA RestOK ==
    /\ AtRest.at = "idle" /\ RecOK(AtRest)
    /\ LET r == [AtRest EXCEPT !.at = "deactivate"] IN r.at = "deactivate" /\ RecOK(r)
    /\ \A c \in Caches : LET r == [AtRest EXCEPT !.at = "clear", !.c = c]
                         IN r.at = "clear" /\ RecOK(r)
BY DEF AtRest, RecOK

\* apc_store or apc_add is called.
LEMMA HStoreBegins ==
    ASSUME IInv, damage = "none", NEW p \in Procs, NEW k \in UserKeys, NEW entry_ttl \in UserTtls,
           StoreBegins(p, k, entry_ttl)
    PROVE  HStep
<1> DEFINE r == [AtRest EXCEPT !.at = "pool", !.c = "user", !.key = k, !.ttl = entry_ttl,
                               !.t = now, !.i = 1]
<1>1. /\ r.at = "pool" /\ r.c = "user" /\ r.key = k /\ r.ttl = entry_ttl /\ r.t = now
      /\ r.mtime = 0
 BY DEF AtRest
<1>2. pc' = [pc EXCEPT ![p] = r] /\ pc[p].at = "idle"
      /\ UNCHANGED <<shm, leaked, damage, now, cache_stack>>
 BY DEF StoreBegins, Calls
<1> HIDE DEF r
<1>3. RecOK(r)
 <2>1. now \in Nat /\ entry_ttl \in Nat
  BY IFacts, CacheAssumption
 <2> QED BY <1>1, <2>1 DEF RecOK, Keys
<1>4. Becomes(shm) /\ Reduced(shm, shm, Pools)
 BY <1>2, QuietIs
<1> QED BY <1>1, <1>2, <1>3, <1>4, ShrinkGoes

\* A script is compiled, and to be inserted or not.
LEMMA HCompile ==
    ASSUME IInv, damage = "none", NEW p \in Procs, Compile(p)
    PROVE  HStep
<1> DEFINE r == [[pc[p] EXCEPT !.at = "pool"] EXCEPT !.i = 1]
<1>1. /\ pc[p].at = "miss" /\ UNCHANGED <<shm, leaked, damage, now, cache_stack>>
      /\ pc' = [pc EXCEPT ![p] = r] \/ pc' = [pc EXCEPT ![p] = AtRest]
 BY DEF Compile
<1>2. Becomes(shm) /\ Reduced(shm, shm, Pools)
 BY <1>1, QuietIs
<1>3. CASE pc' = [pc EXCEPT ![p] = AtRest]
 BY <1>1, <1>2, <1>3, RestOK, ShrinkGoes
<1>4. CASE pc' = [pc EXCEPT ![p] = r]
 <2>1. RecOK(pc[p]) /\ DOMAIN pc[p] = Fields
  BY IFacts DEF PlaceOK
 <2>2. /\ r.at = "pool" /\ r.c = pc[p].c /\ r.key = pc[p].key /\ r.mtime = pc[p].mtime
       /\ r.ttl = pc[p].ttl /\ r.t = pc[p].t
  BY <2>1 DEF Fields, AtRest
 <2> HIDE DEF r
 <2>3. RecOK(r)
  BY <1>1, <2>1, <2>2 DEF RecOK
 <2> QED BY <1>1, <1>2, <1>4, <2>2, <2>3, ShrinkGoes
<1> QED BY <1>1, <1>3, <1>4

\* Steps that leave the memory alone, and end at rest or in deactivate.
LEMMA HQuiet ==
    ASSUME IInv, damage = "none", NEW p \in Procs,
           CompileBailsOut(p) \/ PoolFails(p) \/ RequestEnds(p)
    PROVE  HStep
<1> DEFINE r == [AtRest EXCEPT !.at = "deactivate"]
<1>1. r.at = "deactivate" /\ RecOK(r) /\ AtRest.at = "idle" /\ RecOK(AtRest)
 BY RestOK
<1>2. /\ pc[p].at \in {"pool", "idle"} /\ UNCHANGED <<shm, leaked, damage, now, cache_stack>>
      /\ pc' = [pc EXCEPT ![p] = r] \/ pc' = [pc EXCEPT ![p] = AtRest]
 BY DEF CompileBailsOut, PoolFails, RequestEnds, Returns
<1> HIDE DEF r
<1>3. Becomes(shm) /\ Reduced(shm, shm, Pools)
 BY <1>2, QuietIs
<1>4. CASE pc' = [pc EXCEPT ![p] = r]
 BY <1>1, <1>2, <1>3, <1>4, ShrinkGoes
<1>5. CASE pc' = [pc EXCEPT ![p] = AtRest]
 BY <1>1, <1>2, <1>3, <1>5, ShrinkGoes
<1> QED BY <1>2, <1>4, <1>5

\* An allocation finds no block and goes on.
LEMMA HTryFails ==
    ASSUME IInv, damage = "none", NEW p \in Procs, TryFails(p)
    PROVE  HStep
<1>1. /\ InMalloc(p) /\ UNCHANGED <<shm, leaked, damage, now, cache_stack>>
      /\ pc' = [pc EXCEPT ![p].i = @ + 1]
 BY DEF TryFails
<1>2. Becomes(shm) /\ Reduced(shm, shm, Pools)
 BY <1>1, QuietIs
<1>3. DOMAIN pc[p] = Fields
 BY IFacts DEF PlaceOK
<1>4. pc' = [pc EXCEPT ![p] = [[pc[p] EXCEPT !.i = pc[p].i + 1] EXCEPT !.sweep = pc[p].sweep]]
 <2>1. [pc[p] EXCEPT !.i = pc[p].i + 1] = [[pc[p] EXCEPT !.i = pc[p].i + 1] EXCEPT !.sweep = pc[p].sweep]
  BY <1>3 DEF Fields, AtRest
 <2> QED BY <1>1, <2>1
<1> QED BY <1>1, <1>2, <1>4, ShrinkStays

--------------------
(* Steps that remove entries, or set the caches' flags.                      *)

\* It collects the deleted list of a cache.
LEMMA HExpungeBegins ==
    ASSUME IInv, damage = "none", NEW p \in Procs, ExpungeBegins(p)
    PROVE  HStep
<1> DEFINE c == Does(p)
           m == Collected(shm, c)
           v == [m EXCEPT !.cache[c].busy = TRUE]
<1>1. /\ InMalloc(p) /\ c \in Caches /\ UNCHANGED <<now, cache_stack>>
      /\ \/ Becomes(m) /\ pc' = [pc EXCEPT ![p].i = @ + 1]
         \/ Becomes(v) /\ pc' = [pc EXCEPT ![p].sweep = TRUE]
 BY DEF ExpungeBegins
<1>2. Heap(shm, Pools) /\ now \in Nat /\ DOMAIN pc[p] = Fields
 BY IFacts DEF PlaceOK
<1> HIDE DEF c
<1>3. Reduced(shm, m, Pools) /\ Heap(m, Pools)
 BY <1>1, <1>2, CollectedHeap DEF Reduced
<1>4. v \in MemType /\ SameLists(m, v) /\ v.slot = m.slot
 BY <1>1, <1>3, BusyIs DEF Heap
<1> HIDE DEF m, v
<1>5. Reduced(shm, v, Pools)
 BY <1>2, <1>3, <1>4, ReducedFlags, ReducedTrans
<1>6. CASE Becomes(m) /\ pc' = [pc EXCEPT ![p].i = @ + 1]
 <2>1. [pc[p] EXCEPT !.i = pc[p].i + 1] = [[pc[p] EXCEPT !.i = pc[p].i + 1] EXCEPT !.sweep = pc[p].sweep]
  BY <1>2 DEF Fields, AtRest
 <2>2. pc' = [pc EXCEPT ![p] = [[pc[p] EXCEPT !.i = pc[p].i + 1] EXCEPT !.sweep = pc[p].sweep]]
  BY <1>6, <2>1
 <2> QED BY <1>1, <1>3, <1>6, <2>2, ShrinkStays
<1>7. CASE Becomes(v) /\ pc' = [pc EXCEPT ![p].sweep = TRUE]
 <2>1. [pc[p] EXCEPT !.sweep = TRUE] = [[pc[p] EXCEPT !.i = pc[p].i] EXCEPT !.sweep = TRUE]
  BY <1>2 DEF Fields, AtRest
 <2>2. pc' = [pc EXCEPT ![p] = [[pc[p] EXCEPT !.i = pc[p].i] EXCEPT !.sweep = TRUE]]
  BY <1>7, <2>1
 <2> QED BY <1>1, <1>5, <1>7, <2>2, ShrinkStays
<1> QED BY <1>1, <1>6, <1>7

\* It sweeps a cache, one that another insertion may be about to walk.
LEMMA HExpungeSweeps ==
    ASSUME IInv, damage = "none", NEW p \in Procs, ExpungeSweeps(p)
    PROVE  HStep
<1>1. Heap(shm, Pools) /\ now \in Nat /\ DOMAIN pc[p] = Fields /\ PlaceOK(p)
 BY IFacts DEF PlaceOK
<1>2. InMalloc(p) /\ Does(p) \in Caches /\ UNCHANGED <<now, cache_stack>>
 BY <1>1 DEF ExpungeSweeps, PlaceOK
<1>3. Becomes(Expunged(shm, Does(p))) /\ Reduced(shm, Expunged(shm, Does(p)), Pools)
 BY <1>1, <1>2, ExpungedHeap DEF ExpungeSweeps
<1>4. pc' = [pc EXCEPT ![p] = [[pc[p] EXCEPT !.i = pc[p].i + 1] EXCEPT !.sweep = FALSE]]
 BY DEF ExpungeSweeps
<1> QED BY <1>2, <1>3, <1>4, ShrinkStays

\* An entry is deleted by its key.
LEMMA HDelete ==
    ASSUME IInv, damage = "none", NEW p \in Procs, NEW c \in Caches, NEW k, Delete(p, c, k)
    PROVE  HStep
<1> DEFINE b == shm.cache[c].chain[Position(shm, c, k)]
           m == Removed(shm, c, b, now)
<1>1. Heap(shm, Pools) /\ now \in Nat /\ shm.cache[c].chain \in Seq(Blocks)
 BY IFacts, MemTypes
<1>2. /\ pc[p].at = "idle" /\ Becomes(m) /\ UNCHANGED <<now, cache_stack, pc>>
      /\ Position(shm, c, k) > 0
 BY DEF Delete, Calls
<1>3. b \in Chained(shm, c)
 BY <1>1, <1>2, PositionIs
<1> HIDE DEF b
<1>4. Reduced(shm, m, Pools)
 BY <1>1, <1>3, RemovedHeap DEF Reduced
<1> HIDE DEF m
<1> QED BY <1>2, <1>4, RestOK, ShrinkGoes

\* A cache is locked to be cleared.
LEMMA HClearBegins ==
    ASSUME IInv, damage = "none", NEW p \in Procs, NEW c \in Caches, ClearBegins(p, c)
    PROVE  HStep
<1> DEFINE m == [shm EXCEPT !.cache[c].busy = TRUE]
           r == [AtRest EXCEPT !.at = "clear", !.c = c]
<1>1. /\ pc[p].at = "idle" /\ shm' = m /\ UNCHANGED <<now, cache_stack, leaked, damage>>
      /\ pc' = [pc EXCEPT ![p] = r]
 BY DEF ClearBegins, Calls
<1>2. r.at = "clear" /\ RecOK(r)
 BY RestOK
<1>3. Heap(shm, Pools) /\ Types /\ RefsOK /\ shm \in MemType /\ Entries(shm) \subseteq shm.used
 BY IFacts
<1>4. m \in MemType /\ SameLists(shm, m) /\ m.slot = shm.slot
 BY <1>3, BusyIs
<1> HIDE DEF m, r
<1>5. Reduced(shm, m, Pools) /\ m.used = shm.used
 BY <1>3, <1>4, ReducedFlags DEF SameLists
<1>6. Becomes(m)
 BY <1>1, <1>3, <1>5, BecomesSame
<1> QED BY <1>1, <1>2, <1>5, <1>6, ShrinkGoes

\* It is cleared.
LEMMA HClearEnds ==
    ASSUME IInv, damage = "none", NEW p \in Procs, ClearEnds(p)
    PROVE  HStep
<1> DEFINE c == pc[p].c
           w == RemovedAll(shm, c, shm.cache[c].chain, now)
           m == [w EXCEPT !.cache[c] = [@ EXCEPT !.lastkey = NULL, !.busy = FALSE]]
<1>1. /\ pc[p].at = "clear" /\ Becomes(m) /\ UNCHANGED <<now, cache_stack>>
      /\ pc' = [pc EXCEPT ![p] = AtRest]
 BY DEF ClearEnds
<1>2. Heap(shm, Pools) /\ now \in Nat /\ c \in Caches
 BY <1>1, IFacts DEF PlaceOK
<1> HIDE DEF c
<1>3. Reduced(shm, m, Pools)
 BY <1>2, ClearedHeap
<1> HIDE DEF m
<1> QED BY <1>1, <1>3, RestOK, ShrinkGoes

--------------------
(* Steps that create, insert or give back a pool.                            *)

\* The lists of u, with another set of blocks in use.
LEMMA SameCaches ==
    ASSUME NEW u, NEW w, w.cache = u.cache, w.slot = u.slot, Successor(u),
           \A c \in Caches : Shrunk(u, c), w.used \subseteq u.used \/ Entries(u) = Entries(shm)
    PROVE  Successor(w) /\ (\A c \in Caches : Shrunk(w, c)) /\ Entries(w) = Entries(u)
<1>1. Entries(w) = Entries(u) /\ \A c \in Caches : Chained(w, c) = Chained(u, c)
 BY DEF Entries, Chained, Deleted
<1>2. Successor(w)
 BY <1>1 DEF Successor
<1>3. ASSUME NEW c \in Caches PROVE Shrunk(w, c)
 <2>1. Shrunk(u, c) /\ Chained(w, c) = Chained(u, c)
  BY <1>1
 <2> QED BY <2>1 DEF Shrunk
<1> QED BY <1>1, <1>2, <1>3

\* A step after which freed memory may have been relied on.
LEMMA DamagedStep ==
    ASSUME Types, NEW p \in Procs, PcStep(p), RecOK(pc'[p]), shm' \in MemType, damage' = "slot",
           UNCHANGED <<leaked, now, cache_stack>>, Entries(shm) \subseteq shm'.used
    PROVE  HStep
<1>1. \A q \in Procs : RecOK(pc'[q])
 BY DEF Types, PcStep
<1>2. Types'
 <2>1. /\ leaked' \in [Blocks -> Nat] /\ now' \in Nat
       /\ cache_stack' \in [Procs -> Seq(Blocks)]
       /\ \A q \in Procs : Len(cache_stack'[q]) <= MaxStack
  BY DEF Types
 <2> QED BY <1>1, <2>1 DEF Types, RecOK
<1> QED BY <1>2 DEF HStep, GoneOK

\* A process allocates a pool for its entry.
LEMMA HPoolCreated ==
    ASSUME IInv, damage = "none", NEW p \in Procs, NEW b \in Blocks, PoolCreated(p, b)
    PROVE  HStep
<1>1. /\ pc[p].at = "pool" /\ b \in Blocks \ shm.used
      /\ UNCHANGED <<now, cache_stack, leaked, damage>>
 BY DEF PoolCreated
<1>2. /\ LInv /\ Types /\ Heap(shm, Pools) /\ Distinct /\ RefsOK /\ Entries(shm) \subseteq shm.used
      /\ RecOK(pc[p]) /\ DOMAIN pc[p] = Fields /\ Reduced(shm, shm, Pools)
 BY IFacts DEF PlaceOK
<1>3. CASE UNCHANGED shm /\ pc' = [pc EXCEPT ![p] = AtRest]
 <2>1. Becomes(shm)
  BY <1>1, <1>3, QuietIs
 <2> QED BY <1>1, <1>2, <1>3, <2>1, RestOK, ShrinkGoes
<1>4. CASE /\ shm' = [shm EXCEPT !.used = @ \cup {b}]
           /\ pc' = [pc EXCEPT ![p] = [@ EXCEPT !.e = b, !.i = 0,
                                                !.at = IF pc[p].c = "user" THEN "checks" ELSE "insert"]]
 <2> DEFINE m == [shm EXCEPT !.used = @ \cup {b}]
            x == IF pc[p].c = "user" THEN "checks" ELSE "insert"
            r == [[[pc[p] EXCEPT !.e = b] EXCEPT !.i = 0] EXCEPT !.at = x]
 <2>1. /\ Heap(m, Pools \cup {b}) /\ m.used = shm.used \cup {b} /\ m.cache = shm.cache
       /\ m.slot = shm.slot /\ m \in MemType /\ b \notin Pools
  BY <1>1, <1>2, PrivateTaken
 <2>2. x \in {"checks", "insert"}
  OBVIOUS
 <2>3. pc' = [pc EXCEPT ![p] = r] /\ shm' = m
  BY <1>4
 <2> HIDE DEF m, x
 <2>4. /\ r.at = x /\ r.c = pc[p].c /\ r.key = pc[p].key /\ r.mtime = pc[p].mtime
       /\ r.ttl = pc[p].ttl /\ r.t = pc[p].t /\ r.e = b
  BY <1>2 DEF Fields, AtRest
 <2> HIDE DEF r
 <2>5. RecOK(r)
  BY <1>1, <1>2, <2>2, <2>4 DEF RecOK
 <2>6. PcStep(p) /\ pc'[p] = r
  BY <1>2, <2>3, PcSet
 <2>7. p \notin Inserting /\ p \in Inserting'
  BY <1>1, <2>2, <2>4, <2>6, InsertingIs
 <2>8. Pools' = Pools \cup {b} /\ Distinct'
  BY <1>2, <2>1, <2>4, <2>6, <2>7, PoolsJoin
 <2>9. Successor(shm) /\ \A c \in Caches : Shrunk(shm, c)
  BY <1>2, ReducedIs
 <2>10. Successor(m) /\ \A c \in Caches : Shrunk(m, c)
  BY <2>1, <2>9, SameCaches
 <2>11. Becomes(m)
  BY <1>1, <1>2, <2>1, <2>3, BecomesSame
 <2>12. Heap(m, Pools')
  BY <2>1, <2>8
 <2>13. r.at # "copy" /\ r.at # "slot"
  BY <2>2, <2>4
 <2> QED BY <1>1, <2>1, <2>5, <2>6, <2>8, <2>10, <2>11, <2>12, <2>13, MemoryStep
<1> QED BY <1>3, <1>4 DEF PoolCreated, Returns

\* A memory without pool e.
LEMMA FreedPool ==
    ASSUME NEW P, NEW u, NEW e \in P, Heap(u, P), Successor(u), \A c \in Caches : Shrunk(u, c)
    PROVE  /\ Heap(Freed(u, e), P \ {e}) /\ Freed(u, e) \in MemType
           /\ Successor(Freed(u, e)) /\ \A c \in Caches : Shrunk(Freed(u, e), c)
<1> DEFINE m == Freed(u, e)
<1>0. /\ Heap(Freed(u, e), P \ {e})
      /\ Freed(u, e).used = u.used \ {e} /\ Freed(u, e).cache = u.cache
      /\ Freed(u, e).slot = u.slot /\ Freed(u, e) \in MemType
      /\ e \in Blocks /\ e \notin Entries(u)
 BY PrivateFreed
<1>1. /\ Heap(m, P \ {e}) /\ m.used = u.used \ {e} /\ m.cache = u.cache
      /\ m.slot = u.slot /\ m \in MemType
 BY <1>0
<1> HIDE DEF m
<1>2. Successor(m) /\ \A c \in Caches : Shrunk(m, c)
 BY <1>1, SameCaches
<1> QED BY <1>1, <1>2 DEF m

\* Process p gives its pool back, after entries were removed.
LEMMA GivesBack ==
    ASSUME IInv, damage = "none", NEW p \in Procs, NEW u, Reduced(shm, u, Pools), p \in Inserting,
           Becomes(Freed(u, pc[p].e)), Returns(p), UNCHANGED <<now, cache_stack>>
    PROVE  HStep
<1>1. pc[p].e \in Pools /\ pc[p].at # "copy"
 BY DEF Pools, Inserting
<1>2. LInv /\ Types /\ Distinct
 BY IFacts
<1>3. /\ Successor(u) /\ \A c \in Caches : Shrunk(u, c)
      /\ Heap(u, Pools)
 BY <1>2, ReducedIs
<1> DEFINE e == pc[p].e
           m == Freed(u, e)
<1>4. e = pc[p].e /\ Becomes(m) /\ e \in Pools
 BY <1>1
<1> HIDE DEF e
<1>5. /\ Heap(m, Pools \ {e}) /\ m \in MemType
      /\ Successor(m) /\ \A c \in Caches : Shrunk(m, c)
 BY <1>3, <1>4, FreedPool
<1> HIDE DEF m
<1>7. PcStep(p) /\ pc'[p] = AtRest /\ AtRest.at = "idle" /\ RecOK(AtRest)
 BY <1>2, PcSet, RestOK DEF Returns
<1>8. p \notin Inserting'
 BY <1>7, InsertingIs
<1>9. Pools' = Pools \ {e} /\ Distinct'
 BY <1>2, <1>4, <1>7, <1>8, PoolsLeave
<1>10. Heap(m, Pools')
 BY <1>5, <1>9
<1> QED BY <1>1, <1>4, <1>5, <1>7, <1>9, <1>10, MemoryStep

\* The store goes on to insert, or gives its pool back.
LEMMA HStoreChecks ==
    ASSUME IInv, damage = "none", NEW p \in Procs, StoreChecks(p)
    PROVE  HStep
<1>1. pc[p].at = "checks" /\ UNCHANGED <<now, cache_stack>> /\ p \in Inserting
 BY InsertingIs DEF StoreChecks
<1>2. LInv /\ RecOK(pc[p]) /\ DOMAIN pc[p] = Fields /\ Reduced(shm, shm, Pools) /\ pc[p].c \in Caches
 BY <1>1, IFacts DEF PlaceOK
<1>3. CASE Becomes(Freed(shm, pc[p].e)) /\ Returns(p)
 BY <1>1, <1>2, <1>3, GivesBack
<1>4. CASE pc' = [pc EXCEPT ![p].at = "insert"] /\ UNCHANGED <<shm, leaked, damage>>
 <2> DEFINE r == [pc[p] EXCEPT !.at = "insert"]
 <2>1. Becomes(shm)
  BY <1>4, QuietIs
 <2>2. PcStep(p) /\ pc'[p] = r
  BY <1>2, <1>4, PcSet
 <2>3. /\ r.at = "insert" /\ r.c = pc[p].c /\ r.key = pc[p].key /\ r.mtime = pc[p].mtime
       /\ r.ttl = pc[p].ttl /\ r.t = pc[p].t /\ r.e = pc[p].e
  BY <1>2 DEF Fields, AtRest
 <2> HIDE DEF r
 <2>4. RecOK(r)
  BY <1>1, <1>2, <2>3 DEF RecOK
 <2>5. p \in Inserting'
  BY <2>2, <2>3, InsertingIs
 <2>6. pc[p].at # "copy" /\ r.at # "copy" /\ r.at # "slot"
  BY <1>1, <2>3
 <2> QED BY <1>1, <1>2, <2>1, <2>2, <2>3, <2>4, <2>5, <2>6, ShrinkStep
<1> QED BY <1>3, <1>4 DEF StoreChecks

--------------------
(* An insertion.                                                             *)

\* The memory when the walk begins and when it ends, and what the process
\* remembers of the place where it stopped.
WalkBegins(p) == Prepared(shm, p, pc[p])

\* The memory when the walk stops.
WalkEnds(p, exclusive) == Walked(WalkBegins(p), pc[p], exclusive)

\* The entry found is kept, and the new one not inserted.
KeepsFound(p, exclusive) ==
    Kept(WalkBegins(p), pc[p], Position(WalkBegins(p), pc[p].c, pc[p].key), exclusive)

\* Where the walk of the insertion stops.
Stop(p, exclusive) ==
    LET j    == Position(WalkBegins(p), pc[p].c, pc[p].key)
        u    == WalkEnds(p, exclusive)
        rest == Rest(WalkBegins(p).cache[pc[p].c].chain, u.cache[pc[p].c].chain, j)
        pre  == SubSeq(u.cache[pc[p].c].chain, 1, Len(u.cache[pc[p].c].chain) - Len(rest))
    IN  [[pc[p] EXCEPT !.prev = IF pre = <<>> THEN NULL ELSE Last(pre)]
            EXCEPT !.next = IF rest = <<>> THEN NULL ELSE Head(rest)]

\* The action, in these terms.
LEMMA InsertIs ==
    ASSUME NEW p, NEW exclusive, Insert(p, exclusive)
    PROVE  /\ pc[p].at = "insert" /\ lock[pc[p].c] = NULL /\ UNCHANGED <<now, cache_stack>>
           /\ \/ Becomes(Freed(WalkEnds(p, exclusive), pc[p].e)) /\ Returns(p)
              \/ /\ ~KeepsFound(p, exclusive)
                 /\ Becomes(Linked(WalkEnds(p, exclusive), Stop(p, exclusive), NULL))
                 /\ Returns(p)
              \/ /\ ~KeepsFound(p, exclusive)
                 /\ Becomes(WalkEnds(p, exclusive))
                 /\ pc' = [pc EXCEPT ![p] = [[Stop(p, exclusive) EXCEPT !.at = "slot"] EXCEPT !.i = 1]]
BY DEF Insert, WalkBegins, WalkEnds, KeepsFound, Stop

\* Where an insertion's walk ends, its entry has a place.
LEMMA WalkPlace ==
    ASSUME IInv, damage = "none", NEW p \in Procs, NEW exclusive, pc[p].at = "insert"
    PROVE  /\ Reduced(shm, WalkEnds(p, exclusive), Pools)
           /\ ~KeepsFound(p, exclusive) =>
                 \A b \in Chained(WalkEnds(p, exclusive), pc[p].c) :
                     WalkEnds(p, exclusive).slot[b].key # pc[p].key
           /\ PlaceOf(WalkEnds(p, exclusive).cache[pc[p].c].chain, Stop(p, exclusive))
           /\ {Stop(p, exclusive).prev, Stop(p, exclusive).next} \subseteq Blocks \cup {NULL}
           /\ PlaceIntact(WalkEnds(p, exclusive), Stop(p, exclusive))
<1> DEFINE r == pc[p]
           m == WalkBegins(p)
           u == WalkEnds(p, exclusive)
           s == Stop(p, exclusive)
           c == r.c
           j == Position(m, c, r.key)
           chain == m.cache[c].chain
           rest == Rest(chain, u.cache[c].chain, j)
           pre == SubSeq(u.cache[c].chain, 1, Len(u.cache[c].chain) - Len(rest))
<1>1. /\ Heap(shm, Pools) /\ now \in Nat /\ c \in Caches /\ DOMAIN r = Fields
      /\ c = "user" => r.key \in UserKeys /\ r.t \in Nat
 BY IFacts DEF PlaceOK, RecOK, Keys
<1>2. Reduced(shm, m, Pools) /\ Heap(m, Pools)
 BY <1>1, PreparedHeap DEF WalkBegins, Reduced
<1>3. /\ Reduced(m, u, Pools)
      /\ ~KeepsFound(p, exclusive) => \A b \in Chained(u, c) : u.slot[b].key # r.key
 <2> HIDE DEF m, r
 <2>1. /\ Reduced(m, Walked(m, r, exclusive), Pools)
       /\ ~Kept(m, r, Position(m, r.c, r.key), exclusive) =>
                \A b \in Chained(Walked(m, r, exclusive), r.c) :
                    Walked(m, r, exclusive).slot[b].key # r.key
  BY <1>1, <1>2, WalkedHeap
 <2> QED BY <2>1 DEF WalkEnds, KeepsFound, m, r
<1>4. Reduced(shm, u, Pools)
 BY <1>1, <1>2, <1>3, ReducedTrans
<1>5. chain \in Seq(Blocks) /\ j \in 0 .. Len(chain)
 <2>1. m.cache[c].chain \in Seq(Blocks)
  BY <1>1, <1>2, MemTypes DEF Heap
 <2> QED BY <2>1, PositionIs
<1>6. u.cache[c].chain = Only(chain, Chained(u, c))
 BY <1>1, <1>3 DEF Reduced, Shrinks
<1>7. /\ s.prev = IF pre = <<>> THEN NULL ELSE Last(pre)
      /\ s.next = IF rest = <<>> THEN NULL ELSE Head(rest)
      /\ s.c = c
 BY <1>1 DEF Stop, Fields, AtRest
<1> HIDE DEF r, m, u, s, c, j, chain
<1>8. /\ rest \in Seq(Blocks) /\ pre \in Seq(Blocks)
      /\ u.cache[c].chain = pre \o rest
 <2> DEFINE S == Chained(u, c)
 <2> HIDE DEF S
 <2>1. /\ Rest(chain, Only(chain, S), j) \in Seq(Blocks)
       /\ SubSeq(Only(chain, S), 1, Len(Only(chain, S)) - Len(Rest(chain, Only(chain, S), j))) \in Seq(Blocks)
       /\ Only(chain, S) =
             SubSeq(Only(chain, S), 1, Len(Only(chain, S)) - Len(Rest(chain, Only(chain, S), j)))
                \o Rest(chain, Only(chain, S), j)
  BY <1>5, WalkStops
 <2> QED BY <1>6, <2>1 DEF S
<1> HIDE DEF rest, pre
<1>9. /\ PlaceOf(u.cache[c].chain, s) /\ {s.prev, s.next} \subseteq Blocks \cup {NULL}
      /\ {s.prev, s.next} \ {NULL} \subseteq ToSet(u.cache[c].chain)
 BY <1>7, <1>8, StopIsPlace
<1>10. PlaceIntact(u, s)
 BY <1>7, <1>9 DEF PlaceIntact
<1> QED BY <1>3, <1>4, <1>9, <1>10 DEF r, u, s, c

\* make_slot's fields have their types.
LEMMA SlotForType ==
    ASSUME NEW r, RecOK(r), r.at \in {"insert", "slot"}, r.c \in Caches, NEW block \in Blocks \cup {NULL}
    PROVE  SlotFor(r, block) \in SlotType
<1>1. r.key \in FileKeys \cup UserKeys \cup {NULL} /\ r.mtime \in Mtimes \cup {0} /\ r.ttl \in Nat /\ r.t \in Nat
 BY DEF RecOK, Keys, Caches
<1> QED BY <1>1 DEF SlotFor, SlotType

\* A memory with an entry more.
LEMMA JoinedIs ==
    ASSUME NEW P, NEW u, NEW m, NEW e \in P, NEW c \in Caches, Heap(u, P), Heap(shm, P),
           Joined(u, m, e), Successor(u), m.used \subseteq u.used \/ Entries(u) = Entries(shm),
           \A d \in Caches : Shrunk(u, d), \A d \in Caches \ {c} : m.cache[d] = u.cache[d]
    PROVE  Successor(m) /\ \A d \in Caches \ {c} : Shrunk(m, d)
<1>1. e \notin Entries(shm) /\ e \notin Entries(u)
 BY DEF Heap, BlocksOK
<1>2. Entries(m) = Entries(u) \cup {e} /\ m.slot[e].ref_count = 0
      /\ \A b \in Entries(u) : m.slot[b] = u.slot[b]
 BY DEF Joined
<1>3. Successor(m)
 BY <1>1, <1>2 DEF Successor
<1>4. ASSUME NEW d \in Caches \ {c} PROVE Shrunk(m, d)
 <2>1. Shrunk(u, d) /\ m.cache[d] = u.cache[d] /\ Chained(m, d) = Chained(u, d)
  BY DEF Chained
 <2>2. \A b \in Chained(u, d) : m.slot[b] = u.slot[b]
  BY <1>2, EntriesAre
 <2> QED BY <2>1, <2>2 DEF Shrunk
<1> QED BY <1>3, <1>4

\* Process p links its entry in its place.
LEMMA LinkStep ==
    ASSUME IInv, damage = "none", NEW p \in Procs, NEW u, NEW s, NEW block,
           Reduced(shm, u, Pools), p \in Inserting, block = NULL \/ Entries(u) = Entries(shm),
           CanLink(Pools, u, s, block), s.c = pc[p].c, s.e = pc[p].e,
           lock[s.c] \in {NULL, p}, Becomes(Linked(u, s, block)), Returns(p),
           UNCHANGED <<now, cache_stack>>
    PROVE  HStep
<1> DEFINE m == Linked(u, s, block)
<1>1. s.e \in Pools /\ pc[p].at # "copy" /\ s.c \in Caches
 BY DEF Pools, Inserting, CanLink
<1>2. LInv /\ Types /\ Distinct /\ Heap(shm, Pools) /\ NULL \notin Blocks
 BY IFacts, HeapTypes
<1>3. /\ Successor(u) /\ \A d \in Caches : Shrunk(u, d)
      /\ Heap(u, Pools) /\ u \in MemType
 BY <1>2, ReducedIs
<1>4. LinkedWell(Pools, u, m, s, block)
 BY LinkedHeap
<1>6. Becomes(m)
 OBVIOUS
<1> HIDE DEF m
<1>5. /\ Heap(m, Pools \ {s.e}) /\ Joined(u, m, s.e)
      /\ \A d \in Caches \ {s.c} : m.cache[d] = u.cache[d]
      /\ m \in MemType /\ m.used = u.used \cup ({block} \ {NULL})
 BY <1>4 DEF LinkedWell
<1>7. m.used \subseteq u.used \/ Entries(u) = Entries(shm)
 BY <1>5
<1>8. Successor(m) /\ \A d \in Caches \ {s.c} : Shrunk(m, d)
 BY <1>1, <1>2, <1>3, <1>5, <1>7, JoinedIs
<1>9. PcStep(p) /\ pc'[p] = AtRest /\ AtRest.at = "idle" /\ RecOK(AtRest)
 BY <1>2, PcSet, RestOK DEF Returns
<1>10. p \notin Inserting'
 BY <1>9, InsertingIs
<1>11. Pools' = Pools \ {s.e} /\ Distinct'
 BY <1>2, <1>9, <1>10, PoolsLeave
<1>12. Heap(m, Pools')
 BY <1>5, <1>11
<1>13. \A d \in Caches : lock[d] \notin {NULL, p} => Shrunk(m, d)
 BY <1>8
<1> QED BY <1>1, <1>5, <1>6, <1>8, <1>9, <1>11, <1>12, <1>13, MemoryStep

\* The insertion: not done, done, or waiting for the memory of its slot_t.
LEMMA HInsert ==
    ASSUME IInv, damage = "none", NEW p \in Procs, NEW exclusive, Insert(p, exclusive)
    PROVE  HStep
<1> DEFINE u == WalkEnds(p, exclusive)
           s == Stop(p, exclusive)
<1>1. pc[p].at = "insert" /\ lock[pc[p].c] = NULL /\ UNCHANGED <<now, cache_stack>>
 BY InsertIs
<1>2. /\ LInv /\ RecOK(pc[p]) /\ DOMAIN pc[p] = Fields /\ pc[p].c \in Caches /\ p \in Inserting
      /\ NULL \notin Blocks
 BY <1>1, IFacts, InsertingIs, CacheAssumption DEF PlaceOK
<1>3. /\ Reduced(shm, u, Pools)
      /\ ~KeepsFound(p, exclusive) => \A b \in Chained(u, pc[p].c) : u.slot[b].key # pc[p].key
      /\ PlaceOf(u.cache[pc[p].c].chain, s)
      /\ {s.prev, s.next} \subseteq Blocks \cup {NULL}
      /\ PlaceIntact(u, s)
 BY <1>1, WalkPlace
<1>4. /\ s.at = "insert" /\ s.c = pc[p].c /\ s.key = pc[p].key /\ s.mtime = pc[p].mtime
      /\ s.ttl = pc[p].ttl /\ s.t = pc[p].t /\ s.e = pc[p].e /\ DOMAIN s = Fields
 BY <1>1, <1>2 DEF Stop, Fields, AtRest
<1>5. /\ \/ Becomes(Freed(u, pc[p].e)) /\ Returns(p)
         \/ /\ ~KeepsFound(p, exclusive)
            /\ Becomes(Linked(u, s, NULL))
            /\ Returns(p)
         \/ /\ ~KeepsFound(p, exclusive)
            /\ Becomes(u)
            /\ pc' = [pc EXCEPT ![p] = [[s EXCEPT !.at = "slot"] EXCEPT !.i = 1]]
 BY InsertIs
<1> HIDE DEF u, s
<1>6. RecOK(s) /\ s.c \in Caches /\ s.key \in Keys(s.c)
 BY <1>1, <1>2, <1>4 DEF RecOK
<1>7. CASE Becomes(Freed(u, pc[p].e)) /\ Returns(p)
 BY <1>1, <1>2, <1>3, <1>7, GivesBack
<1>8. CASE /\ ~KeepsFound(p, exclusive)
           /\ Becomes(Linked(u, s, NULL))
           /\ Returns(p)
 <2>1. SlotFor(s, NULL) \in SlotType
  BY <1>4, <1>6, SlotForType
 <2>2. /\ \A b \in Chained(u, s.c) : u.slot[b].key # s.key
       /\ PlaceOf(u.cache[s.c].chain, s) /\ lock[s.c] \in {NULL, p}
  BY <1>1, <1>3, <1>4, <1>8
 <2>3. Heap(u, Pools) /\ s.e \in Pools
  BY <1>2, <1>3, <1>4 DEF Reduced, Pools
 <2>4. CanLink(Pools, u, s, NULL)
  BY <1>3, <1>6, <2>1, <2>2, <2>3 DEF CanLink
 <2> QED BY <1>1, <1>2, <1>3, <1>4, <1>8, <2>2, <2>4, LinkStep
<1>9. CASE /\ ~KeepsFound(p, exclusive)
           /\ Becomes(u)
           /\ pc' = [pc EXCEPT ![p] = [[s EXCEPT !.at = "slot"] EXCEPT !.i = 1]]
 <2> DEFINE r == [[s EXCEPT !.at = "slot"] EXCEPT !.i = 1]
 <2>1. /\ r.at = "slot" /\ r.c = s.c /\ r.key = s.key /\ r.mtime = s.mtime /\ r.ttl = s.ttl
       /\ r.t = s.t /\ r.e = s.e /\ r.prev = s.prev /\ r.next = s.next
  BY <1>4 DEF Fields, AtRest
 <2>2. PcStep(p) /\ pc'[p] = r
  BY <1>2, <1>9, PcSet
 <2> HIDE DEF r
 <2>3. RecOK(r)
  BY <1>3, <1>4, <1>6, <2>1 DEF RecOK
 <2>4. p \in Inserting'
  BY <2>1, <2>2, InsertingIs
 <2>5. LInv /\ Types /\ Distinct
  BY IFacts
 <2>6. Pools' = Pools /\ Distinct'
  BY <1>2, <1>4, <2>1, <2>2, <2>4, <2>5, PoolsSame
 <2>7. /\ Successor(u) /\ \A d \in Caches : Shrunk(u, d)
       /\ Heap(u, Pools') /\ u \in MemType
  BY <1>3, <2>5, <2>6, ReducedIs
 <2>8. PlaceOf(u.cache[s.c].chain, r)
  BY <1>3, <1>4, <2>1 DEF PlaceOf
 <2>9. PlaceKept(p)'
  <3>1. shm' = u
   BY <1>9 DEF Becomes
  <3> QED BY <1>3, <1>4, <1>9, <2>1, <2>2, <2>8, <3>1 DEF PlaceKept, Chained
 <2>10. pc[p].at # "copy" /\ r.at # "copy"
  BY <1>1, <2>1
 <2> QED BY <1>1, <1>9, <2>2, <2>3, <2>6, <2>7, <2>9, <2>10, MemoryStep
<1> QED BY <1>5, <1>7, <1>8, <1>9

--------------------
(* An insertion ends: make_slot gets its memory or does not.                 *)

\* What is known of a process at that place.
LEMMA SlotFacts ==
    ASSUME IInv, damage = "none", NEW p \in Procs, pc[p].at = "slot"
    PROVE  /\ pc[p].c \in Caches /\ pc[p].e \in Pools /\ pc[p].e \in Blocks
           /\ pc[p].key \in Keys(pc[p].c) /\ pc[p].prev \in Blocks \cup {NULL}
           /\ pc[p].next \in Blocks \cup {NULL} /\ lock[pc[p].c] = p /\ p \in Inserting
           /\ PlaceKept(p) /\ RecOK(pc[p])
           /\ \A block \in Blocks \cup {NULL} : SlotFor(pc[p], block) \in SlotType
<1>1. /\ LInv /\ RecOK(pc[p]) /\ PlaceOK(p) /\ PlaceKept(p) /\ pc[p].c \in Caches
 BY IFacts DEF PlaceOK
<1>2. lock[pc[p].c] = p
 BY <1>1, LFacts DEF Inside
<1>3. p \in Inserting /\ pc[p].e \in Pools
 BY InsertingIs DEF Pools
<1>4. /\ pc[p].e \in Blocks /\ pc[p].key \in Keys(pc[p].c)
      /\ pc[p].prev \in Blocks \cup {NULL} /\ pc[p].next \in Blocks \cup {NULL}
 BY <1>1 DEF RecOK
<1>5. \A block \in Blocks \cup {NULL} : SlotFor(pc[p], block) \in SlotType
 BY <1>1, SlotForType
<1> QED BY <1>1, <1>2, <1>3, <1>4, <1>5

\* The slot_t is allocated and the entry linked.
LEMMA HSlotAllocated ==
    ASSUME IInv, damage = "none", NEW p \in Procs, NEW b \in Blocks, SlotAllocated(p, b)
    PROVE  HStep
<1> DEFINE r == pc[p]
           m == Linked(shm, r, b)
<1>1. /\ r.at = "slot" /\ b \in Blocks \ shm.used /\ shm' = m /\ Returns(p)
      /\ damage' = (IF PlaceIntact(shm, r) THEN damage ELSE "slot")
      /\ UNCHANGED <<now, cache_stack, leaked>>
 BY DEF SlotAllocated
<1>2. /\ r.c \in Caches /\ r.e \in Pools /\ r.e \in Blocks /\ r.key \in Keys(r.c)
      /\ r.prev \in Blocks \cup {NULL} /\ r.next \in Blocks \cup {NULL} /\ lock[r.c] = p
      /\ p \in Inserting /\ PlaceKept(p)
      /\ SlotFor(r, b) \in SlotType
 BY <1>1, SlotFacts
<1>3. /\ LInv /\ Types /\ RefsOK /\ Heap(shm, Pools) /\ shm \in MemType
      /\ Entries(shm) \subseteq shm.used /\ Reduced(shm, shm, Pools)
 BY IFacts
<1>4. /\ PlaceOf(shm.cache[r.c].chain, r) /\ \A a \in Chained(shm, r.c) : shm.slot[a].key # r.key
 BY <1>2 DEF PlaceKept
<1>5. r = pc[p]
 OBVIOUS
<1> HIDE DEF r
<1>6. LinkedAs(shm, m, r, b)
 <2>1. Links(shm, r, b)
  BY <1>2, <1>3 DEF Links
 <2> QED BY <2>1, LinkedIs
<1>7. m \in MemType /\ Entries(shm) \subseteq m.used
 <2> HIDE DEF m
 <2> QED BY <1>3, <1>6 DEF LinkedAs
<1>8. CASE PlaceIntact(shm, r)
 <2>1. Becomes(m)
  <3> HIDE DEF m
  <3> QED BY <1>1, <1>3, <1>7, <1>8, BecomesSame
 <2>2. CanLink(Pools, shm, r, b)
  <3>1. {r.prev, r.next} \subseteq Blocks \cup {NULL} /\ b \in (Blocks \ shm.used) \cup {NULL}
   BY <1>1, <1>2
  <3> QED BY <1>2, <1>3, <1>4, <1>8, <3>1 DEF CanLink
 <2>3. lock[r.c] \in {NULL, p}
  BY <1>2
 <2> QED BY <1>1, <1>2, <1>3, <1>5, <2>1, <2>2, <2>3, LinkStep
<1>9. CASE ~PlaceIntact(shm, r)
 <2> HIDE DEF m
 <2>1. PcStep(p) /\ pc'[p] = AtRest /\ RecOK(AtRest)
  BY <1>1, <1>3, PcSet, RestOK DEF Returns
 <2>2. damage' = "slot" /\ shm' \in MemType /\ Entries(shm) \subseteq shm'.used
  BY <1>1, <1>7, <1>9
 <2> QED BY <1>1, <1>3, <2>1, <2>2, DamagedStep
<1> QED BY <1>8, <1>9

\* A cache whose chain is cut.
LEMMA CutIs ==
    ASSUME NEW m \in MemType, NEW c \in Caches, NEW s \in Seq(Blocks)
    PROVE  LET v == [m EXCEPT !.cache[c].chain = s]
           IN  /\ v \in MemType /\ v.used = m.used
               /\ s = m.cache[c].chain => v = m
<1> DEFINE k == [m.cache[c] EXCEPT !.chain = s]
           C == [m.cache EXCEPT ![c] = k]
           v == [m EXCEPT !.cache[c].chain = s]
<1>1. m.cache[c] \in CacheType /\ m.cache \in [Caches -> CacheType] /\ m.used \subseteq Blocks
      /\ m.slot \in [Blocks -> SlotType]
 BY MemTypes
<1>2. k \in CacheType /\ (s = m.cache[c].chain => k = m.cache[c])
 BY <1>1 DEF CacheType
<1>3. v = [m EXCEPT !.cache = C]
 OBVIOUS
<1> HIDE DEF k, v
<1>4. C \in [Caches -> CacheType] /\ (s = m.cache[c].chain => C = m.cache)
 BY <1>1, <1>2
<1> HIDE DEF C
<1>5. m = [used |-> m.used, slot |-> m.slot, cache |-> m.cache]
 BY DEF MemType
<1>6. v = [used |-> m.used, slot |-> m.slot, cache |-> C]
 BY <1>3, <1>5
<1>7. v \in MemType /\ v.used = m.used
 BY <1>1, <1>4, <1>6, MemFields
<1> QED BY <1>4, <1>5, <1>6, <1>7 DEF v

\* The first i members of a sequence.
LEMMA PrefixIs ==
    ASSUME NEW s \in Seq(Blocks), NEW i \in 0 .. Len(s)
    PROVE  SubSeq(s, 1, i) \in Seq(Blocks) /\ (i = Len(s) => SubSeq(s, 1, i) = s)
<1>1. Len(s) \in Nat
 BY LenProperties
<1>2. i \in Int /\ i <= Len(s)
 BY <1>1
<1>3. SubSeq(s, 1, i) \in Seq(Blocks)
 BY <1>2, PartFacts
<1>4. ASSUME i = Len(s) PROVE SubSeq(s, 1, i) = s
 BY <1>1, <1>4, SubSeqProperties, LenProperties
<1> QED BY <1>3, <1>4

\* make_slot fails: the pool is given back, and the chain cut.
LEMMA HSlotFails ==
    ASSUME IInv, damage = "none", NEW p \in Procs, SlotFails(p)
    PROVE  HStep
<1> DEFINE r == pc[p]
           chain == shm.cache[r.c].chain
           i == IF r.prev = NULL THEN 0 ELSE IndexOf(chain, r.prev)
           cut == r.prev = NULL \/ Contains(chain, r.prev)
           f == Freed(shm, r.e)
           v == [f EXCEPT !.cache[r.c].chain = SubSeq(chain, 1, i)]
<1>1. r.at = "slot"
 BY DEF SlotFails
<1>2. /\ r.c \in Caches /\ r.e \in Pools /\ r.e \in Blocks /\ r.prev \in Blocks \cup {NULL}
      /\ p \in Inserting /\ PlaceKept(p)
 BY <1>1, SlotFacts
<1>3. /\ LInv /\ Types /\ RefsOK /\ Heap(shm, Pools) /\ shm \in MemType
      /\ Entries(shm) \subseteq shm.used /\ Reduced(shm, shm, Pools)
 BY IFacts
<1>4. f \in MemType /\ f.cache = shm.cache /\ Entries(shm) \subseteq f.used
 <2>1. f \in MemType /\ f.cache = shm.cache
  BY <1>2, <1>3, FreedIs
 <2>2. r.e \in Pools /\ Successor(shm) /\ \A c \in Caches : Shrunk(shm, c)
  BY <1>2, <1>3, ReducedIs
 <2>3. Heap(f, Pools \ {r.e}) /\ Entries(f) = Entries(shm)
  <3>1. /\ Heap(Freed(shm, r.e), Pools \ {r.e}) /\ Freed(shm, r.e) \in MemType
        /\ Successor(Freed(shm, r.e)) /\ \A c \in Caches : Shrunk(Freed(shm, r.e), c)
   BY <1>3, <2>2, FreedPool
  <3>2. Heap(f, Pools \ {r.e})
   BY <3>1
  <3> HIDE DEF f
  <3> QED BY <2>1, <3>2 DEF Entries, Chained, Deleted
 <2> HIDE DEF f
 <2> QED BY <2>1, <2>3, UsedEntries
<1>5. /\ shm' = (IF cut THEN v ELSE f) /\ Returns(p)
      /\ damage' = (IF cut /\ i = Len(chain) THEN damage ELSE "slot")
      /\ UNCHANGED <<now, cache_stack, leaked>>
 BY <1>4 DEF SlotFails
<1>6. chain \in Seq(Blocks)
 BY <1>2, <1>3, MemTypes
<1>7. ASSUME cut PROVE i \in 0 .. Len(chain)
 <2>1. Len(chain) \in Nat
  BY <1>6, LenProperties
 <2>2. CASE r.prev = NULL
  BY <2>1, <2>2
 <2>3. CASE r.prev # NULL
  <3> HIDE DEF chain
  <3>1. r.prev \in ToSet(chain)
   BY <1>6, <1>7, <2>3, ContainsIs
  <3>2. IndexOf(chain, r.prev) \in 1 .. Len(chain)
   BY <1>6, <3>1, IndexIs
  <3> QED BY <2>1, <2>3, <3>2
 <2> QED BY <2>2, <2>3
<1>8. ASSUME cut
      PROVE  v \in MemType /\ v.used = f.used /\ (i = Len(chain) => v = f)
 <2> HIDE DEF i, chain
 <2> DEFINE s == SubSeq(chain, 1, i)
 <2>1. s \in Seq(Blocks) /\ (i = Len(chain) => s = chain)
  BY <1>6, <1>7, <1>8, PrefixIs
 <2> HIDE DEF s
 <2>2. LET w == [f EXCEPT !.cache[r.c].chain = s]
       IN  /\ w \in MemType /\ w.used = f.used
           /\ s = f.cache[r.c].chain => w = f
  BY <1>2, <1>4, <2>1, CutIs
 <2>3. f.cache[r.c].chain = chain
  BY <1>4 DEF chain
 <2> QED BY <2>1, <2>2, <2>3 DEF s
<1>9. CASE cut /\ i = Len(chain)
 <2>1. shm' = f /\ damage' = damage
  BY <1>5, <1>8, <1>9
 <2>2. Becomes(f)
  <3> HIDE DEF f
  <3> QED BY <1>3, <1>4, <1>5, <2>1, BecomesSame
 <2> QED BY <1>2, <1>3, <1>5, <2>2, GivesBack
<1>10. CASE ~(cut /\ i = Len(chain))
 <2>1. PcStep(p) /\ pc'[p] = AtRest /\ RecOK(AtRest)
  BY <1>3, <1>5, PcSet, RestOK DEF Returns
 <2>2. damage' = "slot"
  BY <1>5, <1>10
 <2>3. shm' \in MemType /\ Entries(shm) \subseteq shm'.used
  <3> HIDE DEF f, v, cut
  <3> QED BY <1>4, <1>5, <1>8
 <2>4. UNCHANGED <<leaked, now, cache_stack>>
  BY <1>5
 <2> QED BY <1>3, <2>1, <2>2, <2>3, <2>4, DamagedStep
<1> QED BY <1>9, <1>10

--------------------
(* References that come and go.                                              *)

\* There are finitely many.
LEMMA RefsFinite ==
    ASSUME NEW b
    PROVE  IsFiniteSet(References(b)) /\ Cardinality(References(b)) \in Nat
<1>1. IsFiniteSet(Procs) /\ MaxStack \in Nat
 BY CacheAssumption
<1>2. IsFiniteSet(0 .. MaxStack)
 BY <1>1, FS_Interval
<1>3. IsFiniteSet(Procs \X (0 .. MaxStack))
 BY <1>1, <1>2, FS_Product
<1>4. References(b) \subseteq Procs \X (0 .. MaxStack)
 BY DEF References
<1> QED BY <1>3, <1>4, FS_Subset, FS_CardinalityType

\* One more, and one less.
LEMMA RefsMore ==
    ASSUME NEW b, NEW x, x \notin References(b), References(b)' = References(b) \cup {x}
    PROVE  Cardinality(References(b)') = Cardinality(References(b)) + 1
<1> DEFINE S == References(b)
<1>1. IsFiniteSet(S) /\ x \notin S
 BY RefsFinite
<1> HIDE DEF S
<1>2. Cardinality(S \cup {x}) = Cardinality(S) + 1
 BY <1>1, FS_AddElement
<1> QED BY <1>2 DEF S

\* One less.
LEMMA RefsLess ==
    ASSUME NEW b, NEW x, x \in References(b), References(b)' = References(b) \ {x}
    PROVE  Cardinality(References(b)') = Cardinality(References(b)) - 1 /\ Cardinality(References(b)) >= 1
<1> DEFINE S == References(b)
<1>1. IsFiniteSet(S) /\ x \in S /\ Cardinality(S) \in Nat
 BY RefsFinite
<1> HIDE DEF S
<1>2. Cardinality(S \ {x}) = Cardinality(S) - 1
 BY <1>1, FS_RemoveElement
<1>3. Cardinality(S \ {x}) \in Nat
 BY <1>1, FS_Subset, FS_CardinalityType
<1>4. Cardinality(S) >= 1
 BY <1>1, <1>2, <1>3
<1> QED BY <1>2, <1>4 DEF S

\* m is the memory with another count in entry b.
Counted(m, b) ==
    /\ m \in MemType /\ Heap(m, Pools) /\ m.used = shm.used /\ m.cache = shm.cache
    /\ m.slot[b].key = shm.slot[b].key
    /\ \A a \in Blocks \ {b} : m.slot[a] = shm.slot[a]

\* A reference to entry b comes or goes.
LEMMA RefStep ==
    ASSUME IInv, damage = "none", NEW p \in Procs, NEW m, NEW b \in Entries(shm),
           Counted(m, b), shm' = m, UNCHANGED <<now, damage>>, PcStep(p), RecOK(pc'[p]),
           cache_stack' \in [Procs -> Seq(Blocks)], \A q \in Procs : Len(cache_stack'[q]) <= MaxStack,
           leaked' \in [Blocks -> Nat], p \notin Inserting, p \notin Inserting',
           m.slot[b].ref_count = Cardinality(References(b)') + leaked'[b],
           \A a \in Blocks \ {b} : References(a)' = References(a) /\ leaked'[a] = leaked[a]
    PROVE  HStep
<1>1. /\ LInv /\ Types /\ Distinct /\ RefsOK /\ PlacesOK /\ shm \in MemType /\ HeapInv
      /\ Entries(shm) \subseteq shm.used
 BY IFacts DEF HeapInv
<1>2. Pools' = Pools /\ Distinct'
 BY <1>1, PoolsSame
<1>3. /\ Entries(m) = Entries(shm)
      /\ \A c \in Caches : Chained(m, c) = Chained(shm, c)
 BY DEF Counted, Entries, Chained, Deleted
<1>4. Types'
 <2>1. \A q \in Procs : RecOK(pc'[q])
  BY <1>1 DEF Types, PcStep
 <2>2. shm' \in MemType /\ now' \in Nat /\ damage' \in {"none", "gc", "slot"}
  BY <1>1 DEF Types, Counted
 <2> QED BY <2>1, <2>2 DEF Types, RecOK
<1>5. Heap(shm, Pools)'
 <2>1. Heap(shm', Pools')
  BY <1>2 DEF Counted
 <2> QED BY <2>1 DEF Heap, ListsOK, BlocksOK, KeysOK, Entries, Chained, Deleted
<1>6. RefsOK'
 <2>1. Entries(shm)' = Entries(shm)
  BY <1>3 DEF Entries, Chained, Deleted
 <2>2. ASSUME NEW a \in Blocks
       PROVE  IF a \in Entries(shm)'
              THEN shm'.slot[a].ref_count = Cardinality(References(a)') + leaked'[a]
              ELSE References(a)' = {} /\ leaked'[a] = 0
  <3>1. CASE a = b
   <4>1. a \in Entries(shm)' /\ shm'.slot[a].ref_count = Cardinality(References(a)') + leaked'[a]
    BY <2>1, <3>1
   <4> QED BY <4>1
  <3>2. CASE a # b
   <4>1. References(a)' = References(a) /\ leaked'[a] = leaked[a] /\ shm'.slot[a] = shm.slot[a]
    BY <3>2 DEF Counted
   <4>2. IF a \in Entries(shm)
         THEN shm.slot[a].ref_count = Cardinality(References(a)) + leaked[a]
         ELSE References(a) = {} /\ leaked[a] = 0
    BY <1>1 DEF RefsOK
   <4>3. CASE a \in Entries(shm)
    BY <2>1, <4>1, <4>2, <4>3, Zenon
   <4>4. CASE a \notin Entries(shm)
    BY <2>1, <4>1, <4>2, <4>4, Zenon
   <4> QED BY <4>3, <4>4
  <3> QED BY <3>1, <3>2
 <2> QED BY <2>2 DEF RefsOK
<1>7. PlacesOK'
 <2>1. ASSUME NEW c \in Caches PROVE Shrunk(shm', c)
  <3>1. shm.cache[c].chain \in Seq(Blocks) /\ ToSet(shm.cache[c].chain) \subseteq Blocks
   BY <1>1, MemTypes DEF Chained
  <3>2. m.cache[c].chain = Only(shm.cache[c].chain, Blocks)
   <4> DEFINE s == shm.cache[c].chain
   <4>1. m.cache[c].chain = s
    BY DEF Counted
   <4>2. s \in Seq(Blocks) /\ ToSet(s) \subseteq Blocks
    BY <3>1
   <4> HIDE DEF s
   <4>3. Only(s, Blocks) = s
    BY <4>2, OnlyAll
   <4> QED BY <4>1, <4>3 DEF s
  <3>3. \A a \in Chained(m, c) : m.slot[a].key = shm.slot[a].key
   <4>1. Chained(m, c) \subseteq Blocks
    BY <1>3, <1>1, MemTypes
   <4> QED BY <4>1 DEF Counted
  <3> QED BY <3>2, <3>3 DEF Shrunk
 <2>2. pc'[p].at # "slot"
  BY InsertingIs
 <2> QED BY <1>1, <2>1, <2>2, PlacesStep
<1>8. GoneOK
 BY <1>1 DEF GoneOK, Counted
<1> QED BY <1>2, <1>4, <1>5, <1>6, <1>7, <1>8 DEF HStep, HeapInv

\* r is a reference to block b.
Refers(r, b) ==
    IF r[2] = 0 THEN pc[r[1]].at = "copy" /\ pc[r[1]].e = b
    ELSE r[2] \in DOMAIN cache_stack[r[1]] /\ cache_stack[r[1]][r[2]] = b

\* The references to b.
LEMMA ReferencesAre ==
    ASSUME NEW b
    PROVE  References(b) = {r \in Procs \X (0 .. MaxStack) : Refers(r, b)}
BY DEF References, Refers

\* A script is put on a stack.
LEMMA StackMore ==
    ASSUME NEW p \in Procs, NEW b \in Blocks, cache_stack \in [Procs -> Seq(Blocks)],
           Len(cache_stack[p]) < MaxStack, UNCHANGED pc,
           cache_stack' = [cache_stack EXCEPT ![p] = Append(@, b)]
    PROVE  /\ References(b)' = References(b) \cup {<<p, Len(cache_stack[p]) + 1>>}
           /\ <<p, Len(cache_stack[p]) + 1>> \notin References(b)
           /\ \A a \in Blocks \ {b} : References(a)' = References(a)
<1> DEFINE s == cache_stack[p]
           n == Len(s) + 1
           x == <<p, n>>
<1>1. /\ s \in Seq(Blocks) /\ n \in Nat /\ n # 0 /\ n \in 0 .. MaxStack /\ MaxStack \in Nat
      /\ DOMAIN s = 1 .. n - 1
 <2>1. s \in Seq(Blocks) /\ MaxStack \in Nat
  BY CacheAssumption
 <2>2. Len(s) \in Nat /\ DOMAIN s = 1 .. Len(s)
  BY <2>1, LenProperties
 <2> DEFINE k == Len(s)
 <2>3. k \in Nat /\ k < MaxStack
  BY <2>2
 <2> HIDE DEF k
 <2>4. k + 1 \in Nat /\ k + 1 # 0 /\ k + 1 \in 0 .. MaxStack /\ (k + 1) - 1 = k
  BY <2>1, <2>3
 <2> QED BY <2>1, <2>2, <2>4 DEF k
<1>2. /\ cache_stack'[p] = Append(s, b)
      /\ \A q \in Procs \ {p} : cache_stack'[q] = cache_stack[q]
 OBVIOUS
<1>3. /\ DOMAIN Append(s, b) = 1 .. n
      /\ Append(s, b)[n] = b /\ \A i \in 1 .. n - 1 : Append(s, b)[i] = s[i]
 <2> HIDE DEF s
 <2>1. Append(s, b)[Len(s) + 1] = b /\ DOMAIN Append(s, b) = 1 .. Len(s) + 1
       /\ DOMAIN s = 1 .. Len(s)
       /\ \A i \in 1 .. Len(s) : Append(s, b)[i] = s[i]
  BY <1>1, AppendFacts
 <2> QED BY <1>1, <2>1
<1> HIDE DEF s, n
<1>4. ASSUME NEW r \in Procs \X (0 .. MaxStack), NEW a
      PROVE  /\ r # x => (Refers(r, a)' <=> Refers(r, a))
             /\ r = x => (Refers(r, a)' <=> a = b) /\ ~Refers(r, a)
 <2>1. r[1] \in Procs /\ r[2] \in 0 .. MaxStack /\ r = <<r[1], r[2]>>
  OBVIOUS
 <2>2. CASE r[2] = 0
  <3>1. r # x
   BY <1>1, <2>2
  <3> QED BY <2>2, <3>1 DEF Refers
 <2>3. CASE r[2] # 0 /\ r[1] # p
  <3>1. r # x
   BY <2>3
  <3> QED BY <1>2, <2>1, <2>3, <3>1 DEF Refers
 <2>4. CASE r[2] # 0 /\ r[1] = p
  <3>1. Refers(r, a) <=> r[2] \in 1 .. n - 1 /\ s[r[2]] = a
   BY <1>1, <2>4 DEF Refers, s
  <3>2. Refers(r, a)' <=> r[2] \in 1 .. n /\ Append(s, b)[r[2]] = a
   BY <1>2, <1>3, <2>4 DEF Refers
  <3>3. CASE r[2] = n
   <4>1. r = x /\ n \notin 1 .. n - 1 /\ n \in 1 .. n
    BY <1>1, <2>1, <2>4, <3>3
   <4> QED BY <1>3, <3>1, <3>2, <3>3, <4>1
  <3>4. CASE r[2] # n
   <4>1. r # x
    BY <3>4
   <4>2. r[2] \in 1 .. n <=> r[2] \in 1 .. n - 1
    BY <1>1, <2>1, <3>4
   <4> QED BY <1>3, <3>1, <3>2, <4>1, <4>2
  <3> QED BY <3>3, <3>4
 <2> QED BY <2>2, <2>3, <2>4
<1>5. x \in Procs \X (0 .. MaxStack)
 BY <1>1
<1>6. \A a : References(a) = {r \in Procs \X (0 .. MaxStack) : Refers(r, a)}
 BY ReferencesAre
<1>7. \A a : References(a)' = {r \in Procs \X (0 .. MaxStack) : Refers(r, a)'}
 BY DEF References, Refers
<1> HIDE DEF x
<1>8. References(b)' = References(b) \cup {x} /\ x \notin References(b)
 BY <1>4, <1>5, <1>6, <1>7
<1>9. ASSUME NEW a \in Blocks \ {b} PROVE References(a)' = References(a)
 BY <1>4, <1>5, <1>6, <1>7
<1> QED BY <1>8, <1>9 DEF x, n, s

\* The last script is taken off it.
LEMMA StackLess ==
    ASSUME NEW p \in Procs, NEW b, b = Last(cache_stack[p]), cache_stack \in [Procs -> Seq(Blocks)], cache_stack[p] # <<>>,
           Len(cache_stack[p]) <= MaxStack, UNCHANGED pc,
           cache_stack' = [cache_stack EXCEPT ![p] = Front(@)]
    PROVE  /\ References(b)' = References(b) \ {<<p, Len(cache_stack[p])>>}
           /\ <<p, Len(cache_stack[p])>> \in References(b)
           /\ \A a \in Blocks \ {b} : References(a)' = References(a)
           /\ cache_stack' \in [Procs -> Seq(Blocks)] /\ Len(cache_stack'[p]) <= Len(cache_stack[p])
           /\ b \in Blocks
<1> DEFINE s == cache_stack[p]
           n == Len(s)
           x == <<p, n>>
<1>1. /\ s \in Seq(Blocks) /\ n \in Nat /\ n # 0 /\ n \in 0 .. MaxStack /\ MaxStack \in Nat
      /\ DOMAIN s = 1 .. n /\ b = s[n] /\ b \in Blocks
 <2>1. s \in Seq(Blocks) /\ MaxStack \in Nat
  BY CacheAssumption
 <2>2. Len(s) \in Nat /\ DOMAIN s = 1 .. Len(s) /\ Len(s) # 0
  BY <2>1, LenProperties, EmptySeq
 <2>3. s[n] \in Blocks /\ b = Last(s)
  BY <2>1, <2>2, ElementOfSeq
 <2> HIDE DEF s
 <2> QED BY <2>1, <2>2, <2>3 DEF Last, s
<1>2. /\ cache_stack'[p] = Front(s)
      /\ \A q \in Procs \ {p} : cache_stack'[q] = cache_stack[q]
 OBVIOUS
<1>3. /\ Front(s) \in Seq(Blocks) /\ DOMAIN Front(s) = 1 .. n - 1 /\ Len(Front(s)) = n - 1
      /\ \A i \in 1 .. n - 1 : Front(s)[i] = s[i]
 <2> HIDE DEF s, n
 <2>1. Front(s) = SubSeq(s, 1, n - 1)
  BY DEF Front, n
 <2>2. n - 1 \in Nat /\ n - 1 \in 0 .. n /\ n - 1 \in Int /\ Len(s) = n
  BY <1>1 DEF n
 <2>3. /\ SubSeq(s, 1, n - 1) \in Seq(Blocks)
       /\ Len(SubSeq(s, 1, n - 1)) = n - 1
       /\ \A i \in 1 .. n - 1 : SubSeq(s, 1, n - 1)[i] = s[i]
  BY <1>1, <2>2
 <2>4. DOMAIN SubSeq(s, 1, n - 1) = 1 .. n - 1
  BY <2>3, LenProperties
 <2> QED BY <2>1, <2>3, <2>4
<1>4. cache_stack' \in [Procs -> Seq(Blocks)] /\ Len(cache_stack'[p]) <= Len(cache_stack[p])
 BY <1>1, <1>2, <1>3
<1> HIDE DEF s, n
<1>5. ASSUME NEW r \in Procs \X (0 .. MaxStack), NEW a
      PROVE  /\ r # x => (Refers(r, a)' <=> Refers(r, a))
             /\ r = x => (Refers(r, a) <=> a = b) /\ ~Refers(r, a)'
 <2>1. r[1] \in Procs /\ r[2] \in 0 .. MaxStack /\ r = <<r[1], r[2]>>
  OBVIOUS
 <2>2. CASE r[2] = 0
  <3>1. r # x
   BY <1>1, <2>2
  <3> QED BY <2>2, <3>1 DEF Refers
 <2>3. CASE r[2] # 0 /\ r[1] # p
  <3>1. r # x
   BY <2>3
  <3> QED BY <1>2, <2>1, <2>3, <3>1 DEF Refers
 <2>4. CASE r[2] # 0 /\ r[1] = p
  <3>1. Refers(r, a) <=> r[2] \in 1 .. n /\ s[r[2]] = a
   BY <1>1, <2>4 DEF Refers, s
  <3>2. Refers(r, a)' <=> r[2] \in 1 .. n - 1 /\ Front(s)[r[2]] = a
   BY <1>2, <1>3, <2>4 DEF Refers
  <3>3. CASE r[2] = n
   <4>1. r = x /\ n \notin 1 .. n - 1 /\ n \in 1 .. n
    BY <1>1, <2>1, <2>4, <3>3
   <4> QED BY <1>1, <1>3, <3>1, <3>2, <3>3, <4>1
  <3>4. CASE r[2] # n
   <4>1. r # x
    BY <3>4
   <4>2. r[2] \in 1 .. n <=> r[2] \in 1 .. n - 1
    BY <1>1, <2>1, <3>4
   <4> QED BY <1>3, <3>1, <3>2, <4>1, <4>2
  <3> QED BY <3>3, <3>4
 <2> QED BY <2>2, <2>3, <2>4
<1>6. x \in Procs \X (0 .. MaxStack)
 BY <1>1
<1>7. \A a : References(a) = {r \in Procs \X (0 .. MaxStack) : Refers(r, a)}
 BY ReferencesAre
<1>8. \A a : References(a)' = {r \in Procs \X (0 .. MaxStack) : Refers(r, a)'}
 BY DEF References, Refers
<1> HIDE DEF x
<1>9. References(b)' = References(b) \ {x} /\ x \in References(b)
 BY <1>5, <1>6, <1>7, <1>8
<1>10. ASSUME NEW a \in Blocks \ {b} PROVE References(a)' = References(a)
 BY <1>5, <1>6, <1>7, <1>8
<1> QED BY <1>1, <1>4, <1>9, <1>10 DEF x, n, s

\* An entry begins to be copied.
LEMMA CopyMore ==
    ASSUME NEW p \in Procs, NEW b, PcStep(p), UNCHANGED cache_stack,
           pc[p].at # "copy", pc'[p].at = "copy", pc'[p].e = b
    PROVE  /\ References(b)' = References(b) \cup {<<p, 0>>} /\ <<p, 0>> \notin References(b)
           /\ \A a \in Blocks \ {b} : References(a)' = References(a)
<1> DEFINE x == <<p, 0>>
<1>1. ASSUME NEW r \in Procs \X (0 .. MaxStack), NEW a
      PROVE  /\ r # x => (Refers(r, a)' <=> Refers(r, a))
             /\ r = x => (Refers(r, a)' <=> a = b) /\ ~Refers(r, a)
 <2>1. r[1] \in Procs /\ r = <<r[1], r[2]>> /\ cache_stack' = cache_stack
  OBVIOUS
 <2>2. r[1] # p => pc'[r[1]] = pc[r[1]]
  BY <2>1 DEF PcStep
 <2> QED BY <2>1, <2>2 DEF Refers
<1>2. x \in Procs \X (0 .. MaxStack)
 BY CacheAssumption
<1>3. \A a : References(a) = {r \in Procs \X (0 .. MaxStack) : Refers(r, a)}
 BY ReferencesAre
<1>4. \A a : References(a)' = {r \in Procs \X (0 .. MaxStack) : Refers(r, a)'}
 BY DEF References, Refers
<1> HIDE DEF x
<1>5. References(b)' = References(b) \cup {x} /\ x \notin References(b)
 BY <1>1, <1>2, <1>3, <1>4
<1>6. ASSUME NEW a \in Blocks \ {b} PROVE References(a)' = References(a)
 BY <1>1, <1>2, <1>3, <1>4
<1> QED BY <1>5, <1>6 DEF x

\* The copy ends.
LEMMA CopyLess ==
    ASSUME NEW p \in Procs, NEW b, PcStep(p), UNCHANGED cache_stack,
           pc[p].at = "copy", pc'[p].at # "copy", pc[p].e = b
    PROVE  /\ References(b)' = References(b) \ {<<p, 0>>} /\ <<p, 0>> \in References(b)
           /\ \A a \in Blocks \ {b} : References(a)' = References(a)
<1> DEFINE x == <<p, 0>>
<1>1. ASSUME NEW r \in Procs \X (0 .. MaxStack), NEW a
      PROVE  /\ r # x => (Refers(r, a)' <=> Refers(r, a))
             /\ r = x => (Refers(r, a) <=> a = b) /\ ~Refers(r, a)'
 <2>1. r[1] \in Procs /\ r = <<r[1], r[2]>> /\ cache_stack' = cache_stack
  OBVIOUS
 <2>2. r[1] # p => pc'[r[1]] = pc[r[1]]
  BY <2>1 DEF PcStep
 <2> QED BY <2>1, <2>2 DEF Refers
<1>2. x \in Procs \X (0 .. MaxStack)
 BY CacheAssumption
<1>3. \A a : References(a) = {r \in Procs \X (0 .. MaxStack) : Refers(r, a)}
 BY ReferencesAre
<1>4. \A a : References(a)' = {r \in Procs \X (0 .. MaxStack) : Refers(r, a)'}
 BY DEF References, Refers
<1> HIDE DEF x
<1>5. References(b)' = References(b) \ {x} /\ x \in References(b)
 BY <1>1, <1>2, <1>3, <1>4
<1>6. ASSUME NEW a \in Blocks \ {b} PROVE References(a)' = References(a)
 BY <1>1, <1>2, <1>3, <1>4
<1> QED BY <1>5, <1>6 DEF x

--------------------
(* The count of an entry.                                                    *)

\* An entry is found.
LEMMA ReferencedIs ==
    ASSUME IInv, damage = "none", NEW b \in Entries(shm)
    PROVE  /\ Counted(Referenced(shm, b), b)
           /\ Referenced(shm, b).slot[b].ref_count = shm.slot[b].ref_count + 1
           /\ shm.slot[b].ref_count = Cardinality(References(b)) + leaked[b] /\ b \in Blocks
<1>1. /\ Heap(shm, Pools) /\ shm \in MemType /\ now \in Nat /\ RefsOK /\ Entries(shm) \subseteq Blocks
 BY HeapTypes DEF IInv, HeapInv, Types
<1>2. shm.slot[b] \in SlotType /\ b \in Blocks
 BY <1>1, HeapTypes
<1> DEFINE y == shm.slot[b]
           n == y.ref_count + 1
           x == [[y EXCEPT !.ref_count = n] EXCEPT !.access_time = now]
           v == [shm EXCEPT !.slot = [shm.slot EXCEPT ![b] = x]]
<1>3. v = Referenced(shm, b)
 BY DEF Referenced
<1>4. n \in Nat
 BY <1>2 DEF SlotType
<1> HIDE DEF n
<1>5. x \in SlotType /\ x.key = y.key /\ x.block = y.block /\ x.ref_count = n
 <2> HIDE DEF y
 <2>1. y \in SlotType
  BY <1>2 DEF y
 <2> QED BY <1>1, <1>4, <2>1, CountTypes
<1>55. /\ v = [shm EXCEPT !.slot = [shm.slot EXCEPT ![b] = x]] /\ x \in SlotType
       /\ x.key = shm.slot[b].key /\ x.block = shm.slot[b].block
 BY <1>5
<1> HIDE DEF x, v, y
<1>6. /\ Heap(v, Pools) /\ v.used = shm.used /\ v.cache = shm.cache /\ v \in MemType
      /\ Entries(v) = Entries(shm) /\ v.slot[b] = x
      /\ \A a \in Blocks \ {b} : v.slot[a] = shm.slot[a]
 <2>1. Recounts(Pools, shm, v, b, x)
  BY <1>1, <1>55 DEF Recounts
 <2>2. Recounted(Pools, shm, v, b, x)
  BY <2>1, CountedHeap
 <2> QED BY <2>2 DEF Recounted
<1>7. shm.slot[b].ref_count = Cardinality(References(b)) + leaked[b]
 BY <1>1, <1>2 DEF RefsOK
<1>8. Counted(v, b) /\ v.slot[b].ref_count = n
 BY <1>5, <1>6, <1>55 DEF Counted
<1>9. /\ Counted(Referenced(shm, b), b)
      /\ Referenced(shm, b).slot[b].ref_count = n
 BY <1>3, <1>8
<1> QED BY <1>2, <1>7, <1>9 DEF n, y

\* An entry that someone refers to is released.
LEMMA ReleasedIs ==
    ASSUME IInv, damage = "none", NEW b \in Blocks, NEW x \in References(b)
    PROVE  /\ Counted(Released(shm, b), b)
           /\ Released(shm, b).slot[b].ref_count = shm.slot[b].ref_count - 1
           /\ shm.slot[b].ref_count = Cardinality(References(b)) + leaked[b] /\ b \in Entries(shm)
<1>1. /\ Heap(shm, Pools) /\ shm \in MemType /\ now \in Nat /\ RefsOK /\ leaked[b] \in Nat
 BY DEF IInv, HeapInv, Types
<1>2. b \in Entries(shm) /\ shm.slot[b].ref_count = Cardinality(References(b)) + leaked[b]
 BY <1>1 DEF RefsOK
<1>3. shm.slot[b] \in SlotType
 BY <1>1, HeapTypes
<1> DEFINE y == shm.slot[b]
           n == y.ref_count - 1
           z == [y EXCEPT !.ref_count = n]
           v == [shm EXCEPT !.slot = [shm.slot EXCEPT ![b] = z]]
<1>4. v = Released(shm, b)
 BY DEF Released
<1>5. n \in Nat
 <2>1. Cardinality(References(b)) \in Nat /\ Cardinality(References(b)) # 0
  <3>1. IsFiniteSet(References(b)) /\ References(b) # {}
   BY RefsFinite
  <3> QED BY <3>1, RefsFinite, FS_EmptySet
 <2>2. y.ref_count \in Nat /\ y.ref_count >= 1
  BY <1>1, <1>2, <2>1
 <2> QED BY <2>2
<1> HIDE DEF n
<1>6. z \in SlotType /\ z.key = y.key /\ z.block = y.block /\ z.ref_count = n
 <2> HIDE DEF y
 <2>1. y \in SlotType
  BY <1>3 DEF y
 <2> QED BY <1>1, <1>5, <2>1, CountTypes
<1>66. /\ v = [shm EXCEPT !.slot = [shm.slot EXCEPT ![b] = z]] /\ z \in SlotType
       /\ z.key = shm.slot[b].key /\ z.block = shm.slot[b].block
 BY <1>6
<1> HIDE DEF z, v, y
<1>7. /\ Heap(v, Pools) /\ v.used = shm.used /\ v.cache = shm.cache /\ v \in MemType
      /\ Entries(v) = Entries(shm) /\ v.slot[b] = z
      /\ \A a \in Blocks \ {b} : v.slot[a] = shm.slot[a]
 <2>1. Recounts(Pools, shm, v, b, z)
  BY <1>1, <1>2, <1>66 DEF Recounts
 <2>2. Recounted(Pools, shm, v, b, z)
  BY <2>1, CountedHeap
 <2> QED BY <2>2 DEF Recounted
<1>8. Counted(v, b) /\ v.slot[b].ref_count = n
 BY <1>6, <1>7, <1>66 DEF Counted
<1>9. /\ Counted(Released(shm, b), b)
      /\ Released(shm, b).slot[b].ref_count = n
 BY <1>4, <1>8
<1> QED BY <1>2, <1>9 DEF n, y

\* A memory with the same blocks in use frees nothing.
LEMMA SameUsed ==
    ASSUME IInv, damage = "none", NEW m, Becomes(m), m.used = shm.used
    PROVE  shm' = m /\ leaked' = leaked /\ damage' = damage
<1>1. /\ shm' = m /\ leaked' = [b \in Blocks |-> IF b \in m.used THEN leaked[b] ELSE 0]
      /\ damage' = IF \E b \in shm.used \ m.used : References(b) # {} THEN "gc" ELSE damage
 BY DEF Becomes
<1>2. leaked \in [Blocks -> Nat] /\ RefsOK /\ Entries(shm) \subseteq shm.used
 BY UsedEntries DEF IInv, Types, HeapInv
<1>3. \A b \in Blocks : leaked[b] = IF b \in m.used THEN leaked[b] ELSE 0
 BY <1>2 DEF RefsOK
<1>4. leaked' = leaked
 BY <1>1, <1>2, <1>3
<1>5. shm.used \ m.used = {}
 OBVIOUS
<1> QED BY <1>1, <1>4, <1>5

\* my_compile_file looks for the script.
LEMMA HFileFind ==
    ASSUME IInv, damage = "none", NEW p \in Procs, NEW k \in FileKeys, NEW mtime \in Mtimes,
           FileFind(p, k, mtime)
    PROVE  HStep
<1> DEFINE i == Position(shm, "file", k)
           b == shm.cache["file"].chain[i]
           hit == i > 0 /\ shm.slot[b].mtime = mtime
           r == [AtRest EXCEPT !.at = "miss", !.c = "file", !.key = k, !.mtime = mtime, !.t = now]
<1>1. /\ LInv /\ Types /\ Heap(shm, Pools) /\ shm \in MemType /\ now \in Nat /\ RecOK(pc[p])
      /\ Reduced(shm, shm, Pools) /\ DOMAIN pc = Procs
 BY IFacts
<1>2. /\ pc[p].at = "idle" /\ Len(cache_stack[p]) < MaxStack /\ UNCHANGED now
      /\ Becomes(IF i = 0 THEN shm
                 ELSE IF hit THEN Referenced(shm, b) ELSE Removed(shm, "file", b, now))
      /\ cache_stack' = (IF hit THEN [cache_stack EXCEPT ![p] = Append(@, b)] ELSE cache_stack)
      /\ pc' = (IF hit THEN pc ELSE [pc EXCEPT ![p] = r])
 BY DEF FileFind, Calls
<1>3. /\ i \in Nat
      /\ (i # 0 => b \in Chained(shm, "file"))
      /\ "file" \in Caches
 <2>1. "file" \in Caches
  BY DEF Caches
 <2>2. shm.cache["file"].chain \in Seq(Blocks)
  BY <1>1, <2>1, MemTypes
 <2>3. Len(shm.cache["file"].chain) \in Nat
  BY <2>2, LenProperties
 <2>4. /\ i \in 0 .. Len(shm.cache["file"].chain)
       /\ (i # 0 => b \in Chained(shm, "file"))
  BY <2>2, PositionIs
 <2> QED BY <2>1, <2>3, <2>4
<1>4. r.at = "miss" /\ RecOK(r)
 BY <1>1 DEF AtRest, RecOK, Keys
<1> HIDE DEF i, b, r
<1>5. CASE i = 0
 <2>1. Becomes(shm) /\ UNCHANGED <<now, cache_stack>> /\ pc' = [pc EXCEPT ![p] = r]
  BY <1>2, <1>5
 <2> QED BY <1>1, <1>2, <1>4, <2>1, ShrinkGoes
<1>6. CASE i # 0 /\ ~hit
 <2> DEFINE m == Removed(shm, "file", b, now)
 <2>1. Becomes(m) /\ UNCHANGED <<now, cache_stack>> /\ pc' = [pc EXCEPT ![p] = r]
  BY <1>2, <1>6
 <2>2. Reduced(shm, m, Pools)
  <3>1. b \in Chained(shm, "file") /\ "file" \in Caches
   BY <1>3, <1>6
  <3> QED BY <1>1, <3>1, RemovedHeap DEF Reduced
 <2> HIDE DEF m
 <2> QED BY <1>2, <1>4, <2>1, <2>2, ShrinkGoes
<1>7. CASE hit
 <2> DEFINE m == Referenced(shm, b)
 <2>1. /\ Becomes(m) /\ cache_stack' = [cache_stack EXCEPT ![p] = Append(@, b)] /\ pc' = pc
       /\ i # 0
  BY <1>2, <1>3, <1>7
 <2>2. b \in Entries(shm)
  <3>1. b \in Chained(shm, "file") /\ "file" \in Caches
   BY <1>3, <2>1
  <3> QED BY <3>1, EntriesAre
 <2>3. /\ Counted(m, b) /\ m.slot[b].ref_count = shm.slot[b].ref_count + 1
       /\ shm.slot[b].ref_count = Cardinality(References(b)) + leaked[b] /\ b \in Blocks
  BY <2>2, ReferencedIs
 <2> HIDE DEF m
 <2>4. shm' = m /\ leaked' = leaked /\ damage' = damage
  BY <2>1, <2>3, SameUsed DEF Counted
 <2> DEFINE d == b
 <2> SUFFICES ASSUME NEW a, a = d PROVE HStep
  OBVIOUS
 <2> HIDE DEF d
 <2>5. a = b
  BY DEF d
 <2>6. /\ References(a)' = References(a) \cup {<<p, Len(cache_stack[p]) + 1>>}
       /\ <<p, Len(cache_stack[p]) + 1>> \notin References(a)
       /\ \A x \in Blocks \ {a} : References(x)' = References(x)
  <3>1. cache_stack \in [Procs -> Seq(Blocks)] /\ Len(cache_stack[p]) < MaxStack
   BY <1>1, <1>2 DEF Types
  <3>2. a \in Blocks /\ cache_stack' = [cache_stack EXCEPT ![p] = Append(@, a)] /\ UNCHANGED pc
   BY <2>1, <2>3, <2>5
  <3> QED BY <3>1, <3>2, StackMore
 <2>7. Cardinality(References(a)') = Cardinality(References(a)) + 1
  BY <2>6, RefsMore
 <2>8. m.slot[a].ref_count = Cardinality(References(a)') + leaked'[a]
  <3>1. Cardinality(References(a)) \in Nat /\ leaked[a] \in Nat
   BY <1>1, <2>3, <2>5, RefsFinite DEF Types
  <3>2. m.slot[a].ref_count = (Cardinality(References(a)) + leaked[a]) + 1
   BY <2>3, <2>5
  <3> QED BY <2>4, <2>7, <3>1, <3>2
 <2>9. /\ cache_stack' \in [Procs -> Seq(Blocks)]
       /\ \A q \in Procs : Len(cache_stack'[q]) <= MaxStack
  <3>1. cache_stack \in [Procs -> Seq(Blocks)] /\ \A q \in Procs : Len(cache_stack[q]) <= MaxStack
   BY <1>1 DEF Types
  <3> DEFINE s == cache_stack[p]
  <3>2. s \in Seq(Blocks) /\ Len(s) < MaxStack /\ b \in Blocks
   BY <1>2, <2>3, <3>1
  <3>3. cache_stack'[p] = Append(s, b) /\ \A q \in Procs \ {p} : cache_stack'[q] = cache_stack[q]
   BY <2>1, <3>1
  <3>4. cache_stack' = [cache_stack EXCEPT ![p] = Append(s, b)]
   BY <2>1
  <3> HIDE DEF s
  <3>5. Append(s, b) \in Seq(Blocks) /\ Len(Append(s, b)) = Len(s) + 1 /\ Len(s) \in Nat
   BY <3>2, AppendFacts
  <3>6. Len(Append(s, b)) <= MaxStack
   BY <3>2, <3>5, CacheAssumption
  <3> QED BY <3>1, <3>3, <3>4, <3>5, <3>6
 <2>10. /\ PcStep(p) /\ RecOK(pc'[p]) /\ p \notin Inserting /\ p \notin Inserting'
  BY <1>1, <1>2, <2>1, PcSame, InsertingIs
 <2>11. leaked' \in [Blocks -> Nat] /\ \A x \in Blocks \ {a} : leaked'[x] = leaked[x]
  BY <1>1, <2>4 DEF Types
 <2>12. a \in Entries(shm) /\ Counted(m, a)
  BY <2>2, <2>3, <2>5
 <2> QED BY <1>2, <2>4, <2>6, <2>8, <2>9, <2>10, <2>11, <2>12, RefStep
<1> QED BY <1>3, <1>5, <1>6, <1>7

\* apc_fetch: the expired entry goes, or the copy of another one begins.
LEMMA HUserFind ==
    ASSUME IInv, damage = "none", NEW p \in Procs, NEW k, UserFind(p, k)
    PROVE  HStep
<1> DEFINE b == shm.cache["user"].chain[Position(shm, "user", k)]
           r == [AtRest EXCEPT !.at = "copy", !.e = b]
<1>1. /\ LInv /\ Types /\ Heap(shm, Pools) /\ shm \in MemType /\ now \in Nat
 BY IFacts
<1>2. /\ pc[p].at = "idle" /\ UNCHANGED <<now, cache_stack>> /\ Position(shm, "user", k) > 0
      /\ \/ Becomes(Removed(shm, "user", b, now)) /\ pc' = pc
         \/ Becomes(Referenced(shm, b)) /\ pc' = [pc EXCEPT ![p] = r]
 BY DEF UserFind, Calls
<1>3. "user" \in Caches /\ b \in Chained(shm, "user")
 <2>1. "user" \in Caches
  BY DEF Caches
 <2>2. shm.cache["user"].chain \in Seq(Blocks)
  BY <1>1, <2>1, MemTypes
 <2> QED BY <1>2, <2>1, <2>2, PositionIs
<1>4. r.at = "copy" /\ r.e = b
 BY DEF AtRest
<1> HIDE DEF b, r
<1>5. CASE Becomes(Removed(shm, "user", b, now)) /\ pc' = pc
 <2> DEFINE m == Removed(shm, "user", b, now)
 <2>1. Reduced(shm, m, Pools)
  BY <1>1, <1>3, RemovedHeap DEF Reduced
 <2>2. Becomes(m)
  BY <1>5
 <2> HIDE DEF m
 <2> QED BY <1>2, <1>5, <2>1, <2>2, RestOK, ShrinkGoes
<1>6. CASE Becomes(Referenced(shm, b)) /\ pc' = [pc EXCEPT ![p] = r]
 <2> DEFINE m == Referenced(shm, b)
 <2>1. Becomes(m) /\ PcStep(p) /\ pc'[p] = r
  BY <1>1, <1>6, PcSet
 <2>2. b \in Entries(shm)
  BY <1>3, EntriesAre
 <2>3. /\ Counted(m, b) /\ m.slot[b].ref_count = shm.slot[b].ref_count + 1
       /\ shm.slot[b].ref_count = Cardinality(References(b)) + leaked[b] /\ b \in Blocks
  BY <2>2, ReferencedIs
 <2> HIDE DEF m
 <2>4. shm' = m /\ leaked' = leaked /\ damage' = damage
  BY <2>1, <2>3, SameUsed DEF Counted
 <2> DEFINE d == b
 <2> SUFFICES ASSUME NEW a, a = d PROVE HStep
  OBVIOUS
 <2> HIDE DEF d
 <2>5. a = b
  BY DEF d
 <2>6. pc[p].at # "copy" /\ pc'[p].at = "copy" /\ pc'[p].e = a
  BY <1>2, <1>4, <2>1, <2>5
 <2>7. /\ References(a)' = References(a) \cup {<<p, 0>>}
       /\ <<p, 0>> \notin References(a)
       /\ \A x \in Blocks \ {a} : References(x)' = References(x)
  BY <1>2, <2>1, <2>6, CopyMore
 <2>8. Cardinality(References(a)') = Cardinality(References(a)) + 1
  BY <2>7, RefsMore
 <2>9. m.slot[a].ref_count = Cardinality(References(a)') + leaked'[a]
  <3>1. Cardinality(References(a)) \in Nat /\ leaked[a] \in Nat
   BY <1>1, <2>3, <2>5, RefsFinite DEF Types
  <3>2. m.slot[a].ref_count = (Cardinality(References(a)) + leaked[a]) + 1
   BY <2>3, <2>5
  <3> QED BY <2>4, <2>8, <3>1, <3>2
 <2>10. /\ cache_stack' \in [Procs -> Seq(Blocks)]
        /\ \A q \in Procs : Len(cache_stack'[q]) <= MaxStack
  BY <1>1, <1>2 DEF Types
 <2>11. RecOK(pc'[p]) /\ p \notin Inserting /\ p \notin Inserting'
  <3>1. RecOK(pc'[p])
   BY <2>3, <2>5, <2>6 DEF RecOK
  <3> QED BY <1>2, <2>6, <3>1, InsertingIs
 <2>12. leaked' \in [Blocks -> Nat] /\ \A x \in Blocks \ {a} : leaked'[x] = leaked[x]
  BY <1>1, <2>4 DEF Types
 <2>13. a \in Entries(shm) /\ Counted(m, a) /\ UNCHANGED now /\ PcStep(p)
  BY <1>2, <2>1, <2>2, <2>3, <2>5
 <2> QED BY <2>4, <2>7, <2>9, <2>10, <2>11, <2>12, <2>13, RefStep
<1> QED BY <1>2, <1>5, <1>6

\* The copy is made, and the entry released.
LEMMA HCopyDone ==
    ASSUME IInv, damage = "none", NEW p \in Procs, CopyDone(p)
    PROVE  HStep
<1> DEFINE b == pc[p].e
           m == Released(shm, b)
<1>1. LInv /\ Types /\ RecOK(pc[p])
 BY IFacts
<1>2. /\ pc[p].at = "copy" /\ UNCHANGED <<now, cache_stack, leaked, damage>>
      /\ shm' = m /\ pc' = [pc EXCEPT ![p] = AtRest]
 BY DEF CopyDone
<1>3. PcStep(p) /\ pc'[p] = AtRest /\ b \in Blocks /\ RecOK(AtRest) /\ AtRest.at = "idle"
 BY <1>1, <1>2, PcSet, RestOK DEF RecOK
<1> SUFFICES ASSUME NEW a, a = b PROVE HStep
 OBVIOUS
<1>4. pc[p].at = "copy" /\ pc'[p].at # "copy" /\ pc[p].e = a
 BY <1>2, <1>3
<1>5. /\ References(a)' = References(a) \ {<<p, 0>>} /\ <<p, 0>> \in References(a)
      /\ \A x \in Blocks \ {a} : References(x)' = References(x)
 BY <1>2, <1>3, <1>4, CopyLess
<1>6. a \in Blocks /\ shm' = Released(shm, a)
 BY <1>2, <1>3
<1> HIDE DEF b, m
<1>7. /\ Counted(Released(shm, a), a)
      /\ Released(shm, a).slot[a].ref_count = shm.slot[a].ref_count - 1
      /\ shm.slot[a].ref_count = Cardinality(References(a)) + leaked[a] /\ a \in Entries(shm)
 BY <1>5, <1>6, ReleasedIs
<1>8. Cardinality(References(a)') = Cardinality(References(a)) - 1
 BY <1>5, RefsLess
<1> DEFINE v == Released(shm, a)
<1>9. v.slot[a].ref_count = Cardinality(References(a)') + leaked'[a]
 <2> HIDE DEF v
 <2>1. Cardinality(References(a)) \in Nat /\ leaked[a] \in Nat /\ leaked'[a] = leaked[a]
  BY <1>1, <1>2, <1>6, RefsFinite DEF Types
 <2>2. v.slot[a].ref_count = (Cardinality(References(a)) + leaked[a]) - 1
  BY <1>7 DEF v
 <2> QED BY <1>8, <2>1, <2>2
<1>10. Counted(v, a) /\ shm' = v
 BY <1>6, <1>7
<1> HIDE DEF v
<1>11. /\ cache_stack' \in [Procs -> Seq(Blocks)]
       /\ \A q \in Procs : Len(cache_stack'[q]) <= MaxStack
       /\ leaked' \in [Blocks -> Nat] /\ \A x \in Blocks \ {a} : leaked'[x] = leaked[x]
 BY <1>1, <1>2 DEF Types
<1>12. RecOK(pc'[p]) /\ p \notin Inserting /\ p \notin Inserting'
 BY <1>2, <1>3, InsertingIs
<1> QED BY <1>2, <1>3, <1>5, <1>7, <1>9, <1>10, <1>11, <1>12, RefStep

\* The copy ends in a bailout: its reference is lost, and stays counted.
LEMMA HCopyBailsOut ==
    ASSUME IInv, damage = "none", NEW p \in Procs, CopyBailsOut(p)
    PROVE  HStep
<1> DEFINE r == [AtRest EXCEPT !.at = "deactivate"]
<1>1. LInv /\ Types /\ RecOK(pc[p]) /\ shm \in MemType /\ Heap(shm, Pools) /\ RefsOK
 BY IFacts
<1>2. /\ pc[p].at = "copy" /\ UNCHANGED <<shm, now, cache_stack, damage>>
      /\ pc' = [pc EXCEPT ![p] = r] /\ leaked' = [leaked EXCEPT ![pc[p].e] = @ + 1]
 BY DEF CopyBailsOut
<1>3. r.at = "deactivate" /\ RecOK(r)
 BY RestOK
<1> HIDE DEF r
<1>4. PcStep(p) /\ pc'[p] = r /\ pc[p].e \in Blocks
 BY <1>1, <1>2, PcSet DEF RecOK
<1> SUFFICES ASSUME NEW a, a = pc[p].e PROVE HStep
 OBVIOUS
<1>5. pc[p].at = "copy" /\ pc'[p].at # "copy" /\ pc[p].e = a /\ a \in Blocks
 BY <1>2, <1>3, <1>4
<1>6. /\ References(a)' = References(a) \ {<<p, 0>>} /\ <<p, 0>> \in References(a)
      /\ \A x \in Blocks \ {a} : References(x)' = References(x)
 BY <1>2, <1>4, <1>5, CopyLess
<1>7. Cardinality(References(a)') = Cardinality(References(a)) - 1
 BY <1>6, RefsLess
<1>8. a \in Entries(shm) /\ shm.slot[a].ref_count = Cardinality(References(a)) + leaked[a]
 BY <1>1, <1>5, <1>6 DEF RefsOK
<1>9. /\ leaked \in [Blocks -> Nat] /\ leaked' \in [Blocks -> Nat]
      /\ leaked'[a] = leaked[a] + 1 /\ \A x \in Blocks \ {a} : leaked'[x] = leaked[x]
 <2>1. leaked \in [Blocks -> Nat] /\ leaked' = [leaked EXCEPT ![a] = @ + 1]
  BY <1>1, <1>2, <1>5 DEF Types
 <2> QED BY <1>5, <2>1
<1>10. shm.slot[a].ref_count = Cardinality(References(a)') + leaked'[a]
 <2>1. Cardinality(References(a)) \in Nat /\ leaked[a] \in Nat
  BY <1>5, <1>9, RefsFinite
 <2> QED BY <1>7, <1>8, <1>9, <2>1
<1>11. Counted(shm, a) /\ shm' = shm
 BY <1>1, <1>2 DEF Counted
<1>12. /\ cache_stack' \in [Procs -> Seq(Blocks)]
       /\ \A q \in Procs : Len(cache_stack'[q]) <= MaxStack
 BY <1>1, <1>2 DEF Types
<1>13. RecOK(pc'[p]) /\ p \notin Inserting /\ p \notin Inserting'
 BY <1>2, <1>3, <1>4, InsertingIs
<1> DEFINE v == shm
<1>14. v.slot[a].ref_count = Cardinality(References(a)') + leaked'[a] /\ Counted(v, a) /\ shm' = v
 BY <1>10, <1>11
<1> QED BY <1>2, <1>4, <1>6, <1>8, <1>9, <1>11, <1>12, <1>13, <1>14, RefStep

\* apc_deactivate releases a script, or is done.
LEMMA HDeactivate ==
    ASSUME IInv, damage = "none", NEW p \in Procs, Deactivate(p)
    PROVE  HStep
<1>1. LInv /\ Types /\ RecOK(pc[p])
 BY IFacts
<1>2. pc[p].at = "deactivate" /\ UNCHANGED <<now, leaked, damage>>
 BY DEF Deactivate
<1>3. CASE cache_stack[p] = <<>>
 <2>1. pc' = [pc EXCEPT ![p] = AtRest] /\ UNCHANGED <<shm, cache_stack>>
  BY <1>3 DEF Deactivate
 <2>2. Becomes(shm) /\ Reduced(shm, shm, Pools)
  BY <1>2, <2>1, QuietIs
 <2> QED BY <1>2, <2>1, <2>2, RestOK, ShrinkGoes
<1>4. CASE cache_stack[p] # <<>>
 <2> SUFFICES ASSUME NEW a, a = Last(cache_stack[p]), NEW n, n = Len(cache_stack[p]) PROVE HStep
  OBVIOUS
 <2>1. shm' = Released(shm, a) /\ UNCHANGED pc /\ cache_stack' = [cache_stack EXCEPT ![p] = Front(@)]
  BY <1>4 DEF Deactivate
 <2>2. cache_stack \in [Procs -> Seq(Blocks)] /\ \A q \in Procs : Len(cache_stack[q]) <= MaxStack
  BY <1>1 DEF Types
 <2>3. /\ References(a)' = References(a) \ {<<p, Len(cache_stack[p])>>}
       /\ <<p, Len(cache_stack[p])>> \in References(a)
       /\ \A x \in Blocks \ {a} : References(x)' = References(x)
       /\ cache_stack' \in [Procs -> Seq(Blocks)] /\ Len(cache_stack'[p]) <= Len(cache_stack[p])
       /\ a \in Blocks
  BY <1>4, <2>1, <2>2, StackLess
 <2>4. References(a)' = References(a) \ {<<p, n>>} /\ <<p, n>> \in References(a)
  BY <2>3
 <2>5. /\ Counted(Released(shm, a), a)
       /\ Released(shm, a).slot[a].ref_count = shm.slot[a].ref_count - 1
       /\ shm.slot[a].ref_count = Cardinality(References(a)) + leaked[a] /\ a \in Entries(shm)
  BY <2>3, <2>4, ReleasedIs
 <2>6. Cardinality(References(a)') = Cardinality(References(a)) - 1
  BY <2>4, RefsLess
 <2> DEFINE v == Released(shm, a)
 <2>7. v.slot[a].ref_count = Cardinality(References(a)') + leaked'[a]
  <3> HIDE DEF v
  <3>1. Cardinality(References(a)) \in Nat /\ leaked[a] \in Nat /\ leaked'[a] = leaked[a]
   BY <1>1, <1>2, <2>3, RefsFinite DEF Types
  <3>2. v.slot[a].ref_count = (Cardinality(References(a)) + leaked[a]) - 1
   BY <2>5 DEF v
  <3> QED BY <2>6, <3>1, <3>2
 <2>8. Counted(v, a) /\ shm' = v
  BY <2>1, <2>5
 <2> HIDE DEF v
 <2>9. \A q \in Procs : Len(cache_stack'[q]) <= MaxStack
  <3>1. \A q \in Procs \ {p} : cache_stack'[q] = cache_stack[q]
   BY <2>1, <2>2
  <3>2. Len(cache_stack'[p]) <= MaxStack
   <4>1. /\ Len(cache_stack'[p]) \in Nat /\ Len(cache_stack[p]) \in Nat /\ MaxStack \in Nat
         /\ Len(cache_stack[p]) <= MaxStack
    BY <2>2, <2>3, LenProperties, CacheAssumption
   <4> QED BY <2>3, <4>1
  <3> QED BY <2>2, <3>1, <3>2
 <2>10. leaked' \in [Blocks -> Nat] /\ \A x \in Blocks \ {a} : leaked'[x] = leaked[x]
  BY <1>1, <1>2 DEF Types
 <2>11. PcStep(p) /\ RecOK(pc'[p]) /\ p \notin Inserting /\ p \notin Inserting'
  BY <1>1, <1>2, <2>1, PcSame, InsertingIs
 <2> QED BY <1>2, <2>3, <2>5, <2>7, <2>8, <2>9, <2>10, <2>11, RefStep
<1> QED BY <1>3, <1>4

\* Time passes.
LEMMA HTick ==
    ASSUME IInv, damage = "none", Tick
    PROVE  HStep
<1>1. Types /\ HeapInv /\ UNCHANGED <<shm, cache_stack, pc, leaked, damage>> /\ now' = now + 1
 BY DEF IInv, Tick
<1>2. Types'
 <2>1. shm' \in MemType /\ leaked' \in [Blocks -> Nat] /\ cache_stack' \in [Procs -> Seq(Blocks)]
       /\ now' \in Nat /\ damage' \in {"none", "gc", "slot"}
       /\ \A p \in Procs : Len(cache_stack'[p]) <= MaxStack /\ RecOK(pc'[p])
  BY <1>1 DEF Types
 <2> QED BY <2>1 DEF Types, RecOK
<1>3. HeapInv'
 <2>1. Heap(shm, Pools) /\ Distinct /\ RefsOK /\ PlacesOK
  BY <1>1 DEF HeapInv
 <2>2. Heap(shm, Pools)'
  <3>1. Pools' = Pools
   BY <1>1 DEF Pools, Inserting
  <3>2. Heap(shm', Pools')
   BY <1>1, <2>1, <3>1
  <3> QED BY <3>2 DEF Heap, ListsOK, BlocksOK, KeysOK, Entries, Chained, Deleted
 <2>3. Distinct'
  BY <1>1, <2>1 DEF Distinct, Inserting
 <2>4. RefsOK'
  <3>1. \A b \in Blocks : References(b)' = References(b)
   BY <1>1 DEF References
  <3>2. Entries(shm)' = Entries(shm)
   BY <1>1 DEF Entries, Chained, Deleted
  <3> QED BY <1>1, <2>1, <3>1, <3>2 DEF RefsOK
 <2>5. PlacesOK'
  BY <1>1, <2>1 DEF PlacesOK, PlaceKept, Chained
 <2> QED BY <2>2, <2>3, <2>4, <2>5 DEF HeapInv
<1>4. GoneOK
 <2>1. Entries(shm) \subseteq shm.used
  BY <1>1, UsedEntries DEF HeapInv
 <2> QED BY <1>1, <2>1 DEF GoneOK
<1> QED BY <1>2, <1>3, <1>4 DEF HStep

\* Any step keeps the heap in order, and frees only entries that were to go.
LEMMA HNext ==
    ASSUME IInv, Next
    PROVE  HStep
<1>1. damage = "none"
 BY DEF Next
<1>2. ASSUME NEW p \in Procs, Step(p) PROVE HStep
 <2>1. CASE \/ \E k \in UserKeys, t \in UserTtls : StoreBegins(p, k, t)
            \/ \E k \in FileKeys, mtime \in Mtimes : FileFind(p, k, mtime)
            \/ Compile(p) \/ CompileBailsOut(p) \/ PoolFails(p) \/ RequestEnds(p)
  BY <1>1, <2>1, HStoreBegins, HFileFind, HCompile, HQuiet
 <2>2. CASE TryFails(p) \/ ExpungeBegins(p) \/ ExpungeSweeps(p)
  BY <1>1, <2>2, HTryFails, HExpungeBegins, HExpungeSweeps
 <2>3. CASE \E b \in Blocks : PoolCreated(p, b) \/ SlotAllocated(p, b)
  BY <1>1, <2>3, HPoolCreated, HSlotAllocated
 <2>4. CASE StoreChecks(p) \/ SlotFails(p) \/ \E exclusive \in BOOLEAN : Insert(p, exclusive)
  BY <1>1, <2>4, HStoreChecks, HSlotFails, HInsert
 <2>5. CASE \/ \E k \in UserKeys : UserFind(p, k)
            \/ CopyDone(p) \/ CopyBailsOut(p) \/ Deactivate(p)
  BY <1>1, <2>5, HUserFind, HCopyDone, HCopyBailsOut, HDeactivate
 <2>6. CASE \/ ClearEnds(p)
            \/ \E c \in Caches : ClearBegins(p, c) \/ \E k \in Keys(c) : Delete(p, c, k)
  BY <1>1, <2>6, HClearEnds, HClearBegins, HDelete
 <2> QED BY <1>2, <2>1, <2>2, <2>3, <2>4, <2>5, <2>6 DEF Step
<1> QED BY <1>1, <1>2, HTick DEF Next

\* The invariant is inductive.
LEMMA IStep ==
    ASSUME IInv, [Next]_vars
    PROVE  IInv'
<1>1. LInv'
 BY LStep DEF IInv
<1>2. CASE Next
 BY <1>1, <1>2, HNext DEF HStep, IInv
<1>3. CASE UNCHANGED vars
 <2>1. Types' /\ (damage' = "none" => HeapInv')
  <3>1. UNCHANGED <<shm, cache_stack, pc, leaked, damage, now>> /\ Types /\ (damage = "none" => HeapInv)
   BY <1>3 DEF vars, IInv
  <3>2. Types'
   BY <3>1 DEF Types, RecOK
  <3>3. HeapInv' <=> HeapInv
   BY <3>1 DEF HeapInv, Heap, ListsOK, BlocksOK, KeysOK, Entries, Chained, Deleted, Pools,
               Inserting, Distinct, RefsOK, References, PlacesOK, PlaceKept
  <3> QED BY <3>1, <3>2, <3>3
 <2> QED BY <1>1, <2>1 DEF IInv
<1> QED BY <1>2, <1>3

\* It holds in the initial state: nothing is cached.
LEMMA IInit == Init => IInv
<1> SUFFICES ASSUME Init PROVE IInv
 OBVIOUS
<1> DEFINE empty == [chain |-> <<>>, deleted_list |-> <<>>, num_entries |-> 0, busy |-> FALSE,
                     lastkey |-> NULL]
<1>1. /\ shm = [used |-> {}, slot |-> [b \in Blocks |-> BlankSlot], cache |-> [c \in Caches |-> empty]]
      /\ now = 0 /\ cache_stack = [p \in Procs |-> <<>>] /\ pc = [p \in Procs |-> AtRest]
      /\ leaked = [b \in Blocks |-> 0] /\ damage = "none"
 BY DEF Init
<1>2. empty \in CacheType
 BY DEF CacheType, LastKeys
<1>3. /\ empty.chain = <<>> /\ empty.deleted_list = <<>> /\ empty.num_entries = 0
 OBVIOUS
<1> HIDE DEF empty
<1>4. shm \in MemType /\ shm.used = {} /\ \A c \in Caches : shm.cache[c] = empty
 BY <1>1, <1>2, BlankType DEF MemType
<1>5. \A c \in Caches : Chained(shm, c) = {} /\ Deleted(shm, c) = {}
 BY <1>3, <1>4 DEF Chained, Deleted, ToSet
<1>6. Entries(shm) = {}
 BY <1>5 DEF Entries
<1>7. Inserting = {} /\ Pools = {}
 BY <1>1 DEF Inserting, Pools, AtRest
<1>8. Heap(shm, Pools)
 <2>1. ListsOK(shm)
  BY <1>3, <1>4, <1>5 DEF ListsOK, NoDup
 <2>2. BlocksOK(shm, Pools)
  BY <1>1, <1>4, <1>6, <1>7 DEF BlocksOK
 <2>3. KeysOK(shm)
  BY <1>3, <1>4, <1>5 DEF KeysOK
 <2> QED BY <1>4, <2>1, <2>2, <2>3 DEF Heap
<1>9. RefsOK
 <2>1. \A b \in Blocks : References(b) = {}
  BY <1>1 DEF References, AtRest
 <2> QED BY <1>1, <1>6, <2>1 DEF RefsOK
<1>10. Distinct /\ PlacesOK
 BY <1>1, <1>7 DEF Distinct, PlacesOK, AtRest
<1>11. Types
 <2>1. cache_stack \in [Procs -> Seq(Blocks)] /\ \A p \in Procs : Len(cache_stack[p]) <= MaxStack
  BY <1>1, CacheAssumption
 <2>2. \A p \in Procs : RecOK(pc[p])
  BY <1>1, RestOK
 <2> QED BY <1>1, <1>4, <2>1, <2>2 DEF Types
<1> QED BY <1>8, <1>9, <1>10, <1>11, LInit DEF IInv, HeapInv

\* The invariant holds always.
LEMMA Invariance == Spec => []IInv
<1>1. IInv /\ [Next]_vars => IInv'
 BY IStep
<1> QED BY <1>1, IInit, PTL DEF Spec

--------------------
(* Theorems.                                                                 *)

\* Memory, slots, locks and processes have the values of their C types.
THEOREM TypeCorrect == Spec => []TypeOK
<1>1. ASSUME IInv PROVE TypeOK
 <2>1. LInv /\ Types /\ shm \in MemType
  BY <1>1 DEF IInv, Types
 <2>2. shm.used \subseteq Blocks /\ shm.slot \in [Blocks -> SlotType]
  BY <2>1 DEF MemType
 <2>3. \A b \in Blocks : /\ shm.slot[b].key \in FileKeys \cup UserKeys \cup {NULL}
                         /\ shm.slot[b].ref_count \in Nat
                         /\ shm.slot[b].block \in Blocks \cup {NULL}
  <3>1. \A b \in Blocks : shm.slot[b] \in SlotType
   BY <2>2
  <3>2. \A x \in SlotType : /\ x.key \in FileKeys \cup UserKeys \cup {NULL}
                            /\ x.ref_count \in Nat /\ x.block \in Blocks \cup {NULL}
   BY DEF SlotType
  <3> QED BY <3>1, <3>2
 <2>4. \A c \in Caches : Listed(c) \subseteq Blocks
  BY <2>1, MemTypes DEF Listed, Chained, Deleted
 <2> QED BY <2>1, <2>2, <2>3, <2>4 DEF TypeOK, LInv, Types
<1> QED BY <1>1, Invariance, PTL

\* The reference count of an entry is the number of references processes hold
\* to it, and of those that died with their request.
THEOREM RefCountsCorrect == Spec => []RefCountsExact
<1>1. ASSUME IInv PROVE RefCountsExact
 <2> SUFFICES ASSUME damage = "none", NEW c \in Caches, NEW b \in Listed(c)
              PROVE  shm.slot[b].ref_count = Cardinality(References(b)) + leaked[b]
  BY DEF RefCountsExact
 <2>1. RefsOK /\ shm \in MemType
  BY <1>1 DEF IInv, HeapInv, Types
 <2>2. b \in Entries(shm)
  BY EntriesAre DEF Listed, Chained, Deleted
 <2>3. b \in Blocks
  BY <2>1, <2>2, EntriesTypes
 <2> QED BY <2>1, <2>2, <2>3 DEF RefsOK
<1> QED BY <1>1, Invariance, PTL

\* A chain has one entry per key, each a key of its cache, and its header counts
\* them.
THEOREM ChainsCorrect == Spec => []ChainsExact
<1>1. ASSUME IInv PROVE ChainsExact
 <2> SUFFICES ASSUME damage = "none", NEW c \in Caches, NEW s, s = shm.cache[c].chain
              PROVE  /\ shm.cache[c].num_entries = Len(s)
                     /\ \A i, j \in DOMAIN s : shm.slot[s[i]].key = shm.slot[s[j]].key => i = j
                     /\ \A i \in DOMAIN s : shm.slot[s[i]].key \in Keys(c)
  BY DEF ChainsExact
 <2>1. ListsOK(shm) /\ KeysOK(shm)
  BY <1>1 DEF IInv, HeapInv, Heap
 <2>2. /\ shm.cache[c].num_entries = Len(s) /\ NoDup(s)
       /\ \A a, b \in Chained(shm, c) : shm.slot[a].key = shm.slot[b].key => a = b
       /\ \A b \in Chained(shm, c) : shm.slot[b].key \in Keys(c)
  BY <2>1 DEF ListsOK, KeysOK
 <2>3. \A i \in DOMAIN s : s[i] \in Chained(shm, c)
  BY DEF Chained, ToSet
 <2> QED BY <2>2, <2>3 DEF NoDup
<1> QED BY <1>1, Invariance, PTL

\* An entry that a process executes or copies is freed only when it has been out
\* of its cache for longer than gc_ttl.
THEOREM UsersOutliveGcTtl == Spec => InUseOutlivesGcTtl
<1>1. ASSUME IInv, Next, NEW b \in shm.used \ shm'.used, References(b) # {}
      PROVE  \E c \in Caches : /\ Contains(shm.cache[c].deleted_list, b)
                               /\ now - shm.slot[b].deletion_time > GcTtl
 <2>1. HeapInv /\ Types /\ RefsOK /\ shm \in MemType
  BY <1>1 DEF IInv, Next, HeapInv, Types
 <2>2. b \in Blocks
  BY <2>1 DEF MemType
 <2>3. b \in Entries(shm) /\ shm.slot[b].ref_count = Cardinality(References(b)) + leaked[b]
  BY <1>1, <2>1, <2>2 DEF RefsOK
 <2>4. Goes(shm, b)
  BY <1>1, <2>3, HNext DEF HStep, GoneOK
 <2>5. ~ (shm.slot[b].ref_count <= 0)
  <3>1. Cardinality(References(b)) \in Nat /\ Cardinality(References(b)) # 0 /\ leaked[b] \in Nat
   <4>1. IsFiniteSet(References(b))
    BY RefsFinite
   <4> QED BY <1>1, <2>1, <2>2, <4>1, RefsFinite, FS_EmptySet DEF Types
  <3> QED BY <2>3, <3>1
 <2>6. PICK c \in Caches : b \in Deleted(shm, c) /\ now - shm.slot[b].deletion_time > GcTtl
  BY <2>4, <2>5 DEF Goes
 <2>7. shm.cache[c].deleted_list \in Seq(Blocks)
  BY <2>1, MemTypes
 <2>8. Contains(shm.cache[c].deleted_list, b)
  BY <2>6, <2>7, ContainsIs DEF Deleted
 <2> QED BY <2>6, <2>8
<1>2. IInv /\ [Next]_vars =>
        [\A b \in shm.used \ shm'.used :
            References(b) # {} =>
               \E c \in Caches : /\ Contains(shm.cache[c].deleted_list, b)
                                 /\ now - shm.slot[b].deletion_time > GcTtl]_vars
 BY <1>1
<1> QED BY <1>2, Invariance, PTL DEF Spec, InUseOutlivesGcTtl

\* A set with at most one member.
LEMMA OneAtMost ==
    ASSUME NEW S, \A x, y \in S : x = y
    PROVE  Cardinality(S) = IF S = {} THEN 0 ELSE 1
<1>1. CASE S = {}
 BY <1>1, FS_EmptySet
<1>2. CASE S # {}
 <2>1. PICK x : S = {x}
  BY <1>2
 <2> QED BY <1>2, <2>1, FS_Singleton
<1> QED BY <1>1, <1>2

\* A list without repetitions is no longer than there are blocks.
LEMMA ListFits ==
    ASSUME NEW s \in Seq(Blocks), NoDup(s)
    PROVE  DOMAIN s \subseteq 1 .. Cardinality(Blocks)
<1> DEFINE n == Len(s)
           k == Cardinality(Blocks)
<1>1. n \in Nat /\ k \in Nat /\ IsFiniteSet(Blocks) /\ DOMAIN s = 1 .. n /\ s \in [1 .. n -> Blocks]
 BY LenProperties, FS_CardinalityType, CacheAssumption
<1> HIDE DEF n
<1>2. IsFiniteSet(1 .. n) /\ Cardinality(1 .. n) = n
 <2>1. 1 \in Int /\ n \in Int
  BY <1>1
 <2>2. IsFiniteSet(1 .. n) /\ Cardinality(1 .. n) = IF 1 > n THEN 0 ELSE n - 1 + 1
  BY <2>1, FS_Interval
 <2> QED BY <1>1, <2>2
<1>3. ~ (k < n)
 <2> SUFFICES ASSUME k < n PROVE FALSE
  OBVIOUS
 <2>1. Cardinality(Blocks) < Cardinality(1 .. n)
  BY <1>2
 <2>2. \E x, y \in 1 .. n : x # y /\ s[x] = s[y]
  BY <1>1, <1>2, <2>1, FS_PigeonHole
 <2> QED BY <1>1, <2>2 DEF NoDup
<1> HIDE DEF k
<1>4. 1 .. n \subseteq 1 .. k
 BY <1>1, <1>3
<1> QED BY <1>1, <1>4 DEF k

\* The list x[2] of cache x[1], and the entry at its place x[3].
ListAt(x) == shm.cache[x[1]][x[2]]

\* The entry at that place.
EntryAt(x) == ListAt(x)[x[3]]

\* All places of all lists.
Spots == {x \in Caches \X {"chain", "deleted_list"} \X (1 .. Cardinality(Blocks)) :
             x[3] \in DOMAIN ListAt(x)}

\* A spot is on a chain or on a deleted list.
LEMMA SpotIs ==
    ASSUME shm \in MemType, NEW x \in Spots
    PROVE  /\ x = <<x[1], x[2], x[3]>> /\ x[1] \in Caches /\ x[3] \in DOMAIN ListAt(x)
           /\ EntryAt(x) \in Entries(shm)
           /\ \/ /\ x[2] = "chain" /\ ListAt(x) = shm.cache[x[1]].chain
                 /\ EntryAt(x) \in Chained(shm, x[1])
              \/ /\ x[2] = "deleted_list" /\ ListAt(x) = shm.cache[x[1]].deleted_list
                 /\ EntryAt(x) \in Deleted(shm, x[1])
<1>1. /\ x = <<x[1], x[2], x[3]>> /\ x[1] \in Caches /\ x[3] \in DOMAIN ListAt(x)
      /\ x[2] \in {"chain", "deleted_list"}
 BY DEF Spots
<1>2. CASE x[2] = "chain"
 <2>1. ListAt(x) = shm.cache[x[1]].chain
  BY <1>2 DEF ListAt
 <2>2. EntryAt(x) \in Chained(shm, x[1])
  BY <1>1, <2>1 DEF EntryAt, Chained, ToSet
 <2> QED BY <1>1, <1>2, <2>1, <2>2, EntriesAre
<1>3. CASE x[2] = "deleted_list"
 <2>1. ListAt(x) = shm.cache[x[1]].deleted_list
  BY <1>3 DEF ListAt
 <2>2. EntryAt(x) \in Deleted(shm, x[1])
  BY <1>1, <2>1 DEF EntryAt, Deleted, ToSet
 <2> QED BY <1>1, <1>3, <2>1, <2>2, EntriesAre
<1> QED BY <1>1, <1>2, <1>3

\* No entry is at two spots.
LEMMA OneSpot ==
    ASSUME shm \in MemType, ListsOK(shm), NEW x \in Spots, NEW y \in Spots, EntryAt(x) = EntryAt(y)
    PROVE  x = y
<1>1. /\ x = <<x[1], x[2], x[3]>> /\ x[1] \in Caches /\ x[3] \in DOMAIN ListAt(x)
      /\ \/ /\ x[2] = "chain" /\ ListAt(x) = shm.cache[x[1]].chain
            /\ EntryAt(x) \in Chained(shm, x[1])
         \/ /\ x[2] = "deleted_list" /\ ListAt(x) = shm.cache[x[1]].deleted_list
            /\ EntryAt(x) \in Deleted(shm, x[1])
 BY SpotIs
<1>2. /\ y = <<y[1], y[2], y[3]>> /\ y[1] \in Caches /\ y[3] \in DOMAIN ListAt(y)
      /\ \/ /\ y[2] = "chain" /\ ListAt(y) = shm.cache[y[1]].chain
            /\ EntryAt(y) \in Chained(shm, y[1])
         \/ /\ y[2] = "deleted_list" /\ ListAt(y) = shm.cache[y[1]].deleted_list
            /\ EntryAt(y) \in Deleted(shm, y[1])
 BY SpotIs
<1>3. x[1] = y[1] /\ x[2] = y[2]
 BY <1>1, <1>2 DEF ListsOK
<1>4. ListAt(x) = ListAt(y) /\ NoDup(ListAt(x))
 BY <1>1, <1>2, <1>3 DEF ListsOK
<1>5. x[3] = y[3]
 BY <1>1, <1>2, <1>4 DEF NoDup, EntryAt
<1> QED BY <1>1, <1>2, <1>3, <1>5

\* Every entry is at one.
LEMMA SpotOf ==
    ASSUME shm \in MemType, ListsOK(shm), NEW a \in Entries(shm)
    PROVE  \E x \in Spots : EntryAt(x) = a
<1>1. PICK c \in Caches : a \in Chained(shm, c) \/ a \in Deleted(shm, c)
 BY EntriesAre
<1>2. CASE a \in Chained(shm, c)
 <2>1. PICK i \in DOMAIN shm.cache[c].chain : shm.cache[c].chain[i] = a
  BY <1>2 DEF Chained, ToSet
 <2>2. i \in 1 .. Cardinality(Blocks)
  BY MemTypes, ListFits DEF ListsOK
 <2>3. <<c, "chain", i>> \in Spots /\ EntryAt(<<c, "chain", i>>) = a
  BY <2>1, <2>2 DEF Spots, EntryAt, ListAt
 <2> QED BY <2>3
<1>3. CASE a \in Deleted(shm, c)
 <2>1. PICK i \in DOMAIN shm.cache[c].deleted_list : shm.cache[c].deleted_list[i] = a
  BY <1>3 DEF Deleted, ToSet
 <2>2. i \in 1 .. Cardinality(Blocks)
  BY MemTypes, ListFits DEF ListsOK
 <2>3. <<c, "deleted_list", i>> \in Spots /\ EntryAt(<<c, "deleted_list", i>>) = a
  BY <2>1, <2>2 DEF Spots, EntryAt, ListAt
 <2> QED BY <2>3
<1> QED BY <1>1, <1>2, <1>3

\* Every block in use belongs to one pool of one process, or to one place in one
\* list; a free block belongs to none.
THEOREM BlocksCorrect == Spec => []BlocksAccounted
<1>1. ASSUME IInv PROVE BlocksAccounted
 <2> SUFFICES ASSUME damage = "none", NEW b \in Blocks
              PROVE  Cardinality({p \in Procs : b \in [q \in Procs |-> Private(q)][p]})
                       + Cardinality({x \in Spots : b \in PoolOf(shm, EntryAt(x))})
                     = IF b \in shm.used THEN 1 ELSE 0
  BY DEF BlocksAccounted, Spots, EntryAt, ListAt
 <2> DEFINE A == {p \in Procs : b \in [q \in Procs |-> Private(q)][p]}
            B == {x \in Spots : b \in PoolOf(shm, EntryAt(x))}
 <2>1. shm \in MemType /\ ListsOK(shm) /\ BlocksOK(shm, Pools) /\ Distinct
  BY <1>1 DEF IInv, HeapInv, Heap, Types
 <2>2. A = {p \in Inserting : pc[p].e = b}
  BY DEF Private, Inserting
 <2>3. (\A p, q \in A : p = q) /\ (A # {} <=> b \in Pools)
  BY <2>1, <2>2 DEF Distinct, Pools
 <2>4. \A a : b \in PoolOf(shm, a) <=> a = b \/ b = shm.slot[a].block
  BY CacheAssumption DEF PoolOf
 <2>5. B # {} <=> b \in Entries(shm) \/ \E a \in Entries(shm) : shm.slot[a].block = b
  <3>1. ASSUME NEW x \in B
        PROVE  b \in Entries(shm) \/ \E a \in Entries(shm) : shm.slot[a].block = b
   BY <2>1, <2>4, SpotIs
  <3>2. ASSUME NEW a \in Entries(shm), a = b \/ shm.slot[a].block = b
        PROVE  B # {}
   <4>1. PICK x \in Spots : EntryAt(x) = a
    BY <2>1, SpotOf
   <4>2. x \in B
    BY <2>4, <3>2, <4>1
   <4> QED BY <4>2
  <3> QED BY <3>1, <3>2
 <2>6. b # NULL
  BY CacheAssumption
 <2>7. ASSUME NEW x \in B, NEW y \in B PROVE x = y
  <3>1. /\ EntryAt(x) \in Entries(shm)
        /\ EntryAt(x) = b \/ shm.slot[EntryAt(x)].block = b
        /\ EntryAt(y) \in Entries(shm)
        /\ EntryAt(y) = b \/ shm.slot[EntryAt(y)].block = b
   BY <2>1, <2>4, SpotIs
  <3>2. EntryAt(x) = EntryAt(y)
   <4>1. \A e \in Entries(shm) : shm.slot[e].block # NULL =>
             /\ shm.slot[e].block \in shm.used \ (Entries(shm) \cup Pools)
             /\ \A a \in Entries(shm) : shm.slot[a].block = shm.slot[e].block => a = e
    BY <2>1 DEF BlocksOK
   <4> DEFINE e == EntryAt(x)
              a == EntryAt(y)
   <4> HIDE DEF e, a
   <4>2. e = a
    BY <2>6, <3>1, <4>1 DEF e, a
   <4> QED BY <4>2 DEF e, a
  <3> QED BY <2>1, <3>2, OneSpot
 <2>8. b \in shm.used <=> A # {} \/ B # {}
  BY <2>1, <2>3, <2>5, <2>6 DEF BlocksOK
 <2>9. ~ (A # {} /\ B # {})
  BY <2>1, <2>3, <2>5, <2>6 DEF BlocksOK
 <2> HIDE DEF A, B
 <2>10. /\ Cardinality(A) = IF A = {} THEN 0 ELSE 1
        /\ Cardinality(B) = IF B = {} THEN 0 ELSE 1
  BY <2>3, <2>7, OneAtMost
 <2>11. Cardinality(A) + Cardinality(B) = IF b \in shm.used THEN 1 ELSE 0
  BY <2>8, <2>9, <2>10
 <2> QED BY <2>11 DEF A, B
<1> QED BY <1>1, Invariance, PTL
=============================================================================
