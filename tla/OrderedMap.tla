----------------------------- MODULE OrderedMap -----------------------------
(***************************************************************************)
(* What a HashTable promises to the rest of the engine: a map that keeps   *)
(* its elements in the order they were inserted, with one cursor (the      *)
(* internal pointer) and the next integer key to hand out.  Buckets,       *)
(* chains, addresses and the size of the table do not appear.              *)
(***************************************************************************)
EXTENDS Integers, Sequences, SequencesExt

CONSTANTS
    Keys,           \* keys callers use
    Data,           \* values callers store
    LongMax         \* LONG_MAX

VARIABLES
    order,          \* elements [key, data], oldest first
    cursor,         \* index in order of the current element, 0 if none
    next            \* next integer key

vars == <<order, cursor, next>>

Numeric(i) == [h |-> i, nKeyLength |-> 0, arKey |-> "none"]

AllKeys == Keys \cup {Numeric(i) : i \in 0 .. LongMax}

\* The next integer key once key k has been stored.
NextAfter(k) ==
    IF k.nKeyLength = 0 /\ k.h >= next
    THEN IF k.h < LongMax THEN k.h + 1 ELSE LongMax
    ELSE next

\* Position of key k, 0 if absent.
Find(k) ==
    LET found == {i \in 1 .. Len(order) : order[i].key = k}
    IN  IF found = {} THEN 0 ELSE CHOOSE i \in found : TRUE

\* The cursor after the element at i is removed: an element that goes takes
\* the cursor to the one after it.
CursorWithout(i) ==
    CASE cursor > i                      -> cursor - 1
      [] cursor = i /\ i = Len(order)    -> 0
      [] OTHER                           -> cursor

Init == order = <<>> /\ cursor = 0 /\ next = 0

\* A new element goes last, and becomes current if there was no current one.
Insert(k, d) ==
    /\ Find(k) = 0
    /\ order' = Append(order, [key |-> k, data |-> d])
    /\ cursor' = IF cursor = 0 THEN Len(order) + 1 ELSE cursor
    /\ next' = NextAfter(k)

Replace(k, d) ==
    /\ Find(k) # 0
    /\ order' = [order EXCEPT ![Find(k)].data = d]
    /\ next' = NextAfter(k)
    /\ UNCHANGED cursor

Delete(i) ==
    /\ order' = RemoveAt(order, i)
    /\ cursor' = CursorWithout(i)
    /\ UNCHANGED next

\* The current element gets a key nobody has, and keeps its place.
Rename(k) ==
    /\ cursor # 0
    /\ Find(k) = 0
    /\ order' = [order EXCEPT ![cursor].key = k]
    /\ UNCHANGED <<cursor, next>>

MoveTo(c) ==
    /\ cursor' = c
    /\ UNCHANGED <<order, next>>

\* Any order of the same elements; the first becomes current.
Reorder(s) ==
    /\ order # <<>>
    /\ order' = s
    /\ cursor' = 1
    /\ UNCHANGED next

\* The same, with keys 0, 1, 2, ...
Renumber(s) ==
    /\ order # <<>>
    /\ order' = [i \in DOMAIN s |-> [s[i] EXCEPT !.key = Numeric(i - 1)]]
    /\ cursor' = 1
    /\ next' = Len(s)

Clear == order' = <<>> /\ cursor' = 0 /\ next' = 0

Permuted ==
    {[i \in DOMAIN order |-> order[p[i]]] :
        p \in {f \in [DOMAIN order -> DOMAIN order] :
                  \A i, j \in DOMAIN order : f[i] = f[j] => i = j}}

Next ==
    \/ \E k \in AllKeys, d \in Data : Insert(k, d) \/ Replace(k, d)
    \/ \E i \in 1 .. Len(order) : Delete(i)
    \/ \E k \in Keys : Rename(k)
    \/ \E c \in 0 .. Len(order) : MoveTo(c)
    \/ \E s \in Permuted : Reorder(s) \/ Renumber(s)
    \/ Clear

Spec == Init /\ [][Next]_vars
=============================================================================
