------------------------------- MODULE ZendHash -------------------------------
(***************************************************************************)
(* The hash table of the Zend engine (Zend/zend_hash.c): symbol tables,    *)
(* arrays, object properties, function and class tables are all of this    *)
(* type.  A bucket is on two doubly linked lists, the chain of its slot    *)
(* and the list of all elements in order.                                  *)
(*                                                                         *)
(* Removing or replacing an element calls the table's pDestructor, which   *)
(* can run user code that calls back into the same table while the outer   *)
(* function is still under way.  The functions that are waiting for a      *)
(* destructor, or for an apply_func, are on `stack'; `Reentrant' says      *)
(* which of them wait for code that uses this table.                       *)
(***************************************************************************)
EXTENDS Integers, Sequences, SequencesExt, FiniteSets, TLC

CONSTANTS
    Addr,           \* addresses of buckets
    NULL,
    Keys,           \* keys callers use: [h, nKeyLength, arKey]
    Data,           \* values callers store
    LongMax,        \* LONG_MAX
    InitTableSize,  \* smallest table, a power of two (8 in zend_hash_init)
    MaxDepth,       \* bound: functions waiting at once
    Functions,      \* functions the callers use
    Reentrant       \* functions whose callbacks may use the table

ASSUME AddrAssumption == IsFiniteSet(Addr) /\ NULL \notin Addr

ASSUME KeyAssumption ==
    /\ \A k \in Keys : k.nKeyLength \in Nat /\ k.h \in Int /\ k.h <= LongMax
    /\ LongMax \in Nat

ASSUME SizeAssumption == InitTableSize \in Nat \ {0} /\ MaxDepth \in Nat

ASSUME ReentrantAssumption == Reentrant \subseteq
    {"update", "del", "apply_func", "apply", "reverse_apply",
     "graceful_destroy", "graceful_reverse_destroy"}

VARIABLES
    ht,             \* the HashTable and its buckets
    inconsistent,   \* HT_OK or HT_DESTROYED
    stack,          \* functions waiting for a callback, outermost first
    saved,          \* a HashPointer kept by foreach: pos and h
    owned,          \* history: values stored and not yet destroyed
    broken          \* the function that went on with a bucket that is gone,
                    \* "no" if none did

vars == <<ht, inconsistent, stack, saved, owned, broken>>

Ptr == Addr \cup {NULL}

\* Numeric indices are marked by nKeyLength = 0.
Numeric(i) == [h |-> i, nKeyLength |-> 0, arKey |-> "none"]

AllKeys == Keys \cup {Numeric(i) : i \in 0 .. LongMax}

NoKey == [h |-> 0, nKeyLength |-> 0, arKey |-> "freed"]

-----------------------------------------------------------------------------
(* Buckets and their two lists. *)

EmptyTable(size) ==
    [nTableSize       |-> size,
     arBuckets        |-> [i \in 0 .. size - 1 |-> NULL],
     nNumOfElements   |-> 0,
     nNextFreeElement |-> 0,
     pListHead        |-> NULL,
     pListTail        |-> NULL,
     pInternalPointer |-> NULL,
     allocated        |-> {},
     key              |-> [p \in Addr |-> NoKey],
     pData            |-> [p \in Addr |-> NULL],
     pNext            |-> [p \in Addr |-> NULL],
     pLast            |-> [p \in Addr |-> NULL],
     pListNext        |-> [p \in Addr |-> NULL],
     pListLast        |-> [p \in Addr |-> NULL]]

\* nIndex = h & ht->nTableMask
Slot(t, h) == h % t.nTableSize

\* if (p) p->f = x
Set(t, f, p, x) == IF p = NULL THEN t ELSE [t EXCEPT ![f][p] = x]

\* CONNECT_TO_BUCKET_DLLIST, and the slot that then points to p.
ConnectToBucket(t, p) ==
    LET i    == Slot(t, t.key[p].h)
        head == t.arBuckets[i]
    IN  [Set(t, "pLast", head, p) EXCEPT !.pNext[p]     = head,
                                         !.pLast[p]     = NULL,
                                         !.arBuckets[i] = p]

ConnectToGlobal(t, p) ==
    LET u == Set(t, "pListNext", t.pListTail, p)
    IN  [u EXCEPT !.pListLast[p] = t.pListTail,
                  !.pListNext[p] = NULL,
                  !.pListTail = p,
                  !.pListHead = IF @ = NULL THEN p ELSE @,
                  !.pInternalPointer = IF @ = NULL THEN p ELSE @]

\* Faulty: the bucket after p keeps pointing back to p.
DisconnectFromBucket_NoBack(t, p) ==
    IF t.pLast[p] = NULL
    THEN [t EXCEPT !.arBuckets[Slot(t, t.key[p].h)] = t.pNext[p]]
    ELSE Set(t, "pNext", t.pLast[p], t.pNext[p])

\* Take p off its chain.
DisconnectFromBucket(t, p) ==
    LET u == Set(t, "pLast", t.pNext[p], t.pLast[p])
    IN  IF t.pLast[p] = NULL
        THEN [u EXCEPT !.arBuckets[Slot(t, t.key[p].h)] = t.pNext[p]]
        ELSE Set(u, "pNext", t.pLast[p], t.pNext[p])

\* Faulty: deleting the last element leaves it the tail.
DisconnectFromGlobal_KeepsTail(t, p) ==
    LET next == t.pListNext[p]
        last == t.pListLast[p]
        u    == Set(Set(t, "pListNext", last, next), "pListLast", next, last)
    IN  [u EXCEPT !.pListHead = IF last = NULL THEN next ELSE @,
                  !.pInternalPointer = IF @ = p THEN next ELSE @]

\* Take p off the list of elements; the internal pointer moves on.
DisconnectFromGlobal(t, p) ==
    LET next == t.pListNext[p]
        last == t.pListLast[p]
        u    == Set(Set(t, "pListNext", last, next), "pListLast", next, last)
    IN  [u EXCEPT !.pListHead = IF last = NULL THEN next ELSE @,
                  !.pListTail = IF next = NULL THEN last ELSE @,
                  !.pInternalPointer = IF @ = p THEN next ELSE @]

Unlink(t, p) == DisconnectFromGlobal(DisconnectFromBucket(t, p), p)

\* pefree(p): what it held may not be read again.
Free(t, p) ==
    [t EXCEPT !.allocated = @ \ {p},
              !.key[p] = NoKey,
              !.pData[p] = NULL,
              !.pNext[p] = NULL,
              !.pLast[p] = NULL,
              !.pListNext[p] = NULL,
              !.pListLast[p] = NULL]

\* At most n buckets from p along the pointers f.
Walk(t, f, p, n) ==
    LET from[i \in 0 .. n] ==
            [q \in Ptr |-> IF i = 0 \/ q = NULL THEN <<>>
                           ELSE <<q>> \o from[i - 1][t[f][q]]]
    IN  from[n][p]

Length == Cardinality(Addr) + 1

\* The elements in order.
List(t) == Walk(t, "pListNext", t.pListHead, Length)

Chain(t, i) == Walk(t, "pNext", t.arBuckets[i], Length)

\* The first bucket of its chain with key k, or NULL.
Lookup(t, k) ==
    LET chain == Chain(t, Slot(t, k.h))
        found == {i \in 1 .. Len(chain) : t.key[chain[i]] = k}
    IN  IF found = {} THEN NULL
        ELSE chain[CHOOSE i \in found : \A j \in found : i <= j]

-----------------------------------------------------------------------------
(* Growing, inserting, copying. *)

\* All elements are connected again, in their order.
zend_hash_rehash(t) ==
    LET list == List(t)
        connected[n \in 0 .. Len(list)] ==
            IF n = 0
            THEN [t EXCEPT !.arBuckets = [i \in 0 .. t.nTableSize - 1 |-> NULL]]
            ELSE ConnectToBucket(connected[n - 1], list[n])
    IN  connected[Len(list)]

\* ZEND_HASH_IF_FULL_DO_RESIZE
DoResize(t) ==
    IF t.nNumOfElements > t.nTableSize
    THEN zend_hash_rehash([t EXCEPT !.nTableSize = 2 * @])
    ELSE t

\* Faulty: no test for LONG_MAX.
NextFree_Overflows(t, k) ==
    IF k.nKeyLength = 0 /\ k.h >= t.nNextFreeElement
    THEN k.h + 1 ELSE t.nNextFreeElement

\* nNextFreeElement after key k was stored.
NextFree(t, k) ==
    IF k.nKeyLength = 0 /\ k.h >= t.nNextFreeElement
    THEN IF k.h < LongMax THEN k.h + 1 ELSE LongMax
    ELSE t.nNextFreeElement

\* A new element for key k in the bucket at p.
Insert(t, p, k, d) ==
    LET u == [t EXCEPT !.allocated = @ \cup {p},
                       !.key[p] = k,
                       !.pData[p] = d]
        v == ConnectToGlobal(ConnectToBucket(u, p), p)
    IN  DoResize([v EXCEPT !.nNextFreeElement = NextFree(t, k),
                           !.nNumOfElements = @ + 1])

\* Smallest table zend_hash_init makes for n elements.
SizeFor(n) ==
    LET size[i \in 0 .. n] ==
            IF i = 0 THEN InitTableSize
            ELSE IF size[i - 1] < n THEN 2 * size[i - 1] ELSE size[i - 1]
    IN  size[n]

\* Faulty: the copy's current element is the source's first.
CopyElement_IgnoresPointer(t, c, p) == Insert(c, p, t.key[p], t.pData[p])

\* zval_copy_ctor of an array: zend_hash_copy into a new table.  Its buckets
\* are new ones too; here they keep the addresses of those they copy.
CopyElement(t, c, p) ==
    LET d == IF t.pInternalPointer = p
             THEN [c EXCEPT !.pInternalPointer = NULL]
             ELSE c
    IN  Insert(d, p, t.key[p], t.pData[p])

Copy(t) ==
    LET list == List(t)
        copied[n \in 0 .. Len(list)] ==
            IF n = 0 THEN EmptyTable(SizeFor(t.nNumOfElements))
            ELSE CopyElement(t, copied[n - 1], list[n])
        c == copied[Len(list)]
    IN  IF c.pInternalPointer = NULL
        THEN [c EXCEPT !.pInternalPointer = c.pListHead] ELSE c

-----------------------------------------------------------------------------
(* The functions under way, and when callers may call. *)

NoFrame ==
    [fn |-> "none", p |-> NULL, next |-> NULL, data |-> NULL, key |-> NoKey,
     loop |-> "none", stop |-> FALSE]

Frame(fn, p) == [NoFrame EXCEPT !.fn = fn, !.p = p]

Top == Last(stack)

Outer == Front(stack)

\* The function on top has its callback's result, or is about to go on.
Returning(fn) == broken = "no" /\ stack # <<>> /\ Top.fn = fn

\* Code outside zend_hash.c runs and may call fn.
MayCall(fn) ==
    /\ fn \in Functions
    /\ broken = "no"
    /\ inconsistent = "ok"
    /\ stack # <<>> => Top.fn \in Reentrant

\* A call whose callback has to be waited for.
MayWait(fn) == MayCall(fn) /\ Len(stack) < MaxDepth

\* The table's owner calls: nothing else uses the table.
OwnerCalls(fn) == MayCall(fn) /\ stack = <<>>

\* fn went on with a bucket that had been freed.
Breaks(fn) ==
    /\ broken' = fn
    /\ UNCHANGED <<ht, inconsistent, stack, saved, owned>>

\* Only the table's structure changes.
Changes(t) ==
    /\ ht' = t
    /\ UNCHANGED <<inconsistent, stack, saved, owned, broken>>

Fresh == Addr \ ht.allocated

\* Values a caller may hand over: not in the table, and not on their way in.
Values == Data \ (owned \cup {stack[i].data : i \in DOMAIN stack})

Init ==
    /\ ht = EmptyTable(InitTableSize)
    /\ inconsistent = "ok"
    /\ stack = <<>>
    /\ saved = [pos |-> NULL, h |-> 0]
    /\ owned = {}
    /\ broken = "no"

-----------------------------------------------------------------------------
(* Storing. *)

\* zend_hash_add, _update, _index_update, for a key the table does not have.
Add(k, d) ==
    /\ MayCall("add")
    /\ Lookup(ht, k) = NULL
    /\ d \in Values
    /\ \E p \in Fresh : ht' = Insert(ht, p, k, d)
    /\ owned' = owned \cup {d}
    /\ UNCHANGED <<inconsistent, stack, saved, broken>>

\* zend_hash_next_index_insert; it fails if the next index is taken.
NextInsert(d) ==
    /\ MayCall("next_insert")
    /\ Lookup(ht, Numeric(ht.nNextFreeElement)) = NULL
    /\ d \in Values
    /\ \E p \in Fresh :
          ht' = Insert(ht, p, Numeric(ht.nNextFreeElement), d)
    /\ owned' = owned \cup {d}
    /\ UNCHANGED <<inconsistent, stack, saved, broken>>

\* zend_hash_update of an existing element: the old value's destructor runs
\* while the bucket is still linked and still holds it.
Update(k, d) ==
    /\ MayWait("update")
    /\ d \in Values
    /\ LET p == Lookup(ht, k)
       IN  /\ p # NULL
           /\ stack' = Append(stack, [Frame("update", p) EXCEPT !.data = d,
                                                                !.key = k])
           /\ owned' = owned \ {ht.pData[p]}
    /\ UNCHANGED <<ht, inconsistent, saved, broken>>

\* Faulty: the replaced value is not destroyed.
UpdateReturns_Leaks ==
    /\ Returning("update")
    /\ ht' = [ht EXCEPT !.pData[Top.p] = Top.data,
                        !.nNextFreeElement = NextFree(ht, Top.key)]
    /\ owned' = owned \cup {Top.data, ht.pData[Top.p]}
    /\ stack' = Outer
    /\ UNCHANGED <<inconsistent, saved, broken>>

UpdateReturns ==
    /\ Returning("update")
    /\ IF Top.p \in ht.allocated
       THEN /\ ht' = [ht EXCEPT !.pData[Top.p] = Top.data,
                                !.nNextFreeElement = NextFree(ht, Top.key)]
            /\ owned' = owned \cup {Top.data}
            /\ stack' = Outer
            /\ UNCHANGED <<inconsistent, saved, broken>>
       ELSE Breaks("update")

-----------------------------------------------------------------------------
(* Deleting, and renaming the current element. *)

\* The element is off both lists when its destructor runs; it is freed, and
\* nNumOfElements decremented, after that.
Delete(t, p, frames) ==
    /\ ht' = Unlink(t, p)
    /\ owned' = owned \ {t.pData[p]}
    /\ stack' = Append(frames, Frame("del", p))
    /\ UNCHANGED <<inconsistent, saved, broken>>

zend_hash_del(k) ==
    /\ MayWait("del")
    /\ Lookup(ht, k) # NULL
    /\ Delete(ht, Lookup(ht, k), stack)

DelReturns ==
    /\ Returning("del")
    /\ ht' = [Free(ht, Top.p) EXCEPT !.nNumOfElements = @ - 1]
    /\ stack' = Outer
    /\ UNCHANGED <<inconsistent, saved, owned, broken>>

\* Faulty: the element that has the key stays.
update_current_key_Keeps(k) ==
    /\ MayWait("update_current_key")
    /\ ht.pInternalPointer # NULL
    /\ ht.key[ht.pInternalPointer] # k
    /\ stack' = Append(stack,
          [Frame("update_current_key", ht.pInternalPointer) EXCEPT !.key = k])
    /\ UNCHANGED <<ht, inconsistent, saved, owned, broken>>

\* The current element p is to get key k: an element that has k goes first.
zend_hash_update_current_key(k) ==
    LET p == ht.pInternalPointer
        q == Lookup(ht, k)
        f == Append(stack, [Frame("update_current_key", p) EXCEPT !.key = k])
    IN  /\ MayWait("update_current_key")
        /\ p # NULL
        /\ ht.key[p] # k
        /\ k.nKeyLength = ht.key[p].nKeyLength \/ q # NULL \/ Fresh # {}
        /\ IF q = NULL
           THEN stack' = f /\ UNCHANGED <<ht, inconsistent, saved, owned, broken>>
           ELSE Delete(ht, q, f)

\* Bucket q takes p's place among the elements; it is on no chain yet.
Replace(t, p, q) ==
    LET next == t.pListNext[p]
        last == t.pListLast[p]
        u == Set(Set(t, "pListLast", next, q), "pListNext", last, q)
        v == [u EXCEPT !.allocated = @ \cup {q},
                       !.pData[q] = t.pData[p],
                       !.pListNext[q] = next,
                       !.pListLast[q] = last,
                       !.pListTail = IF next = NULL THEN q ELSE @,
                       !.pListHead = IF last = NULL THEN q ELSE @,
                       !.pInternalPointer = IF @ = p THEN q ELSE @]
    IN  Free(v, p)

\* A bucket of another size is needed if the key's length differs.
UpdateCurrentKeyGoesOn ==
    /\ Returning("update_current_key")
    /\ LET p == Top.p
           t == DisconnectFromBucket(ht, p)
       IN  IF p \notin ht.allocated
           THEN Breaks("update_current_key")
           ELSE /\ \/ /\ ht.key[p].nKeyLength = Top.key.nKeyLength
                      /\ ht' = ConnectToBucket([t EXCEPT !.key[p] = Top.key], p)
                   \/ /\ ht.key[p].nKeyLength # Top.key.nKeyLength
                      /\ \E q \in Fresh :
                            ht' = ConnectToBucket(
                                [Replace(t, p, q) EXCEPT !.key[q] = Top.key], q)
                /\ stack' = Outer
                /\ UNCHANGED <<inconsistent, saved, owned, broken>>

-----------------------------------------------------------------------------
(* The internal pointer. *)

internal_pointer_reset ==
    MayCall("pointer") /\ Changes([ht EXCEPT !.pInternalPointer = ht.pListHead])

internal_pointer_end ==
    MayCall("pointer") /\ Changes([ht EXCEPT !.pInternalPointer = ht.pListTail])

move_forward ==
    /\ MayCall("pointer")
    /\ ht.pInternalPointer # NULL
    /\ Changes([ht EXCEPT !.pInternalPointer = ht.pListNext[@]])

move_backwards ==
    /\ MayCall("pointer")
    /\ ht.pInternalPointer # NULL
    /\ Changes([ht EXCEPT !.pInternalPointer = ht.pListLast[@]])

zend_hash_get_pointer ==
    /\ MayCall("foreach")
    /\ saved' = [pos |-> ht.pInternalPointer,
                 h   |-> IF ht.pInternalPointer = NULL THEN 0
                         ELSE ht.key[ht.pInternalPointer].h]
    /\ UNCHANGED <<ht, inconsistent, stack, owned, broken>>

\* Faulty: the saved bucket is taken unchecked.
set_pointer_Unchecked ==
    /\ MayCall("foreach")
    /\ Changes([ht EXCEPT !.pInternalPointer = saved.pos])

\* The saved bucket becomes current if it is still found where its hash says.
zend_hash_set_pointer ==
    /\ MayCall("foreach")
    /\ \/ saved.pos = NULL
       \/ saved.pos \in ToSet(Chain(ht, Slot(ht, saved.h)))
    /\ Changes([ht EXCEPT !.pInternalPointer = saved.pos])

-----------------------------------------------------------------------------
(* Sorting and emptying. *)

\* The links of the buckets s, in that order.
Linked(t, s) ==
    LET At(i) == IF i \in DOMAIN s THEN s[i] ELSE NULL
        Index(p) == CHOOSE i \in DOMAIN s : s[i] = p
    IN  [t EXCEPT !.pListHead = s[1],
                  !.pListTail = Last(s),
                  !.pListNext = [p \in Addr |-> IF p \in ToSet(s)
                                    THEN At(Index(p) + 1) ELSE @[p]],
                  !.pListLast = [p \in Addr |-> IF p \in ToSet(s)
                                    THEN At(Index(p) - 1) ELSE @[p]]]

\* Faulty: the current element stays current.
Relink_KeepsPointer(t, s) == Linked(t, s)

\* The buckets s, in that order; the first becomes current.
Relink(t, s) == [Linked(t, s) EXCEPT !.pInternalPointer = s[1]]

\* The elements s get the keys 0, 1, 2, ...
Renumber(t, s) ==
    zend_hash_rehash(
        [t EXCEPT !.nNextFreeElement = Len(s),
                  !.key = [p \in Addr |-> IF p \in ToSet(s)
                      THEN Numeric((CHOOSE i \in DOMAIN s : s[i] = p) - 1)
                      ELSE @[p]]])

\* All orders of the elements: compar may be any function.
Sorted == {s \in [DOMAIN List(ht) -> ToSet(List(ht))] :
              ToSet(s) = ToSet(List(ht))}

\* Nothing is done for fewer than two elements, or none to be renumbered.
\* arTmp[0] is read whether or not there is a first element.
zend_hash_sort(renumber) ==
    /\ MayCall("sort")
    /\ ht.nNumOfElements > 1 \/ (renumber /\ ht.nNumOfElements > 0)
    /\ IF List(ht) = <<>>
       THEN Breaks("sort")
       ELSE \E s \in Sorted :
               LET t == Relink(ht, s)
               IN  Changes(IF renumber THEN Renumber(t, s) ELSE t)

\* The destructors may not use a table that is HT_CLEANING.
zend_hash_clean ==
    /\ OwnerCalls("clean")
    /\ ht' = EmptyTable(ht.nTableSize)
    /\ owned' = owned \ {ht.pData[p] : p \in ToSet(List(ht))}
    /\ UNCHANGED <<inconsistent, stack, saved, broken>>

-----------------------------------------------------------------------------
(* zend_hash_apply_deleter and the loops that use it. *)

\* p's destructor is called; `next' is where the loop goes on if it saved
\* that before the call.
CallDeleter(loop, t, p, next, stop, frames) ==
    /\ ht' = [Unlink(t, p) EXCEPT !.nNumOfElements = @ - 1]
    /\ owned' = owned \ {t.pData[p]}
    /\ stack' = Append(frames, [Frame(loop, p) EXCEPT !.next = next,
                                                     !.stop = stop])
    /\ UNCHANGED <<inconsistent, saved, broken>>

First(loop) ==
    IF loop \in {"apply", "graceful_destroy"} THEN ht.pListHead ELSE ht.pListTail

CallApplyFunc(loop, p, frames) ==
    stack' = Append(frames, [Frame("apply_func", p) EXCEPT !.loop = loop])

zend_hash_apply(loop) ==
    /\ MayWait(loop)
    /\ First(loop) # NULL
    /\ CallApplyFunc(loop, First(loop), stack)
    /\ UNCHANGED <<ht, inconsistent, saved, owned, broken>>

\* The loop is done with an element, has table t, and goes on with q.
ApplyGoesOn(loop, t, q, stop) ==
    IF q # NULL /\ ~stop /\ q \notin t.allocated
    THEN Breaks(loop)
    ELSE /\ ht' = t
         /\ IF q = NULL \/ stop THEN stack' = Outer
            ELSE CallApplyFunc(loop, q, Outer)
         /\ UNCHANGED <<inconsistent, saved, owned, broken>>

\* ZEND_HASH_APPLY_KEEP or _REMOVE, with or without _STOP.
ApplyFuncReturns(remove, stop) ==
    LET p == Top.p
        q == IF Top.loop = "apply" THEN ht.pListNext[p] ELSE ht.pListLast[p]
    IN  /\ Returning("apply_func")
        /\ IF p \notin ht.allocated
           THEN Breaks(Top.loop)
           ELSE IF remove
           THEN CallDeleter(Top.loop, ht, p, q, stop, Outer)
           ELSE ApplyGoesOn(Top.loop, ht, q, stop)

\* zend_hash_apply goes on from the pListNext it reads after the destructor,
\* zend_hash_reverse_apply from the pListLast it read before.
ApplyDeleterReturns(loop) ==
    /\ Returning(loop)
    /\ ApplyGoesOn(loop, Free(ht, Top.p),
           IF loop = "apply" THEN ht.pListNext[Top.p] ELSE Top.next, Top.stop)

\* A graceful destroy has table t left, and goes on with q.
DestroyGoesOn(loop, t, q, frames) ==
    IF q = NULL
    THEN /\ ht' = t
         /\ inconsistent' = "destroyed"
         /\ stack' = frames
         /\ UNCHANGED <<saved, owned, broken>>
    ELSE IF q \in t.allocated
    THEN CallDeleter(loop, t, q, NULL, FALSE, frames)
    ELSE Breaks(loop)

zend_hash_graceful_destroy(loop) ==
    /\ OwnerCalls(loop)
    /\ DestroyGoesOn(loop, ht, First(loop), stack)

\* Faulty: the reverse one goes on with the bucket before, read late.
GracefulDeleterReturns_Last(loop) ==
    /\ Returning(loop)
    /\ DestroyGoesOn(loop, Free(ht, Top.p),
           IF loop = "graceful_destroy" THEN ht.pListNext[Top.p]
           ELSE ht.pListLast[Top.p], Outer)

\* The reverse one starts over from the tail.
GracefulDeleterReturns(loop) ==
    /\ Returning(loop)
    /\ DestroyGoesOn(loop, Free(ht, Top.p),
           IF loop = "graceful_destroy" THEN ht.pListNext[Top.p]
           ELSE ht.pListTail, Outer)

\* _zend_hash_init: a table that was destroyed is set up again.
_zend_hash_init ==
    /\ inconsistent = "destroyed"
    /\ broken = "no"
    /\ ht' = EmptyTable(InitTableSize)
    /\ inconsistent' = "ok"
    /\ UNCHANGED <<stack, saved, owned, broken>>

-----------------------------------------------------------------------------
Next ==
    \/ \E d \in Data : NextInsert(d) \/ \E k \in Keys : Add(k, d) \/ Update(k, d)
    \/ \E k \in Keys : zend_hash_del(k) \/ zend_hash_update_current_key(k)
    \/ UpdateReturns
    \/ DelReturns
    \/ UpdateCurrentKeyGoesOn
    \/ internal_pointer_reset
    \/ internal_pointer_end
    \/ move_forward
    \/ move_backwards
    \/ zend_hash_get_pointer
    \/ zend_hash_set_pointer
    \/ \E renumber \in BOOLEAN : zend_hash_sort(renumber)
    \/ zend_hash_clean
    \/ \E loop \in {"apply", "reverse_apply"} :
          zend_hash_apply(loop) \/ ApplyDeleterReturns(loop)
    \/ \E remove, stop \in BOOLEAN : ApplyFuncReturns(remove, stop)
    \/ \E loop \in {"graceful_destroy", "graceful_reverse_destroy"} :
          zend_hash_graceful_destroy(loop) \/ GracefulDeleterReturns(loop)
    \/ _zend_hash_init

Spec == Init /\ [][Next]_vars

-----------------------------------------------------------------------------
(* Properties. *)

FrameType == [fn : Reentrant \cup {"update", "del", "apply_func", "apply",
                  "reverse_apply", "graceful_destroy",
                  "graceful_reverse_destroy", "update_current_key"},
              p : Addr, next : Ptr, data : Data \cup {NULL},
              key : AllKeys \cup {NoKey},
              loop : {"none", "apply", "reverse_apply"}, stop : BOOLEAN]

\* The fields of the HashTable and of the buckets have their types.
TypeOK ==
    /\ ht.nTableSize \in Nat \ {0}
    /\ ht.arBuckets \in [0 .. ht.nTableSize - 1 -> Ptr]
    /\ ht.nNumOfElements \in Nat
    /\ ht.nNextFreeElement \in 0 .. LongMax
    /\ {ht.pListHead, ht.pListTail, ht.pInternalPointer, saved.pos} \subseteq Ptr
    /\ ht.allocated \subseteq Addr
    /\ ht.key \in [Addr -> AllKeys \cup {NoKey}]
    /\ ht.pData \in [Addr -> Data \cup {NULL}]
    /\ {ht.pNext, ht.pLast, ht.pListNext, ht.pListLast} \subseteq [Addr -> Ptr]
    /\ inconsistent \in {"ok", "destroyed"}
    /\ \A i \in DOMAIN stack : stack[i] \in FrameType
    /\ owned \subseteq Data

Deleting == {i \in DOMAIN stack : stack[i].fn = "del"}

Listed == ToSet(List(ht))

\* The list of elements reads the same from both ends, visits no bucket
\* twice, and nNumOfElements counts it and the deletions under way: whatever
\* the callbacks of zend_hash_del, sort or apply did in between.
ListExact ==
    /\ Walk(ht, "pListLast", ht.pListTail, Length) = Reverse(List(ht))
    /\ IsInjective(List(ht))
    /\ ht.nNumOfElements = Len(List(ht)) + Cardinality(Deleting)

\* Every element is on exactly one chain, the one of its hash under the
\* present mask, also after a resize, a renumbering sort or a new key, and
\* its pLast is the bucket before it there; nothing else is on a chain.
ChainsExact ==
    LET chain == [i \in DOMAIN ht.arBuckets |-> Chain(ht, i)]
    IN  /\ \A i \in DOMAIN chain : \A j \in DOMAIN chain[i] :
              /\ Slot(ht, ht.key[chain[i][j]].h) = i
              /\ ht.pLast[chain[i][j]] = IF j = 1 THEN NULL ELSE chain[i][j - 1]
              /\ \A l \in DOMAIN chain[i] : chain[i][l] = chain[i][j] => l = j
        /\ UNION {ToSet(chain[i]) : i \in DOMAIN chain} = Listed

\* The two linked structures stay exact and agree through insertion, deletion,
\* renaming, sorting and growing, also while the destructors of elements that
\* are half deleted use the table.
StructureExact == ListExact /\ ChainsExact

\* A look-up finds exactly the listed element with that key: keys of other
\* lengths or kinds with the same hash are told apart, and no key is twice.
LookupExact ==
    /\ \A p \in Listed : Lookup(ht, ht.key[p]) = p
    /\ \A k \in Keys : Lookup(ht, k) \in Listed \cup {NULL}

\* The internal pointer is on an element of the table or nowhere, whichever
\* element goes and whatever foreach restores.
InternalPointerListed == ht.pInternalPointer \in Listed \cup {NULL}

\* Memory and values: the buckets allocated are those listed and those a
\* deletion under way still has to free; a value is with the table exactly
\* while its element is listed, but for one that is being replaced.
MemoryExact ==
    LET pending == {stack[i].p : i \in {j \in DOMAIN stack :
                       stack[j].fn \notin {"update", "apply_func",
                                          "update_current_key"}}}
        replaced == {stack[i].p : i \in {j \in DOMAIN stack :
                        stack[j].fn = "update"}}
    IN  /\ ht.allocated = Listed \cup pending
        /\ Listed \cap pending = {}
        /\ owned = {ht.pData[p] : p \in Listed \ replaced}

\* No function goes on with a bucket that was freed while its callback ran.
NeverBroken == broken = "no"

\* An array copied on write has the same elements in the same order.  Its
\* current element is the same too, or the first if the original had none.
CopyFaithful ==
    LET c == Copy(ht)
    IN  stack = <<>> =>
        /\ List(c) = List(ht)
        /\ \A p \in Listed : /\ c.key[p] = ht.key[p]
                              /\ c.pData[p] = ht.pData[p]
                              /\ Lookup(c, ht.key[p]) = p
        /\ c.pInternalPointer = IF ht.pInternalPointer = NULL
                                THEN ht.pListHead ELSE ht.pInternalPointer

\* zend_hash.c:569-573 says of the deleter that the hash may be altered
\* meanwhile and the bucket it returns is valid.  It is not: the pListNext of
\* a bucket already off the list is not kept up to date.
DeleterResultValid == broken \notin {"apply", "graceful_destroy"}

-----------------------------------------------------------------------------
(* The table implements an ordered map. *)

\* What table t is to its users: the elements in order, and which is current.
MapOrder(t) ==
    [i \in DOMAIN List(t) |->
        [key |-> t.key[List(t)[i]], data |-> t.pData[List(t)[i]]]]

MapCursor(t) ==
    IF t.pInternalPointer \in ToSet(List(t))
    THEN CHOOSE i \in DOMAIN List(t) : List(t)[i] = t.pInternalPointer
    ELSE 0

Map == INSTANCE OrderedMap WITH
    order  <- MapOrder(ht),
    cursor <- MapCursor(ht),
    next   <- ht.nNextFreeElement

\* Every step of the table is one operation on the map, or none.
IsOrderedMap == Map!Spec
=============================================================================
