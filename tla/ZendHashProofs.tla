------------------------ MODULE ZendHashProofs -------------------------------
(***************************************************************************)
(* Theorems about the hash table, for any buckets, keys and values, and    *)
(* any number of functions under way.                                      *)
(*                                                                         *)
(* StructureInv says that lists and chains are in order and which bucket   *)
(* each function under way has; it is inductive whatever the callbacks do. *)
(* Each action has a lemma Step<Action> that says what it does to the      *)
(* elements (Unlinked, Released, Moved, Ordered, Taken, ...); the other    *)
(* invariants are proved from those lemmas and never look at a pointer     *)
(* again: types (TypeInv), keys (KeysInv), values (MemoryInv), and that no *)
(* function goes on with a freed bucket (WellInv).  The last three need    *)
(* callbacks that leave certain functions alone; Calm and None say so.     *)
(***************************************************************************)
EXTENDS ZendHashLemmas

--------------------
(* The invariant of the structure. *)

\* Only functions whose callbacks may use the table have others inside them;
\* zend_hash_update_current_key waits for the deletion it called.
WaitsOK(K) ==
    /\ \A i \in 1 .. Len(K) - 1 :
          \/ K[i].fn \in Reentrant
          \/ K[i].fn = "update_current_key" /\ K[i + 1].fn = "del"
    /\ \A i \in 1 .. Len(K) : K[i].fn = "update_current_key" => K[i].fn \in Functions

StructureInv ==
    /\ State(ht, List(ht), stack)
    /\ WaitsOK(stack)
    /\ saved.pos \in Ptr /\ saved.h \in Int
    /\ inconsistent \in {"ok", "destroyed"}
    /\ inconsistent = "destroyed" => stack = <<>>

\* A function is called by one that may be re-entered, or by a rename.
LEMMA WaitsPush ==
    ASSUME NEW T, NEW K \in Seq(T), WaitsOK(K), NEW f \in T,
           K # <<>> => Last(K).fn \in Reentrant \/ (Last(K).fn = "update_current_key" /\ f.fn = "del"),
           f.fn = "update_current_key" => f.fn \in Functions,
           NEW K2, K2 = Append(K, f)
    PROVE  WaitsOK(K2)
<1>1. /\ Len(K) \in Nat /\ Len(K2) = Len(K) + 1
      /\ \A i \in 1 .. Len(K) : K2[i] = K[i]
      /\ K2[Len(K) + 1] = f
 BY AppendFacts
<1>a. \A i \in 1 .. Len(K2) : K2[i].fn = "update_current_key" => K2[i].fn \in Functions
 <2> SUFFICES ASSUME NEW i \in 1 .. Len(K2), K2[i].fn = "update_current_key" PROVE K2[i].fn \in Functions
  OBVIOUS
 <2>1. CASE i \in 1 .. Len(K)
  BY <1>1, <2>1 DEF WaitsOK
 <2>2. CASE i = Len(K) + 1
  BY <1>1, <2>2
 <2> QED BY <1>1, <2>1, <2>2
<1>2. SUFFICES ASSUME NEW i \in 1 .. Len(K)
               PROVE  K2[i].fn \in Reentrant \/ (K2[i].fn = "update_current_key" /\ K2[i + 1].fn = "del")
 BY <1>1, <1>a DEF WaitsOK
<1>3. K2[i] = K[i]
 BY <1>1
<1>4. CASE i = Len(K)
 <2>1. K # <<>>
  BY <1>2, <1>4
 <2>2. Last(K) = K[i]
  BY <1>4 DEF Last
 <2> QED BY <2>1, <2>2, <1>1, <1>3, <1>4
<1>5. CASE i # Len(K)
 <2>1. i \in 1 .. Len(K) - 1 /\ i + 1 \in 1 .. Len(K)
  BY <1>1, <1>5
 <2>2. K2[i + 1] = K[i + 1]
  BY <1>1, <2>1
 <2> QED BY <2>1, <2>2, <1>3 DEF WaitsOK
<1> QED BY <1>4, <1>5

\* A function returns; below a function other than zend_hash_del is one that may be re-entered.
LEMMA WaitsPop ==
    ASSUME NEW T, NEW K \in Seq(T), WaitsOK(K), K # <<>>, NEW K2, K2 = Front(K)
    PROVE  /\ WaitsOK(K2)
           /\ K2 # <<>> /\ Last(K).fn # "del" => Last(K2).fn \in Reentrant
<1>1. PICK n : n = Len(K)
 OBVIOUS
<1>2. /\ n \in Nat \ {0} /\ K2 \in Seq(T) /\ Len(K2) = n - 1
      /\ \A i \in 1 .. n - 1 : K2[i] = K[i]
      /\ Last(K) = K[n]
 BY <1>1, FrontFacts
<1>3. \A i \in 1 .. n - 1 : K[i].fn \in Reentrant \/ (K[i].fn = "update_current_key" /\ K[i + 1].fn = "del")
 BY <1>1 DEF WaitsOK
<1>a. \A i \in 1 .. Len(K2) : K2[i].fn = "update_current_key" => K2[i].fn \in Functions
 <2>1. \A i \in 1 .. n : K[i].fn = "update_current_key" => K[i].fn \in Functions
  BY <1>1 DEF WaitsOK
 <2> QED BY <1>2, <2>1
<1>4. WaitsOK(K2)
 <2> SUFFICES ASSUME NEW i \in 1 .. Len(K2) - 1
              PROVE  K2[i].fn \in Reentrant \/ (K2[i].fn = "update_current_key" /\ K2[i + 1].fn = "del")
  BY <1>a DEF WaitsOK
 <2>1. i \in 1 .. n - 1 /\ i + 1 \in 1 .. n - 1
  BY <1>2
 <2>2. K2[i] = K[i] /\ K2[i + 1] = K[i + 1]
  BY <1>2, <2>1
 <2> QED BY <2>1, <2>2, <1>3
<1>5. ASSUME K2 # <<>>, Last(K).fn # "del" PROVE Last(K2).fn \in Reentrant
 <2>1. n - 1 \in 1 .. n - 1 /\ (n - 1) + 1 = n
  <3>1. Len(K2) # 0
   BY <1>2, <1>5
  <3> QED BY <3>1, <1>2
 <2>2. Last(K2) = K[n - 1]
  BY <1>2, <2>1 DEF Last
 <2>3. K[n - 1].fn \in Reentrant \/ (K[n - 1].fn = "update_current_key" /\ K[(n - 1) + 1].fn = "del")
  BY <1>3, <2>1
 <2> QED BY <2>1, <2>2, <2>3, <1>2, <1>5
<1> QED BY <1>4, <1>5

\* A graceful destroy waits alone.
LEMMA GracefulAlone ==
    ASSUME NEW t, NEW s, NEW K, State(t, s, K), K # <<>>, Last(K).fn \in Graceful
    PROVE  Front(K) = <<>>
<1>1. StackOK(t, ToSet(s), K) /\ K \in Seq(Waiting)
 BY StateFacts
<1>2. PICK n, K2 : n = Len(K) /\ K2 = Front(K)
 OBVIOUS
<1>3. n \in Nat \ {0} /\ Last(K) = K[n] /\ Len(K2) = n - 1 /\ K2 \in Seq(Waiting)
 BY <1>1, <1>2, FrontFacts
<1>4. n \in 1 .. Len(K)
 BY <1>2, <1>3
<1>5. n = 1
 BY <1>1, <1>3, <1>4 DEF StackOK
<1>6. Len(K2) = 0
 BY <1>3, <1>5
<1>7. K2 = <<>>
 BY <1>3, <1>6
<1> QED BY <1>2, <1>7

\* The fields of the function on top.
LEMMA TopWaiting ==
    ASSUME NEW t, NEW s, NEW K, State(t, s, K), K # <<>>
    PROVE  /\ Last(K) \in Waiting /\ Last(K).p \in Addr /\ Last(K).next \in Ptr
           /\ Last(K).data \in Data \cup {NULL} /\ Last(K).key \in Stored
           /\ Last(K).loop \in {"none", "apply", "reverse_apply"} /\ Last(K).stop \in BOOLEAN
           /\ Last(K).fn = "apply_func" => Last(K).loop \in {"apply", "reverse_apply"}
<1>1. StackOK(t, ToSet(s), K) /\ K \in Seq(Waiting)
 BY StateFacts
<1>2. PICK n, K2 : n = Len(K) /\ K2 = Front(K)
 OBVIOUS
<1>3. n \in Nat \ {0} /\ Last(K) = K[n] /\ K[n] \in Waiting
 BY <1>1, <1>2, FrontFacts
<1>4. Last(K).fn = "apply_func" => Last(K).loop # "none"
 BY <1>1, <1>2, <1>3 DEF StackOK
<1> QED BY <1>3, <1>4 DEF Waiting

--------------------
(* The frames. *)

Fns == Settled \cup Graceful \cup {"del", "apply", "reverse_apply"}

\* A new frame.
LEMMA FrameFacts ==
    ASSUME NEW fn \in Fns, NEW p \in Addr, NEW f, f = Frame(fn, p)
    PROVE  /\ f \in Waiting /\ f.fn = fn /\ f.p = p /\ f.next = NULL /\ f.data = NULL /\ f.key = NoKey
           /\ f.loop = "none"
BY DEF Frame, NoFrame, Waiting, Fns, Stored, Ptr

UpdateFrame(p, d, k) == [Frame("update", p) EXCEPT !.data = d, !.key = k]

RenameFrame(p, k) == [Frame("update_current_key", p) EXCEPT !.key = k]

ApplyFrame(p, loop) == [Frame("apply_func", p) EXCEPT !.loop = loop]

DeleterFrame(loop, p, next, stop) == [Frame(loop, p) EXCEPT !.next = next, !.stop = stop]

\* The frame of zend_hash_del.
LEMMA FrameDel ==
    ASSUME NEW p \in Addr, NEW f, f = Frame("del", p)
    PROVE  /\ f \in Waiting /\ f.fn = "del" /\ f.p = p /\ f.next = NULL /\ f.data = NULL /\ f.key = NoKey
           /\ f.loop = "none"
BY DEF Frame, NoFrame, Waiting, Stored, Ptr

\* The frame of zend_hash_update.
LEMMA FrameUpdate ==
    ASSUME NEW p \in Addr, NEW d \in Data, NEW k \in Stored,
           NEW f, f = UpdateFrame(p, d, k)
    PROVE  /\ f \in Waiting /\ f.fn = "update" /\ f.p = p /\ f.next = NULL /\ f.data = d /\ f.key = k
           /\ f.loop = "none"
BY DEF UpdateFrame, RenameFrame, ApplyFrame, Frame, NoFrame, Waiting, Settled, Stored, Ptr

\* The frame of zend_hash_update_current_key.
LEMMA FrameRename ==
    ASSUME NEW p \in Addr, NEW k \in Stored,
           NEW f, f = RenameFrame(p, k)
    PROVE  /\ f \in Waiting /\ f.fn = "update_current_key" /\ f.p = p /\ f.next = NULL /\ f.data = NULL /\ f.key = k
           /\ f.loop = "none"
BY DEF UpdateFrame, RenameFrame, ApplyFrame, Frame, NoFrame, Waiting, Settled, Stored, Ptr

\* The frame of a loop that has called its function.
LEMMA FrameApply ==
    ASSUME NEW p \in Addr, NEW loop \in {"apply", "reverse_apply"},
           NEW f, f = ApplyFrame(p, loop)
    PROVE  /\ f \in Waiting /\ f.fn = "apply_func" /\ f.p = p /\ f.next = NULL /\ f.data = NULL /\ f.key = NoKey
           /\ f.loop = loop
BY DEF UpdateFrame, RenameFrame, ApplyFrame, Frame, NoFrame, Waiting, Settled, Stored, Ptr

\* The frame of a loop that has called a destructor.
LEMMA FrameDeleter ==
    ASSUME NEW p \in Addr, NEW loop \in {"apply", "reverse_apply"} \cup Graceful, NEW next \in Ptr, NEW stop \in BOOLEAN,
           NEW f, f = DeleterFrame(loop, p, next, stop)
    PROVE  /\ f \in Waiting /\ f.fn = loop /\ f.p = p /\ f.next = next /\ f.data = NULL /\ f.key = NoKey
           /\ f.loop = "none"
BY DEF DeleterFrame, Frame, NoFrame, Waiting, Graceful, Stored, Ptr

--------------------
(* Steps: what they have in common. *)

\* What a step has to show for the invariant of the structure.
LEMMA Established ==
    ASSUME NEW w, State(ht', w, stack'), WaitsOK(stack'),
           saved' = saved, StructureInv, inconsistent' = inconsistent, inconsistent = "ok"
    PROVE  StructureInv' /\ List(ht') = w /\ Listed' = ToSet(w)
<1>1. List(ht') = w
 BY StateFacts
<1>2. State(ht', List(ht'), stack')
 BY <1>1
<1> QED BY <1>1, <1>2 DEF StructureInv, Listed

\* What the invariant of the structure says.
LEMMA InvFacts ==
    ASSUME StructureInv
    PROVE  /\ State(ht, List(ht), stack) /\ Table(ht, List(ht)) /\ Shaped(ht)
           /\ WaitsOK(stack) /\ stack \in Seq(Waiting)
           /\ Listed = ToSet(List(ht)) /\ Listed \subseteq Addr /\ NULL \notin Listed /\ Listed \subseteq ht.allocated
           /\ ht.allocated \subseteq Addr
           /\ saved.pos \in Ptr /\ saved.h \in Int
           /\ stack # <<>> => inconsistent = "ok"
<1>1. State(ht, List(ht), stack)
 BY DEF StructureInv
<1>2. /\ Table(ht, List(ht)) /\ Shaped(ht) /\ stack \in Seq(Waiting)
      /\ ToSet(List(ht)) \subseteq Addr /\ NULL \notin ToSet(List(ht))
      /\ ToSet(List(ht)) \subseteq ht.allocated /\ ht.allocated \subseteq Addr
 BY <1>1, StateFacts
<1> QED BY <1>1, <1>2 DEF StructureInv, Listed

\* When code outside zend_hash.c runs.
LEMMA MayCallFacts ==
    ASSUME NEW fn, MayCall(fn)
    PROVE  fn \in Functions /\ broken = "no" /\ inconsistent = "ok" /\ (stack # <<>> => Last(stack).fn \in Reentrant)
BY DEF MayCall, Top

\* When the function on top goes on.
LEMMA ReturningFacts ==
    ASSUME StructureInv, NEW fn, Returning(fn)
    PROVE  broken = "no" /\ inconsistent = "ok" /\ stack # <<>> /\ Last(stack).fn = fn
<1>1. broken = "no" /\ stack # <<>> /\ Last(stack).fn = fn
 BY DEF Returning, Top
<1> QED BY <1>1, InvFacts

\* The keys a bucket may hold.
LEMMA KeysStored ==
    /\ \A k \in Keys : k \in Stored
    /\ \A i \in Nat : Numeric(i) \in Stored
    /\ NoKey \in Stored
BY DEF Stored

\* A step that leaves the table and the stack.
LEMMA Stays ==
    ASSUME StructureInv, ht' = ht, stack' = stack, saved' = saved, inconsistent' = inconsistent
    PROVE  StructureInv' /\ Listed' = Listed
BY DEF StructureInv, Listed

--------------------
(* Steps: storing. *)

\* An element is inserted into a bucket that was free.
LEMMA StepInsert ==
    ASSUME StructureInv, inconsistent = "ok", NEW p \in Fresh, NEW k \in Stored, NEW d \in Data,
           ht' = Insert(ht, p, k, d), UNCHANGED <<inconsistent, stack, saved>>
    PROVE  /\ StructureInv'
           /\ p \in Addr /\ p \notin Listed
           /\ \A x : x \in Listed' <=> x \in Listed \/ x = p
           /\ \A q \in Addr : ht'.key[q] = IF q = p THEN k ELSE ht.key[q]
           /\ \A q \in Addr : ht'.pData[q] = IF q = p THEN d ELSE ht.pData[q]
           /\ ht'.nNextFreeElement = NextFree(ht, k)
<1>1. PICK s, u, w : s = List(ht) /\ u = ht' /\ w = Append(s, p)
 OBVIOUS
<1>2. State(ht, s, stack) /\ Listed = ToSet(s) /\ WaitsOK(stack)
 BY <1>1, InvFacts
<1>3. p \in Addr /\ p \notin ht.allocated
 BY DEF Fresh
<1>4. /\ State(u, Append(s, p), stack)
      /\ \A x : x \in ToSet(Append(s, p)) <=> x \in ToSet(s) \/ x = p
      /\ p \notin ToSet(s)
      /\ \A q \in Addr : u.key[q] = IF q = p THEN k ELSE ht.key[q]
      /\ \A q \in Addr : u.pData[q] = IF q = p THEN d ELSE ht.pData[q]
      /\ u.nNextFreeElement = NextFree(ht, k)
 BY <1>1, <1>2, <1>3, StateInsert
<1>5. State(ht', w, stack') /\ WaitsOK(stack') /\ saved' = saved /\ inconsistent' = inconsistent
 BY <1>1, <1>2, <1>4
<1>6. StructureInv' /\ Listed' = ToSet(w)
 BY <1>5, Established
<1> QED BY <1>1, <1>2, <1>3, <1>4, <1>6

\* A key that is looked up in vain is no element's.
LEMMA Absent ==
    ASSUME StructureInv, NEW k \in Stored, Lookup(ht, k) = NULL
    PROVE  \A q \in Listed : ht.key[q] # k
<1>1. Table(ht, List(ht)) /\ Listed = ToSet(List(ht))
 BY InvFacts
<1>2. Lookup(ht, k) = NULL <=> \A q \in ToSet(List(ht)) : ht.key[q] # k
 BY <1>1, LookupFacts
<1> QED BY <1>1, <1>2

\* A key that is looked up and found is that element's.
LEMMA Found ==
    ASSUME StructureInv, NEW k \in Stored, NEW p, p = Lookup(ht, k), p # NULL
    PROVE  p \in Listed /\ p \in Addr /\ ht.key[p] = k
<1>1. Table(ht, List(ht)) /\ Listed = ToSet(List(ht)) /\ Listed \subseteq Addr
 BY InvFacts
<1>2. Lookup(ht, k) = NULL \/ (Lookup(ht, k) \in ToSet(List(ht)) /\ ht.key[Lookup(ht, k)] = k)
 BY <1>1, LookupFacts
<1> QED BY <1>1, <1>2

\* A function is called that leaves the lists alone before its callback.
LEMMA StepPush ==
    ASSUME StructureInv, inconsistent = "ok", NEW f \in Waiting, f.fn \in Settled, f.p \in Listed,
           f.fn = "apply_func" => f.loop # "none", stack # <<>> => Last(stack).fn \in Reentrant,
           f.fn = "update_current_key" => f.fn \in Functions, stack' = Append(stack, f), UNCHANGED <<ht, inconsistent, saved>>
    PROVE  StructureInv' /\ Listed' = Listed
<1>1. PICK s, K2 : s = List(ht) /\ K2 = stack'
 OBVIOUS
<1>2. State(ht, s, stack) /\ Listed = ToSet(s) /\ WaitsOK(stack) /\ stack \in Seq(Waiting)
 BY <1>1, InvFacts
<1>3. State(ht, s, K2)
 BY <1>1, <1>2, StatePush
<1>4. WaitsOK(K2)
 BY <1>1, <1>2, WaitsPush
<1>5. State(ht', s, stack') /\ WaitsOK(stack') /\ saved' = saved /\ inconsistent' = inconsistent
 BY <1>1, <1>3, <1>4
<1>6. StructureInv' /\ Listed' = ToSet(s)
 BY <1>5, Established
<1> QED BY <1>2, <1>6

\* zend_hash_update calls the destructor of the old value.
LEMMA StepUpdate ==
    ASSUME StructureInv, NEW k \in Keys, NEW d \in Data, Update(k, d)
    PROVE  /\ StructureInv' /\ Listed' = Listed /\ ht' = ht
           /\ \E f \in Waiting : /\ stack' = Append(stack, f) /\ f.fn = "update" /\ f.data = d /\ f.key = k
                                 /\ f.p \in Listed /\ f.p \in Addr /\ owned' = owned \ {ht.pData[f.p]}
<1>1. PICK p, f : p = Lookup(ht, k) /\ f = UpdateFrame(p, d, k)
 OBVIOUS
<1>2. MayCall("update") /\ p # NULL /\ stack' = Append(stack, f) /\ owned' = owned \ {ht.pData[p]}
      /\ UNCHANGED <<ht, inconsistent, saved>>
 BY <1>1 DEF Update, MayWait, UpdateFrame
<1>3. p \in Listed /\ p \in Addr /\ k \in Stored
 BY <1>1, <1>2, Found, KeysStored
<1>4. f \in Waiting /\ f.fn = "update" /\ f.p = p /\ f.next = NULL /\ f.data = d /\ f.key = k
      /\ f.loop = "none"
 <2>1. f = UpdateFrame(p, d, k)
  BY <1>1
 <2> QED BY <1>3, <2>1, FrameUpdate
<1>5. inconsistent = "ok" /\ (stack # <<>> => Last(stack).fn \in Reentrant)
 BY <1>2, MayCallFacts
<1>6. f.fn \in Settled /\ f.fn # "apply_func"
 BY <1>4 DEF Settled
<1>7. StructureInv' /\ Listed' = Listed
 BY <1>2, <1>3, <1>4, <1>5, <1>6, StepPush
<1> QED BY <1>2, <1>3, <1>4, <1>7

\* The function on top is a settled one, and returns.
LEMMA TopPopped ==
    ASSUME StructureInv, stack # <<>>, Last(stack).fn \in Settled, NEW K2, K2 = Front(stack)
    PROVE  /\ State(ht, List(ht), K2) /\ WaitsOK(K2)
           /\ Last(stack).p \in ht.allocated => Last(stack).p \in Listed
           /\ K2 # <<>> => Last(K2).fn \in Reentrant
<1>1. State(ht, List(ht), stack) /\ Listed = ToSet(List(ht)) /\ WaitsOK(stack) /\ stack \in Seq(Waiting)
 BY InvFacts
<1>2. PICK s : s = List(ht)
 OBVIOUS
<1>3. State(ht, s, K2) /\ (Last(stack).p \in ht.allocated => Last(stack).p \in ToSet(s))
 BY <1>1, <1>2, StatePop
<1>4. WaitsOK(K2) /\ (K2 # <<>> /\ Last(stack).fn # "del" => Last(K2).fn \in Reentrant)
 BY <1>1, WaitsPop
<1>5. Last(stack).fn # "del"
 BY DEF Settled
<1> QED BY <1>1, <1>2, <1>3, <1>4, <1>5

\* zend_hash_update stores the new value, or finds its bucket gone.
LEMMA StepUpdateReturns ==
    ASSUME StructureInv, UpdateReturns
    PROVE  /\ StructureInv' /\ Listed' = Listed
           /\ Top.fn = "update" /\ stack # <<>> /\ Top.p \in Addr /\ Top.key \in Stored /\ Top.data \in Data \cup {NULL}
           /\ \/ /\ ht' = ht /\ stack' = stack /\ owned' = owned /\ broken' # "no" /\ Top.p \notin Listed
              \/ /\ stack' = Front(stack) /\ ht'.key = ht.key /\ Top.p \in Listed
                 /\ \A q \in Addr : ht'.pData[q] = IF q = Top.p THEN Top.data ELSE ht.pData[q]
                 /\ ht'.nNextFreeElement = NextFree(ht, Top.key)
                 /\ owned' = owned \cup {Top.data} /\ broken' = broken
<1>1. Returning("update")
 BY DEF UpdateReturns
<1>2. inconsistent = "ok" /\ stack # <<>> /\ Last(stack).fn = "update"
 BY <1>1, ReturningFacts
<1>3. PICK f, s, K2 : f = Last(stack) /\ s = List(ht) /\ K2 = Front(stack)
 OBVIOUS
<1>4. State(ht, s, stack) /\ Listed = ToSet(s) /\ Shaped(ht) /\ Listed \subseteq ht.allocated
 BY <1>3, InvFacts
<1>5. f.p \in Addr /\ f.data \in Data \cup {NULL} /\ f.key \in Stored
 BY <1>2, <1>3, <1>4, TopWaiting
<1>6. State(ht, s, K2) /\ WaitsOK(K2) /\ (f.p \in ht.allocated => f.p \in Listed)
 <2>1. "update" \in Settled
  BY DEF Settled
 <2> QED BY <1>2, <1>3, <2>1, TopPopped
<1>7. CASE f.p \notin ht.allocated
 <2>1. Breaks("update")
  BY <1>3, <1>7 DEF UpdateReturns, Top
 <2>2. ht' = ht /\ stack' = stack /\ owned' = owned /\ broken' # "no" /\ saved' = saved /\ inconsistent' = inconsistent
  BY <2>1 DEF Breaks
 <2>3. StructureInv' /\ Listed' = Listed
  BY <2>2, Stays
 <2>4. f.p \notin Listed
  BY <1>4, <1>7
 <2> QED BY <2>2, <2>3, <2>4, <1>2, <1>3, <1>5 DEF Top
<1>8. CASE f.p \in ht.allocated
 <2>1. PICK p, d, n, u : p = f.p /\ d = f.data /\ n = NextFree(ht, f.key) /\ u = ht'
  OBVIOUS
 <2>2. u = WithValue(ht, p, d, n) /\ stack' = K2 /\ owned' = owned \cup {d} /\ UNCHANGED <<inconsistent, saved, broken>>
  BY <1>3, <1>8, <2>1 DEF UpdateReturns, Top, Outer, WithValue
 <2>3. n \in Nat
  BY <1>4, <1>5, <2>1, NextFreeFacts DEF Shaped
 <2>4. /\ State(u, s, K2) /\ u.key = ht.key /\ u.nNextFreeElement = n
       /\ \A q \in Addr : u.pData[q] = IF q = p THEN d ELSE ht.pData[q]
  BY <1>5, <1>6, <2>1, <2>2, <2>3, StateStore
 <2>5. State(ht', s, stack') /\ WaitsOK(stack') /\ saved' = saved /\ inconsistent' = inconsistent
  BY <2>1, <2>2, <2>4, <1>6
 <2>6. StructureInv' /\ Listed' = ToSet(s)
  BY <1>2, <2>5, Established
 <2> QED BY <2>1, <2>2, <2>4, <2>6, <1>2, <1>3, <1>4, <1>5, <1>6, <1>8 DEF Top
<1> QED BY <1>7, <1>8

--------------------
(* Steps: deleting. *)

\* An element goes off the lists and its destructor is called.
LEMMA StepDelete ==
    ASSUME StructureInv, inconsistent = "ok", NEW frames, State(ht, List(ht), frames), WaitsOK(frames),
           frames # <<>> => Last(frames).fn \in Reentrant \/ Last(frames).fn = "update_current_key",
           NEW p \in Listed, Delete(ht, p, frames)
    PROVE  /\ StructureInv' /\ Unlinked(ht, ht', p, Listed, Listed')
           /\ \E f \in Waiting : f.fn = "del" /\ f.p = p /\ f.key = NoKey /\ f.data = NULL /\ stack' = Append(frames, f)
<1>1. PICK s, f, K2, u : s = List(ht) /\ f = Frame("del", p) /\ K2 = stack' /\ u = ht'
 OBVIOUS
<1>2. Listed = ToSet(s) /\ State(ht, s, frames) /\ p \in ToSet(s) /\ p \in Addr /\ frames \in Seq(Waiting)
 BY <1>1, InvFacts, StateFacts
<1>3. u = Unlink(ht, p) /\ K2 = Append(frames, f) /\ UNCHANGED <<inconsistent, saved>>
 BY <1>1 DEF Delete
<1>4. f \in Waiting /\ f.fn = "del" /\ f.p = p /\ f.next = NULL /\ f.data = NULL /\ f.key = NoKey
      /\ f.loop = "none"
 BY <1>1, <1>2, FrameDel
<1>5. f.fn \notin Settled /\ f.fn \notin Graceful
 BY <1>4 DEF Settled, Graceful
<1>6. PICK v : v = Unlink(ht, p)
 OBVIOUS
<1>7. u = IF f.fn = "del" THEN v ELSE WithCount(v, v.nNumOfElements - 1)
 BY <1>3, <1>4, <1>6
<1>8. PICK w : State(u, w, K2) /\ Unlinked(ht, u, p, ToSet(s), ToSet(w))
 BY <1>2, <1>3, <1>4, <1>5, <1>6, <1>7, StateUnlink
<1>9. WaitsOK(K2)
 BY <1>2, <1>3, <1>4, WaitsPush
<1>10. State(ht', w, stack') /\ WaitsOK(stack') /\ saved' = saved /\ inconsistent' = inconsistent
 BY <1>1, <1>3, <1>8, <1>9
<1>11. StructureInv' /\ Listed' = ToSet(w)
 BY <1>10, Established
<1> QED BY <1>1, <1>2, <1>3, <1>4, <1>8, <1>11

\* zend_hash_del, up to the destructor.
LEMMA StepDel ==
    ASSUME StructureInv, NEW k \in Keys, zend_hash_del(k)
    PROVE  /\ StructureInv'
           /\ \E p \in Listed : \E f \in Waiting :
                /\ Unlinked(ht, ht', p, Listed, Listed') /\ owned' = owned \ {ht.pData[p]}
                /\ f.fn = "del" /\ f.p = p /\ f.key = NoKey /\ f.data = NULL /\ stack' = Append(stack, f)
<1>1. PICK p : p = Lookup(ht, k)
 OBVIOUS
<1>2. MayCall("del") /\ p # NULL /\ Delete(ht, p, stack)
 BY <1>1 DEF zend_hash_del, MayWait
<1>3. p \in Listed
 BY <1>1, <1>2, Found, KeysStored
<1>4. inconsistent = "ok" /\ (stack # <<>> => Last(stack).fn \in Reentrant)
 BY <1>2, MayCallFacts
<1>5. State(ht, List(ht), stack) /\ WaitsOK(stack)
 BY InvFacts
<1>6. /\ StructureInv' /\ Unlinked(ht, ht', p, Listed, Listed')
      /\ \E f \in Waiting : f.fn = "del" /\ f.p = p /\ f.key = NoKey /\ f.data = NULL /\ stack' = Append(stack, f)
 BY <1>2, <1>3, <1>4, <1>5, StepDelete
<1>7. owned' = owned \ {ht.pData[p]}
 BY <1>2 DEF Delete
<1> QED BY <1>3, <1>6, <1>7

\* zend_hash_del frees the bucket.
LEMMA StepDelReturns ==
    ASSUME StructureInv, DelReturns
    PROVE  /\ StructureInv' /\ Listed' = Listed /\ Released(ht, ht', Top.p, Listed)
           /\ stack # <<>> /\ Top.fn = "del" /\ stack' = Front(stack) /\ owned' = owned
<1>1. Returning("del") /\ stack' = Front(stack) /\ UNCHANGED <<inconsistent, saved, owned>>
 BY DEF DelReturns, Outer
<1>2. inconsistent = "ok" /\ stack # <<>> /\ Last(stack).fn = "del"
 BY <1>1, ReturningFacts
<1>3. PICK s, u, v, K2, p : s = List(ht) /\ u = ht' /\ v = Free(ht, Last(stack).p) /\ K2 = Front(stack) /\ p = Last(stack).p
 OBVIOUS
<1>4. State(ht, s, stack) /\ Listed = ToSet(s) /\ WaitsOK(stack) /\ stack \in Seq(Waiting)
 BY <1>3, InvFacts
<1>5. u = IF Last(stack).fn = "del" THEN WithCount(v, v.nNumOfElements - 1) ELSE v
 BY <1>2, <1>3 DEF DelReturns, Top, WithCount
<1>6. Last(stack).fn \notin Settled
 BY <1>2 DEF Settled
<1>7. /\ State(u, s, K2)
      /\ Released(ht, u, Last(stack).p, ToSet(s))
      /\ ht.pListNext[Last(stack).p] \in u.allocated => ht.pListNext[Last(stack).p] \in ToSet(s)
      /\ Last(stack).next \in u.allocated => Last(stack).next \in ToSet(s)
 BY <1>2, <1>3, <1>4, <1>5, <1>6, StateFree
<1>8. WaitsOK(K2)
 BY <1>2, <1>3, <1>4, WaitsPop
<1>9. State(ht', s, stack') /\ WaitsOK(stack') /\ saved' = saved /\ inconsistent' = inconsistent
 BY <1>1, <1>3, <1>7, <1>8
<1>10. StructureInv' /\ Listed' = ToSet(s)
 BY <1>2, <1>9, Established
<1> QED BY <1>1, <1>2, <1>3, <1>4, <1>7, <1>10 DEF Top

\* A function goes on with a bucket that is gone: nothing else changes.
Broke == ht' = ht /\ stack' = stack /\ owned' = owned /\ broken' # "no"

\* A function that goes on with a bucket that is gone leaves the table.
LEMMA BreaksFacts ==
    ASSUME StructureInv, NEW fn, fn # "no", Breaks(fn)
    PROVE  StructureInv' /\ Listed' = Listed /\ Broke
<1>1. ht' = ht /\ stack' = stack /\ owned' = owned /\ broken' # "no" /\ saved' = saved /\ inconsistent' = inconsistent
 BY DEF Breaks
<1> QED BY <1>1, Stays DEF Broke

\* The function on top of a stack with one more.
LEMMA TopOfAppend ==
    ASSUME NEW T, NEW K \in Seq(T), NEW f \in T
    PROVE  Last(Append(K, f)) = f /\ Append(K, f) # <<>>
<1>1. /\ Len(K) \in Nat /\ Len(Append(K, f)) = Len(K) + 1 /\ Append(K, f)[Len(K) + 1] = f
 OBVIOUS
<1>2. Last(Append(K, f)) = Append(K, f)[Len(Append(K, f))]
 BY DEF Last
<1>3. Append(K, f) # <<>>
 BY <1>1
<1> QED BY <1>1, <1>2, <1>3

\* What the internal pointer does not touch.
Kept(t, u) ==
    /\ u.key = t.key /\ u.pData = t.pData /\ u.nNextFreeElement = t.nNextFreeElement
    /\ u.pListNext = t.pListNext /\ u.pListHead = t.pListHead

--------------------
(* Steps: renaming the current element. *)

\* zend_hash_update_current_key, up to the destructor of the element that has the key.
LEMMA StepRenameCalled ==
    ASSUME StructureInv, NEW k \in Keys, zend_hash_update_current_key(k)
    PROVE  /\ StructureInv'
           /\ \E f \in Waiting :
                /\ f.fn = "update_current_key" /\ f.p \in Listed /\ f.key = k /\ f.data = NULL
                /\ \/ /\ stack' = Append(stack, f) /\ ht' = ht /\ owned' = owned /\ Listed' = Listed
                      /\ \A x \in Listed : ht.key[x] # k
                   \/ \E p \in Listed : \E g \in Waiting :
                        /\ Unlinked(ht, ht', p, Listed, Listed') /\ owned' = owned \ {ht.pData[p]}
                        /\ g.fn = "del" /\ g.p = p /\ g.key = NoKey /\ g.data = NULL
                        /\ stack' = Append(Append(stack, f), g) /\ ht.key[p] = k /\ p # f.p
<1>1. PICK p, q, f, K1 : p = ht.pInternalPointer /\ q = Lookup(ht, k) /\ f = RenameFrame(p, k) /\ K1 = Append(stack, f)
 OBVIOUS
<1>2. /\ MayCall("update_current_key") /\ p # NULL /\ ht.key[p] # k
      /\ IF q = NULL THEN stack' = K1 /\ UNCHANGED <<ht, inconsistent, saved, owned, broken>>
         ELSE Delete(ht, q, K1)
 BY <1>1 DEF zend_hash_update_current_key, MayWait, RenameFrame
<1>3. PICK s : s = List(ht)
 OBVIOUS
<1>4. State(ht, s, stack) /\ Listed = ToSet(s) /\ WaitsOK(stack) /\ stack \in Seq(Waiting) /\ Table(ht, s)
 BY <1>3, InvFacts
<1>5. p \in Listed /\ p \in Addr
 BY <1>1, <1>2, <1>4, InvFacts DEF Table, Pointed
<1>6. f \in Waiting /\ f.fn = "update_current_key" /\ f.p = p /\ f.next = NULL /\ f.data = NULL /\ f.key = k
      /\ f.loop = "none"
 <2>1. k \in Stored
  BY KeysStored
 <2>2. f = RenameFrame(p, k)
  BY <1>1
 <2> QED BY <1>5, <2>1, <2>2, FrameRename
<1>7. f.fn \in Settled /\ f.fn # "apply_func" /\ f.fn # "del"
 BY <1>6 DEF Settled
<1>8. /\ inconsistent = "ok" /\ (stack # <<>> => Last(stack).fn \in Reentrant)
      /\ (f.fn = "update_current_key" => f.fn \in Functions)
 BY <1>2, <1>6, MayCallFacts
<1>9. CASE q = NULL
 <2>1. stack' = Append(stack, f) /\ UNCHANGED <<ht, inconsistent, saved, owned>>
  BY <1>1, <1>2, <1>9
 <2>2. f.p \in Listed
  BY <1>5, <1>6
 <2>3. StructureInv' /\ Listed' = Listed
  BY <1>6, <1>7, <1>8, <2>1, <2>2, StepPush
 <2>4. k \in Stored /\ Lookup(ht, k) = NULL
  BY <1>1, <1>9, KeysStored
 <2>5. \A x \in Listed : ht.key[x] # k
  BY <2>4, Absent
 <2> QED BY <1>5, <1>6, <2>1, <2>3, <2>5
<1>10. CASE q # NULL
 <2>1. Delete(ht, q, K1)
  BY <1>2, <1>10
 <2>2. q \in Listed /\ ht.key[q] = k
  BY <1>1, <1>10, Found, KeysStored
 <2>3. State(ht, s, K1)
  BY <1>1, <1>4, <1>5, <1>6, <1>7, StatePush
 <2>4. WaitsOK(K1)
  BY <1>1, <1>4, <1>6, <1>8, WaitsPush
 <2>5. Last(K1) = f /\ K1 # <<>>
  BY <1>1, <1>4, <1>6, TopOfAppend
 <2>6. /\ StructureInv' /\ Unlinked(ht, ht', q, Listed, Listed')
       /\ \E g \in Waiting : g.fn = "del" /\ g.p = q /\ g.key = NoKey /\ g.data = NULL /\ stack' = Append(K1, g)
  <3>1. K1 # <<>> => Last(K1).fn \in Reentrant \/ Last(K1).fn = "update_current_key"
   BY <2>5, <1>6
  <3>2. State(ht, List(ht), K1)
   BY <2>3, <1>3
  <3> QED BY <1>8, <2>1, <2>2, <2>4, <3>1, <3>2, StepDelete
 <2>7. owned' = owned \ {ht.pData[q]}
  BY <2>1 DEF Delete
 <2>8. q # p
  BY <1>2, <2>2
 <2> QED BY <1>1, <1>5, <1>6, <2>2, <2>6, <2>7, <2>8
<1> QED BY <1>9, <1>10

\* The element p has another key, k, and is in q now.
Moved(t, u, p, q, k, E, F) ==
    /\ q \in Addr /\ (q = p \/ q \notin E)
    /\ \A x : x \in F <=> x = q \/ (x \in E /\ x # p)
    /\ \A x \in E : x # p => u.key[x] = t.key[x] /\ u.pData[x] = t.pData[x]
    /\ \A x \in Addr : u.key[x] = t.key[x] \/ u.key[x] = k \/ u.key[x] = NoKey
    /\ u.key[q] = k /\ u.pData[q] = t.pData[p]
    /\ u.nNextFreeElement = t.nNextFreeElement

\* The element gets its key in the same bucket or in a new one.
LEMMA StateMoved ==
    ASSUME NEW t, NEW s, NEW K, State(t, s, K), NEW p \in ToSet(s), NEW k \in Stored, NEW u,
           \/ u = ConnectToBucket(WithKey(DisconnectFromBucket(t, p), p, k), p)
           \/ \E q \in Addr \ t.allocated :
                 u = ConnectToBucket(WithKey(Replace(DisconnectFromBucket(t, p), p, q), q, k), q)
    PROVE  \E q, w : State(u, w, K) /\ Moved(t, u, p, q, k, ToSet(s), ToSet(w))
<1>0. p \in Addr /\ ToSet(s) \subseteq Addr /\ ToSet(s) \subseteq t.allocated
 BY StateFacts
<1>1. CASE u = ConnectToBucket(WithKey(DisconnectFromBucket(t, p), p, k), p)
 <2>1. /\ State(u, s, K)
       /\ \A q \in Addr : u.key[q] = IF q = p THEN k ELSE t.key[q]
       /\ u.pData = t.pData /\ u.nNextFreeElement = t.nNextFreeElement
  BY <1>1, StateRename
 <2>2. Moved(t, u, p, p, k, ToSet(s), ToSet(s))
  BY <1>0, <2>1 DEF Moved
 <2> QED BY <2>1, <2>2
<1>2. ASSUME NEW q \in Addr \ t.allocated,
             u = ConnectToBucket(WithKey(Replace(DisconnectFromBucket(t, p), p, q), q, k), q)
      PROVE  \E w : State(u, w, K) /\ Moved(t, u, p, q, k, ToSet(s), ToSet(w))
 <2>1. PICK v : v = DisconnectFromBucket(t, p)
  OBVIOUS
 <2>2. u = ConnectToBucket(WithKey(Replace(v, p, q), q, k), q) /\ q \in Addr /\ q \notin t.allocated
  BY <1>2, <2>1
 <2>3. PICK w : /\ State(u, w, K)
                /\ \A x : x \in ToSet(w) <=> x = q \/ (x \in ToSet(s) /\ x # p)
                /\ \A x \in Addr : x # p /\ x # q => u.key[x] = t.key[x] /\ u.pData[x] = t.pData[x]
                /\ u.key[q] = k /\ u.pData[q] = t.pData[p] /\ u.key[p] = NoKey
                /\ u.nNextFreeElement = t.nNextFreeElement
  BY <2>1, <2>2, StateSubstitute
 <2>4. q \notin ToSet(s)
  BY <1>0, <2>2
 <2>5. Moved(t, u, p, q, k, ToSet(s), ToSet(w))
  BY <1>0, <2>2, <2>3, <2>4 DEF Moved
 <2> QED BY <2>3, <2>5
<1> QED BY <1>1, <1>2

\* zend_hash_update_current_key, after that.
LEMMA StepRenamed ==
    ASSUME StructureInv, UpdateCurrentKeyGoesOn
    PROVE  /\ StructureInv'
           /\ stack # <<>> /\ Top.fn = "update_current_key" /\ broken = "no" /\ Top.key \in Stored
           /\ \/ Broke /\ Listed' = Listed /\ Top.p \notin Listed
              \/ /\ stack' = Front(stack) /\ owned' = owned /\ broken' = broken /\ Top.p \in Listed
                 /\ \E q : Moved(ht, ht', Top.p, q, Top.key, Listed, Listed')
<1>1. Returning("update_current_key")
 BY DEF UpdateCurrentKeyGoesOn
<1>2. broken = "no" /\ inconsistent = "ok" /\ stack # <<>> /\ Last(stack).fn = "update_current_key"
 BY <1>1, ReturningFacts
<1>3. PICK f, s, K2, p, k, u : f = Last(stack) /\ s = List(ht) /\ K2 = Front(stack) /\ p = f.p /\ k = f.key /\ u = ht'
 OBVIOUS
<1>4. State(ht, s, stack) /\ Listed = ToSet(s) /\ Shaped(ht) /\ Listed \subseteq ht.allocated
 BY <1>3, InvFacts
<1>5. p \in Addr /\ k \in Stored
 BY <1>2, <1>3, <1>4, TopWaiting
<1>6. State(ht, s, K2) /\ WaitsOK(K2) /\ (p \in ht.allocated => p \in Listed)
 <2>1. "update_current_key" \in Settled
  BY DEF Settled
 <2> QED BY <1>2, <1>3, <2>1, TopPopped
<1>7. CASE p \notin ht.allocated
 <2>1. Breaks("update_current_key")
  BY <1>3, <1>7 DEF UpdateCurrentKeyGoesOn, Top
 <2>2. StructureInv' /\ Listed' = Listed /\ Broke
  BY <2>1, BreaksFacts
 <2>3. p \notin Listed
  BY <1>4, <1>7
 <2> QED BY <2>2, <2>3, <1>2, <1>3, <1>5 DEF Top
<1>8. CASE p \in ht.allocated
 <2>1. /\ \/ u = ConnectToBucket(WithKey(DisconnectFromBucket(ht, p), p, k), p)
          \/ \E q \in Addr \ ht.allocated :
                u = ConnectToBucket(WithKey(Replace(DisconnectFromBucket(ht, p), p, q), q, k), q)
       /\ stack' = K2 /\ UNCHANGED <<inconsistent, saved, owned, broken>>
  BY <1>3, <1>8 DEF UpdateCurrentKeyGoesOn, Top, Outer, WithKey, Fresh
 <2>2. p \in ToSet(s)
  BY <1>4, <1>6, <1>8
 <2>3. PICK q, w : State(u, w, K2) /\ Moved(ht, u, p, q, k, ToSet(s), ToSet(w))
  BY <1>5, <1>6, <2>1, <2>2, StateMoved
 <2>4. State(ht', w, stack') /\ WaitsOK(stack') /\ saved' = saved /\ inconsistent' = inconsistent
  BY <1>3, <1>6, <2>1, <2>3
 <2>5. StructureInv' /\ Listed' = ToSet(w)
  BY <1>2, <2>4, Established
 <2>6. Moved(ht, ht', p, q, k, Listed, Listed')
  BY <1>3, <1>4, <2>3, <2>5
 <2> QED BY <2>1, <2>2, <2>5, <2>6, <1>2, <1>3, <1>4, <1>5 DEF Top
<1> QED BY <1>7, <1>8

--------------------
(* Steps: the internal pointer. *)

\* The internal pointer moves, and nothing else changes.
LEMMA StepPoint ==
    ASSUME StructureInv, inconsistent = "ok", NEW p, p = NULL \/ p \in Listed,
           Changes(WithPointer(ht, p))
    PROVE  StructureInv' /\ Listed' = Listed /\ Kept(ht, ht') /\ UNCHANGED <<stack, owned, broken>>
<1>1. PICK s, u : s = List(ht) /\ u = ht'
 OBVIOUS
<1>2. State(ht, s, stack) /\ Listed = ToSet(s) /\ WaitsOK(stack)
 BY <1>1, InvFacts
<1>3. u = WithPointer(ht, p) /\ UNCHANGED <<inconsistent, stack, saved, owned, broken>>
 BY <1>1 DEF Changes
<1>4. State(u, s, stack) /\ \A g \in Fields \ {"pInternalPointer"} : u[g] = ht[g]
 <2>1. p = NULL \/ p \in ToSet(s)
  BY <1>2
 <2> QED BY <1>2, <1>3, <2>1, StatePoint
<1>5. State(ht', s, stack') /\ WaitsOK(stack') /\ saved' = saved /\ inconsistent' = inconsistent
 BY <1>1, <1>2, <1>3, <1>4
<1>6. StructureInv' /\ Listed' = ToSet(s)
 BY <1>5, Established
<1>7. Kept(ht, u)
 BY <1>4 DEF Kept, Fields
<1> QED BY <1>1, <1>2, <1>3, <1>6, <1>7

PointerMoves ==
    internal_pointer_reset \/ internal_pointer_end \/ move_forward \/ move_backwards \/ zend_hash_set_pointer

\* The five functions that move the internal pointer put it on an element, or nowhere.
LEMMA PointsTo ==
    ASSUME StructureInv, PointerMoves
    PROVE  inconsistent = "ok" /\ \E p : (p = NULL \/ p \in Listed) /\ Changes(WithPointer(ht, p))
<1>1. PICK s : s = List(ht)
 OBVIOUS
<1>2. Table(ht, s) /\ Listed = ToSet(s) /\ Shaped(ht) /\ saved.pos \in Ptr /\ saved.h \in Int
 BY <1>1, InvFacts
<1>3. /\ \A p \in ToSet(s) : /\ ht.pListNext[p] = NULL \/ ht.pListNext[p] \in ToSet(s)
                             /\ ht.pListLast[p] = NULL \/ ht.pListLast[p] \in ToSet(s)
      /\ ht.pListHead = NULL \/ ht.pListHead \in ToSet(s)
      /\ ht.pListTail = NULL \/ ht.pListTail \in ToSet(s)
      /\ ht.pListHead = NULL <=> s = <<>>
      /\ ht.pListTail = NULL <=> s = <<>>
 BY <1>2, NeighboursListed
<1>4. ht.pInternalPointer = NULL \/ ht.pInternalPointer \in ToSet(s)
 BY <1>2 DEF Table, Pointed
<1>5. inconsistent = "ok"
 BY DEF PointerMoves, internal_pointer_reset, internal_pointer_end, move_forward, move_backwards,
        zend_hash_set_pointer, MayCall
<1>6. \E p : (p = NULL \/ p \in ToSet(s)) /\ Changes(WithPointer(ht, p))
 <2>1. CASE internal_pointer_reset
  BY <1>3, <2>1 DEF internal_pointer_reset, WithPointer
 <2>2. CASE internal_pointer_end
  BY <1>3, <2>2 DEF internal_pointer_end, WithPointer
 <2>3. CASE move_forward
  <3>1. Changes(WithPointer(ht, ht.pListNext[ht.pInternalPointer])) /\ ht.pInternalPointer # NULL
   BY <2>3 DEF move_forward, WithPointer
  <3> QED BY <1>3, <1>4, <3>1
 <2>4. CASE move_backwards
  <3>1. Changes(WithPointer(ht, ht.pListLast[ht.pInternalPointer])) /\ ht.pInternalPointer # NULL
   BY <2>4 DEF move_backwards, WithPointer
  <3> QED BY <1>3, <1>4, <3>1
 <2>5. CASE zend_hash_set_pointer
  <3>1. /\ Changes(WithPointer(ht, saved.pos))
        /\ saved.pos = NULL \/ saved.pos \in ToSet(Chain(ht, Slot(ht, saved.h)))
   BY <2>5 DEF zend_hash_set_pointer, WithPointer
  <3>2. PICK i : i = Slot(ht, saved.h)
   OBVIOUS
  <3>3. i \in 0 .. ht.nTableSize - 1
   <4>1. PICK n, h : n = ht.nTableSize /\ h = saved.h
    OBVIOUS
   <4>2. n \in Nat \ {0} /\ h \in Int /\ i = h % n
    BY <1>2, <3>2, <4>1 DEF Slot, Shaped
   <4> QED BY <4>1, <4>2
  <3>4. /\ Chain(ht, i) \in Seq(Addr)
        /\ Links(ht.pNext, ht.pLast, Chain(ht, i))
        /\ \A p : p \in ToSet(Chain(ht, i)) <=> p \in ToSet(s) /\ SlotOf(ht, p) = i
   BY <1>2, <3>3, ChainMembers
  <3>5. saved.pos = NULL \/ saved.pos \in ToSet(s)
   BY <3>1, <3>2, <3>4
  <3> QED BY <3>1, <3>5
 <2> QED BY <2>1, <2>2, <2>3, <2>4, <2>5 DEF PointerMoves
<1> QED BY <1>2, <1>5, <1>6

\* They change nothing else.
LEMMA StepPointer ==
    ASSUME StructureInv, PointerMoves
    PROVE  StructureInv' /\ Listed' = Listed /\ Kept(ht, ht') /\ UNCHANGED <<stack, owned, broken>>
<1>1. inconsistent = "ok" /\ \E p : (p = NULL \/ p \in Listed) /\ Changes(WithPointer(ht, p))
 BY PointsTo
<1>2. PICK p : (p = NULL \/ p \in Listed) /\ Changes(WithPointer(ht, p))
 BY <1>1
<1> QED BY <1>1, <1>2, StepPoint

\* foreach saves the internal pointer.
LEMMA StepSaved ==
    ASSUME StructureInv, zend_hash_get_pointer
    PROVE  StructureInv' /\ Listed' = Listed /\ UNCHANGED <<ht, stack, owned, broken>>
<1>1. PICK s : s = List(ht)
 OBVIOUS
<1>2. Table(ht, s) /\ Listed = ToSet(s) /\ Shaped(ht)
 BY <1>1, InvFacts
<1>3. UNCHANGED <<ht, inconsistent, stack, owned, broken>>
 BY DEF zend_hash_get_pointer
<1>4. saved'.pos = ht.pInternalPointer
      /\ saved'.h = IF ht.pInternalPointer = NULL THEN 0 ELSE ht.key[ht.pInternalPointer].h
 BY DEF zend_hash_get_pointer
<1>5. saved'.pos \in Ptr
 BY <1>2, <1>4 DEF Shaped
<1>6. saved'.h \in Int
 <2>1. CASE ht.pInternalPointer = NULL
  BY <1>4, <2>1
 <2>2. CASE ht.pInternalPointer # NULL
  <3>1. ht.key[ht.pInternalPointer] \in Stored
   BY <1>2, <2>2 DEF Shaped, Ptr
  <3> QED BY <1>4, <2>2, <3>1, StoredFacts
 <2> QED BY <2>1, <2>2
<1> QED BY <1>3, <1>5, <1>6 DEF StructureInv, Listed

--------------------
(* Steps: sorting and emptying. *)

\* Nothing waits in a call of the owner.
LEMMA StepEmptied ==
    ASSUME StructureInv, stack = <<>>, NEW n \in Nat \ {0}, ht' = EmptyTable(n),
           UNCHANGED <<stack, saved>>, inconsistent' = "ok"
    PROVE  /\ StructureInv' /\ Listed' = {}
           /\ ht'.nNextFreeElement = 0 /\ \A q \in Addr : ht'.key[q] = NoKey
<1>1. PICK u : u = ht'
 OBVIOUS
<1>2. State(u, <<>>, <<>>) /\ ToSet(<<>>) = {}
 BY <1>1, StateEmpty
<1>3. List(u) = <<>>
 BY <1>2, StateFacts
<1>4. State(ht', List(ht'), stack') /\ List(ht') = <<>> /\ stack' = <<>>
 BY <1>1, <1>2, <1>3
<1>5. WaitsOK(<<>>)
 BY DEF WaitsOK
<1>6. StructureInv'
 <2>1. saved.pos \in Ptr /\ saved.h \in Int
  BY InvFacts
 <2> QED BY <1>4, <1>5, <2>1 DEF StructureInv
<1>7. ht'.nNextFreeElement = 0 /\ ht'.key = [q \in Addr |-> NoKey]
 BY DEF EmptyTable
<1> QED BY <1>2, <1>4, <1>6, <1>7 DEF Listed

\* zend_hash_clean leaves an empty table.
LEMMA StepClean ==
    ASSUME StructureInv, zend_hash_clean
    PROVE  /\ StructureInv' /\ Listed' = {} /\ stack = <<>> /\ stack' = <<>>
           /\ owned' = owned \ {ht.pData[p] : p \in Listed} /\ broken' = broken
           /\ ht'.nNextFreeElement = 0 /\ \A q \in Addr : ht'.key[q] = NoKey
<1>1. /\ stack = <<>> /\ inconsistent = "ok" /\ ht' = EmptyTable(ht.nTableSize)
      /\ owned' = owned \ {ht.pData[p] : p \in Listed} /\ UNCHANGED <<inconsistent, stack, saved, broken>>
 BY DEF zend_hash_clean, OwnerCalls, MayCall, Listed
<1>2. ht.nTableSize \in Nat \ {0}
 BY InvFacts DEF Shaped
<1>3. StructureInv' /\ Listed' = {} /\ ht'.nNextFreeElement = 0 /\ \A q \in Addr : ht'.key[q] = NoKey
 BY <1>1, <1>2, StepEmptied
<1> QED BY <1>1, <1>3

\* _zend_hash_init sets up an empty table.
LEMMA StepInit ==
    ASSUME StructureInv, _zend_hash_init
    PROVE  /\ StructureInv' /\ Listed' = {} /\ stack = <<>> /\ stack' = <<>>
           /\ owned' = owned /\ broken' = broken /\ inconsistent = "destroyed"
           /\ ht'.nNextFreeElement = 0 /\ \A q \in Addr : ht'.key[q] = NoKey
<1>1. /\ inconsistent = "destroyed" /\ ht' = EmptyTable(InitTableSize) /\ inconsistent' = "ok"
      /\ UNCHANGED <<stack, saved, owned, broken>>
 BY DEF _zend_hash_init
<1>2. stack = <<>>
 BY <1>1 DEF StructureInv
<1>3. InitTableSize \in Nat \ {0}
 BY SizeAssumption
<1>4. StructureInv' /\ Listed' = {} /\ ht'.nNextFreeElement = 0 /\ \A q \in Addr : ht'.key[q] = NoKey
 BY <1>1, <1>2, <1>3, StepEmptied
<1> QED BY <1>1, <1>2, <1>4

\* The elements have the keys 0, 1, 2, ... now, or those they had.
Ordered(t, u, E, r, renumber) ==
    /\ r \in Seq(Addr) /\ ToSet(r) = E /\ Len(r) <= Cardinality(Addr)
    /\ u.pData = t.pData
    /\ u.nNextFreeElement = IF renumber THEN Len(r) ELSE t.nNextFreeElement
    /\ ~renumber => u.key = t.key
    /\ renumber => \A i \in 1 .. Len(r) : u.key[r[i]] = Numeric(i - 1)
    /\ \A q \in Addr : q \notin E => u.key[q] = t.key[q]

\* zend_hash_sort puts the elements into another order.
LEMMA StepSort ==
    ASSUME StructureInv, NEW renumber \in BOOLEAN, zend_hash_sort(renumber)
    PROVE  /\ StructureInv' /\ Listed' = Listed
           /\ \/ Broke /\ List(ht) = <<>> /\ ht.nNumOfElements > 0
              \/ UNCHANGED <<stack, owned, broken>> /\ \E r : Ordered(ht, ht', Listed, r, renumber)
<1>1. PICK s, u : s = List(ht) /\ u = ht'
 OBVIOUS
<1>2. State(ht, s, stack) /\ Listed = ToSet(s) /\ WaitsOK(stack)
 BY <1>1, InvFacts
<1>3. inconsistent = "ok" /\ ht.nNumOfElements \in Int
 BY <1>1, InvFacts DEF zend_hash_sort, MayCall, Shaped
<1>4. CASE s = <<>>
 <2>1. Breaks("sort")
  BY <1>1, <1>4 DEF zend_hash_sort
 <2>2. StructureInv' /\ Listed' = Listed /\ Broke
  BY <2>1, BreaksFacts
 <2>3. ht.nNumOfElements > 0
  BY <1>3 DEF zend_hash_sort
 <2> QED BY <1>1, <1>4, <2>2, <2>3
<1>5. CASE s # <<>>
 <2>1. PICK r : r \in Sorted /\ Changes(IF renumber THEN Renumber(Relink(ht, r), r) ELSE Relink(ht, r))
  BY <1>1, <1>5 DEF zend_hash_sort
 <2>2. PICK v : v = Relink(ht, r)
  OBVIOUS
 <2>3. u = (IF renumber THEN Renumber(v, r) ELSE v) /\ UNCHANGED <<inconsistent, stack, saved, owned, broken>>
  BY <1>1, <2>1, <2>2 DEF Changes
 <2>4. Reordering(s, r)
  BY <1>1, <2>1 DEF Sorted, Reordering
 <2>5. /\ State(u, r, stack) /\ ToSet(r) = ToSet(s)
       /\ u.pData = ht.pData
       /\ u.nNextFreeElement = IF renumber THEN Len(s) ELSE ht.nNextFreeElement
       /\ ~renumber => u.key = ht.key
       /\ renumber => \A i \in 1 .. Len(s) : u.key[r[i]] = Numeric(i - 1)
       /\ \A q \in Addr : q \notin ToSet(s) => u.key[q] = ht.key[q]
  BY <1>2, <1>5, <2>2, <2>3, <2>4, StateSort
 <2>6. State(ht', r, stack') /\ WaitsOK(stack') /\ saved' = saved /\ inconsistent' = inconsistent
  BY <1>1, <1>2, <2>3, <2>5
 <2>7. StructureInv' /\ Listed' = ToSet(r)
  BY <1>3, <2>6, Established
 <2>8. s \in Seq(Addr) /\ \A i, j \in 1 .. Len(s) : s[i] = s[j] => i = j
  <3>1. Table(ht, s)
   BY <1>2, StateFacts
  <3> QED BY <3>1, TableFacts
 <2>9. /\ r \in Seq(Addr) /\ Len(r) = Len(s) /\ DOMAIN r = 1 .. Len(s) /\ ToSet(r) = ToSet(s)
       /\ \A i \in 1 .. Len(s) : r[i] \in ToSet(s)
       /\ \A i, j \in 1 .. Len(s) : r[i] = r[j] => i = j
  BY <2>4, <2>8, ReorderingFacts
 <2>10. Len(r) <= Cardinality(Addr)
  <3>1. Elements(u, r)
   BY <2>5 DEF State, Table
  <3>2. Links(u.pListNext, u.pListLast, r)
   BY <3>1 DEF Elements
  <3>3. Len(r) < Length /\ Length \in Nat
   BY <3>2, LinksLen
  <3>4. Cardinality(Addr) \in Nat
   BY AddrAssumption, FS_CardinalityType
  <3>5. Len(r) \in Nat
   BY <2>9
  <3> QED BY <3>3, <3>4, <3>5 DEF Length
 <2>11. Ordered(ht, u, Listed, r, renumber)
  BY <1>2, <2>5, <2>9, <2>10 DEF Ordered
 <2> QED BY <1>1, <1>2, <2>3, <2>5, <2>7, <2>11
<1> QED BY <1>4, <1>5

--------------------
(* Steps: applying a function to all elements. *)

Loops == {"apply", "reverse_apply"}

\* The bucket before the first is none.
LEMMA HeadFirst ==
    ASSUME NEW t, NEW s, Table(t, s), NEW p \in ToSet(s), p = t.pListHead
    PROVE  t.pListLast[p] = NULL
<1>1. /\ s \in Seq(Addr) /\ Len(s) \in Nat
      /\ \A i \in 1 .. Len(s) : s[i] \in Addr /\ s[i] # NULL /\ s[i] \in ToSet(s)
      /\ \A i, j \in 1 .. Len(s) : s[i] = s[j] => i = j
      /\ \A i \in 1 .. Len(s) : t.pListNext[s[i]] = Nth(s, i + 1) /\ t.pListLast[s[i]] = Nth(s, i - 1)
      /\ t.pListHead = Nth(s, 1) /\ t.pListTail = Nth(s, Len(s))
      /\ List(t) = s
      /\ s = <<>> <=> Len(s) = 0
 BY TableFacts
<1>2. Len(s) > 0
 <2>1. PICK i \in 1 .. Len(s) : s[i] = p
  BY <1>1, PlaceOf
 <2> QED BY <1>1, <2>1
<1>3. 1 \in 1 .. Len(s) /\ 0 \notin 1 .. Len(s)
 BY <1>1, <1>2
<1>4. p = s[1]
 BY <1>1, <1>3 DEF Nth
<1>5. t.pListLast[s[1]] = Nth(s, 0)
 <2>1. t.pListLast[s[1]] = Nth(s, 1 - 1)
  BY <1>1, <1>3
 <2> QED BY <2>1
<1> QED BY <1>3, <1>4, <1>5 DEF Nth

\* p is taken off table t, and its destructor called.
Taken(t, loop, p, next, E, frames) ==
    /\ Unlinked(t, ht', p, E, Listed') /\ owned' = owned \ {t.pData[p]} /\ broken' = broken
    /\ inconsistent' = inconsistent
    /\ p = t.pListHead => ht'.pListHead = ht'.pListNext[p]
    /\ \E f \in Waiting : /\ f.fn = loop /\ f.p = p /\ f.next = next /\ f.data = NULL /\ f.key = NoKey
                          /\ stack' = Append(frames, f)

\* zend_hash_apply_deleter, up to the destructor.
LEMMA CallsDeleter ==
    ASSUME StructureInv, inconsistent = "ok", NEW t, NEW s, NEW frames, State(t, s, frames), WaitsOK(frames),
           frames # <<>> => Last(frames).fn \in Reentrant,
           NEW loop \in Loops \cup Graceful, loop \in Graceful => frames = <<>>, NEW p \in ToSet(s),
           NEW next, next = NULL \/ next = t.pListLast[p] \/ next = t.pListNext[p], NEW stop \in BOOLEAN,
           CallDeleter(loop, t, p, next, stop, frames)
    PROVE  StructureInv' /\ Taken(t, loop, p, next, ToSet(s), frames)
<1>1. PICK f, K2, u, v : f = DeleterFrame(loop, p, next, stop) /\ K2 = stack' /\ u = ht' /\ v = Unlink(t, p)
 OBVIOUS
<1>2. /\ u = WithCount(v, v.nNumOfElements - 1) /\ K2 = Append(frames, f)
      /\ owned' = owned \ {t.pData[p]} /\ UNCHANGED <<inconsistent, saved, broken>>
 BY <1>1 DEF CallDeleter, WithCount, DeleterFrame
<1>3. Table(t, s) /\ p \in Addr /\ frames \in Seq(Waiting) /\ NULL \notin ToSet(s) /\ ToSet(s) \subseteq Addr
 BY StateFacts
<1>4. next \in Ptr
 <2>1. /\ t.pListNext[p] = NULL \/ t.pListNext[p] \in ToSet(s)
       /\ t.pListLast[p] = NULL \/ t.pListLast[p] \in ToSet(s)
  BY <1>3, NeighboursListed
 <2> QED BY <1>3, <2>1 DEF Ptr
<1>5. f \in Waiting /\ f.fn = loop /\ f.p = p /\ f.next = next /\ f.data = NULL /\ f.key = NoKey
      /\ f.loop = "none"
 <2>1. loop \in {"apply", "reverse_apply"} \cup Graceful
  BY DEF Loops
 <2> QED BY <1>1, <1>3, <1>4, <2>1, FrameDeleter
<1>6. f.fn \notin Settled /\ f.fn # "del" /\ f.fn # "update_current_key"
 BY <1>5 DEF Settled, Graceful, Loops
<1>7. u = IF f.fn = "del" THEN v ELSE WithCount(v, v.nNumOfElements - 1)
 BY <1>2, <1>6
<1>8. PICK w : State(u, w, K2) /\ Unlinked(t, u, p, ToSet(s), ToSet(w))
 BY <1>1, <1>2, <1>5, <1>6, <1>7, StateUnlink
<1>9. WaitsOK(K2)
 BY <1>2, <1>3, <1>5, <1>6, WaitsPush
<1>10. State(ht', w, stack') /\ WaitsOK(stack') /\ saved' = saved /\ inconsistent' = inconsistent
 BY <1>1, <1>2, <1>8, <1>9
<1>11. StructureInv' /\ Listed' = ToSet(w)
 BY <1>10, Established
<1>12. p = t.pListHead => ht'.pListHead = ht'.pListNext[p]
 <2> SUFFICES ASSUME p = t.pListHead PROVE ht'.pListHead = ht'.pListNext[p]
  OBVIOUS
 <2>1. t.pListLast[p] = NULL
  BY <1>3, HeadFirst
 <2> QED BY <1>1, <1>8, <2>1 DEF Unlinked
<1> QED BY <1>1, <1>2, <1>5, <1>8, <1>11, <1>12 DEF Taken

\* The function is called for an element, if the loop does not end.
AppliesNext(K, E) ==
    \/ stack' = K
    \/ \E f \in Waiting : /\ f.fn = "apply_func" /\ f.p \in E /\ f.data = NULL /\ f.key = NoKey
                          /\ stack' = Append(K, f)

\* zend_hash_apply and zend_hash_reverse_apply call their function for the first element.
LEMMA StepApply ==
    ASSUME StructureInv, NEW loop \in Loops, zend_hash_apply(loop)
    PROVE  StructureInv' /\ Listed' = Listed /\ UNCHANGED <<ht, owned, broken>> /\ AppliesNext(stack, Listed)
<1>1. PICK p, f, s : p = First(loop) /\ f = ApplyFrame(p, loop) /\ s = List(ht)
 OBVIOUS
<1>2. MayCall(loop) /\ p # NULL /\ stack' = Append(stack, f) /\ UNCHANGED <<ht, inconsistent, saved, owned, broken>>
 BY <1>1 DEF zend_hash_apply, MayWait, CallApplyFunc, ApplyFrame
<1>3. Table(ht, s) /\ Listed = ToSet(s) /\ Listed \subseteq Addr
 BY <1>1, InvFacts
<1>4. p \in Listed /\ p \in Addr
 <2>1. /\ ht.pListHead = NULL \/ ht.pListHead \in ToSet(s)
       /\ ht.pListTail = NULL \/ ht.pListTail \in ToSet(s)
  BY <1>3, NeighboursListed
 <2> QED BY <1>1, <1>2, <1>3, <2>1 DEF First
<1>5. f \in Waiting /\ f.fn = "apply_func" /\ f.p = p /\ f.next = NULL /\ f.data = NULL /\ f.key = NoKey
      /\ f.loop = loop
 BY <1>1, <1>4, FrameApply DEF Loops
<1>6. f.fn \in Settled /\ f.fn # "update_current_key" /\ f.loop # "none"
 BY <1>5 DEF Settled, Loops
<1>7. inconsistent = "ok" /\ (stack # <<>> => Last(stack).fn \in Reentrant)
 BY <1>2, MayCallFacts
<1>8. StructureInv' /\ Listed' = Listed
 BY <1>2, <1>4, <1>5, <1>6, <1>7, StepPush
<1> QED BY <1>2, <1>4, <1>5, <1>8 DEF AppliesNext

\* A loop goes on with an element, ends, or finds the element gone.
LEMMA GoesOn ==
    ASSUME StructureInv, inconsistent = "ok", NEW K, K = Front(stack), NEW t, NEW s, State(t, s, K), WaitsOK(K),
           K # <<>> => Last(K).fn \in Reentrant, NEW loop \in Loops, NEW q \in Ptr, q \in t.allocated => q \in ToSet(s),
           NEW stop \in BOOLEAN, ApplyGoesOn(loop, t, q, stop)
    PROVE  /\ StructureInv'
           /\ \/ Broke /\ Listed' = Listed /\ q # NULL /\ q \notin ToSet(s)
              \/ ht' = t /\ Listed' = ToSet(s) /\ UNCHANGED <<owned, broken>> /\ AppliesNext(K, ToSet(s))
<1>1. K \in Seq(Waiting) /\ ToSet(s) \subseteq Addr /\ ToSet(s) \subseteq t.allocated
 BY StateFacts
<1>2. CASE q # NULL /\ ~stop /\ q \notin t.allocated
 <2>1. Breaks(loop) /\ loop # "no"
  BY <1>2 DEF ApplyGoesOn, Loops
 <2> QED BY <1>1, <1>2, <2>1, BreaksFacts
<1>3. CASE ~(q # NULL /\ ~stop /\ q \notin t.allocated)
 <2>1. /\ ht' = t /\ UNCHANGED <<inconsistent, saved, owned, broken>>
       /\ IF q = NULL \/ stop THEN stack' = K ELSE CallApplyFunc(loop, q, K)
  BY <1>3 DEF ApplyGoesOn, Outer
 <2>2. CASE q = NULL \/ stop
  <3>1. State(ht', s, stack') /\ WaitsOK(stack') /\ saved' = saved /\ inconsistent' = inconsistent
   BY <2>1, <2>2
  <3>2. StructureInv' /\ Listed' = ToSet(s)
   BY <3>1, Established
  <3> QED BY <2>1, <2>2, <3>2 DEF AppliesNext
 <2>3. CASE ~(q = NULL \/ stop)
  <3>1. PICK f, K2 : f = ApplyFrame(q, loop) /\ K2 = stack'
   OBVIOUS
  <3>2. K2 = Append(K, f)
   BY <2>1, <2>3, <3>1 DEF CallApplyFunc, ApplyFrame
  <3>3. q \in ToSet(s) /\ q \in Addr
   BY <1>1, <1>3, <2>3
  <3>4. f \in Waiting /\ f.fn = "apply_func" /\ f.p = q /\ f.next = NULL /\ f.data = NULL /\ f.key = NoKey
        /\ f.loop = loop
   BY <3>1, <3>3, FrameApply DEF Loops
  <3>5. f.fn \in Settled /\ f.fn # "update_current_key" /\ f.loop # "none"
   BY <3>4 DEF Settled, Loops
  <3>6. State(t, s, K2)
   BY <3>2, <3>3, <3>4, <3>5, StatePush
  <3>7. WaitsOK(K2)
   BY <1>1, <3>2, <3>4, <3>5, WaitsPush
  <3>8. State(ht', s, stack') /\ WaitsOK(stack') /\ saved' = saved /\ inconsistent' = inconsistent
   BY <2>1, <3>1, <3>6, <3>7
  <3>9. StructureInv' /\ Listed' = ToSet(s)
   BY <3>8, Established
  <3> QED BY <2>1, <3>1, <3>2, <3>3, <3>4, <3>9 DEF AppliesNext
 <2> QED BY <2>2, <2>3
<1> QED BY <1>2, <1>3

\* The loops, after their function has returned.
LEMMA StepApplyFunc ==
    ASSUME StructureInv, NEW remove \in BOOLEAN, NEW stop \in BOOLEAN, ApplyFuncReturns(remove, stop)
    PROVE  /\ StructureInv' /\ stack # <<>> /\ Top.fn = "apply_func" /\ broken = "no"
           /\ \/ Broke /\ Listed' = Listed /\ Top.p \notin Listed
              \/ /\ Top.p \in Listed
                 /\ \E loop \in Loops : \E next : Taken(ht, loop, Top.p, next, Listed, Front(stack))
                                                  /\ next \in Listed' \cup {NULL}
              \/ Top.p \in Listed /\ Listed' = Listed /\ UNCHANGED <<ht, owned, broken>> /\ AppliesNext(Front(stack), Listed)
<1>1. Returning("apply_func")
 BY DEF ApplyFuncReturns
<1>2. broken = "no" /\ inconsistent = "ok" /\ stack # <<>> /\ Last(stack).fn = "apply_func"
 BY <1>1, ReturningFacts
<1>3. PICK s, K2, p, loop, q : /\ s = List(ht) /\ K2 = Front(stack) /\ p = Last(stack).p /\ loop = Last(stack).loop
                               /\ q = IF loop = "apply" THEN ht.pListNext[p] ELSE ht.pListLast[p]
 OBVIOUS
<1>4. State(ht, s, stack) /\ Listed = ToSet(s) /\ Table(ht, s) /\ Listed \subseteq ht.allocated /\ Listed \subseteq Addr
 BY <1>3, InvFacts
<1>5. loop \in Loops /\ p \in Addr
 <2>1. p \in Addr
  BY <1>2, <1>3, <1>4, TopWaiting
 <2>2. Last(stack).fn = "apply_func" => Last(stack).loop \in {"apply", "reverse_apply"}
  BY <1>2, <1>4, TopWaiting
 <2> QED BY <1>2, <1>3, <2>1, <2>2 DEF Loops
<1>6. /\ State(ht, s, K2) /\ WaitsOK(K2) /\ (p \in ht.allocated => p \in Listed)
      /\ K2 # <<>> => Last(K2).fn \in Reentrant
 <2>1. "apply_func" \in Settled
  BY DEF Settled
 <2> QED BY <1>2, <1>3, <2>1, TopPopped
<1>7. CASE p \notin ht.allocated
 <2>1. Breaks(loop) /\ loop # "no"
  BY <1>3, <1>5, <1>7 DEF ApplyFuncReturns, Top, Loops
 <2>2. StructureInv' /\ Listed' = Listed /\ Broke
  BY <2>1, BreaksFacts
 <2>3. p \notin Listed
  BY <1>4, <1>7
 <2> QED BY <2>2, <2>3, <1>2, <1>3 DEF Top
<1>8. CASE p \in ht.allocated
 <2>1. p \in ToSet(s)
  BY <1>4, <1>6, <1>8
 <2>2. q \in ToSet(s) \cup {NULL}
  <3>1. /\ ht.pListNext[p] = NULL \/ ht.pListNext[p] \in ToSet(s)
        /\ ht.pListLast[p] = NULL \/ ht.pListLast[p] \in ToSet(s)
   BY <1>4, <2>1, NeighboursListed
  <3> QED BY <1>3, <3>1
 <2>3. IF remove THEN CallDeleter(loop, ht, p, q, stop, K2) ELSE ApplyGoesOn(loop, ht, q, stop)
  BY <1>3, <1>8 DEF ApplyFuncReturns, Top, Outer
 <2>4. CASE remove
  <3>1. CallDeleter(loop, ht, p, q, stop, K2)
   BY <2>3, <2>4
  <3>2. q = NULL \/ q = ht.pListLast[p] \/ q = ht.pListNext[p]
   BY <1>3
  <3>3. loop \in Loops \cup Graceful /\ loop \notin Graceful
   BY <1>5 DEF Loops, Graceful
  <3>4. StructureInv' /\ Taken(ht, loop, p, q, ToSet(s), K2)
   BY <1>2, <1>6, <2>1, <3>1, <3>2, <3>3, CallsDeleter
  <3>5. q \in Listed' \cup {NULL}
   BY <1>3, <3>4 DEF Taken, Unlinked
  <3>6. Taken(ht, loop, Top.p, q, Listed, Front(stack))
   BY <1>3, <1>4, <3>4 DEF Top
  <3> QED BY <1>2, <1>3, <1>4, <1>5, <2>1, <3>4, <3>5, <3>6 DEF Top
 <2>5. CASE ~remove
  <3>1. ApplyGoesOn(loop, ht, q, stop)
   BY <2>3, <2>5
  <3>2. q \in Ptr /\ (q \in ht.allocated => q \in ToSet(s))
   <4>1. NULL \notin ht.allocated
    BY <1>4, StateFacts, AddrAssumption
   <4> QED BY <1>4, <2>2, <4>1 DEF Ptr
  <3>3. /\ StructureInv'
        /\ \/ Broke /\ Listed' = Listed /\ q # NULL /\ q \notin ToSet(s)
           \/ ht' = ht /\ Listed' = ToSet(s) /\ UNCHANGED <<owned, broken>> /\ AppliesNext(K2, ToSet(s))
   BY <1>2, <1>3, <1>5, <1>6, <3>1, <3>2, GoesOn
  <3>4. StructureInv' /\ ht' = ht /\ Listed' = ToSet(s) /\ UNCHANGED <<owned, broken>> /\ AppliesNext(K2, ToSet(s))
   BY <2>2, <3>3
  <3> QED BY <1>2, <1>3, <1>4, <2>1, <3>4 DEF Top
 <2> QED BY <2>4, <2>5
<1> QED BY <1>7, <1>8

\* A deleter that returns frees its bucket.
LEMMA TopFreed ==
    ASSUME StructureInv, stack # <<>>, Last(stack).fn \in Loops \cup Graceful,
           NEW K2, K2 = Front(stack), NEW u, u = Free(ht, Last(stack).p)
    PROVE  /\ State(u, List(ht), K2) /\ WaitsOK(K2)
           /\ K2 # <<>> => Last(K2).fn \in Reentrant
           /\ Released(ht, u, Last(stack).p, Listed)
           /\ ht.pListNext[Last(stack).p] \in u.allocated => ht.pListNext[Last(stack).p] \in Listed
           /\ Last(stack).next \in u.allocated => Last(stack).next \in Listed
<1>1. PICK s : s = List(ht)
 OBVIOUS
<1>2. State(ht, s, stack) /\ Listed = ToSet(s) /\ WaitsOK(stack) /\ stack \in Seq(Waiting)
 BY <1>1, InvFacts
<1>3. Last(stack).fn \notin Settled /\ Last(stack).fn # "del"
 BY DEF Settled, Loops, Graceful
<1>4. PICK v : v = Free(ht, Last(stack).p)
 OBVIOUS
<1>5. u = IF Last(stack).fn = "del" THEN WithCount(v, v.nNumOfElements - 1) ELSE v
 BY <1>3, <1>4
<1>6. /\ State(u, s, K2)
      /\ Released(ht, u, Last(stack).p, ToSet(s))
      /\ ht.pListNext[Last(stack).p] \in u.allocated => ht.pListNext[Last(stack).p] \in ToSet(s)
      /\ Last(stack).next \in u.allocated => Last(stack).next \in ToSet(s)
 BY <1>2, <1>3, <1>4, <1>5, StateFree
<1>7. WaitsOK(K2) /\ (K2 # <<>> /\ Last(stack).fn # "del" => Last(K2).fn \in Reentrant)
 BY <1>2, WaitsPop
<1> QED BY <1>1, <1>2, <1>3, <1>6, <1>7

\* The loops, after a destructor has returned.
LEMMA StepApplyDeleter ==
    ASSUME StructureInv, NEW loop \in Loops, ApplyDeleterReturns(loop)
    PROVE  /\ StructureInv' /\ stack # <<>> /\ Top.fn = loop /\ broken = "no"
           /\ \/ /\ Broke /\ Listed' = Listed
                 /\ ht.pListNext[Top.p] \notin Listed \cup {NULL} \/ Top.next \notin Listed \cup {NULL}
              \/ /\ Released(ht, ht', Top.p, Listed) /\ Listed' = Listed /\ UNCHANGED <<owned, broken>>
                 /\ AppliesNext(Front(stack), Listed)
<1>1. Returning(loop)
 BY DEF ApplyDeleterReturns
<1>2. broken = "no" /\ inconsistent = "ok" /\ stack # <<>> /\ Last(stack).fn = loop
 BY <1>1, ReturningFacts
<1>3. PICK s, K2, p, q, u, stop : /\ s = List(ht) /\ K2 = Front(stack) /\ p = Last(stack).p /\ u = Free(ht, p)
                            /\ q = (IF loop = "apply" THEN ht.pListNext[p] ELSE Last(stack).next)
                            /\ stop = Last(stack).stop
 OBVIOUS
<1>4. State(ht, s, stack) /\ Listed = ToSet(s) /\ Shaped(ht) /\ Listed \subseteq Addr
 BY <1>3, InvFacts
<1>5. p \in Addr /\ Last(stack).next \in Ptr /\ stop \in BOOLEAN
 BY <1>2, <1>3, <1>4, TopWaiting
<1>6. /\ State(u, s, K2) /\ WaitsOK(K2)
      /\ K2 # <<>> => Last(K2).fn \in Reentrant
      /\ Released(ht, u, p, Listed)
      /\ ht.pListNext[p] \in u.allocated => ht.pListNext[p] \in Listed
      /\ Last(stack).next \in u.allocated => Last(stack).next \in Listed
 BY <1>2, <1>3, TopFreed
<1>7. q \in Ptr /\ (q \in u.allocated => q \in ToSet(s))
 BY <1>3, <1>4, <1>5, <1>6 DEF Shaped
<1>8. ApplyGoesOn(loop, u, q, stop)
 BY <1>3 DEF ApplyDeleterReturns, Top
<1>9. /\ StructureInv'
      /\ \/ Broke /\ Listed' = Listed /\ q # NULL /\ q \notin ToSet(s)
         \/ ht' = u /\ Listed' = ToSet(s) /\ UNCHANGED <<owned, broken>> /\ AppliesNext(K2, ToSet(s))
 BY <1>2, <1>3, <1>5, <1>6, <1>7, <1>8, GoesOn
<1>10. q # NULL /\ q \notin ToSet(s) =>
          ht.pListNext[Top.p] \notin Listed \cup {NULL} \/ Top.next \notin Listed \cup {NULL}
 BY <1>3, <1>4 DEF Top
<1>11. CASE Broke /\ Listed' = Listed /\ q # NULL /\ q \notin ToSet(s)
 BY <1>2, <1>9, <1>10, <1>11 DEF Top
<1>12. CASE ht' = u /\ Listed' = ToSet(s) /\ UNCHANGED <<owned, broken>> /\ AppliesNext(K2, ToSet(s))
 BY <1>2, <1>3, <1>4, <1>6, <1>9, <1>12 DEF Top
<1> QED BY <1>9, <1>11, <1>12

--------------------
(* Steps: destroying gracefully. *)

\* The table is destroyed, and has elements no more.
Destroyed(t) ==
    /\ ht' = t /\ inconsistent' = "destroyed" /\ stack' = <<>> /\ UNCHANGED <<owned, broken>>

\* A graceful destroy goes on with an element, ends, or finds the element gone.
LEMMA DestroyStep ==
    ASSUME StructureInv, inconsistent = "ok", NEW t, NEW s, State(t, s, <<>>), WaitsOK(<<>>), NEW loop \in Graceful,
           NEW q, q \in t.allocated => q \in ToSet(s), DestroyGoesOn(loop, t, q, <<>>)
    PROVE  /\ StructureInv'
           /\ \/ Broke /\ Listed' = Listed /\ q # NULL /\ q \notin ToSet(s)
              \/ q = NULL /\ Destroyed(t) /\ Listed' = ToSet(s)
              \/ q \in ToSet(s) /\ Taken(t, loop, q, NULL, ToSet(s), <<>>)
<1>1. ToSet(s) \subseteq t.allocated
 BY StateFacts
<1>2. CASE q = NULL
 <2>1. ht' = t /\ inconsistent' = "destroyed" /\ stack' = <<>> /\ UNCHANGED <<saved, owned, broken>>
  BY <1>2 DEF DestroyGoesOn
 <2>2. List(t) = s
  BY StateFacts
 <2>3. State(ht', List(ht'), stack')
  BY <2>1, <2>2
 <2>4. StructureInv' /\ Listed' = ToSet(s)
  BY <2>1, <2>2, <2>3 DEF StructureInv, Listed
 <2> QED BY <1>2, <2>1, <2>4 DEF Destroyed
<1>3. CASE q # NULL /\ q \in t.allocated
 <2>1. CallDeleter(loop, t, q, NULL, FALSE, <<>>)
  BY <1>3 DEF DestroyGoesOn
 <2>2. q \in ToSet(s)
  BY <1>3
 <2>3. loop \in Loops \cup Graceful /\ FALSE \in BOOLEAN
  OBVIOUS
 <2>4. StructureInv' /\ Taken(t, loop, q, NULL, ToSet(s), <<>>)
  BY <2>1, <2>2, <2>3, CallsDeleter
 <2> QED BY <2>2, <2>4
<1>4. CASE q # NULL /\ q \notin t.allocated
 <2>1. Breaks(loop) /\ loop # "no"
  BY <1>4 DEF DestroyGoesOn, Graceful
 <2> QED BY <1>1, <1>4, <2>1, BreaksFacts
<1> QED BY <1>2, <1>3, <1>4

\* A graceful destroy starts.
LEMMA StepDestroy ==
    ASSUME StructureInv, NEW loop \in Graceful, zend_hash_graceful_destroy(loop)
    PROVE  /\ StructureInv' /\ stack = <<>> /\ broken = "no"
           /\ \/ Destroyed(ht) /\ Listed = {} /\ Listed' = Listed
              \/ \E p \in Listed : /\ Taken(ht, loop, p, NULL, Listed, <<>>)
                                   /\ loop = "graceful_destroy" => p = ht.pListHead
<1>1. stack = <<>> /\ MayCall(loop)
 BY DEF zend_hash_graceful_destroy, OwnerCalls
<1>2. inconsistent = "ok" /\ broken = "no"
 BY <1>1, MayCallFacts
<1>3. PICK s, q : s = List(ht) /\ q = First(loop)
 OBVIOUS
<1>4. State(ht, s, <<>>) /\ Listed = ToSet(s) /\ Table(ht, s) /\ WaitsOK(<<>>) /\ Listed \subseteq Addr
 BY <1>1, <1>3, InvFacts
<1>5. /\ ht.pListHead = NULL \/ ht.pListHead \in ToSet(s)
      /\ ht.pListTail = NULL \/ ht.pListTail \in ToSet(s)
      /\ ht.pListHead = NULL <=> s = <<>>
      /\ ht.pListTail = NULL <=> s = <<>>
 BY <1>4, NeighboursListed
<1>6. q = NULL \/ q \in ToSet(s)
 BY <1>3, <1>5 DEF First
<1>7. q = NULL => ToSet(s) = {}
 <2>1. ToSet(<<>>) = {}
  BY LinksEmpty
 <2> QED BY <1>3, <1>5, <2>1 DEF First
<1>8. NULL \notin ht.allocated
 BY <1>4, StateFacts, AddrAssumption
<1>9. DestroyGoesOn(loop, ht, q, <<>>)
 BY <1>1, <1>3 DEF zend_hash_graceful_destroy
<1>10. /\ StructureInv'
       /\ \/ Broke /\ Listed' = Listed /\ q # NULL /\ q \notin ToSet(s)
          \/ q = NULL /\ Destroyed(ht) /\ Listed' = ToSet(s)
          \/ q \in ToSet(s) /\ Taken(ht, loop, q, NULL, ToSet(s), <<>>)
 <2>1. q \in ht.allocated => q \in ToSet(s)
  BY <1>6, <1>8
 <2> QED BY <1>2, <1>4, <1>9, <2>1, DestroyStep
<1>11. loop = "graceful_destroy" => q = ht.pListHead
 BY <1>3 DEF First
<1> QED BY <1>1, <1>2, <1>4, <1>6, <1>7, <1>10, <1>11

\* A graceful destroy, after a destructor has returned.
LEMMA StepDestroyed ==
    ASSUME StructureInv, NEW loop \in Graceful, GracefulDeleterReturns(loop)
    PROVE  /\ StructureInv' /\ stack # <<>> /\ Top.fn = loop /\ broken = "no" /\ Front(stack) = <<>>
           /\ \/ /\ Broke /\ Listed' = Listed /\ loop = "graceful_destroy"
                 /\ ht.pListNext[Top.p] \notin Listed \cup {NULL}
              \/ \E t : /\ Released(ht, t, Top.p, Listed)
                        /\ \/ /\ Destroyed(t) /\ Listed' = Listed
                              /\ loop = "graceful_destroy" => ht.pListNext[Top.p] = NULL
                              /\ loop = "graceful_reverse_destroy" => Listed = {}
                           \/ \E p \in Listed : /\ Taken(t, loop, p, NULL, Listed, <<>>)
                                                /\ loop = "graceful_destroy" => p = ht.pListNext[Top.p]
<1>1. Returning(loop)
 BY DEF GracefulDeleterReturns
<1>2. broken = "no" /\ inconsistent = "ok" /\ stack # <<>> /\ Last(stack).fn = loop
 BY <1>1, ReturningFacts
<1>3. PICK s, p, q, u : /\ s = List(ht) /\ p = Last(stack).p /\ u = Free(ht, p)
                        /\ q = (IF loop = "graceful_destroy" THEN ht.pListNext[p] ELSE ht.pListTail)
 OBVIOUS
<1>4. State(ht, s, stack) /\ Listed = ToSet(s) /\ Table(ht, s) /\ Shaped(ht) /\ Listed \subseteq Addr
 BY <1>3, InvFacts
<1>5. Front(stack) = <<>>
 BY <1>2, <1>4, GracefulAlone
<1>6. /\ State(u, s, Front(stack)) /\ WaitsOK(Front(stack))
      /\ Front(stack) # <<>> => Last(Front(stack)).fn \in Reentrant
      /\ Released(ht, u, p, Listed)
      /\ ht.pListNext[p] \in u.allocated => ht.pListNext[p] \in Listed
      /\ Last(stack).next \in u.allocated => Last(stack).next \in Listed
 BY <1>2, <1>3, TopFreed
<1>7. State(u, s, <<>>) /\ WaitsOK(<<>>)
 BY <1>5, <1>6
<1>8. /\ ht.pListHead = NULL \/ ht.pListHead \in ToSet(s)
      /\ ht.pListTail = NULL \/ ht.pListTail \in ToSet(s)
      /\ ht.pListHead = NULL <=> s = <<>>
      /\ ht.pListTail = NULL <=> s = <<>>
 BY <1>4, NeighboursListed
<1>9. q \in u.allocated => q \in ToSet(s)
 <2>1. NULL \notin u.allocated
  BY <1>7, StateFacts, AddrAssumption
 <2> QED BY <1>3, <1>4, <1>6, <1>8, <2>1
<1>10. DestroyGoesOn(loop, u, q, <<>>)
 BY <1>3, <1>5 DEF GracefulDeleterReturns, Top, Outer
<1>11. /\ StructureInv'
       /\ \/ Broke /\ Listed' = Listed /\ q # NULL /\ q \notin ToSet(s)
          \/ q = NULL /\ Destroyed(u) /\ Listed' = ToSet(s)
          \/ q \in ToSet(s) /\ Taken(u, loop, q, NULL, ToSet(s), <<>>)
 BY <1>2, <1>7, <1>9, <1>10, DestroyStep
<1>12. CASE Broke /\ Listed' = Listed /\ q # NULL /\ q \notin ToSet(s)
 <2>1. loop = "graceful_destroy" /\ ht.pListNext[p] \notin Listed \cup {NULL}
  BY <1>3, <1>4, <1>8, <1>12
 <2> QED BY <1>2, <1>3, <1>5, <1>11, <1>12, <2>1 DEF Top
<1>13. CASE q = NULL /\ Destroyed(u) /\ Listed' = ToSet(s)
 <2>1. loop = "graceful_destroy" => ht.pListNext[p] = NULL
  BY <1>3, <1>13
 <2>2. loop = "graceful_reverse_destroy" => Listed = {}
  <3>1. ToSet(<<>>) = {}
   BY LinksEmpty
  <3> QED BY <1>3, <1>4, <1>8, <1>13, <3>1
 <2> QED BY <1>2, <1>3, <1>4, <1>5, <1>6, <1>11, <1>13, <2>1, <2>2 DEF Top
<1>14. CASE q \in ToSet(s) /\ Taken(u, loop, q, NULL, ToSet(s), <<>>)
 <2>1. loop = "graceful_destroy" => q = ht.pListNext[p]
  BY <1>3
 <2> QED BY <1>2, <1>3, <1>4, <1>5, <1>6, <1>11, <1>14, <2>1 DEF Top
<1> QED BY <1>11, <1>12, <1>13, <1>14

\* A new element at p, which no other has the key of.
Inserted(p, k, d) ==
    /\ p \in Addr /\ p \notin Listed /\ d \in Values
    /\ \A x : x \in Listed' <=> x \in Listed \/ x = p
    /\ \A q \in Addr : ht'.key[q] = IF q = p THEN k ELSE ht.key[q]
    /\ \A q \in Addr : ht'.pData[q] = IF q = p THEN d ELSE ht.pData[q]
    /\ ht'.nNextFreeElement = NextFree(ht, k)
    /\ \A q \in Listed : ht.key[q] # k
    /\ owned' = owned \cup {d} /\ UNCHANGED <<stack, broken>>

\* What an insertion leaves, opaque.
LEMMA StepInserted ==
    ASSUME StructureInv, NEW k \in Stored, NEW d \in Data, MayCall("add") \/ MayCall("next_insert"),
           Lookup(ht, k) = NULL, d \in Values, \E p \in Fresh : ht' = Insert(ht, p, k, d),
           owned' = owned \cup {d}, UNCHANGED <<inconsistent, stack, saved, broken>>
    PROVE  StructureInv' /\ \E p : Inserted(p, k, d)
<1>1. PICK p \in Fresh : ht' = Insert(ht, p, k, d)
 OBVIOUS
<1>2. inconsistent = "ok"
 BY DEF MayCall
<1>3. /\ StructureInv'
      /\ p \in Addr /\ p \notin Listed
      /\ \A x : x \in Listed' <=> x \in Listed \/ x = p
      /\ \A q \in Addr : ht'.key[q] = IF q = p THEN k ELSE ht.key[q]
      /\ \A q \in Addr : ht'.pData[q] = IF q = p THEN d ELSE ht.pData[q]
      /\ ht'.nNextFreeElement = NextFree(ht, k)
 BY <1>1, <1>2, StepInsert
<1>4. \A q \in Listed : ht.key[q] # k
 BY Absent
<1> QED BY <1>3, <1>4 DEF Inserted

\* zend_hash_add, for a key the table does not have.
LEMMA StepAdd ==
    ASSUME StructureInv, NEW k \in Keys, NEW d \in Data, Add(k, d)
    PROVE  StructureInv' /\ \E p : Inserted(p, k, d)
<1>1. /\ MayCall("add") /\ Lookup(ht, k) = NULL /\ d \in Values /\ \E p \in Fresh : ht' = Insert(ht, p, k, d)
      /\ owned' = owned \cup {d} /\ UNCHANGED <<inconsistent, stack, saved, broken>>
 BY DEF Add
<1>2. k \in Stored
 BY KeysStored
<1> QED BY <1>1, <1>2, StepInserted

\* zend_hash_next_index_insert.
LEMMA StepNextInsert ==
    ASSUME StructureInv, NEW d \in Data, NextInsert(d)
    PROVE  StructureInv' /\ ht.nNextFreeElement \in Nat /\ \E p : Inserted(p, Numeric(ht.nNextFreeElement), d)
<1>1. PICK k : k = Numeric(ht.nNextFreeElement)
 OBVIOUS
<1>2. /\ MayCall("next_insert") /\ Lookup(ht, k) = NULL /\ d \in Values /\ \E p \in Fresh : ht' = Insert(ht, p, k, d)
      /\ owned' = owned \cup {d} /\ UNCHANGED <<inconsistent, stack, saved, broken>>
 BY <1>1 DEF NextInsert
<1>3. ht.nNextFreeElement \in Nat
 BY InvFacts DEF Shaped
<1>4. k \in Stored
 BY <1>1, <1>3, KeysStored
<1>5. StructureInv' /\ \E p : Inserted(p, k, d)
 BY <1>2, <1>4, StepInserted
<1> QED BY <1>1, <1>3, <1>5

--------------------
(* The structure. *)

\* A new table satisfies the invariant of the structure.
LEMMA StructureInit == Init => StructureInv /\ Listed = {}
<1> SUFFICES ASSUME Init PROVE StructureInv /\ Listed = {}
 OBVIOUS
<1>1. PICK u : u = ht
 OBVIOUS
<1>2. u = EmptyTable(InitTableSize) /\ InitTableSize \in Nat \ {0}
 BY <1>1, SizeAssumption DEF Init
<1>3. State(u, <<>>, <<>>) /\ ToSet(<<>>) = {}
 BY <1>2, StateEmpty
<1>4. List(u) = <<>>
 BY <1>3, StateFacts
<1>5. State(ht, List(ht), stack) /\ List(ht) = <<>>
 BY <1>1, <1>3, <1>4 DEF Init
<1>6. WaitsOK(stack)
 BY DEF WaitsOK, Init
<1>7. saved.pos \in Ptr /\ saved.h \in Int /\ inconsistent = "ok"
 BY DEF Init, Ptr
<1> QED BY <1>3, <1>5, <1>6, <1>7 DEF StructureInv, Listed

\* Every step keeps the invariant of the structure.
LEMMA StructureNext == StructureInv /\ [Next]_vars => StructureInv'
<1> SUFFICES ASSUME StructureInv, [Next]_vars PROVE StructureInv'
 OBVIOUS
<1>1. CASE UNCHANGED vars
 BY <1>1, Stays DEF vars
<1>2. ASSUME NEW d \in Data, NextInsert(d) PROVE StructureInv'
 BY <1>2, StepNextInsert
<1>3. ASSUME NEW d \in Data, NEW k \in Keys, Add(k, d) PROVE StructureInv'
 BY <1>3, StepAdd
<1>4. ASSUME NEW d \in Data, NEW k \in Keys, Update(k, d) PROVE StructureInv'
 BY <1>4, StepUpdate
<1>5. ASSUME NEW k \in Keys, zend_hash_del(k) PROVE StructureInv'
 BY <1>5, StepDel
<1>6. ASSUME NEW k \in Keys, zend_hash_update_current_key(k) PROVE StructureInv'
 BY <1>6, StepRenameCalled
<1>7. CASE UpdateReturns
 BY <1>7, StepUpdateReturns
<1>8. CASE DelReturns
 BY <1>8, StepDelReturns
<1>9. CASE UpdateCurrentKeyGoesOn
 BY <1>9, StepRenamed
<1>10. CASE PointerMoves
 BY <1>10, StepPointer
<1>11. CASE zend_hash_get_pointer
 BY <1>11, StepSaved
<1>12. ASSUME NEW renumber \in BOOLEAN, zend_hash_sort(renumber) PROVE StructureInv'
 BY <1>12, StepSort
<1>13. CASE zend_hash_clean
 BY <1>13, StepClean
<1>14. ASSUME NEW loop \in Loops, zend_hash_apply(loop) PROVE StructureInv'
 BY <1>14, StepApply
<1>15. ASSUME NEW loop \in Loops, ApplyDeleterReturns(loop) PROVE StructureInv'
 BY <1>15, StepApplyDeleter
<1>16. ASSUME NEW remove \in BOOLEAN, NEW stop \in BOOLEAN, ApplyFuncReturns(remove, stop) PROVE StructureInv'
 BY <1>16, StepApplyFunc
<1>17. ASSUME NEW loop \in Graceful, zend_hash_graceful_destroy(loop) PROVE StructureInv'
 BY <1>17, StepDestroy
<1>18. ASSUME NEW loop \in Graceful, GracefulDeleterReturns(loop) PROVE StructureInv'
 BY <1>18, StepDestroyed
<1>19. CASE _zend_hash_init
 BY <1>19, StepInit
<1> QED BY <1>1, <1>2, <1>3, <1>4, <1>5, <1>6, <1>7, <1>8, <1>9, <1>10, <1>11, <1>12, <1>13, <1>14,
           <1>15, <1>16, <1>17, <1>18, <1>19 DEF Next, PointerMoves, Loops, Graceful

\* The invariant of the structure holds in every state: the buckets listed are
\* linked in one order, each is on the chain of its slot, and the functions under
\* way have the buckets that are allocated and not listed.
THEOREM StructureHolds == Spec => []StructureInv
BY StructureInit, StructureNext, PTL DEF Spec

\* The invariant of the structure makes lists and chains exact.
LEMMA StructureStates == StructureInv => StructureExact
<1> SUFFICES ASSUME StructureInv PROVE StructureExact
 OBVIOUS
<1>1. PICK s : s = List(ht)
 OBVIOUS
<1>2. State(ht, s, stack) /\ Table(ht, s) /\ Listed = ToSet(s) /\ Shaped(ht) /\ stack \in Seq(Waiting)
 BY <1>1, InvFacts
<1>3. Deleting = Dels(stack)
 <2>1. DOMAIN stack = 1 .. Len(stack)
  BY <1>2
 <2> QED BY <2>1 DEF Deleting, Dels
<1>4. ListExact
 <2>1. ht.nNumOfElements = Len(s) + Cardinality(Dels(stack))
  BY <1>2 DEF State
 <2>2. Walk(ht, "pListLast", ht.pListTail, Length) = Reverse(List(ht)) /\ IsInjective(List(ht))
  BY <1>2, TableBackwards
 <2> QED BY <1>1, <1>3, <2>1, <2>2 DEF ListExact
<1>5. DOMAIN ht.arBuckets = 0 .. ht.nTableSize - 1
 BY <1>2 DEF Shaped
<1>6. \A i \in 0 .. ht.nTableSize - 1 : ChainExact(ht, i)
 BY <1>2, TableChain
<1>7. UNION {ToSet(Chain(ht, i)) : i \in 0 .. ht.nTableSize - 1} = Listed
 BY <1>2, TableChains
<1>8. ChainsExact
 <2> DEFINE chain == [i \in DOMAIN ht.arBuckets |-> Chain(ht, i)]
 <2>1. DOMAIN chain = 0 .. ht.nTableSize - 1 /\ \A i \in 0 .. ht.nTableSize - 1 : chain[i] = Chain(ht, i)
  BY <1>5
 <2> HIDE DEF chain
 <2>2. \A i \in DOMAIN chain : \A j \in DOMAIN chain[i] :
             /\ Slot(ht, ht.key[chain[i][j]].h) = i
             /\ ht.pLast[chain[i][j]] = IF j = 1 THEN NULL ELSE chain[i][j - 1]
             /\ \A l \in DOMAIN chain[i] : chain[i][l] = chain[i][j] => l = j
  BY <1>6, <2>1 DEF ChainExact
 <2>3. UNION {ToSet(chain[i]) : i \in DOMAIN chain} = Listed
  <3>1. {ToSet(chain[i]) : i \in DOMAIN chain} = {ToSet(Chain(ht, i)) : i \in 0 .. ht.nTableSize - 1}
   BY <2>1
  <3> QED BY <1>7, <3>1
 <2> QED BY <2>2, <2>3 DEF ChainsExact, chain
<1> QED BY <1>4, <1>8 DEF StructureExact

\* Whatever the destructors and apply functions do with the table while one of
\* its functions waits for them, the list of elements reads the same from both
\* ends, nNumOfElements counts it and the deletions under way, and every element is
\* on exactly the chain of its hash (zend_hash.c: the list and chain macros,
\* zend_hash_del_key_or_index, zend_hash_rehash, zend_hash_sort,
\* zend_hash_update_current_key_ex, zend_hash_apply_deleter).
THEOREM StructureCorrect == Spec => []StructureExact
BY StructureHolds, StructureStates, PTL

\* The internal pointer is never on a bucket that has left the table, also when
\* zend_hash_set_pointer restores one saved before a foreach body that deleted,
\* renamed or replaced elements.
THEOREM PointerCorrect == Spec => []InternalPointerListed
<1>1. StructureInv => InternalPointerListed
 BY InvFacts DEF Table, Pointed, InternalPointerListed
<1> QED BY <1>1, StructureHolds, PTL

--------------------
(* Types. *)

Bounded == AllKeys \cup {NoKey}

Typed == {f \in Waiting : f.key \in Bounded /\ (f.fn = "update" => f.data \in Data)}

TypeInv ==
    /\ StructureInv
    /\ \A q \in Addr : ht.key[q] \in Bounded
    /\ ht.nNextFreeElement <= LongMax
    /\ stack \in Seq(Typed)
    /\ owned \subseteq Data

\* The type of a stack with one more.
LEMMA SeqPush ==
    ASSUME NEW T, NEW K \in Seq(T), NEW f \in T
    PROVE  Append(K, f) \in Seq(T)
OBVIOUS

\* The type of a stack without its top.
LEMMA SeqPop ==
    ASSUME NEW T, NEW K \in Seq(T), K # <<>>
    PROVE  Front(K) \in Seq(T) /\ Last(K) \in T
<1>1. PICK n, K2 : n = Len(K) /\ K2 = Front(K)
 OBVIOUS
<1>2. /\ n \in Nat \ {0} /\ K2 \in Seq(T) /\ Len(K2) = n - 1
      /\ \A i \in 1 .. n - 1 : K2[i] = K[i]
      /\ Last(K) = K[n] /\ K[n] \in T
      /\ \A i \in 1 .. n : i \in 1 .. n - 1 \/ i = n
 BY <1>1, FrontFacts
<1> QED BY <1>1, <1>2

\* Keys callers use, and indices up to LONG_MAX, are bounded.
LEMMA BoundedKeys ==
    /\ \A k \in Keys : k \in Bounded /\ k \in Stored
    /\ \A i \in Nat : i <= LongMax => Numeric(i) \in Bounded
    /\ NoKey \in Bounded
<1>1. \A i \in Nat : i <= LongMax => i \in 0 .. LongMax
 BY KeyAssumption
<1> QED BY <1>1, KeysStored DEF Bounded, AllKeys

\* What a step may do to the keys and the stack to leave them well typed.
LEMMA TypedNext ==
    ASSUME NEW K \in Seq(Typed), NEW E, AppliesNext(K, E)
    PROVE  stack' \in Seq(Typed)
<1>1. CASE stack' = K
 BY <1>1
<1>2. ASSUME NEW f \in Waiting, f.fn = "apply_func" /\ f.p \in E /\ f.data = NULL /\ f.key = NoKey, stack' = Append(K, f)
      PROVE  stack' \in Seq(Typed)
 <2>1. f \in Typed
  BY <1>2, BoundedKeys DEF Typed
 <2> QED BY <1>2, <2>1, SeqPush
<1> QED BY <1>1, <1>2 DEF AppliesNext

\* Taking an element off the table keeps the types.
LEMMA TypedTaken ==
    ASSUME NEW t, NEW loop \in Loops \cup Graceful, NEW p, NEW next, NEW E, NEW frames \in Seq(Typed),
           Taken(t, loop, p, next, E, frames), \A q \in Addr : t.key[q] \in Bounded,
           t.nNextFreeElement <= LongMax, owned \subseteq Data
    PROVE  /\ \A q \in Addr : ht'.key[q] \in Bounded
           /\ ht'.nNextFreeElement <= LongMax
           /\ stack' \in Seq(Typed)
           /\ owned' \subseteq Data
<1>1. Unlinked(t, ht', p, E, Listed') /\ owned' = owned \ {t.pData[p]}
 BY DEF Taken
<1>2. PICK f \in Waiting : f.fn = loop /\ f.p = p /\ f.next = next /\ f.data = NULL /\ f.key = NoKey
                           /\ stack' = Append(frames, f)
 BY DEF Taken
<1>3. f \in Typed
 BY <1>2, BoundedKeys DEF Typed, Loops, Graceful
<1>4. stack' \in Seq(Typed)
 BY <1>2, <1>3, SeqPush
<1> QED BY <1>1, <1>4 DEF Unlinked

\* Freeing a bucket keeps the types.
LEMMA TypedReleased ==
    ASSUME NEW t, NEW p, NEW E, NEW u, Released(t, u, p, E), \A q \in Addr : t.key[q] \in Bounded,
           t.nNextFreeElement <= LongMax
    PROVE  /\ \A q \in Addr : u.key[q] \in Bounded
           /\ u.nNextFreeElement <= LongMax
BY BoundedKeys DEF Released

\* Inserting keeps the types.
LEMMA TypedInserted ==
    ASSUME TypeInv, NEW p, NEW k \in Stored, k \in Bounded, NEW d \in Data, Inserted(p, k, d)
    PROVE  /\ \A q \in Addr : ht'.key[q] \in Bounded
           /\ ht'.nNextFreeElement <= LongMax
           /\ stack' \in Seq(Typed)
           /\ owned' \subseteq Data
<1>1. ht.nNextFreeElement \in Nat /\ StructureInv
 BY InvFacts DEF TypeInv, Shaped
<1>2. NextFree(ht, k) \in Nat /\ (ht.nNextFreeElement <= LongMax => NextFree(ht, k) <= LongMax)
 BY <1>1, NextFreeFacts
<1> QED BY <1>1, <1>2 DEF Inserted, TypeInv

\* Pushed frames with a key in bounds.
LEMMA TypedPushed ==
    ASSUME NEW K \in Seq(Typed), NEW f \in Waiting, f.key \in Bounded, f.fn = "update" => f.data \in Data
    PROVE  Append(K, f) \in Seq(Typed)
<1>1. f \in Typed
 BY DEF Typed
<1> QED BY <1>1, SeqPush

\* The steps that store keep the types.
LEMMA TypedStoring ==
    ASSUME TypeInv,
           \/ \E d \in Data : NextInsert(d) \/ \E k \in Keys : Add(k, d) \/ Update(k, d)
           \/ UpdateReturns
    PROVE  TypeInv'
<1>0. /\ StructureInv /\ \A q \in Addr : ht.key[q] \in Bounded
      /\ ht.nNextFreeElement <= LongMax /\ stack \in Seq(Typed) /\ owned \subseteq Data
 BY DEF TypeInv
<1>1. ASSUME NEW d \in Data, NextInsert(d) PROVE TypeInv'
 <2>1. StructureInv' /\ ht.nNextFreeElement \in Nat /\ \E p : Inserted(p, Numeric(ht.nNextFreeElement), d)
  BY <1>0, <1>1, StepNextInsert
 <2>2. PICK k, p : k = Numeric(ht.nNextFreeElement) /\ Inserted(p, k, d)
  BY <2>1
 <2>3. k \in Stored /\ k \in Bounded
  BY <1>0, <2>1, <2>2, KeysStored, BoundedKeys
 <2>4. /\ \A q \in Addr : ht'.key[q] \in Bounded
       /\ ht'.nNextFreeElement <= LongMax /\ stack' \in Seq(Typed) /\ owned' \subseteq Data
  BY <2>2, <2>3, TypedInserted
 <2> QED BY <2>1, <2>4 DEF TypeInv
<1>2. ASSUME NEW d \in Data, NEW k \in Keys, Add(k, d) PROVE TypeInv'
 <2>1. StructureInv' /\ \E p : Inserted(p, k, d)
  BY <1>0, <1>2, StepAdd
 <2>2. PICK p : Inserted(p, k, d)
  BY <2>1
 <2>3. k \in Stored /\ k \in Bounded
  BY BoundedKeys
 <2>4. /\ \A q \in Addr : ht'.key[q] \in Bounded
       /\ ht'.nNextFreeElement <= LongMax /\ stack' \in Seq(Typed) /\ owned' \subseteq Data
  BY <2>2, <2>3, TypedInserted
 <2> QED BY <2>1, <2>4 DEF TypeInv
<1>3. ASSUME NEW d \in Data, NEW k \in Keys, Update(k, d) PROVE TypeInv'
 <2>1. /\ StructureInv' /\ Listed' = Listed /\ ht' = ht
       /\ \E f \in Waiting : /\ stack' = Append(stack, f) /\ f.fn = "update" /\ f.data = d /\ f.key = k
                             /\ f.p \in Listed /\ f.p \in Addr /\ owned' = owned \ {ht.pData[f.p]}
  BY <1>0, <1>3, StepUpdate
 <2>2. PICK f \in Waiting : /\ stack' = Append(stack, f) /\ f.fn = "update" /\ f.data = d /\ f.key = k
                            /\ f.p \in Listed /\ f.p \in Addr /\ owned' = owned \ {ht.pData[f.p]}
  BY <2>1
 <2>3. stack' \in Seq(Typed)
  BY <1>0, <2>2, BoundedKeys, TypedPushed
 <2> QED BY <1>0, <2>1, <2>2, <2>3 DEF TypeInv
<1>4. CASE UpdateReturns
 <2>1. /\ StructureInv' /\ Listed' = Listed
          /\ Top.fn = "update" /\ stack # <<>> /\ Top.p \in Addr /\ Top.key \in Stored /\ Top.data \in Data \cup {NULL}
          /\ \/ /\ ht' = ht /\ stack' = stack /\ owned' = owned /\ broken' # "no" /\ Top.p \notin Listed
             \/ /\ stack' = Front(stack) /\ ht'.key = ht.key /\ Top.p \in Listed
                /\ \A q \in Addr : ht'.pData[q] = IF q = Top.p THEN Top.data ELSE ht.pData[q]
                /\ ht'.nNextFreeElement = NextFree(ht, Top.key)
                /\ owned' = owned \cup {Top.data} /\ broken' = broken
  BY <1>0, <1>4, StepUpdateReturns
 <2>2. Front(stack) \in Seq(Typed) /\ Last(stack) \in Typed
  BY <1>0, <2>1, SeqPop
 <2>3. Top.data \in Data
  BY <2>1, <2>2 DEF Typed, Top
 <2>4. ht.nNextFreeElement \in Nat
  BY <1>0, InvFacts DEF Shaped
 <2>5. PICK k : k = Top.key
  OBVIOUS
 <2>6. NextFree(ht, k) \in Nat /\ (ht.nNextFreeElement <= LongMax => NextFree(ht, k) <= LongMax)
  BY <2>1, <2>4, <2>5, NextFreeFacts
 <2> QED BY <1>0, <2>1, <2>2, <2>3, <2>5, <2>6 DEF TypeInv
<1> QED BY <1>1, <1>2, <1>3, <1>4

\* The steps that delete or rename keep the types.
LEMMA TypedDeleting ==
    ASSUME TypeInv,
           \/ \E k \in Keys : zend_hash_del(k) \/ zend_hash_update_current_key(k)
           \/ DelReturns \/ UpdateCurrentKeyGoesOn
    PROVE  TypeInv'
<1>0. /\ StructureInv /\ \A q \in Addr : ht.key[q] \in Bounded
      /\ ht.nNextFreeElement <= LongMax /\ stack \in Seq(Typed) /\ owned \subseteq Data
 BY DEF TypeInv
<1>1. ASSUME NEW k \in Keys, zend_hash_del(k) PROVE TypeInv'
 <2>1. /\ StructureInv'
       /\ \E p \in Listed : \E f \in Waiting :
               /\ Unlinked(ht, ht', p, Listed, Listed') /\ owned' = owned \ {ht.pData[p]}
               /\ f.fn = "del" /\ f.p = p /\ f.key = NoKey /\ f.data = NULL /\ stack' = Append(stack, f)
  BY <1>0, <1>1, StepDel
 <2>2. PICK p \in Listed, f \in Waiting :
               /\ Unlinked(ht, ht', p, Listed, Listed') /\ owned' = owned \ {ht.pData[p]}
               /\ f.fn = "del" /\ f.p = p /\ f.key = NoKey /\ f.data = NULL /\ stack' = Append(stack, f)
  BY <2>1
 <2>3. stack' \in Seq(Typed)
  BY <1>0, <2>2, BoundedKeys, TypedPushed
 <2> QED BY <1>0, <2>1, <2>2, <2>3 DEF TypeInv, Unlinked
<1>2. ASSUME NEW k \in Keys, zend_hash_update_current_key(k) PROVE TypeInv'
 <2>1. /\ StructureInv'
       /\ \E f \in Waiting :
               /\ f.fn = "update_current_key" /\ f.p \in Listed /\ f.key = k /\ f.data = NULL
               /\ \/ /\ stack' = Append(stack, f) /\ ht' = ht /\ owned' = owned /\ Listed' = Listed
                     /\ \A x \in Listed : ht.key[x] # k
                  \/ \E p \in Listed : \E g \in Waiting :
                       /\ Unlinked(ht, ht', p, Listed, Listed') /\ owned' = owned \ {ht.pData[p]}
                       /\ g.fn = "del" /\ g.p = p /\ g.key = NoKey /\ g.data = NULL
                       /\ stack' = Append(Append(stack, f), g) /\ ht.key[p] = k /\ p # f.p
  BY <1>0, <1>2, StepRenameCalled
 <2>2. PICK f \in Waiting :
               /\ f.fn = "update_current_key" /\ f.p \in Listed /\ f.key = k /\ f.data = NULL
               /\ \/ /\ stack' = Append(stack, f) /\ ht' = ht /\ owned' = owned /\ Listed' = Listed
                     /\ \A x \in Listed : ht.key[x] # k
                  \/ \E p \in Listed : \E g \in Waiting :
                       /\ Unlinked(ht, ht', p, Listed, Listed') /\ owned' = owned \ {ht.pData[p]}
                       /\ g.fn = "del" /\ g.p = p /\ g.key = NoKey /\ g.data = NULL
                       /\ stack' = Append(Append(stack, f), g) /\ ht.key[p] = k /\ p # f.p
  BY <2>1
 <2>3. PICK K : K = Append(stack, f) /\ K \in Seq(Typed)
  <3>1. Append(stack, f) \in Seq(Typed)
   BY <1>0, <2>2, BoundedKeys, TypedPushed
  <3> QED BY <3>1
 <2>4. CASE stack' = Append(stack, f) /\ ht' = ht /\ owned' = owned
  BY <1>0, <2>1, <2>3, <2>4 DEF TypeInv
 <2>5. ASSUME NEW p \in Listed, NEW g \in Waiting,
              /\ Unlinked(ht, ht', p, Listed, Listed') /\ owned' = owned \ {ht.pData[p]}
              /\ g.fn = "del" /\ g.p = p /\ g.key = NoKey /\ g.data = NULL
              /\ stack' = Append(Append(stack, f), g)
       PROVE  TypeInv'
  <3>1. stack' \in Seq(Typed)
   BY <2>3, <2>5, BoundedKeys, TypedPushed
  <3> QED BY <1>0, <2>1, <2>5, <3>1 DEF TypeInv, Unlinked
 <2> QED BY <2>2, <2>4, <2>5
<1>3. CASE DelReturns
 <2>1. /\ StructureInv' /\ Listed' = Listed /\ Released(ht, ht', Top.p, Listed)
       /\ stack # <<>> /\ Top.fn = "del" /\ stack' = Front(stack) /\ owned' = owned
  BY <1>0, <1>3, StepDelReturns
 <2>2. stack' \in Seq(Typed)
  BY <1>0, <2>1, SeqPop
 <2>3. (\A q \in Addr : ht'.key[q] \in Bounded) /\ ht'.nNextFreeElement <= LongMax
  BY <1>0, <2>1, TypedReleased
 <2> QED BY <1>0, <2>1, <2>2, <2>3 DEF TypeInv
<1>4. CASE UpdateCurrentKeyGoesOn
 <2>1. /\ StructureInv'
       /\ stack # <<>> /\ Top.fn = "update_current_key" /\ broken = "no" /\ Top.key \in Stored
       /\ \/ Broke /\ Listed' = Listed /\ Top.p \notin Listed
          \/ /\ stack' = Front(stack) /\ owned' = owned /\ broken' = broken /\ Top.p \in Listed
             /\ \E q : Moved(ht, ht', Top.p, q, Top.key, Listed, Listed')
  BY <1>0, <1>4, StepRenamed
 <2>2. Front(stack) \in Seq(Typed) /\ Last(stack) \in Typed
  BY <1>0, <2>1, SeqPop
 <2>3. Top.key \in Bounded
  BY <2>2 DEF Typed, Top
 <2>4. CASE Broke
  BY <1>0, <2>1, <2>4 DEF TypeInv, Broke
 <2>5. ASSUME NEW q, Moved(ht, ht', Top.p, q, Top.key, Listed, Listed'), stack' = Front(stack) /\ owned' = owned
       PROVE TypeInv'
  <3>1. \A x \in Addr : ht'.key[x] = ht.key[x] \/ ht'.key[x] = Top.key \/ ht'.key[x] = NoKey
   BY <2>5 DEF Moved
  <3>2. ht'.nNextFreeElement = ht.nNextFreeElement
   BY <2>5 DEF Moved
  <3>3. \A x \in Addr : ht'.key[x] \in Bounded
   BY <1>0, <2>3, <3>1, BoundedKeys
  <3> QED BY <1>0, <2>1, <2>2, <2>5, <3>2, <3>3 DEF TypeInv
 <2> QED BY <2>1, <2>4, <2>5
<1> QED BY <1>1, <1>2, <1>3, <1>4

\* A sort gives the numbers below the number of elements.
LEMMA TypedOrdered ==
    ASSUME NEW t, Shaped(t), NEW u, NEW E, NEW r, NEW renumber \in BOOLEAN, Ordered(t, u, E, r, renumber),
           Cardinality(Addr) <= LongMax, \A q \in Addr : t.key[q] \in Bounded, t.nNextFreeElement <= LongMax
    PROVE  (\A q \in Addr : u.key[q] \in Bounded) /\ u.nNextFreeElement <= LongMax
<1>1. r \in Seq(Addr) /\ ToSet(r) = E /\ Len(r) <= Cardinality(Addr) /\ Len(r) \in Nat
 BY DEF Ordered
<1>2. Cardinality(Addr) \in Nat /\ LongMax \in Nat
 BY AddrAssumption, KeyAssumption, FS_CardinalityType
<1>3. Len(r) <= LongMax
 BY <1>1, <1>2
<1>4. u.nNextFreeElement <= LongMax
 BY <1>3 DEF Ordered
<1>5. ASSUME NEW q \in Addr PROVE u.key[q] \in Bounded
 <2>1. CASE q \notin E \/ ~renumber
  BY <2>1 DEF Ordered
 <2>2. CASE q \in E /\ renumber
  <3>1. PICK i \in 1 .. Len(r) : r[i] = q
   BY <1>1, <2>2, PlaceOf
  <3>2. u.key[q] = Numeric(i - 1)
   BY <2>2, <3>1 DEF Ordered
  <3>3. i - 1 \in Nat /\ i - 1 <= LongMax
   BY <1>1, <1>2, <1>3
  <3> QED BY <3>2, <3>3, BoundedKeys
 <2> QED BY <2>1, <2>2
<1> QED BY <1>4, <1>5

\* Moving the pointer, sorting and emptying keep the types.
LEMMA TypedMoving ==
    ASSUME TypeInv, Cardinality(Addr) <= LongMax,
           \/ PointerMoves \/ zend_hash_get_pointer \/ zend_hash_clean \/ _zend_hash_init
           \/ \E renumber \in BOOLEAN : zend_hash_sort(renumber)
    PROVE  TypeInv'
<1>0. /\ StructureInv /\ \A q \in Addr : ht.key[q] \in Bounded
      /\ ht.nNextFreeElement <= LongMax /\ stack \in Seq(Typed) /\ owned \subseteq Data
 BY DEF TypeInv
<1>1. CASE PointerMoves
 <2>1. StructureInv' /\ Listed' = Listed /\ Kept(ht, ht') /\ UNCHANGED <<stack, owned, broken>>
  BY <1>0, <1>1, StepPointer
 <2> QED BY <1>0, <2>1 DEF TypeInv, Kept
<1>2. CASE zend_hash_get_pointer
 <2>1. StructureInv' /\ Listed' = Listed /\ UNCHANGED <<ht, stack, owned, broken>>
  BY <1>0, <1>2, StepSaved
 <2> QED BY <1>0, <2>1 DEF TypeInv
<1>3. CASE zend_hash_clean
 <2>1. /\ StructureInv' /\ Listed' = {} /\ stack = <<>> /\ stack' = <<>>
       /\ owned' = owned \ {ht.pData[p] : p \in Listed} /\ broken' = broken
       /\ ht'.nNextFreeElement = 0 /\ \A q \in Addr : ht'.key[q] = NoKey
  BY <1>0, <1>3, StepClean
 <2> QED BY <1>0, <2>1, BoundedKeys, KeyAssumption DEF TypeInv
<1>4. CASE _zend_hash_init
 <2>1. /\ StructureInv' /\ Listed' = {} /\ stack = <<>> /\ stack' = <<>>
       /\ owned' = owned /\ broken' = broken /\ inconsistent = "destroyed"
       /\ ht'.nNextFreeElement = 0 /\ \A q \in Addr : ht'.key[q] = NoKey
  BY <1>0, <1>4, StepInit
 <2> QED BY <1>0, <2>1, BoundedKeys, KeyAssumption DEF TypeInv
<1>5. ASSUME NEW renumber \in BOOLEAN, zend_hash_sort(renumber) PROVE TypeInv'
 <2>1. /\ StructureInv' /\ Listed' = Listed
       /\ \/ Broke /\ List(ht) = <<>> /\ ht.nNumOfElements > 0
          \/ UNCHANGED <<stack, owned, broken>> /\ \E r : Ordered(ht, ht', Listed, r, renumber)
  BY <1>0, <1>5, StepSort
 <2>2. CASE Broke
  BY <1>0, <2>1, <2>2 DEF TypeInv, Broke
 <2>3. ASSUME NEW r, Ordered(ht, ht', Listed, r, renumber), UNCHANGED <<stack, owned, broken>> PROVE TypeInv'
  <3>1. Shaped(ht)
   BY <1>0, InvFacts
  <3>2. (\A q \in Addr : ht'.key[q] \in Bounded) /\ ht'.nNextFreeElement <= LongMax
   BY <1>0, <2>3, <3>1, TypedOrdered
  <3> QED BY <1>0, <2>1, <2>3, <3>2 DEF TypeInv
 <2> QED BY <2>1, <2>2, <2>3
<1> QED BY <1>1, <1>2, <1>3, <1>4, <1>5

\* The loops keep the types.
LEMMA TypedLoops ==
    ASSUME TypeInv,
           \/ \E loop \in Loops : zend_hash_apply(loop) \/ ApplyDeleterReturns(loop)
           \/ \E remove, stop \in BOOLEAN : ApplyFuncReturns(remove, stop)
           \/ \E loop \in Graceful : zend_hash_graceful_destroy(loop) \/ GracefulDeleterReturns(loop)
    PROVE  TypeInv'
<1>0. /\ StructureInv /\ \A q \in Addr : ht.key[q] \in Bounded
      /\ ht.nNextFreeElement <= LongMax /\ stack \in Seq(Typed) /\ owned \subseteq Data
 BY DEF TypeInv
<1>a. <<>> \in Seq(Typed)
 OBVIOUS
<1>1. ASSUME NEW loop \in Loops, zend_hash_apply(loop) PROVE TypeInv'
 <2>1. StructureInv' /\ Listed' = Listed /\ UNCHANGED <<ht, owned, broken>> /\ AppliesNext(stack, Listed)
  BY <1>0, <1>1, StepApply
 <2>2. stack' \in Seq(Typed)
  BY <1>0, <2>1, TypedNext
 <2> QED BY <1>0, <2>1, <2>2 DEF TypeInv
<1>2. ASSUME NEW loop \in Loops, ApplyDeleterReturns(loop) PROVE TypeInv'
 <2>1. /\ StructureInv' /\ stack # <<>> /\ Top.fn = loop /\ broken = "no"
       /\ \/ /\ Broke /\ Listed' = Listed
             /\ ht.pListNext[Top.p] \notin Listed \cup {NULL} \/ Top.next \notin Listed \cup {NULL}
          \/ /\ Released(ht, ht', Top.p, Listed) /\ Listed' = Listed /\ UNCHANGED <<owned, broken>>
             /\ AppliesNext(Front(stack), Listed)
  BY <1>0, <1>2, StepApplyDeleter
 <2>2. Front(stack) \in Seq(Typed)
  BY <1>0, <2>1, SeqPop
 <2>3. CASE Broke
  BY <1>0, <2>1, <2>3 DEF TypeInv, Broke
 <2>4. CASE Released(ht, ht', Top.p, Listed) /\ owned' = owned /\ AppliesNext(Front(stack), Listed)
  <3>1. stack' \in Seq(Typed)
   BY <2>2, <2>4, TypedNext
  <3>2. (\A q \in Addr : ht'.key[q] \in Bounded) /\ ht'.nNextFreeElement <= LongMax
   BY <1>0, <2>4, TypedReleased
  <3> QED BY <1>0, <2>1, <2>4, <3>1, <3>2 DEF TypeInv
 <2> QED BY <2>1, <2>3, <2>4
<1>3. ASSUME NEW remove \in BOOLEAN, NEW stop \in BOOLEAN, ApplyFuncReturns(remove, stop) PROVE TypeInv'
 <2>1. /\ StructureInv' /\ stack # <<>> /\ Top.fn = "apply_func" /\ broken = "no"
       /\ \/ Broke /\ Listed' = Listed /\ Top.p \notin Listed
          \/ /\ Top.p \in Listed
             /\ \E loop \in Loops : \E next : Taken(ht, loop, Top.p, next, Listed, Front(stack))
                                              /\ next \in Listed' \cup {NULL}
          \/ Top.p \in Listed /\ Listed' = Listed /\ UNCHANGED <<ht, owned, broken>> /\ AppliesNext(Front(stack), Listed)
  BY <1>0, <1>3, StepApplyFunc
 <2>2. Front(stack) \in Seq(Typed)
  BY <1>0, <2>1, SeqPop
 <2>3. CASE Broke
  BY <1>0, <2>1, <2>3 DEF TypeInv, Broke
 <2>4. ASSUME NEW loop \in Loops, NEW next, Taken(ht, loop, Top.p, next, Listed, Front(stack)) PROVE TypeInv'
  <3>1. /\ \A q \in Addr : ht'.key[q] \in Bounded
        /\ ht'.nNextFreeElement <= LongMax
        /\ stack' \in Seq(Typed)
        /\ owned' \subseteq Data
   <4>1. loop \in Loops \cup Graceful
    OBVIOUS
   <4> QED BY <1>0, <2>2, <2>4, <4>1, TypedTaken
  <3> QED BY <2>1, <3>1 DEF TypeInv
 <2>5. CASE UNCHANGED <<ht, owned, broken>> /\ AppliesNext(Front(stack), Listed)
  <3>1. stack' \in Seq(Typed)
   BY <2>2, <2>5, TypedNext
  <3> QED BY <1>0, <2>1, <2>5, <3>1 DEF TypeInv
 <2> QED BY <2>1, <2>3, <2>4, <2>5
<1>4. ASSUME NEW loop \in Graceful, zend_hash_graceful_destroy(loop) PROVE TypeInv'
 <2>1. /\ StructureInv' /\ stack = <<>> /\ broken = "no"
       /\ \/ Destroyed(ht) /\ Listed = {} /\ Listed' = Listed
          \/ \E p \in Listed : /\ Taken(ht, loop, p, NULL, Listed, <<>>)
                               /\ loop = "graceful_destroy" => p = ht.pListHead
  BY <1>0, <1>4, StepDestroy
 <2>2. CASE Destroyed(ht)
  BY <1>0, <1>a, <2>1, <2>2 DEF TypeInv, Destroyed
 <2>3. ASSUME NEW p \in Listed, Taken(ht, loop, p, NULL, Listed, <<>>) PROVE TypeInv'
  <3>1. /\ \A q \in Addr : ht'.key[q] \in Bounded
        /\ ht'.nNextFreeElement <= LongMax
        /\ stack' \in Seq(Typed)
        /\ owned' \subseteq Data
   <4>1. loop \in Loops \cup Graceful
    OBVIOUS
   <4> QED BY <1>0, <1>a, <2>3, <4>1, TypedTaken
  <3> QED BY <2>1, <3>1 DEF TypeInv
 <2> QED BY <2>1, <2>2, <2>3
<1>5. ASSUME NEW loop \in Graceful, GracefulDeleterReturns(loop) PROVE TypeInv'
 <2>1. /\ StructureInv' /\ stack # <<>> /\ Top.fn = loop /\ broken = "no" /\ Front(stack) = <<>>
       /\ \/ /\ Broke /\ Listed' = Listed /\ loop = "graceful_destroy"
             /\ ht.pListNext[Top.p] \notin Listed \cup {NULL}
          \/ \E t : /\ Released(ht, t, Top.p, Listed)
                    /\ \/ /\ Destroyed(t) /\ Listed' = Listed
                          /\ loop = "graceful_destroy" => ht.pListNext[Top.p] = NULL
                          /\ loop = "graceful_reverse_destroy" => Listed = {}
                       \/ \E p \in Listed : /\ Taken(t, loop, p, NULL, Listed, <<>>)
                                            /\ loop = "graceful_destroy" => p = ht.pListNext[Top.p]
  BY <1>0, <1>5, StepDestroyed
 <2>2. CASE Broke
  BY <1>0, <2>1, <2>2 DEF TypeInv, Broke
 <2>3. ASSUME NEW t, Released(ht, t, Top.p, Listed), Destroyed(t) PROVE TypeInv'
  <3>1. (\A q \in Addr : t.key[q] \in Bounded) /\ t.nNextFreeElement <= LongMax
   BY <1>0, <2>3, TypedReleased
  <3> QED BY <1>0, <1>a, <2>1, <2>3, <3>1 DEF TypeInv, Destroyed
 <2>4. ASSUME NEW t, Released(ht, t, Top.p, Listed), NEW p \in Listed, Taken(t, loop, p, NULL, Listed, <<>>) PROVE TypeInv'
  <3>1. (\A q \in Addr : t.key[q] \in Bounded) /\ t.nNextFreeElement <= LongMax
   BY <1>0, <2>4, TypedReleased
  <3>2. /\ \A q \in Addr : ht'.key[q] \in Bounded
        /\ ht'.nNextFreeElement <= LongMax
        /\ stack' \in Seq(Typed)
        /\ owned' \subseteq Data
   <4>1. loop \in Loops \cup Graceful
    OBVIOUS
   <4> QED BY <1>0, <1>a, <2>4, <3>1, <4>1, TypedTaken
  <3> QED BY <2>1, <3>2 DEF TypeInv
 <2> QED BY <2>1, <2>2, <2>3, <2>4
<1> QED BY <1>1, <1>2, <1>3, <1>4, <1>5

\* The invariant of the types is type correctness.
LEMMA TypeStates == TypeInv => TypeOK
<1> SUFFICES ASSUME TypeInv PROVE TypeOK
 OBVIOUS
<1>1. /\ StructureInv /\ \A q \in Addr : ht.key[q] \in Bounded
      /\ ht.nNextFreeElement <= LongMax /\ stack \in Seq(Typed) /\ owned \subseteq Data
 BY DEF TypeInv
<1>2. State(ht, List(ht), stack) /\ Shaped(ht) /\ saved.pos \in Ptr /\ inconsistent \in {"ok", "destroyed"}
 BY <1>1, InvFacts DEF StructureInv
<1>3. ht.nNumOfElements \in Nat
 <2>1. Len(List(ht)) \in Nat /\ Cardinality(Dels(stack)) \in Nat
       /\ ht.nNumOfElements = Len(List(ht)) + Cardinality(Dels(stack))
  BY <1>2, StateFacts
 <2> QED BY <2>1
<1>4. ht.nNextFreeElement \in 0 .. LongMax
 <2>1. ht.nNextFreeElement \in Nat /\ LongMax \in Nat
  BY <1>2, KeyAssumption DEF Shaped
 <2> QED BY <1>1, <2>1
<1>5. ht.key \in [Addr -> AllKeys \cup {NoKey}]
 <2>1. ht.key \in [Addr -> Stored]
  BY <1>2 DEF Shaped
 <2> QED BY <1>1, <2>1 DEF Bounded
<1>6. \A i \in DOMAIN stack : stack[i] \in FrameType
 <2>1. DOMAIN stack = 1 .. Len(stack) /\ \A i \in 1 .. Len(stack) : stack[i] \in Typed
  BY <1>1
 <2>2. ASSUME NEW f \in Typed PROVE f \in FrameType
  <3>1. f.key \in AllKeys \cup {NoKey} /\ f \in Waiting
   BY DEF Typed, Bounded
  <3>2. f.fn \in Reentrant \cup {"update", "del", "apply_func", "apply", "reverse_apply", "graceful_destroy",
                                 "graceful_reverse_destroy", "update_current_key"}
   BY <3>1 DEF Waiting, Settled, Graceful
  <3> QED BY <3>1, <3>2 DEF Waiting, FrameType
 <2> QED BY <2>1, <2>2
<1>7. /\ {ht.pListHead, ht.pListTail, ht.pInternalPointer, saved.pos} \subseteq Ptr
      /\ {ht.pNext, ht.pLast, ht.pListNext, ht.pListLast} \subseteq [Addr -> Ptr]
      /\ ht.nTableSize \in Nat \ {0}
      /\ ht.arBuckets \in [0 .. ht.nTableSize - 1 -> Ptr]
      /\ ht.allocated \subseteq Addr
      /\ ht.pData \in [Addr -> Data \cup {NULL}]
 BY <1>2 DEF Shaped
<1> QED BY <1>1, <1>2, <1>3, <1>4, <1>5, <1>6, <1>7 DEF TypeOK

\* It holds initially.
LEMMA TypeInit ==
    ASSUME Init
    PROVE  TypeInv
<1>1. StructureInv
 BY StructureInit
<1>2. ht.nNextFreeElement = 0 /\ ht.key = [q \in Addr |-> NoKey] /\ stack = <<>> /\ owned = {}
 BY DEF Init, EmptyTable
<1> QED BY <1>1, <1>2, BoundedKeys, KeyAssumption DEF TypeInv

\* Every step keeps it.
LEMMA TypeStep ==
    ASSUME TypeInv, Cardinality(Addr) <= LongMax, [Next]_vars
    PROVE  TypeInv'
<1>1. CASE UNCHANGED vars
 <2>1. StructureInv'
  BY <1>1, Stays DEF vars, TypeInv
 <2> QED BY <1>1, <2>1 DEF vars, TypeInv
<1>2. CASE \/ \E d \in Data : NextInsert(d) \/ \E k \in Keys : Add(k, d) \/ Update(k, d)
           \/ UpdateReturns
 BY <1>2, TypedStoring
<1>3. CASE \/ \E k \in Keys : zend_hash_del(k) \/ zend_hash_update_current_key(k)
           \/ DelReturns \/ UpdateCurrentKeyGoesOn
 BY <1>3, TypedDeleting
<1>4. CASE \/ PointerMoves \/ zend_hash_get_pointer \/ zend_hash_clean \/ _zend_hash_init
           \/ \E renumber \in BOOLEAN : zend_hash_sort(renumber)
 BY <1>4, TypedMoving
<1>5. CASE \/ \E loop \in Loops : zend_hash_apply(loop) \/ ApplyDeleterReturns(loop)
           \/ \E remove, stop \in BOOLEAN : ApplyFuncReturns(remove, stop)
           \/ \E loop \in Graceful : zend_hash_graceful_destroy(loop) \/ GracefulDeleterReturns(loop)
 BY <1>5, TypedLoops
<1> QED BY <1>1, <1>2, <1>3, <1>4, <1>5 DEF Next, PointerMoves, Loops, Graceful

\* If a sort that renumbers can never give an index past LONG_MAX, all fields of
\* the table, of its buckets and of the frames have their types; the next index
\* stays at LONG_MAX however often it is reached
\* (_zend_hash_index_update_or_next_insert).
THEOREM TypeCorrect ==
    ASSUME Cardinality(Addr) <= LongMax
    PROVE  Spec => []TypeOK
<1>1. Init => TypeInv
 BY TypeInit
<1>2. TypeInv /\ [Next]_vars => TypeInv'
 BY TypeStep
<1> QED BY <1>1, <1>2, TypeStates, PTL DEF Spec

--------------------
(* Functions whose callbacks do not use the table wait alone. *)

None(S, K) == \A i \in 1 .. Len(K) : K[i].fn \notin S

\* No callback inside a function of S uses the table.
Calm(S) ==
    /\ S \cap Reentrant = {}
    /\ "update_current_key" \in S => "del" \notin Reentrant \/ "update_current_key" \notin Functions

\* Where code outside zend_hash.c runs, no calm function waits.
LEMMA NoneCalled ==
    ASSUME StructureInv, NEW S, Calm(S), NEW fn, MayCall(fn)
    PROVE  None(S, stack)
<1>1. WaitsOK(stack) /\ stack \in Seq(Waiting)
 BY InvFacts
<1>2. stack # <<>> => Last(stack).fn \in Reentrant
 BY MayCallFacts
<1>3. SUFFICES ASSUME NEW i \in 1 .. Len(stack), stack[i].fn \in S PROVE FALSE
 BY DEF None
<1>4. Len(stack) \in Nat /\ stack # <<>> /\ Last(stack) = stack[Len(stack)] /\ stack[i].fn \notin Reentrant
 BY <1>1, <1>3 DEF Calm, Last
<1>5. i # Len(stack)
 BY <1>2, <1>4
<1>6. i \in 1 .. Len(stack) - 1 /\ i + 1 \in 1 .. Len(stack)
 BY <1>3, <1>4, <1>5
<1>7. stack[i].fn = "update_current_key" /\ stack[i + 1].fn = "del" /\ stack[i].fn \in Functions
 BY <1>1, <1>3, <1>4, <1>6 DEF WaitsOK
<1>8. "del" \notin Reentrant
 BY <1>3, <1>7 DEF Calm
<1>9. CASE i + 1 = Len(stack)
 BY <1>2, <1>4, <1>7, <1>8, <1>9
<1>10. CASE i + 1 # Len(stack)
 <2>1. i + 1 \in 1 .. Len(stack) - 1
  BY <1>4, <1>6, <1>10
 <2>2. stack[i + 1].fn \in Reentrant \/ stack[i + 1].fn = "update_current_key"
  BY <1>1, <2>1 DEF WaitsOK
 <2> QED BY <1>7, <1>8, <2>2
<1> QED BY <1>9, <1>10

\* Under a function that returns there is none of S, unless
\* zend_hash_update_current_key waits for the deletion it called.
LEMMA NoneBelow ==
    ASSUME StructureInv, NEW S, Calm(S), stack # <<>>, NEW K2, K2 = Front(stack)
    PROVE  \/ None(S, K2)
           \/ /\ Last(stack).fn = "del" /\ "update_current_key" \in S
              /\ K2 # <<>> /\ \A i \in 1 .. Len(K2) : K2[i].fn \in S => i = Len(K2)
<1>1. WaitsOK(stack) /\ stack \in Seq(Waiting)
 BY InvFacts
<1>2. PICK n : n = Len(stack)
 OBVIOUS
<1>3. /\ n \in Nat \ {0} /\ K2 \in Seq(Waiting) /\ Len(K2) = n - 1
      /\ \A i \in 1 .. n - 1 : K2[i] = stack[i]
      /\ Last(stack) = stack[n] /\ stack[n] \in Waiting
      /\ \A i \in 1 .. n : i \in 1 .. n - 1 \/ i = n
 BY <1>1, <1>2, FrontFacts
<1>4. ASSUME NEW i \in 1 .. Len(K2), K2[i].fn \in S
      PROVE  Last(stack).fn = "del" /\ "update_current_key" \in S /\ i = Len(K2)
 <2>1. i \in 1 .. n - 1 /\ i + 1 \in 1 .. n /\ stack[i].fn \in S
  BY <1>3, <1>4
 <2>2. stack[i].fn = "update_current_key" /\ stack[i + 1].fn = "del" /\ stack[i].fn \in Functions
  BY <1>1, <1>2, <2>1 DEF WaitsOK, Calm
 <2>3. "del" \notin Reentrant
  BY <2>1, <2>2 DEF Calm
 <2>4. i + 1 = n
  <3>1. SUFFICES ASSUME i + 1 # n PROVE FALSE
   OBVIOUS
  <3>2. i + 1 \in 1 .. n - 1
   BY <1>3, <2>1, <3>1
  <3>3. stack[i + 1].fn \in Reentrant \/ stack[i + 1].fn = "update_current_key"
   BY <1>1, <1>2, <3>2 DEF WaitsOK
  <3> QED BY <2>2, <2>3, <3>3
 <2> QED BY <1>3, <2>1, <2>2, <2>4
<1>5. CASE None(S, K2)
 BY <1>5
<1>6. CASE ~None(S, K2)
 <2>1. PICK i \in 1 .. Len(K2) : K2[i].fn \in S
  BY <1>6 DEF None
 <2>2. K2 # <<>>
  BY <1>3, <2>1
 <2> QED BY <1>4, <2>1, <2>2
<1> QED BY <1>5, <1>6

\* Nor below the function on top.
LEMMA NoneUnder ==
    ASSUME StructureInv, NEW S, Calm(S), stack # <<>>, Last(stack).fn # "del", NEW K2, K2 = Front(stack)
    PROVE  None(S, K2)
BY NoneBelow

\* A function that is not one of S joins the stack.
LEMMA NonePush ==
    ASSUME NEW T, NEW K \in Seq(T), NEW f \in T, NEW S, None(S, K), f.fn \notin S,
           NEW K2, K2 = Append(K, f)
    PROVE  None(S, K2)
<1>2. /\ Len(K) \in Nat /\ Len(K2) = Len(K) + 1
      /\ \A i \in 1 .. Len(K) : K2[i] = K[i]
      /\ K2[Len(K) + 1] = f
 BY AppendFacts
<1>3. \A i \in 1 .. Len(K2) : K2[i].fn \notin S
 BY <1>2 DEF None
<1> QED BY <1>3 DEF None

--------------------
(* Keys. *)

Renames == {"update_current_key"}

Distinct(key, E) == \A p, q \in E : key[p] = key[q] => p = q

\* No element has the key that the current one is to get.
RenameFree(key, E, K) ==
    \A i \in 1 .. Len(K) : K[i].fn \in Renames => \A p \in E : key[p] # K[i].key

KeysInv ==
    /\ StructureInv
    /\ Distinct(ht.key, Listed)
    /\ RenameFree(ht.key, Listed, stack)

\* Some of the elements, with the keys they had.
Narrowed(t, u, E, F) == \A x \in F : x \in E /\ u.key[x] = t.key[x]

\* Fewer elements, with the keys they had.
LEMMA KeysNarrow ==
    ASSUME NEW t, NEW u, NEW E, NEW F, Narrowed(t, u, E, F)
    PROVE  /\ Distinct(t.key, E) => Distinct(u.key, F)
           /\ \A K : RenameFree(t.key, E, K) => RenameFree(u.key, F, K)
BY DEF Narrowed, Distinct, RenameFree

\* Where none renames, no key is to be given.
LEMMA NoneFree ==
    ASSUME NEW key, NEW E, NEW K, None(Renames, K)
    PROVE  RenameFree(key, E, K)
BY DEF None, RenameFree

\* The functions that rename, without the one on top.
LEMMA RenamePop ==
    ASSUME NEW T, NEW K \in Seq(T), K # <<>>, NEW key, NEW E, RenameFree(key, E, K)
    PROVE  /\ RenameFree(key, E, Front(K))
           /\ Last(K).fn \in Renames => \A p \in E : key[p] # Last(K).key
<1>1. PICK n, K2 : n = Len(K) /\ K2 = Front(K)
 OBVIOUS
<1>2. /\ n \in Nat \ {0} /\ K2 \in Seq(T) /\ Len(K2) = n - 1
      /\ \A i \in 1 .. n - 1 : K2[i] = K[i]
      /\ Last(K) = K[n] /\ K[n] \in T
      /\ \A i \in 1 .. n : i \in 1 .. n - 1 \/ i = n
 BY <1>1, FrontFacts
<1>3. \A i \in 1 .. n : K[i].fn \in Renames => \A p \in E : key[p] # K[i].key
 BY <1>1 DEF RenameFree
<1>4. \A i \in 1 .. n - 1 : K2[i].fn \in Renames => \A p \in E : key[p] # K2[i].key
 BY <1>2, <1>3
<1>5. RenameFree(key, E, K2)
 BY <1>2, <1>4 DEF RenameFree
<1>6. n \in 1 .. n
 BY <1>2
<1> QED BY <1>1, <1>2, <1>3, <1>5, <1>6

\* The functions that rename, with another one on top.
LEMMA RenamePush ==
    ASSUME NEW T, NEW K \in Seq(T), NEW f \in T, NEW key, NEW E, RenameFree(key, E, K),
           f.fn \in Renames => \A p \in E : key[p] # f.key, NEW K2, K2 = Append(K, f)
    PROVE  RenameFree(key, E, K2)
<1>2. /\ Len(K) \in Nat /\ Len(K2) = Len(K) + 1
      /\ \A i \in 1 .. Len(K) : K2[i] = K[i]
      /\ K2[Len(K) + 1] = f
 BY AppendFacts
<1>3. ASSUME NEW i \in 1 .. Len(K2), K2[i].fn \in Renames, NEW p \in E PROVE key[p] # K2[i].key
 <2>1. CASE i \in 1 .. Len(K)
  BY <1>2, <1>3, <2>1 DEF RenameFree
 <2>2. CASE i = Len(K) + 1
  BY <1>2, <1>3, <2>2
 <2> QED BY <1>2, <2>1, <2>2
<1>4. RenameFree(key, E, K2)
 BY <1>3 DEF RenameFree
<1> QED BY <1>4

\* Taking an element off leaves the others their keys.
LEMMA NarrowUnlinked ==
    ASSUME NEW t, NEW u, NEW p, NEW E, NEW F, Unlinked(t, u, p, E, F)
    PROVE  Narrowed(t, u, E, F)
BY DEF Unlinked, Narrowed

\* Freeing a bucket leaves the elements their keys.
LEMMA NarrowReleased ==
    ASSUME NEW t, NEW u, NEW p, NEW E, Released(t, u, p, E), E \subseteq Addr
    PROVE  Narrowed(t, u, E, E)
BY DEF Released, Narrowed

\* A loop that goes on leaves the keys.
LEMMA KeysNext ==
    ASSUME NEW K \in Seq(Waiting), NEW key, NEW E, NEW F, RenameFree(key, E, K), AppliesNext(K, F)
    PROVE  RenameFree(key, E, stack')
<1>1. CASE stack' = K
 BY <1>1
<1>2. ASSUME NEW f \in Waiting, f.fn = "apply_func", stack' = Append(K, f)
      PROVE  RenameFree(key, E, stack')
 <2>1. f.fn \notin Renames
  BY <1>2 DEF Renames
 <2> QED BY <1>2, <2>1, RenamePush
<1> QED BY <1>1, <1>2 DEF AppliesNext

\* A destructor is called for an element of table t.
LEMMA KeysTaken ==
    ASSUME NEW t, NEW loop \in Loops \cup Graceful, NEW p, NEW next, NEW E, NEW K \in Seq(Waiting),
           Taken(t, loop, p, next, E, K), Distinct(t.key, E), RenameFree(t.key, E, K)
    PROVE  Distinct(ht'.key, Listed') /\ RenameFree(ht'.key, Listed', stack')
<1>1. Unlinked(t, ht', p, E, Listed')
 BY DEF Taken
<1>2. PICK f \in Waiting : f.fn = loop /\ f.p = p /\ f.next = next /\ f.data = NULL /\ f.key = NoKey
                           /\ stack' = Append(K, f)
 BY DEF Taken
<1>3. Narrowed(t, ht', E, Listed')
 BY <1>1, NarrowUnlinked
<1>4. Distinct(ht'.key, Listed') /\ RenameFree(ht'.key, Listed', K)
 BY <1>3, KeysNarrow
<1>5. f.fn \notin Renames
 BY <1>2 DEF Renames, Loops, Graceful
<1>6. RenameFree(ht'.key, Listed', stack')
 BY <1>2, <1>4, <1>5, RenamePush
<1> QED BY <1>4, <1>6

\* No destructor that zend_hash_update_current_key waits for uses the table.
RenamesCalm == "del" \notin Reentrant \/ "update_current_key" \notin Functions

\* Then none that renames has another function inside, but its own deletion.
LEMMA CalmRenames == RenamesCalm => Calm(Renames)
<1>1. "update_current_key" \notin Reentrant
 BY ReentrantAssumption
<1> QED BY <1>1 DEF RenamesCalm, Calm, Renames

KeysOK == Distinct(ht.key, Listed) /\ RenameFree(ht.key, Listed, stack)

\* What the invariant of the keys says.
LEMMA KeysFacts ==
    ASSUME KeysInv
    PROVE  /\ StructureInv /\ KeysOK /\ Distinct(ht.key, Listed) /\ RenameFree(ht.key, Listed, stack)
           /\ stack \in Seq(Waiting) /\ Listed \subseteq Addr
BY InvFacts DEF KeysInv, KeysOK

\* A step that leaves keys, elements and stack.
LEMMA KeysStay ==
    ASSUME KeysOK, ht'.key = ht.key, Listed' = Listed, stack' = stack
    PROVE  KeysOK'
BY DEF KeysOK, Distinct, RenameFree

\* An insertion of a key the table does not have keeps the keys distinct.
LEMMA KeysInserted ==
    ASSUME KeysInv, RenamesCalm, NEW fn, MayCall(fn), NEW p, NEW k, NEW d, Inserted(p, k, d)
    PROVE  KeysOK'
<1>1. StructureInv /\ Distinct(ht.key, Listed) /\ Listed \subseteq Addr
 BY KeysFacts
<1>2. None(Renames, stack)
 BY <1>1, CalmRenames, NoneCalled
<1>3. stack' = stack
 BY DEF Inserted
<1>4. RenameFree(ht'.key, Listed', stack')
 BY <1>2, <1>3, NoneFree
<1>5. /\ p \in Addr /\ p \notin Listed
      /\ \A x : x \in Listed' <=> x \in Listed \/ x = p
      /\ \A q \in Addr : ht'.key[q] = IF q = p THEN k ELSE ht.key[q]
      /\ \A q \in Listed : ht.key[q] # k
 BY DEF Inserted
<1>6. ASSUME NEW x \in Listed', NEW y \in Listed', ht'.key[x] = ht'.key[y] PROVE x = y
 BY <1>1, <1>5, <1>6 DEF Distinct
<1> QED BY <1>4, <1>6 DEF KeysOK, Distinct

\* The steps that store keep the keys distinct.
LEMMA KeysStoring ==
    ASSUME KeysInv, RenamesCalm,
           \/ \E d \in Data : NextInsert(d) \/ \E k \in Keys : Add(k, d) \/ Update(k, d)
           \/ UpdateReturns
    PROVE  KeysOK'
<1>0. /\ StructureInv /\ KeysOK /\ Distinct(ht.key, Listed) /\ RenameFree(ht.key, Listed, stack)
      /\ stack \in Seq(Waiting) /\ Listed \subseteq Addr
 BY KeysFacts
<1>1. ASSUME NEW d \in Data, NextInsert(d) PROVE KeysOK'
 <2>1. StructureInv' /\ ht.nNextFreeElement \in Nat /\ \E p : Inserted(p, Numeric(ht.nNextFreeElement), d)
  BY <1>0, <1>1, StepNextInsert
 <2>2. PICK k, p : k = Numeric(ht.nNextFreeElement) /\ Inserted(p, k, d)
  BY <2>1
 <2>3. MayCall("next_insert")
  BY <1>1 DEF NextInsert
 <2> QED BY <2>2, <2>3, KeysInserted
<1>2. ASSUME NEW d \in Data, NEW k \in Keys, Add(k, d) PROVE KeysOK'
 <2>1. StructureInv' /\ \E p : Inserted(p, k, d)
  BY <1>0, <1>2, StepAdd
 <2>2. PICK p : Inserted(p, k, d)
  BY <2>1
 <2>3. MayCall("add")
  BY <1>2 DEF Add
 <2> QED BY <2>2, <2>3, KeysInserted
<1>3. ASSUME NEW d \in Data, NEW k \in Keys, Update(k, d) PROVE KeysOK'
 <2>1. /\ StructureInv' /\ Listed' = Listed /\ ht' = ht
       /\ \E f \in Waiting : /\ stack' = Append(stack, f) /\ f.fn = "update" /\ f.data = d /\ f.key = k
                             /\ f.p \in Listed /\ f.p \in Addr /\ owned' = owned \ {ht.pData[f.p]}
  BY <1>0, <1>3, StepUpdate
 <2>2. PICK f \in Waiting : stack' = Append(stack, f) /\ f.fn = "update"
  BY <2>1
 <2>3. f.fn \notin Renames
  BY <2>2 DEF Renames
 <2>4. RenameFree(ht.key, Listed, stack')
  BY <1>0, <2>2, <2>3, RenamePush
 <2> QED BY <1>0, <2>1, <2>4 DEF KeysOK
<1>4. CASE UpdateReturns
 <2>1. /\ StructureInv' /\ Listed' = Listed
          /\ Top.fn = "update" /\ stack # <<>> /\ Top.p \in Addr /\ Top.key \in Stored /\ Top.data \in Data \cup {NULL}
          /\ \/ /\ ht' = ht /\ stack' = stack /\ owned' = owned /\ broken' # "no" /\ Top.p \notin Listed
             \/ /\ stack' = Front(stack) /\ ht'.key = ht.key /\ Top.p \in Listed
                /\ \A q \in Addr : ht'.pData[q] = IF q = Top.p THEN Top.data ELSE ht.pData[q]
                /\ ht'.nNextFreeElement = NextFree(ht, Top.key)
                /\ owned' = owned \cup {Top.data} /\ broken' = broken
  BY <1>0, <1>4, StepUpdateReturns
 <2>2. RenameFree(ht.key, Listed, Front(stack))
  BY <1>0, <2>1, RenamePop
 <2>3. CASE ht' = ht /\ stack' = stack
  BY <1>0, <2>1, <2>3, KeysStay
 <2>4. CASE stack' = Front(stack) /\ ht'.key = ht.key
  BY <1>0, <2>1, <2>2, <2>4 DEF KeysOK
 <2> QED BY <2>1, <2>3, <2>4
<1> QED BY <1>1, <1>2, <1>3, <1>4

\* The element that gets key k is the only one that has it.
LEMMA KeysMoved ==
    ASSUME NEW t, NEW u, NEW p, NEW q, NEW k, NEW E, NEW F, Moved(t, u, p, q, k, E, F), Distinct(t.key, E),
           \A x \in E : t.key[x] # k
    PROVE  Distinct(u.key, F)
<1>1. /\ \A x : x \in F <=> x = q \/ (x \in E /\ x # p)
      /\ \A x \in E : x # p => u.key[x] = t.key[x]
      /\ u.key[q] = k
 BY DEF Moved
<1>2. ASSUME NEW x \in F, NEW y \in F, u.key[x] = u.key[y] PROVE x = y
 BY <1>1, <1>2 DEF Distinct
<1> QED BY <1>2 DEF Distinct

\* The steps that delete or rename keep the keys distinct.
LEMMA KeysDeleting ==
    ASSUME KeysInv, RenamesCalm,
           \/ \E k \in Keys : zend_hash_del(k) \/ zend_hash_update_current_key(k)
           \/ DelReturns \/ UpdateCurrentKeyGoesOn
    PROVE  KeysOK'
<1>0. /\ StructureInv /\ KeysOK /\ Distinct(ht.key, Listed) /\ RenameFree(ht.key, Listed, stack)
      /\ stack \in Seq(Waiting) /\ Listed \subseteq Addr
 BY KeysFacts
<1>1. ASSUME NEW k \in Keys, zend_hash_del(k) PROVE KeysOK'
 <2>1. /\ StructureInv'
       /\ \E p \in Listed : \E f \in Waiting :
               /\ Unlinked(ht, ht', p, Listed, Listed') /\ owned' = owned \ {ht.pData[p]}
               /\ f.fn = "del" /\ f.p = p /\ f.key = NoKey /\ f.data = NULL /\ stack' = Append(stack, f)
  BY <1>0, <1>1, StepDel
 <2>2. PICK p \in Listed, f \in Waiting :
               Unlinked(ht, ht', p, Listed, Listed') /\ f.fn = "del" /\ stack' = Append(stack, f)
  BY <2>1
 <2>3. Narrowed(ht, ht', Listed, Listed')
  BY <2>2, NarrowUnlinked
 <2>4. Distinct(ht'.key, Listed') /\ RenameFree(ht'.key, Listed', stack)
  BY <1>0, <2>3, KeysNarrow
 <2>5. f.fn \notin Renames
  BY <2>2 DEF Renames
 <2>6. RenameFree(ht'.key, Listed', stack')
  BY <1>0, <2>2, <2>4, <2>5, RenamePush
 <2> QED BY <2>4, <2>6 DEF KeysOK
<1>2. ASSUME NEW k \in Keys, zend_hash_update_current_key(k) PROVE KeysOK'
 <2>1. /\ StructureInv'
       /\ \E f \in Waiting :
               /\ f.fn = "update_current_key" /\ f.p \in Listed /\ f.key = k /\ f.data = NULL
               /\ \/ /\ stack' = Append(stack, f) /\ ht' = ht /\ owned' = owned /\ Listed' = Listed
                     /\ \A x \in Listed : ht.key[x] # k
                  \/ \E p \in Listed : \E g \in Waiting :
                       /\ Unlinked(ht, ht', p, Listed, Listed') /\ owned' = owned \ {ht.pData[p]}
                       /\ g.fn = "del" /\ g.p = p /\ g.key = NoKey /\ g.data = NULL
                       /\ stack' = Append(Append(stack, f), g) /\ ht.key[p] = k /\ p # f.p
  BY <1>0, <1>2, StepRenameCalled
 <2>2. PICK f \in Waiting :
               /\ f.fn = "update_current_key" /\ f.p \in Listed /\ f.key = k /\ f.data = NULL
               /\ \/ /\ stack' = Append(stack, f) /\ ht' = ht /\ owned' = owned /\ Listed' = Listed
                     /\ \A x \in Listed : ht.key[x] # k
                  \/ \E p \in Listed : \E g \in Waiting :
                       /\ Unlinked(ht, ht', p, Listed, Listed') /\ owned' = owned \ {ht.pData[p]}
                       /\ g.fn = "del" /\ g.p = p /\ g.key = NoKey /\ g.data = NULL
                       /\ stack' = Append(Append(stack, f), g) /\ ht.key[p] = k /\ p # f.p
  BY <2>1
 <2>3. PICK K : K = Append(stack, f)
  OBVIOUS
 <2>4. CASE /\ stack' = Append(stack, f) /\ ht' = ht /\ Listed' = Listed
            /\ \A x \in Listed : ht.key[x] # k
  <3>1. f.fn \in Renames => \A x \in Listed : ht.key[x] # f.key
   BY <2>2, <2>4
  <3>2. RenameFree(ht.key, Listed, K)
   BY <1>0, <2>3, <3>1, RenamePush
  <3> QED BY <1>0, <2>3, <2>4, <3>2 DEF KeysOK
 <2>5. ASSUME NEW p \in Listed, NEW g \in Waiting,
              Unlinked(ht, ht', p, Listed, Listed'), g.fn = "del",
              stack' = Append(Append(stack, f), g), ht.key[p] = k
       PROVE  KeysOK'
  <3>1. Narrowed(ht, ht', Listed, Listed')
   BY <2>5, NarrowUnlinked
  <3>2. Distinct(ht'.key, Listed') /\ RenameFree(ht'.key, Listed', stack)
   BY <1>0, <3>1, KeysNarrow
  <3>3. \A x \in Listed' : ht'.key[x] # k
   <4>1. \A x \in Listed' : x \in Listed /\ x # p /\ ht'.key[x] = ht.key[x]
    BY <2>5 DEF Unlinked
   <4> QED BY <1>0, <2>5, <4>1 DEF Distinct
  <3>4. f.fn \in Renames => \A x \in Listed' : ht'.key[x] # f.key
   BY <2>2, <3>3
  <3>5. RenameFree(ht'.key, Listed', K)
   BY <1>0, <2>3, <3>2, <3>4, RenamePush
  <3>6. g.fn \notin Renames
   BY <2>5 DEF Renames
  <3>7. K \in Seq(Waiting)
   BY <1>0, <2>3, SeqPush
  <3>8. stack' = Append(K, g)
   BY <2>3, <2>5
  <3>9. RenameFree(ht'.key, Listed', stack')
   BY <3>5, <3>6, <3>7, <3>8, RenamePush
  <3> QED BY <3>2, <3>9 DEF KeysOK
 <2> QED BY <2>2, <2>4, <2>5
<1>3. CASE DelReturns
 <2>1. /\ StructureInv' /\ Listed' = Listed /\ Released(ht, ht', Top.p, Listed)
       /\ stack # <<>> /\ Top.fn = "del" /\ stack' = Front(stack) /\ owned' = owned
  BY <1>0, <1>3, StepDelReturns
 <2>2. RenameFree(ht.key, Listed, Front(stack))
  BY <1>0, <2>1, RenamePop
 <2>3. Narrowed(ht, ht', Listed, Listed)
  BY <1>0, <2>1, NarrowReleased
 <2>4. Distinct(ht'.key, Listed) /\ RenameFree(ht'.key, Listed, Front(stack))
  BY <1>0, <2>2, <2>3, KeysNarrow
 <2> QED BY <2>1, <2>4 DEF KeysOK
<1>4. CASE UpdateCurrentKeyGoesOn
 <2>1. /\ StructureInv'
       /\ stack # <<>> /\ Top.fn = "update_current_key" /\ broken = "no" /\ Top.key \in Stored
       /\ \/ Broke /\ Listed' = Listed /\ Top.p \notin Listed
          \/ /\ stack' = Front(stack) /\ owned' = owned /\ broken' = broken /\ Top.p \in Listed
             /\ \E q : Moved(ht, ht', Top.p, q, Top.key, Listed, Listed')
  BY <1>0, <1>4, StepRenamed
 <2>2. \A x \in Listed : ht.key[x] # Top.key
  <3>1. Last(stack).fn \in Renames
   BY <2>1 DEF Top, Renames
  <3>2. Last(stack).fn \in Renames => \A x \in Listed : ht.key[x] # Last(stack).key
   BY <1>0, <2>1, RenamePop
  <3> QED BY <3>1, <3>2 DEF Top
 <2>3. None(Renames, Front(stack))
  <3>1. Last(stack).fn # "del"
   BY <2>1 DEF Top
  <3> QED BY <1>0, <2>1, <3>1, CalmRenames, NoneUnder
 <2>4. CASE Broke
  BY <1>0, <2>1, <2>4, KeysStay DEF Broke
 <2>5. ASSUME NEW q, Moved(ht, ht', Top.p, q, Top.key, Listed, Listed'), stack' = Front(stack) PROVE KeysOK'
  <3>1. Distinct(ht'.key, Listed')
   BY <1>0, <2>2, <2>5, KeysMoved
  <3>2. RenameFree(ht'.key, Listed', stack')
   BY <2>3, <2>5, NoneFree
  <3> QED BY <3>1, <3>2 DEF KeysOK
 <2> QED BY <2>1, <2>4, <2>5
<1> QED BY <1>1, <1>2, <1>3, <1>4

\* A sort that renumbers gives each element its own number.
LEMMA KeysOrdered ==
    ASSUME NEW t, NEW u, NEW E, E \subseteq Addr, NEW r, NEW renumber \in BOOLEAN, Ordered(t, u, E, r, renumber),
           Distinct(t.key, E)
    PROVE  Distinct(u.key, E)
<1>1. CASE ~renumber
 BY <1>1 DEF Ordered
<1>2. CASE renumber
 <2>1. /\ r \in Seq(Addr) /\ ToSet(r) = E
       /\ \A i \in 1 .. Len(r) : u.key[r[i]] = Numeric(i - 1)
  BY <1>2 DEF Ordered
 <2>2. ASSUME NEW x \in E, NEW y \in E, u.key[x] = u.key[y] PROVE x = y
  <3>1. PICK i \in 1 .. Len(r) : r[i] = x
   BY <2>1, PlaceOf
  <3>2. PICK j \in 1 .. Len(r) : r[j] = y
   BY <2>1, PlaceOf
  <3>3. Numeric(i - 1) = Numeric(j - 1)
   BY <2>1, <2>2, <3>1, <3>2
  <3>4. i - 1 = j - 1
   BY <3>3 DEF Numeric
  <3>5. i = j
   BY <2>1, <3>4
  <3> QED BY <3>1, <3>2, <3>5
 <2> QED BY <2>2 DEF Distinct
<1> QED BY <1>1, <1>2

\* Moving the pointer, sorting and emptying keep the keys distinct.
LEMMA KeysMoving ==
    ASSUME KeysInv, RenamesCalm,
           \/ PointerMoves \/ zend_hash_get_pointer \/ zend_hash_clean \/ _zend_hash_init
           \/ \E renumber \in BOOLEAN : zend_hash_sort(renumber)
    PROVE  KeysOK'
<1>0. /\ StructureInv /\ KeysOK /\ Distinct(ht.key, Listed) /\ RenameFree(ht.key, Listed, stack)
      /\ stack \in Seq(Waiting) /\ Listed \subseteq Addr
 BY KeysFacts
<1>1. CASE PointerMoves
 <2>1. StructureInv' /\ Listed' = Listed /\ Kept(ht, ht') /\ UNCHANGED <<stack, owned, broken>>
  BY <1>0, <1>1, StepPointer
 <2> QED BY <1>0, <2>1, KeysStay DEF Kept
<1>2. CASE zend_hash_get_pointer
 <2>1. StructureInv' /\ Listed' = Listed /\ UNCHANGED <<ht, stack, owned, broken>>
  BY <1>0, <1>2, StepSaved
 <2> QED BY <1>0, <2>1, KeysStay
<1>3. CASE zend_hash_clean
 <2>1. Listed' = {} /\ stack' = <<>>
  BY <1>0, <1>3, StepClean
 <2> QED BY <2>1 DEF KeysOK, Distinct, RenameFree
<1>4. CASE _zend_hash_init
 <2>1. Listed' = {} /\ stack' = <<>>
  BY <1>0, <1>4, StepInit
 <2> QED BY <2>1 DEF KeysOK, Distinct, RenameFree
<1>5. ASSUME NEW renumber \in BOOLEAN, zend_hash_sort(renumber) PROVE KeysOK'
 <2>1. /\ StructureInv' /\ Listed' = Listed
       /\ \/ Broke /\ List(ht) = <<>> /\ ht.nNumOfElements > 0
          \/ UNCHANGED <<stack, owned, broken>> /\ \E r : Ordered(ht, ht', Listed, r, renumber)
  BY <1>0, <1>5, StepSort
 <2>2. CASE Broke
  BY <1>0, <2>1, <2>2, KeysStay DEF Broke
 <2>3. ASSUME NEW r, Ordered(ht, ht', Listed, r, renumber), UNCHANGED <<stack, owned, broken>> PROVE KeysOK'
  <3>1. Distinct(ht'.key, Listed)
   BY <1>0, <2>3, KeysOrdered
  <3>2. MayCall("sort")
   BY <1>5 DEF zend_hash_sort
  <3>3. None(Renames, stack)
   BY <1>0, <3>2, CalmRenames, NoneCalled
  <3>4. RenameFree(ht'.key, Listed, stack)
   BY <3>3, NoneFree
  <3> QED BY <2>1, <2>3, <3>1, <3>4 DEF KeysOK
 <2> QED BY <2>1, <2>2, <2>3
<1> QED BY <1>1, <1>2, <1>3, <1>4, <1>5

\* The loops keep the keys distinct.
LEMMA KeysLoops ==
    ASSUME KeysInv,
           \/ \E loop \in Loops : zend_hash_apply(loop) \/ ApplyDeleterReturns(loop)
           \/ \E remove, stop \in BOOLEAN : ApplyFuncReturns(remove, stop)
           \/ \E loop \in Graceful : zend_hash_graceful_destroy(loop) \/ GracefulDeleterReturns(loop)
    PROVE  KeysOK'
<1>0. /\ StructureInv /\ KeysOK /\ Distinct(ht.key, Listed) /\ RenameFree(ht.key, Listed, stack)
      /\ stack \in Seq(Waiting) /\ Listed \subseteq Addr
 BY KeysFacts
<1>a. <<>> \in Seq(Waiting) /\ \A key, E : RenameFree(key, E, <<>>)
 BY DEF RenameFree
<1>1. ASSUME NEW loop \in Loops, zend_hash_apply(loop) PROVE KeysOK'
 <2>1. StructureInv' /\ Listed' = Listed /\ UNCHANGED <<ht, owned, broken>> /\ AppliesNext(stack, Listed)
  BY <1>0, <1>1, StepApply
 <2>2. RenameFree(ht.key, Listed, stack')
  BY <1>0, <2>1, KeysNext
 <2> QED BY <1>0, <2>1, <2>2 DEF KeysOK
<1>2. ASSUME NEW loop \in Loops, ApplyDeleterReturns(loop) PROVE KeysOK'
 <2>1. /\ StructureInv' /\ stack # <<>> /\ Top.fn = loop /\ broken = "no"
       /\ \/ /\ Broke /\ Listed' = Listed
             /\ ht.pListNext[Top.p] \notin Listed \cup {NULL} \/ Top.next \notin Listed \cup {NULL}
          \/ /\ Released(ht, ht', Top.p, Listed) /\ Listed' = Listed /\ UNCHANGED <<owned, broken>>
             /\ AppliesNext(Front(stack), Listed)
  BY <1>0, <1>2, StepApplyDeleter
 <2>2. RenameFree(ht.key, Listed, Front(stack)) /\ Front(stack) \in Seq(Waiting)
  BY <1>0, <2>1, RenamePop, SeqPop
 <2>3. CASE Broke
  BY <1>0, <2>1, <2>3, KeysStay DEF Broke
 <2>4. CASE Released(ht, ht', Top.p, Listed) /\ AppliesNext(Front(stack), Listed)
  <3>1. Narrowed(ht, ht', Listed, Listed)
   BY <1>0, <2>4, NarrowReleased
  <3>2. Distinct(ht'.key, Listed) /\ RenameFree(ht'.key, Listed, Front(stack))
   BY <1>0, <2>2, <3>1, KeysNarrow
  <3>3. RenameFree(ht'.key, Listed, stack')
   BY <2>2, <2>4, <3>2, KeysNext
  <3> QED BY <2>1, <3>2, <3>3 DEF KeysOK
 <2> QED BY <2>1, <2>3, <2>4
<1>3. ASSUME NEW remove \in BOOLEAN, NEW stop \in BOOLEAN, ApplyFuncReturns(remove, stop) PROVE KeysOK'
 <2>1. /\ StructureInv' /\ stack # <<>> /\ Top.fn = "apply_func" /\ broken = "no"
       /\ \/ Broke /\ Listed' = Listed /\ Top.p \notin Listed
          \/ /\ Top.p \in Listed
             /\ \E loop \in Loops : \E next : Taken(ht, loop, Top.p, next, Listed, Front(stack))
                                              /\ next \in Listed' \cup {NULL}
          \/ Top.p \in Listed /\ Listed' = Listed /\ UNCHANGED <<ht, owned, broken>> /\ AppliesNext(Front(stack), Listed)
  BY <1>0, <1>3, StepApplyFunc
 <2>2. RenameFree(ht.key, Listed, Front(stack)) /\ Front(stack) \in Seq(Waiting)
  BY <1>0, <2>1, RenamePop, SeqPop
 <2>3. CASE Broke /\ Listed' = Listed
  BY <1>0, <2>1, <2>3, KeysStay DEF Broke
 <2>4. ASSUME NEW loop \in Loops, NEW next, Taken(ht, loop, Top.p, next, Listed, Front(stack)) PROVE KeysOK'
  <3>1. loop \in Loops \cup Graceful
   OBVIOUS
  <3>2. Distinct(ht'.key, Listed') /\ RenameFree(ht'.key, Listed', stack')
   BY <1>0, <2>2, <2>4, <3>1, KeysTaken
  <3> QED BY <3>2 DEF KeysOK
 <2>5. CASE Listed' = Listed /\ UNCHANGED <<ht, owned, broken>> /\ AppliesNext(Front(stack), Listed)
  <3>1. RenameFree(ht.key, Listed, stack')
   BY <2>2, <2>5, KeysNext
  <3> QED BY <1>0, <2>5, <3>1 DEF KeysOK
 <2> QED BY <2>1, <2>3, <2>4, <2>5
<1>4. ASSUME NEW loop \in Graceful, zend_hash_graceful_destroy(loop) PROVE KeysOK'
 <2>1. /\ StructureInv' /\ stack = <<>> /\ broken = "no"
       /\ \/ Destroyed(ht) /\ Listed = {} /\ Listed' = Listed
          \/ \E p \in Listed : /\ Taken(ht, loop, p, NULL, Listed, <<>>)
                               /\ loop = "graceful_destroy" => p = ht.pListHead
  BY <1>0, <1>4, StepDestroy
 <2>2. CASE Destroyed(ht) /\ Listed' = Listed
  BY <1>0, <2>1, <2>2, KeysStay DEF Destroyed
 <2>3. ASSUME NEW p \in Listed, Taken(ht, loop, p, NULL, Listed, <<>>) PROVE KeysOK'
  <3>1. loop \in Loops \cup Graceful
   OBVIOUS
  <3>2. Distinct(ht'.key, Listed') /\ RenameFree(ht'.key, Listed', stack')
   BY <1>0, <1>a, <2>3, <3>1, KeysTaken
  <3> QED BY <3>2 DEF KeysOK
 <2> QED BY <2>1, <2>2, <2>3
<1>5. ASSUME NEW loop \in Graceful, GracefulDeleterReturns(loop) PROVE KeysOK'
 <2>1. /\ StructureInv' /\ stack # <<>> /\ Top.fn = loop /\ broken = "no" /\ Front(stack) = <<>>
       /\ \/ /\ Broke /\ Listed' = Listed /\ loop = "graceful_destroy"
             /\ ht.pListNext[Top.p] \notin Listed \cup {NULL}
          \/ \E t : /\ Released(ht, t, Top.p, Listed)
                    /\ \/ /\ Destroyed(t) /\ Listed' = Listed
                          /\ loop = "graceful_destroy" => ht.pListNext[Top.p] = NULL
                          /\ loop = "graceful_reverse_destroy" => Listed = {}
                       \/ \E p \in Listed : /\ Taken(t, loop, p, NULL, Listed, <<>>)
                                            /\ loop = "graceful_destroy" => p = ht.pListNext[Top.p]
  BY <1>0, <1>5, StepDestroyed
 <2>2. CASE Broke /\ Listed' = Listed
  BY <1>0, <2>1, <2>2, KeysStay DEF Broke
 <2>3. ASSUME NEW t, Released(ht, t, Top.p, Listed) PROVE Distinct(t.key, Listed)
  <3>1. Narrowed(ht, t, Listed, Listed)
   BY <1>0, <2>3, NarrowReleased
  <3> QED BY <1>0, <3>1, KeysNarrow
 <2>4. ASSUME NEW t, Released(ht, t, Top.p, Listed), Destroyed(t), Listed' = Listed PROVE KeysOK'
  <3>1. Distinct(t.key, Listed)
   BY <2>3, <2>4
  <3> QED BY <1>a, <2>4, <3>1 DEF KeysOK, Destroyed
 <2>5. ASSUME NEW t, Released(ht, t, Top.p, Listed), NEW p \in Listed, Taken(t, loop, p, NULL, Listed, <<>>) PROVE KeysOK'
  <3>1. loop \in Loops \cup Graceful /\ Distinct(t.key, Listed)
   BY <2>3, <2>5
  <3>2. Distinct(ht'.key, Listed') /\ RenameFree(ht'.key, Listed', stack')
   BY <1>0, <1>a, <2>5, <3>1, KeysTaken
  <3> QED BY <3>2 DEF KeysOK
 <2> QED BY <2>1, <2>2, <2>4, <2>5
<1> QED BY <1>1, <1>2, <1>3, <1>4, <1>5

\* With distinct keys and exact chains a look-up is exact.
LEMMA LookupStates == KeysInv => LookupExact
<1> SUFFICES ASSUME KeysInv PROVE LookupExact
 OBVIOUS
<1>1. PICK s : s = List(ht)
 OBVIOUS
<1>2. Table(ht, s) /\ Listed = ToSet(s) /\ Distinct(ht.key, Listed)
 BY <1>1, KeysFacts, InvFacts
<1>3. ASSUME NEW p \in Listed PROVE Lookup(ht, ht.key[p]) = p
 <2>1. p \in ToSet(s) /\ \A q \in ToSet(s) : ht.key[q] = ht.key[p] => q = p
  BY <1>2 DEF Distinct
 <2> QED BY <1>2, <2>1, LookupUnique
<1>4. ASSUME NEW k \in Keys PROVE Lookup(ht, k) \in Listed \cup {NULL}
 <2>1. k \in Stored
  BY KeysStored
 <2>2. Lookup(ht, k) = NULL \/ (Lookup(ht, k) \in ToSet(s) /\ ht.key[Lookup(ht, k)] = k)
  BY <1>2, <2>1, LookupFacts
 <2> QED BY <1>2, <2>2
<1> QED BY <1>3, <1>4 DEF LookupExact

\* It holds initially.
LEMMA KeysInit ==
    ASSUME Init
    PROVE  KeysInv
<1>1. StructureInv /\ Listed = {}
 BY StructureInit
<1>2. stack = <<>>
 BY DEF Init
<1> QED BY <1>1, <1>2 DEF KeysInv, Distinct, RenameFree

\* Every step keeps it.
LEMMA KeysStep ==
    ASSUME KeysInv, RenamesCalm, [Next]_vars
    PROVE  KeysInv'
<1>1. StructureInv /\ StructureInv'
 BY KeysFacts, StructureNext
<1>2. KeysOK'
 <2>1. CASE UNCHANGED vars
  <3>1. Listed' = Listed /\ ht' = ht /\ stack' = stack
   BY <2>1 DEF vars, Listed
  <3> QED BY <3>1, KeysFacts, KeysStay
 <2>2. CASE \/ \E d \in Data : NextInsert(d) \/ \E k \in Keys : Add(k, d) \/ Update(k, d)
            \/ UpdateReturns
  BY <2>2, KeysStoring
 <2>3. CASE \/ \E k \in Keys : zend_hash_del(k) \/ zend_hash_update_current_key(k)
            \/ DelReturns \/ UpdateCurrentKeyGoesOn
  BY <2>3, KeysDeleting
 <2>4. CASE \/ PointerMoves \/ zend_hash_get_pointer \/ zend_hash_clean \/ _zend_hash_init
            \/ \E renumber \in BOOLEAN : zend_hash_sort(renumber)
  BY <2>4, KeysMoving
 <2>5. CASE \/ \E loop \in Loops : zend_hash_apply(loop) \/ ApplyDeleterReturns(loop)
            \/ \E remove, stop \in BOOLEAN : ApplyFuncReturns(remove, stop)
            \/ \E loop \in Graceful : zend_hash_graceful_destroy(loop) \/ GracefulDeleterReturns(loop)
  BY <2>5, KeysLoops
 <2> QED BY <2>1, <2>2, <2>3, <2>4, <2>5 DEF Next, PointerMoves, Loops, Graceful
<1> QED BY <1>1, <1>2 DEF KeysInv, KeysOK

\* Unless zend_hash_del's destructor can use the table while
\* zend_hash_update_current_key_ex waits for that deletion, no key is twice in the
\* table and a look-up finds exactly the element with the key, through
\* insertions, new keys, renumbering sorts and every change of the mask.
THEOREM LookupCorrect ==
    ASSUME "del" \notin Reentrant \/ "update_current_key" \notin Functions
    PROVE  Spec => []LookupExact
<1>0. RenamesCalm
 BY DEF RenamesCalm
<1>1. Init => KeysInv
 BY KeysInit
<1>2. KeysInv /\ [Next]_vars => KeysInv'
 BY <1>0, KeysStep
<1> QED BY <1>1, <1>2, LookupStates, PTL DEF Spec

--------------------
(* Memory and values. *)

Silent == {"update", "graceful_destroy"}

\* No destructor of a replaced value, or called by zend_hash_graceful_destroy,
\* uses the table.
SilentCalm == Silent \cap Reentrant = {}

\* Then no other function runs inside those.
LEMMA CalmSilent == SilentCalm => Calm(Silent)
BY DEF SilentCalm, Calm, Silent

UpdateOnTop(K) == K # <<>> /\ Last(K).fn = "update"

\* The elements whose value is with the table.
Valued(E, K) == {p \in E : ~(UpdateOnTop(K) /\ p = Last(K).p)}

\* O are the values of E, each of one element.
Owns(t, E, O) ==
    /\ \A d : d \in O <=> \E p \in E : t.pData[p] = d
    /\ \A p, q \in E : t.pData[p] = t.pData[q] => p = q

\* The value on its way in is no element's; zend_hash_graceful_destroy goes
\* on with the first element.
TopOK(t, E, K, O, b) ==
    K # <<>> =>
       /\ Last(K).fn = "update" => Last(K).data \notin O /\ (b = "no" => Last(K).p \in E)
       /\ Last(K).fn = "graceful_destroy" /\ b = "no" => t.pListNext[Last(K).p] = t.pListHead

MemoryOK ==
    /\ Owns(ht, Valued(Listed, stack), owned)
    /\ TopOK(ht, Listed, stack, owned, broken)

MemoryInv ==
    /\ StructureInv
    /\ MemoryOK
    /\ inconsistent = "destroyed" => Listed = {}

\* On top there is none of these.
TopCalm(K) == K # <<>> => Last(K).fn \notin Silent

\* Then every element has its value, and nothing is asked of the top.
LEMMA TopCalmFacts ==
    ASSUME NEW K, TopCalm(K)
    PROVE  (\A E : Valued(E, K) = E) /\ \A t, E, O, b : TopOK(t, E, K, O, b)
BY DEF TopCalm, Silent, Valued, UpdateOnTop, TopOK

\* Where none of these waits there is none on top.
LEMMA NoneTop ==
    ASSUME NEW K \in Seq(Waiting), None(Silent, K)
    PROVE  TopCalm(K)
<1>1. ASSUME K # <<>> PROVE Last(K).fn \notin Silent
 <2>1. Len(K) \in 1 .. Len(K) /\ Last(K) = K[Len(K)]
  BY <1>1 DEF Last
 <2> QED BY <2>1 DEF None
<1> QED BY <1>1 DEF TopCalm

\* Where code outside zend_hash.c runs there is none on top.
LEMMA CallsCalm ==
    ASSUME StructureInv, SilentCalm, NEW fn, MayCall(fn)
    PROVE  TopCalm(stack)
<1>1. None(Silent, stack)
 BY CalmSilent, NoneCalled
<1>2. stack \in Seq(Waiting)
 BY InvFacts
<1> QED BY <1>1, <1>2, NoneTop

\* Nor below the function on top.
LEMMA BelowCalm ==
    ASSUME StructureInv, SilentCalm, stack # <<>>, NEW K2, K2 = Front(stack)
    PROVE  TopCalm(K2) /\ None(Silent, K2) /\ K2 \in Seq(Waiting)
<1>1. stack \in Seq(Waiting)
 BY InvFacts
<1>2. Front(stack) \in Seq(Waiting)
 BY <1>1, SeqPop
<1>3. "update_current_key" \notin Silent
 BY DEF Silent
<1>4. None(Silent, K2)
 BY <1>3, CalmSilent, NoneBelow
<1> QED BY <1>2, <1>4, NoneTop

\* Another function goes on top.
LEMMA PushCalm ==
    ASSUME NEW T, NEW K \in Seq(T), NEW f \in T, f.fn \notin Silent, NEW K2, K2 = Append(K, f)
    PROVE  TopCalm(K2)
<1>1. Last(Append(K, f)) = f /\ Append(K, f) # <<>>
 BY TopOfAppend
<1> QED BY <1>1 DEF TopCalm

\* All of E have the values they had.
LEMMA OwnsSame ==
    ASSUME NEW t, NEW u, NEW E, NEW O, Owns(t, E, O), \A p \in E : u.pData[p] = t.pData[p]
    PROVE  Owns(u, E, O)
<1>1. \A d : (\E p \in E : u.pData[p] = d) <=> (\E p \in E : t.pData[p] = d)
 OBVIOUS
<1> QED BY <1>1 DEF Owns

\* One value goes.
LEMMA OwnsRemove ==
    ASSUME NEW t, NEW u, NEW E, NEW O, Owns(t, E, O), NEW F, NEW p \in E, \A x : x \in F <=> x \in E /\ x # p,
           \A x \in F : u.pData[x] = t.pData[x], NEW P, P = O \ {t.pData[p]}
    PROVE  Owns(u, F, P)
<1>1. \A x, y \in E : t.pData[x] = t.pData[y] => x = y
 BY DEF Owns
<1>2. \A x, y \in F : u.pData[x] = u.pData[y] => x = y
 BY <1>1
<1>3. ASSUME NEW d, d \in P PROVE \E x \in F : u.pData[x] = d
 <2>1. PICK x \in E : t.pData[x] = d
  BY <1>3 DEF Owns
 <2>2. x # p
  BY <1>3, <2>1
 <2> QED BY <2>1, <2>2
<1>4. ASSUME NEW x \in F PROVE u.pData[x] \in P
 <2>1. x \in E /\ x # p /\ u.pData[x] = t.pData[x]
  BY <1>4
 <2>2. t.pData[x] \in O /\ t.pData[x] # t.pData[p]
  BY <1>1, <2>1 DEF Owns
 <2> QED BY <2>1, <2>2
<1> QED BY <1>2, <1>3, <1>4 DEF Owns

\* One value comes.
LEMMA OwnsAdd ==
    ASSUME NEW t, NEW u, NEW E, NEW O, Owns(t, E, O), NEW F, NEW p, p \notin E, \A x : x \in F <=> x \in E \/ x = p,
           \A x \in E : u.pData[x] = t.pData[x], u.pData[p] \notin O, NEW P, P = O \cup {u.pData[p]}
    PROVE  Owns(u, F, P)
<1>1. \A x, y \in E : t.pData[x] = t.pData[y] => x = y
 BY DEF Owns
<1>2. \A x \in E : t.pData[x] \in O
 BY DEF Owns
<1>3. ASSUME NEW x \in F, NEW y \in F, u.pData[x] = u.pData[y] PROVE x = y
 <2>1. CASE x = p \/ y = p
  BY <1>2, <1>3, <2>1
 <2>2. CASE x # p /\ y # p
  BY <1>1, <1>3, <2>2
 <2> QED BY <2>1, <2>2
<1>4. ASSUME NEW d, d \in P PROVE \E x \in F : u.pData[x] = d
 <2>1. CASE d = u.pData[p]
  BY <2>1
 <2>2. CASE d \in O
  <3>1. PICK x \in E : t.pData[x] = d
   BY <2>2 DEF Owns
  <3> QED BY <3>1
 <2> QED BY <1>4, <2>1, <2>2
<1>5. ASSUME NEW x \in F PROVE u.pData[x] \in P
 BY <1>2, <1>5
<1> QED BY <1>3, <1>4, <1>5 DEF Owns

\* What the invariant of memory says.
LEMMA MemoryFacts ==
    ASSUME MemoryInv
    PROVE  /\ StructureInv /\ MemoryOK /\ stack \in Seq(Waiting) /\ Listed \subseteq Addr
           /\ Owns(ht, Valued(Listed, stack), owned) /\ TopOK(ht, Listed, stack, owned, broken)
           /\ inconsistent = "destroyed" => Listed = {}
BY InvFacts DEF MemoryInv, MemoryOK

\* A step that leaves none of these on top.
LEMMA MemoryCalm ==
    ASSUME TopCalm(stack'), Owns(ht', Listed', owned')
    PROVE  MemoryOK'
<1>1. Valued(Listed', stack') = Listed' /\ TopOK(ht', Listed', stack', owned', broken')
 BY TopCalmFacts
<1>2. Owns(ht', Valued(Listed', stack'), owned')
 BY <1>1
<1> QED BY <1>1, <1>2 DEF MemoryOK

\* A function that goes on with a bucket that is gone leaves memory as it is.
LEMMA MemoryBroke ==
    ASSUME MemoryInv, Broke, Listed' = Listed
    PROVE  MemoryOK'
<1>1. Owns(ht, Valued(Listed, stack), owned) /\ TopOK(ht, Listed, stack, owned, broken)
 BY MemoryFacts
<1>2. Owns(ht', Valued(Listed', stack'), owned')
 BY <1>1 DEF Broke
<1>3. TopOK(ht', Listed', stack', owned', broken')
 BY <1>1 DEF Broke, TopOK
<1> QED BY <1>2, <1>3 DEF MemoryOK

\* A new element brings its value.
LEMMA MemoryInserted ==
    ASSUME MemoryInv, SilentCalm, NEW fn, MayCall(fn), NEW p, NEW k, NEW d, Inserted(p, k, d)
    PROVE  MemoryOK'
<1>1. /\ StructureInv /\ Listed \subseteq Addr /\ Owns(ht, Valued(Listed, stack), owned)
 BY MemoryFacts
<1>2. TopCalm(stack)
 BY <1>1, CallsCalm
<1>3. Owns(ht, Listed, owned)
 BY <1>1, <1>2, TopCalmFacts
<1>4. /\ p \in Addr /\ p \notin Listed /\ d \in Values
      /\ \A x : x \in Listed' <=> x \in Listed \/ x = p
      /\ \A q \in Addr : ht'.pData[q] = IF q = p THEN d ELSE ht.pData[q]
      /\ owned' = owned \cup {d} /\ stack' = stack
 BY DEF Inserted
<1>5. d \notin owned
 BY <1>4 DEF Values
<1>6. /\ \A x \in Listed : ht'.pData[x] = ht.pData[x]
      /\ ht'.pData[p] = d
 BY <1>1, <1>4
<1>7. Owns(ht', Listed', owned')
 <2>1. ht'.pData[p] \notin owned /\ owned' = owned \cup {ht'.pData[p]}
  BY <1>4, <1>5, <1>6
 <2>2. p \notin Listed /\ (\A x : x \in Listed' <=> x \in Listed \/ x = p)
       /\ (\A x \in Listed : ht'.pData[x] = ht.pData[x])
  BY <1>4, <1>6
 <2> QED BY ONLY <1>3, <2>1, <2>2, OwnsAdd
<1>8. TopCalm(stack')
 BY <1>2, <1>4
<1> QED BY <1>7, <1>8, MemoryCalm

\* The value of one element goes and another is to come.
LEMMA MemoryUpdate ==
    ASSUME MemoryInv, SilentCalm, NEW d \in Data, NEW k \in Keys, Update(k, d)
    PROVE  MemoryOK'
<1>0. /\ StructureInv /\ Listed \subseteq Addr /\ Owns(ht, Valued(Listed, stack), owned)
      /\ stack \in Seq(Waiting)
 BY MemoryFacts
<1>1. TopCalm(stack) /\ d \notin owned
 <2>1. MayCall("update") /\ d \in Values
  BY DEF Update, MayWait
 <2>2. TopCalm(stack)
  BY <1>0, <2>1, CallsCalm
 <2> QED BY <2>1, <2>2 DEF Values
<1>2. Owns(ht, Listed, owned)
 BY <1>0, <1>1, TopCalmFacts
<1>3. /\ Listed' = Listed /\ ht' = ht
      /\ \E f \in Waiting : /\ stack' = Append(stack, f) /\ f.fn = "update" /\ f.data = d /\ f.key = k
                            /\ f.p \in Listed /\ f.p \in Addr /\ owned' = owned \ {ht.pData[f.p]}
 BY <1>0, StepUpdate
<1>4. PICK f \in Waiting : /\ stack' = Append(stack, f) /\ f.fn = "update" /\ f.data = d
                           /\ f.p \in Listed /\ owned' = owned \ {ht.pData[f.p]}
 BY <1>3
<1>5. Last(stack') = f /\ stack' # <<>>
 BY <1>0, <1>4, TopOfAppend
<1>6. \A x : x \in Valued(Listed, stack') <=> x \in Listed /\ x # f.p
 BY <1>4, <1>5 DEF Valued, UpdateOnTop
<1>7. Owns(ht, Valued(Listed, stack'), owned')
 <2>1. PICK F, P, p : F = Valued(Listed, stack') /\ P = owned' /\ p = f.p
  OBVIOUS
 <2>2. p \in Listed /\ (\A x : x \in F <=> x \in Listed /\ x # p) /\ P = owned \ {ht.pData[p]}
  BY <1>4, <1>6, <2>1
 <2>3. \A x \in F : ht.pData[x] = ht.pData[x]
  OBVIOUS
 <2>4. Owns(ht, F, P)
  BY ONLY <1>2, <2>2, <2>3, OwnsRemove
 <2> QED BY <2>1, <2>4
<1>8. TopOK(ht, Listed, stack', owned', broken')
 <2>1. Last(stack').data \notin owned' /\ Last(stack').p \in Listed
  BY <1>1, <1>4, <1>5
 <2>2. Last(stack').fn # "graceful_destroy"
  BY <1>4, <1>5
 <2> QED BY <2>1, <2>2 DEF TopOK
<1> QED BY <1>3, <1>7, <1>8 DEF MemoryOK

\* The new value comes, and the element is still there.
LEMMA MemoryUpdateReturns ==
    ASSUME MemoryInv, SilentCalm, UpdateReturns
    PROVE  MemoryOK'
<1>0. /\ StructureInv /\ Listed \subseteq Addr /\ Owns(ht, Valued(Listed, stack), owned)
      /\ TopOK(ht, Listed, stack, owned, broken)
      /\ stack \in Seq(Waiting)
 BY MemoryFacts
<1>1. /\ Listed' = Listed
      /\ Top.fn = "update" /\ stack # <<>> /\ Top.p \in Addr /\ Top.key \in Stored /\ Top.data \in Data \cup {NULL}
      /\ \/ /\ ht' = ht /\ stack' = stack /\ owned' = owned /\ broken' # "no" /\ Top.p \notin Listed
         \/ /\ stack' = Front(stack) /\ ht'.key = ht.key /\ Top.p \in Listed
            /\ \A q \in Addr : ht'.pData[q] = IF q = Top.p THEN Top.data ELSE ht.pData[q]
            /\ ht'.nNextFreeElement = NextFree(ht, Top.key)
            /\ owned' = owned \cup {Top.data} /\ broken' = broken
 BY <1>0, StepUpdateReturns
<1>2. broken = "no"
 BY DEF UpdateReturns, Returning
<1>3. Top.p \in Listed /\ Top.data \notin owned
 BY <1>0, <1>1, <1>2 DEF TopOK, Top
<1>4. /\ stack' = Front(stack) /\ owned' = owned \cup {Top.data}
      /\ \A q \in Addr : ht'.pData[q] = IF q = Top.p THEN Top.data ELSE ht.pData[q]
 BY <1>1, <1>3
<1>5. PICK E, p, d : E = Valued(Listed, stack) /\ p = Top.p /\ d = Top.data
 OBVIOUS
<1>6. \A x : x \in E <=> x \in Listed /\ x # p
 BY <1>1, <1>5 DEF Valued, UpdateOnTop, Top
<1>7. Owns(ht', Listed', owned')
 <2>1. p \notin E /\ (\A x : x \in Listed' <=> x \in E \/ x = p)
  BY <1>1, <1>3, <1>5, <1>6
 <2>2. (\A x \in E : ht'.pData[x] = ht.pData[x]) /\ ht'.pData[p] = d
  BY <1>0, <1>1, <1>4, <1>5, <1>6
 <2>3. ht'.pData[p] \notin owned /\ owned' = owned \cup {ht'.pData[p]}
  BY <1>3, <1>4, <1>5, <2>2
 <2>4. Owns(ht, E, owned)
  BY <1>0, <1>5
 <2> QED BY ONLY <2>1, <2>2, <2>3, <2>4, OwnsAdd
<1>8. TopCalm(stack')
 BY <1>0, <1>1, <1>4, BelowCalm
<1> QED BY <1>7, <1>8, MemoryCalm

\* The steps that store.
LEMMA MemoryStoring ==
    ASSUME MemoryInv, SilentCalm,
           \/ \E d \in Data : NextInsert(d) \/ \E k \in Keys : Add(k, d) \/ Update(k, d)
           \/ UpdateReturns
    PROVE  MemoryOK'
<1>0. StructureInv
 BY MemoryFacts
<1>1. ASSUME NEW d \in Data, NextInsert(d) PROVE MemoryOK'
 <2>1. StructureInv' /\ ht.nNextFreeElement \in Nat /\ \E p : Inserted(p, Numeric(ht.nNextFreeElement), d)
  BY <1>0, <1>1, StepNextInsert
 <2>2. PICK k, p : k = Numeric(ht.nNextFreeElement) /\ Inserted(p, k, d)
  BY <2>1
 <2>3. MayCall("next_insert")
  BY <1>1 DEF NextInsert
 <2> QED BY <2>2, <2>3, MemoryInserted
<1>2. ASSUME NEW d \in Data, NEW k \in Keys, Add(k, d) PROVE MemoryOK'
 <2>1. StructureInv' /\ \E p : Inserted(p, k, d)
  BY <1>0, <1>2, StepAdd
 <2>2. PICK p : Inserted(p, k, d)
  BY <2>1
 <2>3. MayCall("add")
  BY <1>2 DEF Add
 <2> QED BY <2>2, <2>3, MemoryInserted
<1> QED BY <1>1, <1>2, MemoryUpdate, MemoryUpdateReturns

\* A value moves with its element to another bucket.
LEMMA OwnsMoved ==
    ASSUME NEW t, NEW u, NEW p, NEW q, NEW k, NEW E, NEW F, Moved(t, u, p, q, k, E, F), p \in E,
           NEW O, Owns(t, E, O)
    PROVE  Owns(u, F, O)
<1>1. /\ q = p \/ q \notin E
      /\ \A x : x \in F <=> x = q \/ (x \in E /\ x # p)
      /\ \A x \in E : x # p => u.pData[x] = t.pData[x]
      /\ u.pData[q] = t.pData[p]
 BY DEF Moved
<1>2. /\ \A d : d \in O <=> \E x \in E : t.pData[x] = d
      /\ \A x, y \in E : t.pData[x] = t.pData[y] => x = y
 BY DEF Owns
<1>3. ASSUME NEW x \in F, NEW y \in F, u.pData[x] = u.pData[y] PROVE x = y
 <2>1. CASE x = q /\ y = q
  BY <2>1
 <2>2. CASE x = q /\ y # q
  <3>1. y \in E /\ y # p /\ t.pData[p] = t.pData[y]
   BY <1>1, <1>3, <2>2
  <3> QED BY <1>2, <3>1
 <2>3. CASE x # q /\ y = q
  <3>1. x \in E /\ x # p /\ t.pData[p] = t.pData[x]
   BY <1>1, <1>3, <2>3
  <3> QED BY <1>2, <3>1
 <2>4. CASE x # q /\ y # q
  <3>1. x \in E /\ y \in E /\ t.pData[x] = t.pData[y]
   BY <1>1, <1>3, <2>4
  <3> QED BY <1>2, <3>1
 <2> QED BY <2>1, <2>2, <2>3, <2>4
<1>4. ASSUME NEW d \in O PROVE \E x \in F : u.pData[x] = d
 <2>1. PICK x \in E : t.pData[x] = d
  BY <1>2, <1>4
 <2>2. CASE x = p
  BY <1>1, <2>1, <2>2
 <2>3. CASE x # p
  BY <1>1, <2>1, <2>3
 <2> QED BY <2>2, <2>3
<1>5. ASSUME NEW x \in F PROVE u.pData[x] \in O
 <2>1. CASE x = q
  BY <1>1, <1>2, <2>1
 <2>2. CASE x # q
  BY <1>1, <1>2, <1>5, <2>2
 <2> QED BY <2>1, <2>2
<1> QED BY <1>3, <1>4, <1>5 DEF Owns

\* An element and its value go.
LEMMA OwnsUnlinked ==
    ASSUME NEW t, NEW u, NEW E, NEW F, NEW p \in E, Unlinked(t, u, p, E, F),
           NEW O, Owns(t, E, O), NEW P, P = O \ {t.pData[p]}
    PROVE  Owns(u, F, P)
<1>1. (\A x : x \in F <=> x \in E /\ x # p) /\ \A x \in F : u.pData[x] = t.pData[x]
 BY DEF Unlinked
<1> QED BY <1>1, OwnsRemove

\* A bucket is freed whose value had gone.
LEMMA OwnsReleased ==
    ASSUME NEW t, NEW u, NEW p, NEW E, E \subseteq Addr, Released(t, u, p, E), NEW O, Owns(t, E, O)
    PROVE  Owns(u, E, O)
<1>1. \A x \in E : u.pData[x] = t.pData[x]
 BY DEF Released
<1> QED BY <1>1, OwnsSame

\* zend_hash_del takes an element and its value.
LEMMA MemoryDelCalled ==
    ASSUME MemoryInv, SilentCalm, NEW k \in Keys, zend_hash_del(k)
    PROVE  MemoryOK'
<1>0. StructureInv /\ stack \in Seq(Waiting) /\ Owns(ht, Valued(Listed, stack), owned)
 BY MemoryFacts
<1>1. TopCalm(stack)
 BY <1>0, CallsCalm DEF zend_hash_del, MayWait
<1>2. Owns(ht, Listed, owned)
 BY <1>0, <1>1, TopCalmFacts
<1>3. \E p \in Listed : \E f \in Waiting :
         /\ Unlinked(ht, ht', p, Listed, Listed') /\ owned' = owned \ {ht.pData[p]}
         /\ f.fn = "del" /\ f.p = p /\ f.key = NoKey /\ f.data = NULL /\ stack' = Append(stack, f)
 BY <1>0, StepDel
<1>4. PICK p \in Listed, f \in Waiting : /\ Unlinked(ht, ht', p, Listed, Listed') /\ owned' = owned \ {ht.pData[p]}
                                         /\ f.fn = "del" /\ stack' = Append(stack, f)
 BY <1>3
<1>5. Owns(ht', Listed', owned')
 BY ONLY <1>2, <1>4, OwnsUnlinked
<1>6. f.fn \notin Silent
 BY <1>4 DEF Silent
<1>7. TopCalm(stack')
 BY <1>0, <1>4, <1>6, PushCalm
<1> QED BY <1>5, <1>7, MemoryCalm

\* zend_hash_update_current_key takes the element that has the key.
LEMMA MemoryRenameCalled ==
    ASSUME MemoryInv, SilentCalm, NEW k \in Keys, zend_hash_update_current_key(k)
    PROVE  MemoryOK'
<1>0. StructureInv /\ stack \in Seq(Waiting) /\ Owns(ht, Valued(Listed, stack), owned)
 BY MemoryFacts
<1>1. TopCalm(stack)
 BY <1>0, CallsCalm DEF zend_hash_update_current_key, MayWait
<1>2. Owns(ht, Listed, owned)
 BY <1>0, <1>1, TopCalmFacts
<1>3. \E f \in Waiting :
         /\ f.fn = "update_current_key" /\ f.p \in Listed /\ f.key = k /\ f.data = NULL
         /\ \/ /\ stack' = Append(stack, f) /\ ht' = ht /\ owned' = owned /\ Listed' = Listed
               /\ \A x \in Listed : ht.key[x] # k
            \/ \E p \in Listed : \E g \in Waiting :
                 /\ Unlinked(ht, ht', p, Listed, Listed') /\ owned' = owned \ {ht.pData[p]}
                 /\ g.fn = "del" /\ g.p = p /\ g.key = NoKey /\ g.data = NULL
                 /\ stack' = Append(Append(stack, f), g) /\ ht.key[p] = k /\ p # f.p
 BY <1>0, StepRenameCalled
<1>4. PICK f \in Waiting :
         /\ f.fn = "update_current_key"
         /\ \/ /\ stack' = Append(stack, f) /\ ht' = ht /\ owned' = owned /\ Listed' = Listed
            \/ \E p \in Listed : \E g \in Waiting :
                 /\ Unlinked(ht, ht', p, Listed, Listed') /\ owned' = owned \ {ht.pData[p]}
                 /\ g.fn = "del" /\ stack' = Append(Append(stack, f), g)
 BY <1>3
<1>5. f.fn \notin Silent
 BY <1>4 DEF Silent
<1>6. CASE stack' = Append(stack, f) /\ ht' = ht /\ owned' = owned /\ Listed' = Listed
 <2>1. TopCalm(stack')
  BY <1>0, <1>5, <1>6, PushCalm
 <2>2. Owns(ht', Listed', owned')
  BY <1>2, <1>6
 <2> QED BY <2>1, <2>2, MemoryCalm
<1>7. ASSUME NEW p \in Listed, NEW g \in Waiting, Unlinked(ht, ht', p, Listed, Listed'),
             owned' = owned \ {ht.pData[p]}, g.fn = "del", stack' = Append(Append(stack, f), g)
      PROVE  MemoryOK'
 <2>1. Owns(ht', Listed', owned')
  BY ONLY <1>2, <1>7, OwnsUnlinked
 <2>2. Append(stack, f) \in Seq(Waiting)
  BY <1>0, SeqPush
 <2>3. g.fn \notin Silent
  BY <1>7 DEF Silent
 <2>4. TopCalm(stack')
  BY <1>7, <2>2, <2>3, PushCalm
 <2> QED BY <2>1, <2>4, MemoryCalm
<1> QED BY <1>4, <1>6, <1>7

\* A function that neither replaces a value nor destroys the table returns.
LEMMA MemoryReturns ==
    ASSUME MemoryInv, SilentCalm, stack # <<>>, Top.fn \notin Silent
    PROVE  Owns(ht, Listed, owned) /\ TopCalm(Front(stack))
<1>1. StructureInv /\ Owns(ht, Valued(Listed, stack), owned)
 BY MemoryFacts
<1>2. TopCalm(stack)
 BY DEF TopCalm, Top
<1>3. Owns(ht, Listed, owned)
 BY <1>1, <1>2, TopCalmFacts
<1>4. TopCalm(Front(stack))
 BY <1>1, BelowCalm
<1> QED BY <1>3, <1>4

\* The steps that delete or rename.
LEMMA MemoryDeleting ==
    ASSUME MemoryInv, SilentCalm,
           \/ \E k \in Keys : zend_hash_del(k) \/ zend_hash_update_current_key(k)
           \/ DelReturns \/ UpdateCurrentKeyGoesOn
    PROVE  MemoryOK'
<1>0. StructureInv /\ Listed \subseteq Addr
 BY MemoryFacts
<1>1. ASSUME NEW k \in Keys, zend_hash_del(k) \/ zend_hash_update_current_key(k) PROVE MemoryOK'
 BY <1>1, MemoryDelCalled, MemoryRenameCalled
<1>2. CASE DelReturns
 <2>1. /\ Listed' = Listed /\ Released(ht, ht', Top.p, Listed)
       /\ stack # <<>> /\ Top.fn = "del" /\ stack' = Front(stack) /\ owned' = owned
  BY <1>0, <1>2, StepDelReturns
 <2>2. Top.fn \notin Silent
  BY <2>1 DEF Silent
 <2>3. Owns(ht, Listed, owned) /\ TopCalm(Front(stack))
  BY <2>1, <2>2, MemoryReturns
 <2>4. Owns(ht', Listed, owned)
  BY <1>0, <2>1, <2>3, OwnsReleased
 <2>5. TopCalm(stack') /\ Owns(ht', Listed', owned')
  BY <2>1, <2>3, <2>4
 <2> QED BY <2>5, MemoryCalm
<1>3. CASE UpdateCurrentKeyGoesOn
 <2>1. /\ stack # <<>> /\ Top.fn = "update_current_key"
       /\ \/ Broke /\ Listed' = Listed /\ Top.p \notin Listed
          \/ /\ stack' = Front(stack) /\ owned' = owned /\ Top.p \in Listed
             /\ \E q : Moved(ht, ht', Top.p, q, Top.key, Listed, Listed')
  BY <1>0, <1>3, StepRenamed
 <2>2. Top.fn \notin Silent
  BY <2>1 DEF Silent
 <2>3. Owns(ht, Listed, owned) /\ TopCalm(Front(stack))
  BY <2>1, <2>2, MemoryReturns
 <2>4. CASE Broke /\ Listed' = Listed
  BY <2>4, MemoryBroke
 <2>5. ASSUME NEW q, Moved(ht, ht', Top.p, q, Top.key, Listed, Listed'), stack' = Front(stack),
              owned' = owned, Top.p \in Listed
       PROVE  MemoryOK'
  <3>1. Owns(ht', Listed', owned)
   BY <2>3, <2>5, OwnsMoved
  <3>2. TopCalm(stack') /\ Owns(ht', Listed', owned')
   BY <2>3, <2>5, <3>1
  <3> QED BY <3>2, MemoryCalm
 <2> QED BY <2>1, <2>4, <2>5
<1> QED BY <1>1, <1>2, <1>3

\* The elements and their values stay.
LEMMA MemoryCalled ==
    ASSUME MemoryInv, SilentCalm, NEW fn, MayCall(fn)
    PROVE  Owns(ht, Listed, owned) /\ TopCalm(stack)
<1>1. StructureInv /\ Owns(ht, Valued(Listed, stack), owned)
 BY MemoryFacts
<1>2. TopCalm(stack)
 BY <1>1, CallsCalm
<1> QED BY <1>1, <1>2, TopCalmFacts

\* The values, the list and the stack stay.
LEMMA MemoryStays ==
    ASSUME MemoryInv, ht'.pData = ht.pData, Listed' = Listed, UNCHANGED <<stack, owned, broken>>,
           ht'.pListNext = ht.pListNext, ht'.pListHead = ht.pListHead
    PROVE  MemoryOK'
<1>1. Owns(ht, Valued(Listed, stack), owned) /\ TopOK(ht, Listed, stack, owned, broken)
 BY MemoryFacts
<1>2. Owns(ht', Valued(Listed', stack'), owned')
 BY <1>1 DEF Owns
<1>3. TopOK(ht', Listed', stack', owned', broken')
 BY <1>1 DEF TopOK
<1> QED BY <1>2, <1>3 DEF MemoryOK

\* Without elements no value is left.
LEMMA OwnsNone ==
    ASSUME NEW t
    PROVE  /\ Owns(t, {}, {})
           /\ \A O : Owns(t, {}, O) => O = {}
BY DEF Owns

\* Nothing is on top of an empty stack.
LEMMA EmptyCalm == TopCalm(<<>>) /\ <<>> \in Seq(Waiting)
BY DEF TopCalm

\* Moving the pointer, sorting and emptying.
LEMMA MemoryMoving ==
    ASSUME MemoryInv, SilentCalm,
           \/ PointerMoves \/ zend_hash_get_pointer \/ zend_hash_clean \/ _zend_hash_init
           \/ \E renumber \in BOOLEAN : zend_hash_sort(renumber)
    PROVE  MemoryOK'
<1>0. /\ StructureInv /\ Listed \subseteq Addr /\ Owns(ht, Valued(Listed, stack), owned)
      /\ inconsistent = "destroyed" => Listed = {}
 BY MemoryFacts
<1>1. CASE PointerMoves
 <2>1. StructureInv' /\ Listed' = Listed /\ Kept(ht, ht') /\ UNCHANGED <<stack, owned, broken>>
  BY <1>0, <1>1, StepPointer
 <2> QED BY <2>1, MemoryStays DEF Kept
<1>2. CASE zend_hash_get_pointer
 <2>1. StructureInv' /\ Listed' = Listed /\ UNCHANGED <<ht, stack, owned, broken>>
  BY <1>0, <1>2, StepSaved
 <2> QED BY <2>1, MemoryStays
<1>3. CASE zend_hash_clean
 <2>1. Listed' = {} /\ stack' = <<>> /\ owned' = owned \ {ht.pData[p] : p \in Listed}
  BY <1>0, <1>3, StepClean
 <2>2. Owns(ht, Listed, owned)
  BY <1>3, MemoryCalled DEF zend_hash_clean, OwnerCalls
 <2>3. owned' = {}
  BY <2>1, <2>2 DEF Owns
 <2>4. Owns(ht', Listed', owned') /\ TopCalm(stack')
  BY <2>1, <2>3, OwnsNone, EmptyCalm
 <2> QED BY <2>4, MemoryCalm
<1>4. CASE _zend_hash_init
 <2>1. Listed' = {} /\ stack = <<>> /\ stack' = <<>> /\ owned' = owned /\ inconsistent = "destroyed"
  BY <1>0, <1>4, StepInit
 <2>2. Owns(ht, {}, owned)
  BY <1>0, <2>1 DEF Valued
 <2>3. owned' = {}
  BY <2>1, <2>2, OwnsNone
 <2>4. Owns(ht', Listed', owned') /\ TopCalm(stack')
  BY <2>1, <2>3, OwnsNone, EmptyCalm
 <2> QED BY <2>4, MemoryCalm
<1>5. ASSUME NEW renumber \in BOOLEAN, zend_hash_sort(renumber) PROVE MemoryOK'
 <2>1. /\ StructureInv' /\ Listed' = Listed
       /\ \/ Broke /\ List(ht) = <<>> /\ ht.nNumOfElements > 0
          \/ UNCHANGED <<stack, owned, broken>> /\ \E r : Ordered(ht, ht', Listed, r, renumber)
  BY <1>0, <1>5, StepSort
 <2>2. CASE Broke
  BY <2>1, <2>2, MemoryBroke
 <2>3. ASSUME NEW r, Ordered(ht, ht', Listed, r, renumber), UNCHANGED <<stack, owned, broken>> PROVE MemoryOK'
  <3>1. Owns(ht, Listed, owned) /\ TopCalm(stack)
   BY <1>5, MemoryCalled DEF zend_hash_sort
  <3>2. ht'.pData = ht.pData
   BY <2>3 DEF Ordered
  <3>3. Owns(ht', Listed', owned')
   BY <2>1, <2>3, <3>1, <3>2 DEF Owns
  <3>4. TopCalm(stack')
   BY <2>3, <3>1
  <3> QED BY <3>3, <3>4, MemoryCalm
 <2> QED BY <2>1, <2>2, <2>3
<1> QED BY <1>1, <1>2, <1>3, <1>4, <1>5

\* A loop that goes on calls its function.
LEMMA NextCalm ==
    ASSUME NEW K \in Seq(Waiting), TopCalm(K), NEW E, AppliesNext(K, E)
    PROVE  TopCalm(stack')
<1>1. CASE stack' = K
 BY <1>1
<1>2. ASSUME NEW f \in Waiting, f.fn = "apply_func", stack' = Append(K, f)
      PROVE  TopCalm(stack')
 <2>1. f.fn \notin Silent
  BY <1>2 DEF Silent
 <2> QED BY <1>2, <2>1, PushCalm
<1> QED BY <1>1, <1>2 DEF AppliesNext

\* A destructor is called for an element of table t.
LEMMA MemoryTaken ==
    ASSUME NEW t, NEW loop \in Loops \cup Graceful, NEW E, NEW p \in E, NEW next, NEW K \in Seq(Waiting),
           Taken(t, loop, p, next, E, K), Owns(t, E, owned), loop = "graceful_destroy" => p = t.pListHead
    PROVE  MemoryOK'
<1>1. /\ Unlinked(t, ht', p, E, Listed') /\ owned' = owned \ {t.pData[p]}
      /\ p = t.pListHead => ht'.pListHead = ht'.pListNext[p]
 BY DEF Taken
<1>2. PICK f \in Waiting : f.fn = loop /\ f.p = p /\ stack' = Append(K, f)
 BY DEF Taken
<1>3. Owns(ht', Listed', owned')
 BY ONLY <1>1, p \in E, Owns(t, E, owned), OwnsUnlinked
<1>4. Last(stack') = f
 BY <1>2, TopOfAppend
<1>5. f.fn # "update"
 BY <1>2 DEF Loops, Graceful
<1>6. Valued(Listed', stack') = Listed'
 BY <1>4, <1>5 DEF Valued, UpdateOnTop
<1>7. TopOK(ht', Listed', stack', owned', broken')
 BY <1>1, <1>2, <1>4, <1>5 DEF TopOK
<1>8. Owns(ht', Valued(Listed', stack'), owned')
 BY <1>3, <1>6
<1> QED BY <1>7, <1>8 DEF MemoryOK

\* The loops that apply a function.
LEMMA MemoryApplies ==
    ASSUME MemoryInv, SilentCalm,
           \/ \E loop \in Loops : zend_hash_apply(loop) \/ ApplyDeleterReturns(loop)
           \/ \E remove, stop \in BOOLEAN : ApplyFuncReturns(remove, stop)
    PROVE  MemoryOK'
<1>0. StructureInv /\ Listed \subseteq Addr /\ stack \in Seq(Waiting)
 BY MemoryFacts
<1>1. ASSUME NEW loop \in Loops, zend_hash_apply(loop) PROVE MemoryOK'
 <2>1. StructureInv' /\ Listed' = Listed /\ UNCHANGED <<ht, owned, broken>> /\ AppliesNext(stack, Listed)
  BY <1>0, <1>1, StepApply
 <2>2. Owns(ht, Listed, owned) /\ TopCalm(stack)
  BY <1>1, MemoryCalled DEF zend_hash_apply, MayWait
 <2>3. TopCalm(stack')
  BY <1>0, <2>1, <2>2, NextCalm
 <2>4. Owns(ht', Listed', owned')
  BY <2>1, <2>2
 <2> QED BY <2>3, <2>4, MemoryCalm
<1>2. ASSUME NEW loop \in Loops, ApplyDeleterReturns(loop) PROVE MemoryOK'
 <2>1. /\ StructureInv' /\ stack # <<>> /\ Top.fn = loop /\ broken = "no"
       /\ \/ /\ Broke /\ Listed' = Listed
             /\ ht.pListNext[Top.p] \notin Listed \cup {NULL} \/ Top.next \notin Listed \cup {NULL}
          \/ /\ Released(ht, ht', Top.p, Listed) /\ Listed' = Listed /\ UNCHANGED <<owned, broken>>
             /\ AppliesNext(Front(stack), Listed)
  BY <1>0, <1>2, StepApplyDeleter
 <2>2. Top.fn \notin Silent
  BY <2>1 DEF Silent, Loops
 <2>3. Owns(ht, Listed, owned) /\ TopCalm(Front(stack)) /\ Front(stack) \in Seq(Waiting)
  BY <1>0, <2>1, <2>2, MemoryReturns, SeqPop
 <2>4. CASE Broke /\ Listed' = Listed
  BY <2>4, MemoryBroke
 <2>5. CASE Released(ht, ht', Top.p, Listed) /\ Listed' = Listed /\ UNCHANGED <<owned, broken>>
            /\ AppliesNext(Front(stack), Listed)
  <3>1. Owns(ht', Listed, owned)
   BY <1>0, <2>3, <2>5, OwnsReleased
  <3>2. TopCalm(stack')
   BY <2>3, <2>5, NextCalm
  <3>3. Owns(ht', Listed', owned')
   BY <2>5, <3>1
  <3> QED BY <3>2, <3>3, MemoryCalm
 <2> QED BY <2>1, <2>4, <2>5
<1>3. ASSUME NEW remove \in BOOLEAN, NEW stop \in BOOLEAN, ApplyFuncReturns(remove, stop) PROVE MemoryOK'
 <2>1. /\ StructureInv' /\ stack # <<>> /\ Top.fn = "apply_func" /\ broken = "no"
       /\ \/ Broke /\ Listed' = Listed /\ Top.p \notin Listed
          \/ /\ Top.p \in Listed
             /\ \E loop \in Loops : \E next : Taken(ht, loop, Top.p, next, Listed, Front(stack))
                                              /\ next \in Listed' \cup {NULL}
          \/ Top.p \in Listed /\ Listed' = Listed /\ UNCHANGED <<ht, owned, broken>> /\ AppliesNext(Front(stack), Listed)
  BY <1>0, <1>3, StepApplyFunc
 <2>2. Top.fn \notin Silent
  BY <2>1 DEF Silent
 <2>3. Owns(ht, Listed, owned) /\ TopCalm(Front(stack)) /\ Front(stack) \in Seq(Waiting)
  BY <1>0, <2>1, <2>2, MemoryReturns, SeqPop
 <2>4. CASE Broke /\ Listed' = Listed
  BY <2>4, MemoryBroke
 <2>5. ASSUME NEW loop \in Loops, NEW next, Taken(ht, loop, Top.p, next, Listed, Front(stack)), Top.p \in Listed
       PROVE  MemoryOK'
  <3>1. loop \in Loops \cup Graceful /\ loop # "graceful_destroy"
   BY DEF Loops
  <3>2. PICK p : p = Top.p
   OBVIOUS
  <3> QED BY <2>3, <2>5, <3>1, <3>2, MemoryTaken
 <2>6. CASE Listed' = Listed /\ UNCHANGED <<ht, owned, broken>> /\ AppliesNext(Front(stack), Listed)
  <3>1. TopCalm(stack')
   BY <2>3, <2>6, NextCalm
  <3>2. Owns(ht', Listed', owned')
   BY <2>3, <2>6
  <3> QED BY <3>1, <3>2, MemoryCalm
 <2> QED BY <2>1, <2>4, <2>5, <2>6
<1> QED BY <1>1, <1>2, <1>3

\* A table without a first element has none.
LEMMA HeadNone ==
    ASSUME StructureInv, ht.pListHead = NULL
    PROVE  Listed = {}
<1>1. PICK s : s = List(ht)
 OBVIOUS
<1>2. Table(ht, s) /\ Listed = ToSet(s)
 BY <1>1, InvFacts
<1>3. s = <<>>
 BY <1>2, NeighboursListed
<1> QED BY <1>2, <1>3 DEF ToSet

\* A graceful destroy starts.
LEMMA MemoryDestroys ==
    ASSUME MemoryInv, SilentCalm, NEW loop \in Graceful, zend_hash_graceful_destroy(loop)
    PROVE  MemoryOK' /\ (Broke \/ Listed' = {} \/ inconsistent' = inconsistent)
<1>0. StructureInv /\ Listed \subseteq Addr
 BY MemoryFacts
<1>1. /\ stack = <<>>
      /\ \/ Destroyed(ht) /\ Listed = {} /\ Listed' = Listed
         \/ \E p \in Listed : /\ Taken(ht, loop, p, NULL, Listed, <<>>)
                              /\ loop = "graceful_destroy" => p = ht.pListHead
 BY <1>0, StepDestroy
<1>2. Owns(ht, Listed, owned)
 BY MemoryCalled DEF zend_hash_graceful_destroy, OwnerCalls
<1>3. CASE Destroyed(ht) /\ Listed = {} /\ Listed' = Listed
 <2>1. TopCalm(stack') /\ Owns(ht', Listed', owned')
  BY <1>2, <1>3, EmptyCalm DEF Destroyed
 <2> QED BY <1>3, <2>1, MemoryCalm
<1>4. ASSUME NEW p \in Listed, Taken(ht, loop, p, NULL, Listed, <<>>), loop = "graceful_destroy" => p = ht.pListHead
      PROVE  MemoryOK' /\ inconsistent' = inconsistent
 <2>1. loop \in Loops \cup Graceful /\ <<>> \in Seq(Waiting)
  BY EmptyCalm
 <2>2. MemoryOK'
  BY <1>2, <1>4, <2>1, MemoryTaken
 <2> QED BY <1>4, <2>2 DEF Taken
<1> QED BY <1>1, <1>3, <1>4

\* A graceful destroy, after a destructor has returned; it ends when no element is left.
LEMMA MemoryDestroyed ==
    ASSUME MemoryInv, SilentCalm, NEW loop \in Graceful, GracefulDeleterReturns(loop)
    PROVE  MemoryOK' /\ (Broke \/ Listed' = {} \/ inconsistent' = inconsistent)
<1>0. /\ StructureInv /\ Listed \subseteq Addr /\ Owns(ht, Valued(Listed, stack), owned)
      /\ TopOK(ht, Listed, stack, owned, broken)
 BY MemoryFacts
<1>1. /\ stack # <<>> /\ Top.fn = loop /\ broken = "no" /\ Front(stack) = <<>>
      /\ \/ /\ Broke /\ Listed' = Listed /\ loop = "graceful_destroy"
            /\ ht.pListNext[Top.p] \notin Listed \cup {NULL}
         \/ \E t : /\ Released(ht, t, Top.p, Listed)
                   /\ \/ /\ Destroyed(t) /\ Listed' = Listed
                         /\ loop = "graceful_destroy" => ht.pListNext[Top.p] = NULL
                         /\ loop = "graceful_reverse_destroy" => Listed = {}
                      \/ \E p \in Listed : /\ Taken(t, loop, p, NULL, Listed, <<>>)
                                           /\ loop = "graceful_destroy" => p = ht.pListNext[Top.p]
 BY <1>0, StepDestroyed
<1>2. Last(stack).fn # "update"
 BY <1>1 DEF Top, Graceful
<1>3. Owns(ht, Listed, owned)
 <2>1. Valued(Listed, stack) = Listed
  BY <1>2 DEF Valued, UpdateOnTop
 <2> QED BY <1>0, <2>1
<1>4. loop = "graceful_destroy" => ht.pListNext[Top.p] = ht.pListHead
 BY <1>0, <1>1 DEF TopOK, Top
<1>5. CASE Broke /\ Listed' = Listed
 BY <1>5, MemoryBroke
<1>6. ASSUME NEW t, Released(ht, t, Top.p, Listed)
      PROVE  Owns(t, Listed, owned) /\ t.pListHead = ht.pListHead
 <2>1. Owns(t, Listed, owned)
  BY <1>0, <1>3, <1>6, OwnsReleased
 <2> QED BY <1>6, <2>1 DEF Released
<1>7. ASSUME NEW t, Released(ht, t, Top.p, Listed), Destroyed(t), Listed' = Listed,
             loop = "graceful_destroy" => ht.pListNext[Top.p] = NULL,
             loop = "graceful_reverse_destroy" => Listed = {}
      PROVE  MemoryOK' /\ Listed' = {}
 <2>1. Owns(t, Listed, owned)
  BY <1>6, <1>7
 <2>2. TopCalm(stack') /\ Owns(ht', Listed', owned')
  BY <1>7, <2>1, EmptyCalm DEF Destroyed
 <2>3. Listed = {}
  <3>1. CASE loop = "graceful_destroy"
   <4>1. ht.pListHead = NULL
    BY <1>4, <1>7, <3>1
   <4> QED BY <1>0, <4>1, HeadNone
  <3>2. CASE loop = "graceful_reverse_destroy"
   BY <1>7, <3>2
  <3> QED BY <3>1, <3>2 DEF Graceful
 <2> QED BY <1>7, <2>2, <2>3, MemoryCalm
<1>8. ASSUME NEW t, Released(ht, t, Top.p, Listed), NEW p \in Listed, Taken(t, loop, p, NULL, Listed, <<>>),
             loop = "graceful_destroy" => p = ht.pListNext[Top.p]
      PROVE  MemoryOK' /\ inconsistent' = inconsistent
 <2>1. loop \in Loops \cup Graceful /\ <<>> \in Seq(Waiting)
  BY EmptyCalm
 <2>2. Owns(t, Listed, owned) /\ (loop = "graceful_destroy" => p = t.pListHead)
  BY <1>4, <1>6, <1>8
 <2>3. MemoryOK'
  BY <1>8, <2>1, <2>2, MemoryTaken
 <2> QED BY <1>8, <2>3 DEF Taken
<1> QED BY <1>1, <1>5, <1>7, <1>8

\* Only the end of a graceful destroy destroys the table.
LEMMA DestroyedBy ==
    ASSUME StructureInv, Next, inconsistent' = "destroyed"
    PROVE  \E loop \in Graceful : /\ zend_hash_graceful_destroy(loop) \/ GracefulDeleterReturns(loop)
                                  /\ broken' = "no" /\ inconsistent = "ok"
<1>0. stack # <<>> => inconsistent = "ok"
 BY InvFacts
<1>a. (\E fn : MayCall(fn) \/ Returning(fn)) => inconsistent = "ok"
 BY <1>0 DEF MayCall, Returning
<1>b. \A fn : Breaks(fn) => inconsistent' = inconsistent
 BY DEF Breaks
<1>1. ASSUME NEW d \in Data, NextInsert(d) PROVE FALSE
 BY <1>a, <1>1 DEF NextInsert
<1>2. ASSUME NEW d \in Data, NEW k \in Keys, Add(k, d) \/ Update(k, d) PROVE FALSE
 BY <1>a, <1>2 DEF Add, Update, MayWait
<1>3. ASSUME NEW k \in Keys, zend_hash_del(k) \/ zend_hash_update_current_key(k) PROVE FALSE
 BY <1>a, <1>3 DEF zend_hash_del, zend_hash_update_current_key, MayWait, Delete
<1>4. CASE UpdateReturns \/ DelReturns
 BY <1>a, <1>b, <1>4 DEF UpdateReturns, DelReturns
<1>5. CASE UpdateCurrentKeyGoesOn
 BY <1>a, <1>b, <1>5 DEF UpdateCurrentKeyGoesOn
<1>6. CASE PointerMoves \/ zend_hash_get_pointer
 BY <1>a, <1>6 DEF PointerMoves, internal_pointer_reset, internal_pointer_end, move_forward, move_backwards,
                   zend_hash_set_pointer, zend_hash_get_pointer, Changes
<1>7. ASSUME NEW renumber \in BOOLEAN, zend_hash_sort(renumber) PROVE FALSE
 BY <1>a, <1>b, <1>7 DEF zend_hash_sort, Changes
<1>8. CASE zend_hash_clean \/ _zend_hash_init
 BY <1>a, <1>8 DEF zend_hash_clean, OwnerCalls, _zend_hash_init
<1>9. ASSUME NEW loop \in Loops, zend_hash_apply(loop) \/ ApplyDeleterReturns(loop) PROVE FALSE
 BY <1>a, <1>b, <1>9 DEF zend_hash_apply, MayWait, ApplyDeleterReturns, ApplyGoesOn
<1>10. ASSUME NEW remove \in BOOLEAN, NEW stop \in BOOLEAN, ApplyFuncReturns(remove, stop) PROVE FALSE
 BY <1>a, <1>b, <1>10 DEF ApplyFuncReturns, CallDeleter, ApplyGoesOn
<1>11. ASSUME NEW loop \in Graceful, zend_hash_graceful_destroy(loop) \/ GracefulDeleterReturns(loop)
       PROVE  broken' = "no" /\ inconsistent = "ok"
 <2>1. broken = "no" /\ inconsistent = "ok"
  BY <1>a, <1>11 DEF zend_hash_graceful_destroy, GracefulDeleterReturns, OwnerCalls, MayCall, Returning
 <2>2. \E t, q, frames : DestroyGoesOn(loop, t, q, frames)
  BY <1>11 DEF zend_hash_graceful_destroy, GracefulDeleterReturns
 <2>3. broken' = broken \/ inconsistent' = inconsistent
  BY <2>2, <1>b DEF DestroyGoesOn, CallDeleter
 <2> QED BY <2>1, <2>3
<1> QED BY <1>1, <1>2, <1>3, <1>4, <1>5, <1>6, <1>7, <1>8, <1>9, <1>10, <1>11
        DEF Next, PointerMoves, Loops, Graceful

\* The invariant of memory makes memory and values exact.
LEMMA MemoryStates ==
    ASSUME MemoryInv, SilentCalm
    PROVE  MemoryExact
<1>0. /\ StructureInv /\ Owns(ht, Valued(Listed, stack), owned) /\ stack \in Seq(Waiting)
 BY MemoryFacts
<1>1. StackOK(ht, Listed, stack) /\ WaitsOK(stack)
 BY <1>0, InvFacts DEF State
<1>2. Len(stack) \in Nat /\ DOMAIN stack = 1 .. Len(stack)
 BY <1>0
<1>a. \A i \in 1 .. Len(stack) : stack[i].fn = "update" => i = Len(stack)
 <2> SUFFICES ASSUME NEW i \in 1 .. Len(stack), stack[i].fn = "update", i # Len(stack) PROVE FALSE
  OBVIOUS
 <2>1. i \in 1 .. Len(stack) - 1
  <3>1. PICK n : n = Len(stack)
   OBVIOUS
  <3>2. n \in Nat /\ i \in 1 .. n /\ i # n
   BY <1>2, <3>1
  <3>3. i \in 1 .. n - 1
   BY ONLY <3>2
  <3> QED BY <3>1, <3>3
 <2>2. stack[i].fn \in Reentrant
  BY <1>1, <2>1 DEF WaitsOK
 <2> QED BY <2>2 DEF SilentCalm, Silent
<1> DEFINE pending == {stack[i].p : i \in {j \in DOMAIN stack :
                           stack[j].fn \notin {"update", "apply_func", "update_current_key"}}}
           replaced == {stack[i].p : i \in {j \in DOMAIN stack : stack[j].fn = "update"}}
<1>3. \A x : x \in pending <=> \E j \in Half(stack) : stack[j].p = x
 BY <1>2 DEF Half, Settled
<1>4. ht.allocated = Listed \cup pending /\ Listed \cap pending = {}
 <2> HIDE DEF pending
 <2>1. /\ \A x : x \in ht.allocated <=> x \in Listed \/ \E j \in Half(stack) : stack[j].p = x
       /\ \A j \in Half(stack) : stack[j].p \notin Listed
  BY <1>1 DEF StackOK
 <2> QED BY <1>3, <2>1
<1>6. \A x : x \in replaced <=> UpdateOnTop(stack) /\ x = Last(stack).p
 <2>1. CASE stack = <<>>
  BY <1>2, <2>1 DEF UpdateOnTop
 <2>2. CASE stack # <<>>
  <3>1. Len(stack) \in 1 .. Len(stack) /\ Last(stack) = stack[Len(stack)]
   BY <1>0, <1>2, <2>2 DEF Last
  <3> QED BY <1>2, <1>a, <2>2, <3>1 DEF UpdateOnTop
 <2> QED BY <2>1, <2>2
<1>7. owned = {ht.pData[p] : p \in Listed \ replaced}
 <2> HIDE DEF replaced
 <2>1. Valued(Listed, stack) = Listed \ replaced
  BY <1>6 DEF Valued
 <2>2. \A d : d \in owned <=> \E p \in Listed \ replaced : ht.pData[p] = d
  BY <1>0, <2>1 DEF Owns
 <2> QED BY <2>2
<1> QED BY <1>4, <1>7 DEF MemoryExact

\* If no destructor of a replaced value, and none called by
\* zend_hash_graceful_destroy, uses the table, then the buckets allocated are
\* exactly those listed and those a deletion under way has to free, and the
\* values not yet destroyed are exactly those of the elements, each destroyed
\* once (UPDATE_DATA, zend_hash_del_key_or_index, zend_hash_apply_deleter).
THEOREM MemoryCorrect ==
    ASSUME {"update", "graceful_destroy"} \cap Reentrant = {}
    PROVE  Spec => []MemoryExact
<1>0. SilentCalm
 BY DEF SilentCalm, Silent
<1>1. Init => MemoryInv
 <2> SUFFICES ASSUME Init PROVE MemoryInv
  OBVIOUS
 <2>1. StructureInv /\ Listed = {}
  BY StructureInit
 <2>2. stack = <<>> /\ owned = {} /\ inconsistent = "ok"
  BY DEF Init
 <2>3. Valued(Listed, stack) = Listed /\ TopOK(ht, Listed, stack, owned, broken)
  BY <2>2 DEF Valued, UpdateOnTop, TopOK
 <2>4. Owns(ht, Valued(Listed, stack), owned)
  BY <2>1, <2>2, <2>3, OwnsNone
 <2> QED BY <2>1, <2>2, <2>3, <2>4 DEF MemoryInv, MemoryOK
<1>2. MemoryInv /\ [Next]_vars => MemoryInv'
 <2> SUFFICES ASSUME MemoryInv, [Next]_vars PROVE MemoryInv'
  OBVIOUS
 <2>1. StructureInv /\ StructureInv'
  BY MemoryFacts, StructureNext
 <2>2. MemoryOK' /\ (inconsistent' = "destroyed" => Listed' = {})
  <3>1. CASE UNCHANGED vars
   <4>1. Listed' = Listed /\ ht' = ht /\ inconsistent' = inconsistent /\ UNCHANGED <<stack, owned, broken>>
    BY <3>1 DEF vars, Listed
   <4> QED BY <4>1, MemoryFacts, MemoryStays
  <3>2. CASE Next
   <4>1. ASSUME \/ \E d \in Data : NextInsert(d) \/ \E k \in Keys : Add(k, d) \/ Update(k, d)
                \/ UpdateReturns
         PROVE  MemoryOK'
    BY <1>0, <4>1, MemoryStoring
   <4>2. ASSUME \/ \E k \in Keys : zend_hash_del(k) \/ zend_hash_update_current_key(k)
                \/ DelReturns \/ UpdateCurrentKeyGoesOn
         PROVE  MemoryOK'
    BY <1>0, <4>2, MemoryDeleting
   <4>3. ASSUME \/ PointerMoves \/ zend_hash_get_pointer \/ zend_hash_clean \/ _zend_hash_init
                \/ \E renumber \in BOOLEAN : zend_hash_sort(renumber)
         PROVE  MemoryOK'
    BY <1>0, <4>3, MemoryMoving
   <4>4. ASSUME \/ \E loop \in Loops : zend_hash_apply(loop) \/ ApplyDeleterReturns(loop)
                \/ \E remove, stop \in BOOLEAN : ApplyFuncReturns(remove, stop)
         PROVE  MemoryOK'
    BY <1>0, <4>4, MemoryApplies
   <4>5. ASSUME NEW loop \in Graceful, zend_hash_graceful_destroy(loop) \/ GracefulDeleterReturns(loop)
         PROVE  MemoryOK' /\ (Broke \/ Listed' = {} \/ inconsistent' = inconsistent)
    BY <1>0, <4>5, MemoryDestroys, MemoryDestroyed
   <4>6. MemoryOK'
    BY <3>2, <4>1, <4>2, <4>3, <4>4, <4>5 DEF Next, PointerMoves, Loops, Graceful
   <4>7. ASSUME inconsistent' = "destroyed" PROVE Listed' = {}
    <5>1. PICK loop \in Graceful : /\ zend_hash_graceful_destroy(loop) \/ GracefulDeleterReturns(loop)
                                   /\ broken' = "no" /\ inconsistent = "ok"
     BY <2>1, <3>2, <4>7, DestroyedBy
    <5>2. Broke \/ Listed' = {} \/ inconsistent' = inconsistent
     BY <4>5, <5>1
    <5>3. ~Broke
     BY <5>1 DEF Broke
    <5> QED BY <4>7, <5>1, <5>2, <5>3
   <4> QED BY <4>6, <4>7
  <3> QED BY <3>1, <3>2
 <2> QED BY <2>1, <2>2 DEF MemoryInv, MemoryOK
<1>3. MemoryInv => MemoryExact
 BY <1>0, MemoryStates
<1> QED BY <1>1, <1>2, <1>3, PTL DEF Spec

--------------------
(* No function goes on with a bucket that is gone. *)

\* Functions whose callbacks leave the table alone; those but
\* zend_hash_update_current_key wait on top.
Lone == {"update", "apply_func", "graceful_destroy"} \cup Loops

ReentrantCalm ==
    /\ Reentrant \subseteq {"del", "graceful_reverse_destroy"}
    /\ "del" \in Reentrant => {"sort", "update_current_key"} \cap Functions = {}

\* Then none of these, and none that renames, has another function inside.
LEMMA CalmLone == ReentrantCalm => Calm(Lone) /\ Calm(Renames)
<1> SUFFICES ASSUME ReentrantCalm PROVE Calm(Lone) /\ Calm(Renames)
 OBVIOUS
<1>1. /\ \A fn \in Lone : fn \notin {"del", "graceful_reverse_destroy", "update_current_key"}
      /\ \A fn \in Renames : fn \notin {"del", "graceful_reverse_destroy"}
 BY DEF Lone, Loops, Renames
<1>2. Lone \cap Reentrant = {} /\ Renames \cap Reentrant = {} /\ "update_current_key" \notin Lone
 BY <1>1 DEF ReentrantCalm
<1> QED BY <1>2 DEF Calm, ReentrantCalm

\* The bucket that function f goes on with is there.
FrameOK(t, E, f) ==
    /\ f.fn \in {"update", "apply_func"} => f.p \in E
    /\ f.fn \in Loops \cup {"graceful_destroy"} =>
          f.next \in E \cup {NULL} /\ t.pListNext[f.p] \in E \cup {NULL}

LoneOK(t, E, K) == K # <<>> => FrameOK(t, E, Last(K))

RenameOK(E, K) == \A i \in 1 .. Len(K) : K[i].fn \in Renames => K[i].p \in E

GoesWell == broken = "no" /\ LoneOK(ht, Listed, stack) /\ RenameOK(Listed, stack)

WellInv == StructureInv /\ GoesWell

\* What the invariant says.
LEMMA WellFacts ==
    ASSUME WellInv
    PROVE  /\ StructureInv /\ GoesWell /\ broken = "no" /\ stack \in Seq(Waiting)
           /\ stack # <<>> => FrameOK(ht, Listed, Top)
           /\ RenameOK(Listed, stack)
BY InvFacts DEF WellInv, GoesWell, LoneOK, Top

\* Nothing is asked of another function on top.
LEMMA NoneOK ==
    ASSUME NEW K \in Seq(Waiting), None(Lone, K), NEW t, NEW E
    PROVE  LoneOK(t, E, K)
<1>1. SUFFICES ASSUME K # <<>> PROVE FrameOK(t, E, Last(K))
 BY DEF LoneOK
<1>2. Len(K) \in 1 .. Len(K) /\ Last(K) = K[Len(K)]
 BY <1>1 DEF Last
<1>3. Last(K).fn \notin Lone
 BY <1>2 DEF None
<1> QED BY <1>3 DEF Lone, FrameOK

\* A step that leaves none of these waiting.
LEMMA WellNone ==
    ASSUME stack' \in Seq(Waiting), None(Lone, stack'), None(Renames, stack'), broken' = "no"
    PROVE  GoesWell'
<1>1. LoneOK(ht', Listed', stack')
 BY NoneOK
<1>2. RenameOK(Listed', stack')
 BY DEF None, RenameOK
<1> QED BY <1>1, <1>2 DEF GoesWell

\* A function is called whose bucket is there.
LEMMA WellPush ==
    ASSUME NEW K \in Seq(Waiting), None(Renames, K), NEW f \in Waiting, f.fn \notin Renames,
           stack' = Append(K, f), FrameOK(ht', Listed', f), broken' = "no"
    PROVE  GoesWell'
<1>1. PICK K2 : K2 = stack'
 OBVIOUS
<1>2. None(Renames, K2)
 BY <1>1, NonePush
<1>3. RenameOK(Listed', K2)
 BY <1>2 DEF None, RenameOK
<1>4. Last(K2) = f
 BY <1>1, TopOfAppend
<1>5. LoneOK(ht', Listed', K2)
 BY <1>4 DEF LoneOK
<1> QED BY <1>1, <1>3, <1>5 DEF GoesWell

\* Where code outside zend_hash.c runs none of these waits.
LEMMA WellCalled ==
    ASSUME WellInv, ReentrantCalm, NEW fn, MayCall(fn)
    PROVE  None(Lone, stack) /\ None(Renames, stack) /\ stack \in Seq(Waiting) /\ fn \in Functions
<1>1. StructureInv /\ stack \in Seq(Waiting)
 BY WellFacts
<1>2. None(Lone, stack) /\ None(Renames, stack)
 BY <1>1, CalmLone, NoneCalled
<1> QED BY <1>1, <1>2 DEF MayCall

\* Nor below the function on top.
LEMMA WellBelow ==
    ASSUME WellInv, ReentrantCalm, stack # <<>>
    PROVE  /\ Front(stack) \in Seq(Waiting) /\ None(Lone, Front(stack))
           /\ Top.fn # "del" => None(Renames, Front(stack))
<1>1. StructureInv /\ stack \in Seq(Waiting)
 BY WellFacts
<1>2. Front(stack) \in Seq(Waiting)
 BY <1>1, SeqPop
<1>3. "update_current_key" \notin Lone
 BY DEF Lone, Loops
<1>4. None(Lone, Front(stack))
 BY <1>1, <1>3, CalmLone, NoneBelow
<1>5. ASSUME Top.fn # "del" PROVE None(Renames, Front(stack))
 <2>1. Last(stack).fn # "del"
  BY <1>5 DEF Top
 <2> QED BY <1>1, <2>1, CalmLone, NoneUnder
<1> QED BY <1>2, <1>4, <1>5

\* The function below that made no call of its own.
LEMMA WellReturns ==
    ASSUME WellInv, ReentrantCalm, stack # <<>>, Top.fn # "del", stack' = Front(stack), broken' = "no"
    PROVE  GoesWell'
BY WellBelow, WellNone

\* A step of the callers that has none wait.
LEMMA WellStays ==
    ASSUME WellInv, ReentrantCalm, NEW fn, MayCall(fn), stack' = stack, broken' = broken
    PROVE  GoesWell'
<1>1. None(Lone, stack) /\ None(Renames, stack) /\ stack \in Seq(Waiting) /\ broken = "no"
 BY WellCalled, WellFacts
<1>2. stack' \in Seq(Waiting) /\ None(Lone, stack') /\ None(Renames, stack') /\ broken' = "no"
 BY <1>1
<1> QED BY <1>2, WellNone

\* The steps that store.
LEMMA WellStoring ==
    ASSUME WellInv, ReentrantCalm,
           \/ \E d \in Data : NextInsert(d) \/ \E k \in Keys : Add(k, d) \/ Update(k, d)
           \/ UpdateReturns
    PROVE  GoesWell'
<1>0. StructureInv /\ broken = "no" /\ (stack # <<>> => FrameOK(ht, Listed, Top))
 BY WellFacts
<1>1. ASSUME NEW d \in Data, NextInsert(d) PROVE GoesWell'
 <2>1. MayCall("next_insert") /\ stack' = stack /\ broken' = broken
  BY <1>1 DEF NextInsert
 <2> QED BY <2>1, WellStays
<1>2. ASSUME NEW d \in Data, NEW k \in Keys, Add(k, d) PROVE GoesWell'
 <2>1. MayCall("add") /\ stack' = stack /\ broken' = broken
  BY <1>2 DEF Add
 <2> QED BY <2>1, WellStays
<1>3. ASSUME NEW d \in Data, NEW k \in Keys, Update(k, d) PROVE GoesWell'
 <2>1. /\ Listed' = Listed
       /\ \E f \in Waiting : /\ stack' = Append(stack, f) /\ f.fn = "update" /\ f.data = d /\ f.key = k
                             /\ f.p \in Listed /\ f.p \in Addr /\ owned' = owned \ {ht.pData[f.p]}
  BY <1>0, <1>3, StepUpdate
 <2>2. PICK f \in Waiting : stack' = Append(stack, f) /\ f.fn = "update" /\ f.p \in Listed
  BY <2>1
 <2>3. MayCall("update") /\ broken' = broken
  BY <1>3 DEF Update, MayWait
 <2>4. None(Renames, stack) /\ stack \in Seq(Waiting)
  BY <2>3, WellCalled
 <2>5. f.fn \notin Renames
  BY <2>2 DEF Renames
 <2>6. FrameOK(ht', Listed', f)
  BY <2>1, <2>2 DEF FrameOK, Loops
 <2> QED BY <1>0, <2>2, <2>3, <2>4, <2>5, <2>6, WellPush
<1>4. CASE UpdateReturns
 <2>1. /\ Top.fn = "update" /\ stack # <<>>
       /\ \/ /\ ht' = ht /\ stack' = stack /\ owned' = owned /\ broken' # "no" /\ Top.p \notin Listed
          \/ /\ stack' = Front(stack) /\ ht'.key = ht.key /\ Top.p \in Listed
             /\ \A q \in Addr : ht'.pData[q] = IF q = Top.p THEN Top.data ELSE ht.pData[q]
             /\ ht'.nNextFreeElement = NextFree(ht, Top.key)
             /\ owned' = owned \cup {Top.data} /\ broken' = broken
  BY <1>0, <1>4, StepUpdateReturns
 <2>2. Top.p \in Listed
  BY <1>0, <2>1 DEF FrameOK
 <2>3. stack' = Front(stack) /\ broken' = "no" /\ Top.fn # "del"
  BY <1>0, <2>1, <2>2
 <2> QED BY <2>1, <2>3, WellReturns
<1> QED BY <1>1, <1>2, <1>3, <1>4

\* The elements that functions of S are to rename are there, with one more.
LEMMA RenamePushOK ==
    ASSUME NEW K \in Seq(Waiting), None(Renames, K), NEW f \in Waiting, NEW E, f.p \in E, NEW K2, K2 = Append(K, f)
    PROVE  RenameOK(E, K2)
<1>1. /\ Len(K) \in Nat /\ Len(K2) = Len(K) + 1
      /\ \A i \in 1 .. Len(K) : K2[i] = K[i]
      /\ K2[Len(K) + 1] = f
 BY AppendFacts
<1>2. ASSUME NEW i \in 1 .. Len(K2), K2[i].fn \in Renames PROVE K2[i].p \in E
 <2>1. CASE i \in 1 .. Len(K)
  BY <1>1, <1>2, <2>1 DEF None
 <2>2. CASE i = Len(K) + 1
  BY <1>1, <2>2
 <2> QED BY <1>1, <2>1, <2>2
<1> QED BY <1>2 DEF RenameOK

\* A function that does not rename joins the stack.
LEMMA RenamePushed ==
    ASSUME NEW K \in Seq(Waiting), NEW E, RenameOK(E, K), NEW g \in Waiting, g.fn \notin Renames, NEW K2, K2 = Append(K, g)
    PROVE  RenameOK(E, K2)
<1>1. /\ Len(K) \in Nat /\ Len(K2) = Len(K) + 1
      /\ \A i \in 1 .. Len(K) : K2[i] = K[i]
      /\ K2[Len(K) + 1] = g
 BY AppendFacts
<1>2. ASSUME NEW i \in 1 .. Len(K2), K2[i].fn \in Renames PROVE K2[i].p \in E
 <2>1. i \in 1 .. Len(K)
  BY <1>1, <1>2
 <2> QED BY <1>1, <1>2, <2>1 DEF RenameOK
<1> QED BY <1>2 DEF RenameOK

\* The function on top goes.
LEMMA RenamePopped ==
    ASSUME NEW K \in Seq(Waiting), K # <<>>, NEW E, RenameOK(E, K)
    PROVE  RenameOK(E, Front(K)) /\ (Last(K).fn \in Renames => Last(K).p \in E)
<1>1. PICK n, K2 : n = Len(K) /\ K2 = Front(K)
 OBVIOUS
<1>2. /\ n \in Nat \ {0} /\ K2 \in Seq(Waiting) /\ Len(K2) = n - 1
      /\ \A i \in 1 .. n - 1 : K2[i] = K[i]
      /\ Last(K) = K[n] /\ K[n] \in Waiting
      /\ \A i \in 1 .. n : i \in 1 .. n - 1 \/ i = n
 BY <1>1, FrontFacts
<1>3. \A i \in 1 .. n : K[i].fn \in Renames => K[i].p \in E
 BY <1>1 DEF RenameOK
<1>4. \A i \in 1 .. n - 1 : i \in 1 .. n
 BY <1>2
<1>5. RenameOK(E, K2)
 BY <1>2, <1>3, <1>4 DEF RenameOK
<1>6. n \in 1 .. n
 BY <1>2
<1> QED BY <1>1, <1>2, <1>3, <1>5, <1>6

\* zend_hash_update_current_key is called: the current element is not the one that goes.
LEMMA WellRenameCalled ==
    ASSUME WellInv, ReentrantCalm, NEW k \in Keys, zend_hash_update_current_key(k)
    PROVE  GoesWell'
<1>0. StructureInv /\ broken = "no"
 BY WellFacts
<1>1. MayCall("update_current_key")
 BY DEF zend_hash_update_current_key, MayWait
<1>2. None(Renames, stack) /\ stack \in Seq(Waiting)
 BY <1>1, WellCalled
<1>3. broken' = "no"
 BY <1>0 DEF zend_hash_update_current_key, Delete
<1>4. \E f \in Waiting :
         /\ f.fn = "update_current_key" /\ f.p \in Listed /\ f.key = k /\ f.data = NULL
         /\ \/ /\ stack' = Append(stack, f) /\ ht' = ht /\ owned' = owned /\ Listed' = Listed
               /\ \A x \in Listed : ht.key[x] # k
            \/ \E p \in Listed : \E g \in Waiting :
                 /\ Unlinked(ht, ht', p, Listed, Listed') /\ owned' = owned \ {ht.pData[p]}
                 /\ g.fn = "del" /\ g.p = p /\ g.key = NoKey /\ g.data = NULL
                 /\ stack' = Append(Append(stack, f), g) /\ ht.key[p] = k /\ p # f.p
 BY <1>0, StepRenameCalled
<1>5. PICK f \in Waiting :
         /\ f.fn = "update_current_key" /\ f.p \in Listed
         /\ \/ stack' = Append(stack, f) /\ Listed' = Listed
            \/ \E p \in Listed : \E g \in Waiting :
                 /\ Unlinked(ht, ht', p, Listed, Listed')
                 /\ g.fn = "del" /\ stack' = Append(Append(stack, f), g) /\ p # f.p
 BY <1>4
<1>6. PICK K : K = Append(stack, f)
 OBVIOUS
<1>7. K \in Seq(Waiting) /\ Last(K) = f
 BY <1>2, <1>6, SeqPush, TopOfAppend
<1>8. CASE stack' = Append(stack, f) /\ Listed' = Listed
 <2>1. RenameOK(Listed', K)
  BY <1>2, <1>5, <1>6, <1>8, RenamePushOK
 <2>2. FrameOK(ht', Listed', f)
  BY <1>5 DEF FrameOK, Loops
 <2>3. LoneOK(ht', Listed', K)
  BY <1>7, <2>2 DEF LoneOK
 <2> QED BY <1>3, <1>6, <1>8, <2>1, <2>3 DEF GoesWell
<1>9. ASSUME NEW p \in Listed, NEW g \in Waiting, Unlinked(ht, ht', p, Listed, Listed'), g.fn = "del",
             stack' = Append(Append(stack, f), g), p # f.p
      PROVE  GoesWell'
 <2>1. f.p \in Listed'
  BY <1>5, <1>9 DEF Unlinked
 <2>2. RenameOK(Listed', K)
  BY <1>2, <1>6, <2>1, RenamePushOK
 <2>3. g.fn \notin Renames
  BY <1>9 DEF Renames
 <2>4. stack' = Append(K, g)
  BY <1>6, <1>9
 <2>5. RenameOK(Listed', stack')
  BY <1>7, <2>2, <2>3, <2>4, RenamePushed
 <2>6. Last(stack') = g
  BY <1>7, <2>4, TopOfAppend
 <2>7. FrameOK(ht', Listed', g)
  BY <1>9 DEF FrameOK, Loops
 <2> QED BY <1>3, <2>5, <2>6, <2>7 DEF GoesWell, LoneOK
<1> QED BY <1>5, <1>8, <1>9

\* The steps that delete or rename.
LEMMA WellDeleting ==
    ASSUME WellInv, ReentrantCalm,
           \/ \E k \in Keys : zend_hash_del(k) \/ zend_hash_update_current_key(k)
           \/ DelReturns \/ UpdateCurrentKeyGoesOn
    PROVE  GoesWell'
<1>0. StructureInv /\ broken = "no" /\ stack \in Seq(Waiting) /\ RenameOK(Listed, stack)
 BY WellFacts
<1>1. ASSUME NEW k \in Keys, zend_hash_del(k) PROVE GoesWell'
 <2>1. \E p \in Listed : \E f \in Waiting :
          /\ Unlinked(ht, ht', p, Listed, Listed') /\ owned' = owned \ {ht.pData[p]}
          /\ f.fn = "del" /\ f.p = p /\ f.key = NoKey /\ f.data = NULL /\ stack' = Append(stack, f)
  BY <1>0, <1>1, StepDel
 <2>2. PICK f \in Waiting : f.fn = "del" /\ stack' = Append(stack, f)
  BY <2>1
 <2>3. MayCall("del") /\ broken' = "no"
  BY <1>0, <1>1 DEF zend_hash_del, MayWait, Delete
 <2>4. None(Renames, stack)
  BY <2>3, WellCalled
 <2>5. f.fn \notin Renames /\ FrameOK(ht', Listed', f)
  BY <2>2 DEF Renames, FrameOK, Loops
 <2> QED BY <1>0, <2>2, <2>3, <2>4, <2>5, WellPush
<1>2. ASSUME NEW k \in Keys, zend_hash_update_current_key(k) PROVE GoesWell'
 BY <1>2, WellRenameCalled
<1>3. CASE DelReturns
 <2>1. Listed' = Listed /\ stack # <<>> /\ stack' = Front(stack)
  BY <1>0, <1>3, StepDelReturns
 <2>2. broken' = "no"
  BY <1>0, <1>3 DEF DelReturns
 <2>3. RenameOK(Listed, Front(stack))
  BY <1>0, <2>1, RenamePopped
 <2>4. LoneOK(ht', Listed', stack')
  BY <2>1, WellBelow, NoneOK
 <2> QED BY <2>1, <2>2, <2>3, <2>4 DEF GoesWell
<1>4. CASE UpdateCurrentKeyGoesOn
 <2>1. /\ stack # <<>> /\ Top.fn = "update_current_key"
       /\ \/ Broke /\ Listed' = Listed /\ Top.p \notin Listed
          \/ /\ stack' = Front(stack) /\ owned' = owned /\ broken' = broken /\ Top.p \in Listed
             /\ \E q : Moved(ht, ht', Top.p, q, Top.key, Listed, Listed')
  BY <1>0, <1>4, StepRenamed
 <2>2. Top.p \in Listed
  <3>1. Last(stack).fn \in Renames => Last(stack).p \in Listed
   BY <1>0, <2>1, RenamePopped
  <3> QED BY <2>1, <3>1 DEF Top, Renames
 <2>3. stack' = Front(stack) /\ broken' = "no" /\ Top.fn # "del"
  BY <1>0, <2>1, <2>2
 <2> QED BY <2>1, <2>3, WellReturns
<1> QED BY <1>1, <1>2, <1>3, <1>4

\* While a sort may be called no deletion is under way: the table that has
\* elements to sort has a first one.
LEMMA WellSort ==
    ASSUME WellInv, ReentrantCalm, MayCall("sort"), ht.nNumOfElements > 0
    PROVE  List(ht) # <<>>
<1>1. StructureInv /\ stack \in Seq(Waiting)
 BY WellFacts
<1>2. "del" \notin Reentrant
 BY DEF MayCall, ReentrantCalm
<1>3. Calm({"del"})
 BY <1>2 DEF Calm
<1>4. None({"del"}, stack)
 BY <1>1, <1>3, NoneCalled
<1>5. Dels(stack) = {}
 BY <1>4 DEF None, Dels
<1>6. ht.nNumOfElements = Len(List(ht)) + Cardinality(Dels(stack))
 BY <1>1, InvFacts DEF State
<1>7. Cardinality({}) = 0
 BY FS_EmptySet
<1>8. List(ht) = <<>> => Len(List(ht)) = 0
 OBVIOUS
<1> QED BY <1>5, <1>6, <1>7, <1>8

\* Moving the pointer, sorting and emptying.
LEMMA WellMoving ==
    ASSUME WellInv, ReentrantCalm,
           \/ PointerMoves \/ zend_hash_get_pointer \/ zend_hash_clean \/ _zend_hash_init
           \/ \E renumber \in BOOLEAN : zend_hash_sort(renumber)
    PROVE  GoesWell'
<1>0. StructureInv /\ broken = "no"
 BY WellFacts
<1>1. CASE PointerMoves
 <2>1. (MayCall("pointer") \/ MayCall("foreach")) /\ stack' = stack /\ broken' = broken
  BY <1>1 DEF PointerMoves, internal_pointer_reset, internal_pointer_end, move_forward, move_backwards,
              zend_hash_set_pointer, Changes
 <2> QED BY <2>1, WellStays
<1>2. CASE zend_hash_get_pointer
 <2>1. MayCall("foreach") /\ stack' = stack /\ broken' = broken
  BY <1>2 DEF zend_hash_get_pointer
 <2> QED BY <2>1, WellStays
<1>3. CASE zend_hash_clean
 <2>1. MayCall("clean") /\ stack' = stack /\ broken' = broken
  BY <1>3 DEF zend_hash_clean, OwnerCalls
 <2> QED BY <2>1, WellStays
<1>4. CASE _zend_hash_init
 <2>1. stack' = <<>> /\ broken' = "no"
  BY <1>0, <1>4, StepInit
 <2> QED BY <2>1, WellNone, EmptyCalm DEF None
<1>5. ASSUME NEW renumber \in BOOLEAN, zend_hash_sort(renumber) PROVE GoesWell'
 <2>1. \/ Broke /\ List(ht) = <<>> /\ ht.nNumOfElements > 0
       \/ UNCHANGED <<stack, owned, broken>> /\ \E r : Ordered(ht, ht', Listed, r, renumber)
  BY <1>0, <1>5, StepSort
 <2>2. MayCall("sort")
  BY <1>5 DEF zend_hash_sort
 <2>3. UNCHANGED <<stack, owned, broken>>
  BY <2>1, <2>2, WellSort
 <2> QED BY <2>2, <2>3, WellStays
<1> QED BY <1>1, <1>2, <1>3, <1>4, <1>5

\* A loop goes on with an element that is there.
LEMMA WellNext ==
    ASSUME NEW K \in Seq(Waiting), None(Lone, K), None(Renames, K), NEW E, AppliesNext(K, E), Listed' = E, broken' = "no"
    PROVE  GoesWell'
<1>1. CASE stack' = K
 BY <1>1, WellNone
<1>2. ASSUME NEW f \in Waiting, f.fn = "apply_func", f.p \in E, stack' = Append(K, f)
      PROVE  GoesWell'
 <2>1. f.fn \notin Renames /\ FrameOK(ht', Listed', f)
  BY <1>2 DEF Renames, FrameOK, Loops
 <2> QED BY <1>2, <2>1, WellPush
<1> QED BY <1>1, <1>2 DEF AppliesNext

\* A destructor is called, and the element to go on with is there.
LEMMA WellTaken ==
    ASSUME NEW t, NEW loop \in Loops \cup Graceful, NEW E, NEW p, NEW next, NEW K \in Seq(Waiting),
           None(Renames, K), Taken(t, loop, p, next, E, K), next \in Listed' \cup {NULL}, broken = "no"
    PROVE  GoesWell'
<1>1. Unlinked(t, ht', p, E, Listed') /\ broken' = "no"
 BY DEF Taken
<1>2. PICK f \in Waiting : f.fn = loop /\ f.p = p /\ f.next = next /\ stack' = Append(K, f)
 BY DEF Taken
<1>3. ht'.pListNext[p] \in Listed' \cup {NULL}
 BY <1>1 DEF Unlinked
<1>4. f.fn \notin Renames /\ f.fn \notin {"update", "apply_func"}
 BY <1>2 DEF Renames, Loops, Graceful
<1>5. FrameOK(ht', Listed', f)
 BY <1>2, <1>3, <1>4 DEF FrameOK
<1> QED BY <1>1, <1>2, <1>4, <1>5, WellPush

\* The loops that apply a function.
LEMMA WellApplies ==
    ASSUME WellInv, ReentrantCalm,
           \/ \E loop \in Loops : zend_hash_apply(loop) \/ ApplyDeleterReturns(loop)
           \/ \E remove, stop \in BOOLEAN : ApplyFuncReturns(remove, stop)
    PROVE  GoesWell'
<1>0. StructureInv /\ broken = "no" /\ stack \in Seq(Waiting) /\ (stack # <<>> => FrameOK(ht, Listed, Top))
 BY WellFacts
<1>1. ASSUME NEW loop \in Loops, zend_hash_apply(loop) PROVE GoesWell'
 <2>1. Listed' = Listed /\ UNCHANGED <<ht, owned, broken>> /\ AppliesNext(stack, Listed)
  BY <1>0, <1>1, StepApply
 <2>2. None(Lone, stack) /\ None(Renames, stack)
  BY <1>1, WellCalled DEF zend_hash_apply, MayWait
 <2>3. broken' = "no"
  BY <1>0, <2>1
 <2> QED BY <1>0, <2>1, <2>2, <2>3, WellNext
<1>2. ASSUME NEW loop \in Loops, ApplyDeleterReturns(loop) PROVE GoesWell'
 <2>1. /\ stack # <<>> /\ Top.fn = loop
       /\ \/ /\ Broke /\ Listed' = Listed
             /\ ht.pListNext[Top.p] \notin Listed \cup {NULL} \/ Top.next \notin Listed \cup {NULL}
          \/ /\ Released(ht, ht', Top.p, Listed) /\ Listed' = Listed /\ UNCHANGED <<owned, broken>>
             /\ AppliesNext(Front(stack), Listed)
  BY <1>0, <1>2, StepApplyDeleter
 <2>2. Top.next \in Listed \cup {NULL} /\ ht.pListNext[Top.p] \in Listed \cup {NULL}
  BY <1>0, <2>1 DEF FrameOK
 <2>3. Listed' = Listed /\ broken' = "no" /\ AppliesNext(Front(stack), Listed)
  BY <1>0, <2>1, <2>2
 <2>4. Top.fn # "del"
  BY <2>1 DEF Loops
 <2>5. Front(stack) \in Seq(Waiting) /\ None(Lone, Front(stack)) /\ None(Renames, Front(stack))
  BY <2>1, <2>4, WellBelow
 <2> QED BY <2>3, <2>5, WellNext
<1>3. ASSUME NEW remove \in BOOLEAN, NEW stop \in BOOLEAN, ApplyFuncReturns(remove, stop) PROVE GoesWell'
 <2>1. /\ stack # <<>> /\ Top.fn = "apply_func"
       /\ \/ Broke /\ Listed' = Listed /\ Top.p \notin Listed
          \/ /\ Top.p \in Listed
             /\ \E loop \in Loops : \E next : Taken(ht, loop, Top.p, next, Listed, Front(stack))
                                              /\ next \in Listed' \cup {NULL}
          \/ Top.p \in Listed /\ Listed' = Listed /\ UNCHANGED <<ht, owned, broken>> /\ AppliesNext(Front(stack), Listed)
  BY <1>0, <1>3, StepApplyFunc
 <2>2. Top.p \in Listed
  BY <1>0, <2>1 DEF FrameOK
 <2>3. Top.fn # "del"
  BY <2>1
 <2>4. Front(stack) \in Seq(Waiting) /\ None(Lone, Front(stack)) /\ None(Renames, Front(stack))
  BY <2>1, <2>3, WellBelow
 <2>5. ASSUME NEW loop \in Loops, NEW next, Taken(ht, loop, Top.p, next, Listed, Front(stack)), next \in Listed' \cup {NULL}
       PROVE  GoesWell'
  <3>1. loop \in Loops \cup Graceful
   OBVIOUS
  <3> QED BY <1>0, <2>4, <2>5, <3>1, WellTaken
 <2>6. CASE Listed' = Listed /\ UNCHANGED <<ht, owned, broken>> /\ AppliesNext(Front(stack), Listed)
  <3>1. broken' = "no"
   BY <1>0, <2>6
  <3> QED BY <2>4, <2>6, <3>1, WellNext
 <2> QED BY <2>1, <2>2, <2>5, <2>6
<1> QED BY <1>1, <1>2, <1>3

\* The graceful destroys: one goes on from the first element, the other from the last.
LEMMA WellDestroys ==
    ASSUME WellInv, ReentrantCalm, NEW loop \in Graceful,
           zend_hash_graceful_destroy(loop) \/ GracefulDeleterReturns(loop)
    PROVE  GoesWell'
<1>0. StructureInv /\ broken = "no" /\ (stack # <<>> => FrameOK(ht, Listed, Top))
 BY WellFacts
<1>a. <<>> \in Seq(Waiting) /\ None(Lone, <<>>) /\ None(Renames, <<>>) /\ loop \in Loops \cup Graceful
 BY EmptyCalm DEF None
<1>1. ASSUME NEW t, Destroyed(t) PROVE GoesWell'
 <2>1. stack' = <<>> /\ broken' = "no"
  BY <1>0, <1>1 DEF Destroyed
 <2> QED BY <1>a, <2>1, WellNone
<1>2. ASSUME NEW t, NEW p, Taken(t, loop, p, NULL, Listed, <<>>) PROVE GoesWell'
 BY <1>0, <1>a, <1>2, WellTaken
<1>3. CASE zend_hash_graceful_destroy(loop)
 <2>1. \/ Destroyed(ht)
       \/ \E p \in Listed : Taken(ht, loop, p, NULL, Listed, <<>>)
  <3>1. \/ Destroyed(ht) /\ Listed = {} /\ Listed' = Listed
        \/ \E p \in Listed : /\ Taken(ht, loop, p, NULL, Listed, <<>>)
                             /\ loop = "graceful_destroy" => p = ht.pListHead
   BY <1>0, <1>3, StepDestroy
  <3> QED BY <3>1
 <2> QED BY <1>1, <1>2, <2>1
<1>4. CASE GracefulDeleterReturns(loop)
 <2>1. /\ stack # <<>> /\ Top.fn = loop
       /\ \/ /\ Broke /\ Listed' = Listed /\ loop = "graceful_destroy"
             /\ ht.pListNext[Top.p] \notin Listed \cup {NULL}
          \/ \E t : /\ Released(ht, t, Top.p, Listed)
                    /\ \/ /\ Destroyed(t) /\ Listed' = Listed
                          /\ loop = "graceful_destroy" => ht.pListNext[Top.p] = NULL
                          /\ loop = "graceful_reverse_destroy" => Listed = {}
                       \/ \E p \in Listed : /\ Taken(t, loop, p, NULL, Listed, <<>>)
                                            /\ loop = "graceful_destroy" => p = ht.pListNext[Top.p]
  BY <1>0, <1>4, StepDestroyed
 <2>2. loop = "graceful_destroy" => ht.pListNext[Top.p] \in Listed \cup {NULL}
  BY <1>0, <2>1 DEF FrameOK
 <2>3. \E t : \/ Destroyed(t)
              \/ \E p \in Listed : Taken(t, loop, p, NULL, Listed, <<>>)
  BY <2>1, <2>2
 <2> QED BY <1>1, <1>2, <2>3
<1> QED BY <1>3, <1>4

\* Where only the destructors called by zend_hash_del and by
\* zend_hash_graceful_reverse_destroy use the table, and no sort or rename runs
\* while such a deletion is under way, no function ever goes on with a bucket that
\* was freed while it waited.
THEOREM NeverBrokenCorrect ==
    ASSUME Reentrant \subseteq {"del", "graceful_reverse_destroy"},
           "del" \in Reentrant => {"sort", "update_current_key"} \cap Functions = {}
    PROVE  Spec => []NeverBroken
<1>0. ReentrantCalm
 BY DEF ReentrantCalm
<1>1. Init => WellInv
 <2> SUFFICES ASSUME Init PROVE WellInv
  OBVIOUS
 <2>1. StructureInv
  BY StructureInit
 <2>2. stack = <<>> /\ broken = "no"
  BY DEF Init
 <2> QED BY <2>1, <2>2 DEF WellInv, GoesWell, LoneOK, RenameOK
<1>2. WellInv /\ [Next]_vars => WellInv'
 <2> SUFFICES ASSUME WellInv, [Next]_vars PROVE WellInv'
  OBVIOUS
 <2>1. StructureInv /\ StructureInv'
  BY WellFacts, StructureNext
 <2>2. GoesWell'
  <3>1. CASE UNCHANGED vars
   <4>1. Listed' = Listed /\ ht' = ht /\ stack' = stack /\ broken' = broken
    BY <3>1 DEF vars, Listed
   <4> QED BY <4>1 DEF WellInv, GoesWell, LoneOK, RenameOK
  <3>2. CASE \/ \E d \in Data : NextInsert(d) \/ \E k \in Keys : Add(k, d) \/ Update(k, d)
             \/ UpdateReturns
   BY <1>0, <3>2, WellStoring
  <3>3. CASE \/ \E k \in Keys : zend_hash_del(k) \/ zend_hash_update_current_key(k)
             \/ DelReturns \/ UpdateCurrentKeyGoesOn
   BY <1>0, <3>3, WellDeleting
  <3>4. CASE \/ PointerMoves \/ zend_hash_get_pointer \/ zend_hash_clean \/ _zend_hash_init
             \/ \E renumber \in BOOLEAN : zend_hash_sort(renumber)
   BY <1>0, <3>4, WellMoving
  <3>5. CASE \/ \E loop \in Loops : zend_hash_apply(loop) \/ ApplyDeleterReturns(loop)
             \/ \E remove, stop \in BOOLEAN : ApplyFuncReturns(remove, stop)
   BY <1>0, <3>5, WellApplies
  <3>6. ASSUME NEW loop \in Graceful, zend_hash_graceful_destroy(loop) \/ GracefulDeleterReturns(loop)
        PROVE  GoesWell'
   BY <1>0, <3>6, WellDestroys
  <3> QED BY <3>1, <3>2, <3>3, <3>4, <3>5, <3>6 DEF Next, PointerMoves, Loops, Graceful
 <2> QED BY <2>1, <2>2 DEF WellInv
<1>3. WellInv => NeverBroken
 BY DEF WellInv, GoesWell, NeverBroken
<1> QED BY <1>1, <1>2, <1>3, PTL DEF Spec

--------------------
(* What a table is to its users. *)

Pair(t, p) == [key |-> t.key[p], data |-> t.pData[p]]

\* The elements s of table t, as its users see them.
LEMMA MapOrderIs ==
    ASSUME NEW t, NEW s, Table(t, s), NEW o, o = MapOrder(t), NEW c, c = MapCursor(t)
    PROVE  /\ Len(s) \in Nat /\ Len(o) = Len(s)
           /\ o = [i \in 1 .. Len(s) |-> Pair(t, s[i])]
           /\ c \in 0 .. Len(s)
           /\ c = 0 <=> t.pInternalPointer = NULL
           /\ c # 0 => s[c] = t.pInternalPointer
           /\ \A i \in 1 .. Len(s) : s[i] = t.pInternalPointer => c = i
<1>1. /\ s \in Seq(Addr) /\ Len(s) \in Nat /\ List(t) = s
      /\ \A i, j \in 1 .. Len(s) : s[i] = s[j] => i = j
      /\ NULL \notin ToSet(s)
 BY TableFacts
<1>2. DOMAIN s = 1 .. Len(s) /\ ToSet(s) = {s[i] : i \in 1 .. Len(s)}
 BY <1>1, SeqFacts
<1>3. o = [i \in 1 .. Len(s) |-> Pair(t, s[i])]
 BY <1>1, <1>2 DEF MapOrder, Pair
<1>4. Len(o) = Len(s)
 BY <1>1, <1>3
<1>5. PICK p : p = t.pInternalPointer
 OBVIOUS
<1>6. p = NULL \/ p \in ToSet(s)
 BY <1>5 DEF Table, Pointed
<1>7. c = IF p \in ToSet(s) THEN CHOOSE i \in 1 .. Len(s) : s[i] = p ELSE 0
 BY <1>1, <1>2, <1>5 DEF MapCursor
<1>8. CASE p = NULL
 BY <1>1, <1>2, <1>3, <1>4, <1>5, <1>7, <1>8
<1>9. CASE p \in ToSet(s)
 <2>1. \E i \in 1 .. Len(s) : s[i] = p
  BY <1>2, <1>9
 <2>2. c \in 1 .. Len(s) /\ s[c] = p
  BY <1>7, <1>9, <2>1
 <2>3. \A i \in 1 .. Len(s) : s[i] = p => c = i
  BY <1>1, <2>2
 <2>4. p # NULL
  BY <1>1, <1>9
 <2> QED BY <1>1, <1>3, <1>4, <1>5, <2>2, <2>3, <2>4
<1> QED BY <1>6, <1>8, <1>9

\* RemoveAt, by place.
LEMMA RemoveAtIs ==
    ASSUME NEW T, NEW o \in Seq(T), NEW k \in 1 .. Len(o)
    PROVE  RemoveAt(o, k) = [i \in 1 .. Len(o) - 1 |-> IF i < k THEN o[i] ELSE o[i + 1]]
<1>1. PICK n \in Nat : n = Len(o)
 OBVIOUS
<1>2. PICK a, b : a = SubSeq(o, 1, k - 1) /\ b = SubSeq(o, k + 1, n)
 OBVIOUS
<1>3. a \in Seq(T) /\ Len(a) = k - 1 /\ \A i \in 1 .. k - 1 : a[i] = o[i]
 <2>1. 1 \in 1 .. Len(o) + 1 /\ k - 1 \in 1 - 1 .. Len(o)
  BY <1>1
 <2>2. a \in Seq(T) /\ Len(a) = (k - 1) - 1 + 1 /\ \A i \in 1 .. (k - 1) - 1 + 1 : a[i] = o[1 + i - 1]
  BY <1>2, <2>1, SubSeqProperties
 <2> QED BY <2>2, <1>1
<1>4. b \in Seq(T) /\ Len(b) = n - k /\ \A i \in 1 .. n - k : b[i] = o[k + i]
 <2>1. k + 1 \in 1 .. Len(o) + 1 /\ n \in (k + 1) - 1 .. Len(o)
  BY <1>1
 <2>2. b \in Seq(T) /\ Len(b) = n - (k + 1) + 1 /\ \A i \in 1 .. n - (k + 1) + 1 : b[i] = o[(k + 1) + i - 1]
  BY <1>2, <2>1, SubSeqProperties
 <2> QED BY <2>2, <1>1
<1>5. PICK c : c = a \o b
 OBVIOUS
<1>6. c \in Seq(T) /\ Len(c) = n - 1 /\ \A i \in 1 .. n - 1 : c[i] = IF i < k THEN o[i] ELSE o[i + 1]
 <2>1. c \in Seq(T) /\ Len(c) = Len(a) + Len(b)
       /\ \A i \in 1 .. Len(a) + Len(b) : c[i] = IF i <= Len(a) THEN a[i] ELSE b[i - Len(a)]
  BY <1>3, <1>4, <1>5, ConcatProperties
 <2>2. ASSUME NEW i \in 1 .. n - 1 PROVE c[i] = IF i < k THEN o[i] ELSE o[i + 1]
  <3>1. CASE i < k
   <4>1. i \in 1 .. Len(a) + Len(b) /\ i <= Len(a) /\ i \in 1 .. k - 1
    BY <1>1, <1>3, <1>4, <3>1
   <4> QED BY <1>3, <2>1, <3>1, <4>1
  <3>2. CASE ~(i < k)
   <4>1. i - (k - 1) \in 1 .. n - k /\ k + (i - (k - 1)) = i + 1
    BY <1>1, <3>2
   <4>2. i \in 1 .. Len(a) + Len(b) /\ ~(i <= Len(a)) /\ i - Len(a) = i - (k - 1)
    BY <1>1, <1>3, <1>4, <3>2
   <4> QED BY <1>4, <2>1, <3>2, <4>1, <4>2
  <3> QED BY <3>1, <3>2
 <2> QED BY <1>1, <1>3, <1>4, <2>1, <2>2
<1>7. c = [i \in 1 .. n - 1 |-> IF i < k THEN o[i] ELSE o[i + 1]]
 BY <1>1, <1>6
<1> QED BY <1>1, <1>2, <1>5, <1>7 DEF RemoveAt

\* Nothing changes that a user sees.
SameMap(t, u) ==
    /\ MapOrder(u) = MapOrder(t) /\ MapCursor(u) = MapCursor(t)
    /\ u.nNextFreeElement = t.nNextFreeElement

\* The same elements with the same keys and values.
LEMMA MapSame ==
    ASSUME NEW t, NEW s, Table(t, s), NEW u, Table(u, s), u.pInternalPointer = t.pInternalPointer,
           u.nNextFreeElement = t.nNextFreeElement,
           \A q \in ToSet(s) : u.key[q] = t.key[q] /\ u.pData[q] = t.pData[q]
    PROVE  SameMap(t, u)
<1>1. /\ Len(s) \in Nat
      /\ MapOrder(t) = [i \in 1 .. Len(s) |-> Pair(t, s[i])]
      /\ MapCursor(t) \in 0 .. Len(s)
      /\ MapCursor(t) = 0 <=> t.pInternalPointer = NULL
      /\ MapCursor(t) # 0 => s[MapCursor(t)] = t.pInternalPointer
 BY MapOrderIs
<1>2. /\ MapOrder(u) = [i \in 1 .. Len(s) |-> Pair(u, s[i])]
      /\ MapCursor(u) = 0 <=> u.pInternalPointer = NULL
      /\ \A i \in 1 .. Len(s) : s[i] = u.pInternalPointer => MapCursor(u) = i
 BY MapOrderIs
<1>3. \A i \in 1 .. Len(s) : Pair(u, s[i]) = Pair(t, s[i])
 BY TableFacts DEF Pair
<1>4. MapOrder(u) = MapOrder(t)
 BY <1>1, <1>2, <1>3
<1>5. MapCursor(u) = MapCursor(t)
 BY <1>1, <1>2
<1> QED BY <1>4, <1>5 DEF SameMap

\* The i-th of n elements goes: the cursor c stays with its element, or goes
\* to the next.
CursorLeft(c, i, n) == IF c > i THEN c - 1 ELSE IF c = i /\ i = n THEN 0 ELSE c

\* One element goes.
LosesOne(t, u) ==
    \E i \in 1 .. Len(MapOrder(t)) :
       /\ MapOrder(u) = RemoveAt(MapOrder(t), i)
       /\ MapCursor(u) = CursorLeft(MapCursor(t), i, Len(MapOrder(t)))
       /\ u.nNextFreeElement = t.nNextFreeElement

\* Unlinking a bucket removes its element.
LEMMA MapUnlink ==
    ASSUME NEW t, NEW s, Table(t, s), NEW p \in ToSet(s), NEW u, u = Unlink(t, p)
    PROVE  LosesOne(t, u)
<1>1. /\ s \in Seq(Addr) /\ Len(s) \in Nat
      /\ \A i, j \in 1 .. Len(s) : s[i] = s[j] => i = j
      /\ \A i \in 1 .. Len(s) : t.pListNext[s[i]] = Nth(s, i + 1) /\ s[i] # NULL
 BY TableFacts
<1>2. PICK k \in 1 .. Len(s) : s[k] = p
 BY <1>1, PlaceOf
<1>3. PICK w : w = Without(s, k)
 OBVIOUS
<1>4. /\ Table(u, w) /\ Len(w) = Len(s) - 1
      /\ u.nNextFreeElement = t.nNextFreeElement /\ u.key = t.key /\ u.pData = t.pData
      /\ u.pInternalPointer = IF t.pInternalPointer = p THEN t.pListNext[p] ELSE t.pInternalPointer
 BY <1>2, <1>3, TableUnlink
<1>5. \A i \in 1 .. Len(s) - 1 : w[i] = IF i < k THEN s[i] ELSE s[i + 1]
 BY <1>3 DEF Without
<1>6. PICK n, o, c, o2, c2 : n = Len(s) /\ o = MapOrder(t) /\ c = MapCursor(t) /\ o2 = MapOrder(u) /\ c2 = MapCursor(u)
 OBVIOUS
<1>7. /\ n \in Nat /\ Len(o) = n /\ o = [i \in 1 .. n |-> Pair(t, s[i])] /\ c \in 0 .. n
      /\ c = 0 <=> t.pInternalPointer = NULL
      /\ c # 0 => s[c] = t.pInternalPointer
      /\ \A i \in 1 .. n : s[i] = t.pInternalPointer => c = i
 BY <1>6, MapOrderIs
<1>8. /\ o2 = [i \in 1 .. n - 1 |-> Pair(u, w[i])]
      /\ c2 = 0 <=> u.pInternalPointer = NULL
      /\ \A i \in 1 .. n - 1 : w[i] = u.pInternalPointer => c2 = i
 BY <1>4, <1>6, MapOrderIs
<1>9. o2 = RemoveAt(o, k)
 <2>1. PICK T : T = {Pair(t, x) : x \in Addr}
  OBVIOUS
 <2>5. o \in Seq(T) /\ k \in 1 .. Len(o)
  BY <1>1, <1>6, <1>7, <2>1
 <2>2. RemoveAt(o, k) = [i \in 1 .. n - 1 |-> IF i < k THEN o[i] ELSE o[i + 1]]
  BY <1>6, <1>7, <2>5, RemoveAtIs
 <2>3. \A x : Pair(u, x) = Pair(t, x)
  BY <1>4 DEF Pair
 <2>4. ASSUME NEW i \in 1 .. n - 1 PROVE Pair(u, w[i]) = IF i < k THEN o[i] ELSE o[i + 1]
  <3>1. i \in 1 .. n /\ i + 1 \in 1 .. n
   BY <1>7
  <3> QED BY <1>5, <1>6, <1>7, <2>3, <3>1
 <2> QED BY <1>8, <2>2, <2>4
<1>10. c2 = CursorLeft(c, k, n)
 <2>1. CASE c = 0
  <3>1. u.pInternalPointer = NULL
   BY <1>1, <1>2, <1>4, <1>7, <2>1
  <3> QED BY <1>6, <1>8, <2>1, <3>1 DEF CursorLeft
 <2>2. CASE c # 0 /\ c < k
  <3>1. u.pInternalPointer = s[c] /\ c \in 1 .. n - 1 /\ w[c] = s[c]
   BY <1>1, <1>2, <1>4, <1>5, <1>6, <1>7, <2>2
  <3> QED BY <1>7, <1>8, <2>2, <3>1 DEF CursorLeft
 <2>3. CASE c = k /\ k = n
  <3>1. u.pInternalPointer = NULL
   BY <1>1, <1>2, <1>4, <1>6, <1>7, <2>3 DEF Nth
  <3> QED BY <1>7, <1>8, <2>3, <3>1 DEF CursorLeft
 <2>4. CASE c = k /\ k # n
  <3>1. u.pInternalPointer = s[k + 1] /\ k \in 1 .. n - 1 /\ w[k] = s[k + 1]
   BY <1>1, <1>2, <1>4, <1>5, <1>6, <1>7, <2>4 DEF Nth
  <3> QED BY <1>7, <1>8, <2>4, <3>1 DEF CursorLeft
 <2>5. CASE c > k
  <3>1. u.pInternalPointer = s[c] /\ c - 1 \in 1 .. n - 1 /\ w[c - 1] = s[c]
   <4>1. c - 1 \in 1 .. n - 1 /\ ~(c - 1 < k) /\ (c - 1) + 1 = c /\ c \in 1 .. n /\ c # k
    BY <1>6, <1>7, <2>5
   <4>2. t.pInternalPointer = s[c] /\ s[c] # p
    BY <1>1, <1>2, <1>6, <1>7, <4>1
   <4> QED BY <1>4, <1>5, <1>6, <4>1, <4>2
  <3> QED BY <1>7, <1>8, <2>5, <3>1 DEF CursorLeft
 <2> QED BY <1>6, <1>7, <2>1, <2>2, <2>3, <2>4, <2>5
<1> QED BY <1>4, <1>6, <1>7, <1>9, <1>10 DEF LosesOne

\* What is the same before and after does not matter.
LEMMA LosesSame ==
    ASSUME NEW t, NEW v, NEW u
    PROVE  /\ SameMap(t, v) /\ LosesOne(v, u) => LosesOne(t, u)
           /\ LosesOne(t, v) /\ SameMap(v, u) => LosesOne(t, u)
           /\ SameMap(t, v) /\ SameMap(v, u) => SameMap(t, u)
<1>1. SameMap(t, v) /\ LosesOne(v, u) => LosesOne(t, u)
 BY DEF SameMap, LosesOne
<1>2. LosesOne(t, v) /\ SameMap(v, u) => LosesOne(t, u)
 BY DEF SameMap, LosesOne
<1>3. SameMap(t, v) /\ SameMap(v, u) => SameMap(t, u)
 BY DEF SameMap
<1> QED BY <1>1, <1>2, <1>3

\* One more element, the last, which is current if none was.
GainsOne(t, u, k, d) ==
    /\ MapOrder(u) = Append(MapOrder(t), [key |-> k, data |-> d])
    /\ MapCursor(u) = IF MapCursor(t) = 0 THEN Len(MapOrder(t)) + 1 ELSE MapCursor(t)
    /\ u.nNextFreeElement = NextFree(t, k)

\* Insertion.
LEMMA MapInsert ==
    ASSUME NEW t, NEW s, Table(t, s), NEW p \in Addr, p \notin ToSet(s), NEW k \in Stored, NEW d \in Data,
           NEW u, u = Insert(t, p, k, d)
    PROVE  GainsOne(t, u, k, d)
<1>1. /\ s \in Seq(Addr) /\ Len(s) \in Nat /\ \A i \in 1 .. Len(s) : s[i] \in Addr /\ s[i] \in ToSet(s)
 BY TableFacts
<1>2. PICK w : w = Append(s, p)
 OBVIOUS
<1>3. /\ Table(u, w) /\ Len(w) = Len(s) + 1
      /\ \A q \in Addr : u.key[q] = IF q = p THEN k ELSE t.key[q]
      /\ \A q \in Addr : u.pData[q] = IF q = p THEN d ELSE t.pData[q]
      /\ u.nNextFreeElement = NextFree(t, k)
      /\ u.pInternalPointer = IF t.pInternalPointer = NULL THEN p ELSE t.pInternalPointer
 BY <1>2, TableInsert
<1>4. w[Len(s) + 1] = p /\ \A i \in 1 .. Len(s) : w[i] = s[i]
 BY <1>1, <1>2
<1>5. PICK n, o, c, o2, c2 : n = Len(s) /\ o = MapOrder(t) /\ c = MapCursor(t) /\ o2 = MapOrder(u) /\ c2 = MapCursor(u)
 OBVIOUS
<1>6. /\ n \in Nat /\ Len(o) = n /\ o = [i \in 1 .. n |-> Pair(t, s[i])] /\ c \in 0 .. n
      /\ c = 0 <=> t.pInternalPointer = NULL
      /\ c # 0 => s[c] = t.pInternalPointer
 BY <1>5, MapOrderIs
<1>7. /\ o2 = [i \in 1 .. n + 1 |-> Pair(u, w[i])]
      /\ \A i \in 1 .. n + 1 : w[i] = u.pInternalPointer => c2 = i
 BY <1>3, <1>5, MapOrderIs
<1>8. o2 = Append(o, [key |-> k, data |-> d])
 <2>1. Pair(u, w[n + 1]) = [key |-> k, data |-> d]
  BY <1>3, <1>4, <1>5 DEF Pair
 <2>2. ASSUME NEW i \in 1 .. n PROVE Pair(u, w[i]) = o[i]
  BY <1>1, <1>3, <1>4, <1>5, <1>6 DEF Pair
 <2>3. o2 = [i \in 1 .. n + 1 |-> IF i = n + 1 THEN [key |-> k, data |-> d] ELSE o[i]]
  BY <1>6, <1>7, <2>1, <2>2
 <2>4. Append(o, [key |-> k, data |-> d]) = [i \in 1 .. n + 1 |-> IF i = n + 1 THEN [key |-> k, data |-> d] ELSE o[i]]
  BY <1>6 DEF Append
 <2> QED BY <2>3, <2>4
<1>9. c2 = IF c = 0 THEN n + 1 ELSE c
 <2>1. CASE c = 0
  BY <1>3, <1>4, <1>5, <1>6, <1>7, <2>1
 <2>2. CASE c # 0
  <3>1. c \in 1 .. n /\ c \in 1 .. n + 1 /\ w[c] = u.pInternalPointer
   BY <1>3, <1>4, <1>5, <1>6, <2>2
  <3> QED BY <1>7, <2>2, <3>1
 <2> QED BY <2>1, <2>2
<1> QED BY <1>3, <1>5, <1>6, <1>8, <1>9 DEF GainsOne

\* The element with key k gets another value.
Stores(t, u, k, d, n) ==
    \E i \in 1 .. Len(MapOrder(t)) :
       /\ MapOrder(t)[i].key = k
       /\ MapOrder(u) = [MapOrder(t) EXCEPT ![i].data = d]
       /\ MapCursor(u) = MapCursor(t)
       /\ u.nNextFreeElement = n

\* The elements are those of t, but for one that is in another bucket or has
\* another key or value.
Altered(t, s, u, w, n, x) ==
    /\ Table(t, s) /\ Table(u, w) /\ n \in 1 .. Len(s) /\ Len(w) = Len(s)
    /\ \A i \in 1 .. Len(s) : i # n => w[i] = s[i] /\ Pair(u, w[i]) = Pair(t, s[i])
    /\ Pair(u, w[n]) = x
    /\ u.pInternalPointer = IF t.pInternalPointer = s[n] THEN w[n] ELSE t.pInternalPointer

\* The cursor stays where it is.
LEMMA MapAltered ==
    ASSUME NEW t, NEW s, NEW u, NEW w, NEW n, NEW x, Altered(t, s, u, w, n, x)
    PROVE  /\ Len(MapOrder(t)) = Len(s) /\ Len(s) \in Nat /\ MapOrder(t)[n] = Pair(t, s[n])
           /\ MapOrder(t) = [i \in 1 .. Len(s) |-> Pair(t, s[i])]
           /\ MapOrder(u) = [i \in 1 .. Len(s) |-> IF i = n THEN x ELSE MapOrder(t)[i]]
           /\ MapCursor(u) = MapCursor(t)
           /\ t.pInternalPointer = s[n] => MapCursor(t) = n
<1>1. /\ Table(t, s) /\ Table(u, w) /\ n \in 1 .. Len(s) /\ Len(w) = Len(s)
      /\ \A i \in 1 .. Len(s) : i # n => w[i] = s[i] /\ Pair(u, w[i]) = Pair(t, s[i])
      /\ Pair(u, w[n]) = x
      /\ u.pInternalPointer = IF t.pInternalPointer = s[n] THEN w[n] ELSE t.pInternalPointer
 BY DEF Altered
<1>2. PICK l, o, c, o2, c2 : l = Len(s) /\ o = MapOrder(t) /\ c = MapCursor(t) /\ o2 = MapOrder(u) /\ c2 = MapCursor(u)
 OBVIOUS
<1>3. /\ l \in Nat /\ Len(o) = l /\ o = [i \in 1 .. l |-> Pair(t, s[i])] /\ c \in 0 .. l
      /\ c = 0 <=> t.pInternalPointer = NULL
      /\ c # 0 => s[c] = t.pInternalPointer
      /\ \A i \in 1 .. l : s[i] = t.pInternalPointer => c = i
 BY <1>1, <1>2, MapOrderIs
<1>4. /\ o2 = [i \in 1 .. l |-> Pair(u, w[i])]
      /\ c2 = 0 <=> u.pInternalPointer = NULL
      /\ \A i \in 1 .. l : w[i] = u.pInternalPointer => c2 = i
 BY <1>1, <1>2, MapOrderIs
<1>5. o2 = [i \in 1 .. l |-> IF i = n THEN x ELSE o[i]]
 <2>1. \A i \in 1 .. l : Pair(u, w[i]) = IF i = n THEN x ELSE o[i]
  BY <1>1, <1>2, <1>3
 <2> QED BY <1>4, <2>1
<1>6. \A i \in 1 .. Len(s) : s[i] # NULL
 BY <1>1, TableFacts
<1>7. c2 = c
 <2>1. CASE t.pInternalPointer = s[n]
  BY <1>1, <1>2, <1>3, <1>4, <2>1
 <2>2. CASE t.pInternalPointer # s[n] /\ c = 0
  BY <1>1, <1>2, <1>3, <1>4, <2>2
 <2>3. CASE t.pInternalPointer # s[n] /\ c # 0
  <3>1. c \in 1 .. l /\ c # n /\ s[c] = t.pInternalPointer
   BY <1>1, <1>3, <2>3
  <3>2. w[c] = u.pInternalPointer
   BY <1>1, <1>2, <2>3, <3>1
  <3> QED BY <1>4, <3>1, <3>2
 <2> QED BY <2>1, <2>2, <2>3
<1> QED BY <1>1, <1>2, <1>3, <1>5, <1>7

\* A value is stored.
LEMMA MapStore ==
    ASSUME NEW t, NEW s, Table(t, s), NEW p \in ToSet(s), NEW d \in Data \cup {NULL}, NEW m \in Nat,
           NEW u, u = WithValue(t, p, d, m)
    PROVE  Stores(t, u, t.key[p], d, m)
<1>1. /\ s \in Seq(Addr) /\ Len(s) \in Nat /\ \A i \in 1 .. Len(s) : s[i] \in Addr
      /\ \A i, j \in 1 .. Len(s) : s[i] = s[j] => i = j
 BY TableFacts
<1>2. PICK n \in 1 .. Len(s) : s[n] = p
 BY <1>1, PlaceOf
<1>3. /\ Table(u, s) /\ u.nNextFreeElement = m
      /\ \A q \in Addr : u.pData[q] = IF q = p THEN d ELSE t.pData[q]
      /\ u.key = t.key /\ u.pInternalPointer = t.pInternalPointer
 <2>1. /\ Table(u, s) /\ u.nNextFreeElement = m
       /\ \A q \in Addr : u.pData[q] = IF q = p THEN d ELSE t.pData[q]
       /\ \A g \in Fields \ {"nNextFreeElement", "pData"} : u[g] = t[g]
  <3>1. p \in Addr
   BY <1>1, <1>2
  <3> QED BY <3>1, TableStore
 <2>2. "key" \in Fields \ {"nNextFreeElement", "pData"} /\ "pInternalPointer" \in Fields \ {"nNextFreeElement", "pData"}
  BY DEF Fields
 <2> QED BY <2>1, <2>2
<1>4. PICK x : x = [key |-> t.key[p], data |-> d]
 OBVIOUS
<1>5. Altered(t, s, u, s, n, x)
 BY <1>1, <1>2, <1>3, <1>4 DEF Altered, Pair
<1>6. PICK o : o = MapOrder(t)
 OBVIOUS
<1>7. /\ Len(o) = Len(s) /\ o[n] = Pair(t, p)
      /\ o = [i \in 1 .. Len(s) |-> Pair(t, s[i])]
      /\ MapOrder(u) = [i \in 1 .. Len(s) |-> IF i = n THEN x ELSE o[i]]
      /\ MapCursor(u) = MapCursor(t)
 BY <1>2, <1>5, <1>6, MapAltered
<1>8. MapOrder(u) = [o EXCEPT ![n].data = d]
 <2>1. [o[n] EXCEPT !.data = d] = x
  BY <1>4, <1>7 DEF Pair
 <2> QED BY <1>7, <2>1
<1>9. o[n].key = t.key[p]
 BY <1>7 DEF Pair
<1> QED BY <1>2, <1>3, <1>6, <1>7, <1>8, <1>9 DEF Stores

\* The current element gets another key.
KeyChanged(t, u, k) ==
    /\ MapCursor(t) # 0
    /\ MapOrder(u) = [MapOrder(t) EXCEPT ![MapCursor(t)].key = k]
    /\ MapCursor(u) = MapCursor(t)
    /\ u.nNextFreeElement = t.nNextFreeElement

\* One with another key is the current one.
LEMMA MapRenameAltered ==
    ASSUME NEW t, NEW s, NEW u, NEW w, NEW n \in 1 .. Len(s), NEW k, s[n] = t.pInternalPointer,
           Altered(t, s, u, w, n, [key |-> k, data |-> t.pData[s[n]]]), u.nNextFreeElement = t.nNextFreeElement
    PROVE  KeyChanged(t, u, k)
<1>1. PICK x : x = [key |-> k, data |-> t.pData[s[n]]]
 OBVIOUS
<1>2. PICK o : o = MapOrder(t)
 OBVIOUS
<1>3. /\ Len(o) = Len(s) /\ o[n] = Pair(t, s[n])
      /\ o = [i \in 1 .. Len(s) |-> Pair(t, s[i])]
      /\ MapOrder(u) = [i \in 1 .. Len(s) |-> IF i = n THEN x ELSE o[i]]
      /\ MapCursor(u) = MapCursor(t) /\ MapCursor(t) = n /\ n # 0
 BY <1>1, <1>2, MapAltered
<1>4. MapOrder(u) = [o EXCEPT ![n].key = k]
 <2>1. [o[n] EXCEPT !.key = k] = x
  BY <1>1, <1>3 DEF Pair
 <2> QED BY <1>3, <2>1
<1> QED BY <1>2, <1>3, <1>4 DEF KeyChanged

\* The current element gets another key in another bucket.
LEMMA MapSubstitute ==
    ASSUME NEW t, NEW s, Table(t, s), NEW p \in ToSet(s), p = t.pInternalPointer, NEW k \in Stored,
           NEW q \in Addr, q \notin ToSet(s), NEW v, v = DisconnectFromBucket(t, p),
           NEW u, u = ConnectToBucket(WithKey(Replace(v, p, q), q, k), q)
    PROVE  KeyChanged(t, u, k)
<1>1. /\ s \in Seq(Addr) /\ Len(s) \in Nat /\ \A i \in 1 .. Len(s) : s[i] \in Addr /\ s[i] \in ToSet(s)
      /\ \A i, j \in 1 .. Len(s) : s[i] = s[j] => i = j
 BY TableFacts
<1>2. PICK n \in 1 .. Len(s) : s[n] = p
 BY <1>1, PlaceOf
<1>3. PICK w : w = Instead(s, n, q)
 OBVIOUS
<1>4. /\ Table(u, w)
      /\ Len(w) = Len(s)
      /\ ToSet(w) = (ToSet(s) \ {p}) \cup {q}
      /\ u.allocated = (t.allocated \cup {q}) \ {p}
      /\ \A x \in Addr : x # p /\ x # q => u.key[x] = t.key[x] /\ u.pData[x] = t.pData[x]
      /\ u.key[q] = k /\ u.pData[q] = t.pData[p] /\ u.key[p] = NoKey /\ u.pData[p] = NULL
      /\ \A x \in Addr : x # p /\ x # q /\ x \notin ToSet(s) => u.pListNext[x] = t.pListNext[x]
      /\ u.nNumOfElements = t.nNumOfElements /\ u.nNextFreeElement = t.nNextFreeElement
      /\ u.pInternalPointer = IF t.pInternalPointer = p THEN q ELSE t.pInternalPointer
 BY <1>2, <1>3, TableSubstitute
<1>5. w[n] = q /\ \A i \in 1 .. Len(s) : i # n => w[i] = s[i]
 BY <1>1, <1>3 DEF Instead
<1>6. ASSUME NEW i \in 1 .. Len(s), i # n PROVE Pair(u, w[i]) = Pair(t, s[i])
 <2>1. s[i] # p /\ s[i] # q /\ s[i] \in Addr /\ w[i] = s[i]
  BY <1>1, <1>2, <1>5, <1>6
 <2> QED BY <1>4, <2>1 DEF Pair
<1>7. Altered(t, s, u, w, n, [key |-> k, data |-> t.pData[s[n]]])
 BY <1>2, <1>4, <1>5, <1>6 DEF Altered, Pair
<1> QED BY <1>2, <1>4, <1>7, MapRenameAltered

\* The current element gets another key, in the same bucket or another one.
LEMMA MapRename ==
    ASSUME NEW t, NEW s, Table(t, s), NEW p \in ToSet(s), p = t.pInternalPointer, NEW k \in Stored, NEW u,
           \/ u = ConnectToBucket(WithKey(DisconnectFromBucket(t, p), p, k), p)
           \/ \E q \in Addr \ ToSet(s) :
                 u = ConnectToBucket(WithKey(Replace(DisconnectFromBucket(t, p), p, q), q, k), q)
    PROVE  KeyChanged(t, u, k)
<1>1. /\ s \in Seq(Addr) /\ Len(s) \in Nat /\ \A i \in 1 .. Len(s) : s[i] \in Addr /\ s[i] \in ToSet(s)
      /\ \A i, j \in 1 .. Len(s) : s[i] = s[j] => i = j
 BY TableFacts
<1>2. PICK n \in 1 .. Len(s) : s[n] = p
 BY <1>1, PlaceOf
<1>3. CASE u = ConnectToBucket(WithKey(DisconnectFromBucket(t, p), p, k), p)
 <2>1. /\ Table(u, s)
       /\ \A q \in Addr : u.key[q] = IF q = p THEN k ELSE t.key[q]
       /\ \A g \in Fields \ {"key", "arBuckets", "pNext", "pLast"} : u[g] = t[g]
  BY <1>3, TableRename
 <2>2. /\ "pData" \in Fields \ {"key", "arBuckets", "pNext", "pLast"}
       /\ "pInternalPointer" \in Fields \ {"key", "arBuckets", "pNext", "pLast"}
       /\ "nNextFreeElement" \in Fields \ {"key", "arBuckets", "pNext", "pLast"}
  BY DEF Fields
 <2>3. u.pData = t.pData /\ u.pInternalPointer = t.pInternalPointer /\ u.nNextFreeElement = t.nNextFreeElement
  BY <2>1, <2>2
 <2>4. Altered(t, s, u, s, n, [key |-> k, data |-> t.pData[s[n]]])
  BY <1>1, <1>2, <2>1, <2>3 DEF Altered, Pair
 <2> QED BY <1>2, <2>3, <2>4, MapRenameAltered
<1>4. ASSUME NEW q \in Addr \ ToSet(s),
             u = ConnectToBucket(WithKey(Replace(DisconnectFromBucket(t, p), p, q), q, k), q)
      PROVE  KeyChanged(t, u, k)
 <2>1. PICK v : v = DisconnectFromBucket(t, p)
  OBVIOUS
 <2>2. u = ConnectToBucket(WithKey(Replace(v, p, q), q, k), q) /\ q \in Addr /\ q \notin ToSet(s)
  BY <1>4, <2>1
 <2> QED BY <2>1, <2>2, MapSubstitute
<1> QED BY <1>3, <1>4

\* The elements stay, and the cursor goes anywhere.
Points(t, u) ==
    /\ MapOrder(u) = MapOrder(t)
    /\ MapCursor(u) \in 0 .. Len(MapOrder(t))
    /\ u.nNextFreeElement = t.nNextFreeElement

\* The internal pointer is set.
LEMMA MapPoint ==
    ASSUME NEW t, NEW s, Table(t, s), NEW p, p = NULL \/ p \in ToSet(s), NEW u, u = WithPointer(t, p)
    PROVE  Points(t, u)
<1>1. Table(u, s) /\ \A g \in Fields \ {"pInternalPointer"} : u[g] = t[g]
 BY TablePoint
<1>2. "key" \in Fields \ {"pInternalPointer"} /\ "pData" \in Fields \ {"pInternalPointer"}
      /\ "nNextFreeElement" \in Fields \ {"pInternalPointer"}
 BY DEF Fields
<1>3. u.key = t.key /\ u.pData = t.pData /\ u.nNextFreeElement = t.nNextFreeElement
 BY <1>1, <1>2
<1>4. Len(s) \in Nat /\ MapOrder(t) = [i \in 1 .. Len(s) |-> Pair(t, s[i])] /\ Len(MapOrder(t)) = Len(s)
 BY MapOrderIs
<1>5. MapOrder(u) = [i \in 1 .. Len(s) |-> Pair(u, s[i])] /\ MapCursor(u) \in 0 .. Len(s)
 BY <1>1, MapOrderIs
<1>6. \A x : Pair(u, x) = Pair(t, x)
 BY <1>3 DEF Pair
<1> QED BY <1>3, <1>4, <1>5, <1>6 DEF Points

\* o2 has the elements of o in another order, with the keys 0, 1, 2, ... if asked.
Rearranged(o, o2, renumber) ==
    \E f \in [1 .. Len(o) -> 1 .. Len(o)] :
       /\ \A i, j \in 1 .. Len(o) : f[i] = f[j] => i = j
       /\ o2 = [i \in 1 .. Len(o) |->
             IF renumber THEN [o[f[i]] EXCEPT !.key = Numeric(i - 1)] ELSE o[f[i]]]

\* The elements are put into another order, and the first is current.
Sorts(t, u, renumber) ==
    /\ MapOrder(t) # <<>> /\ MapCursor(u) = 1
    /\ Rearranged(MapOrder(t), MapOrder(u), renumber)
    /\ u.nNextFreeElement = IF renumber THEN Len(MapOrder(t)) ELSE t.nNextFreeElement

\* zend_hash_sort.
LEMMA MapSort ==
    ASSUME NEW t, NEW s, Table(t, s), s # <<>>, NEW r, Reordering(s, r), NEW renumber \in BOOLEAN,
           NEW v, v = Relink(t, r), NEW u, u = IF renumber THEN Renumber(v, r) ELSE v
    PROVE  Sorts(t, u, renumber)
<1>1. /\ s \in Seq(Addr) /\ Len(s) \in Nat /\ ToSet(s) = {s[i] : i \in 1 .. Len(s)}
      /\ \A i, j \in 1 .. Len(s) : s[i] = s[j] => i = j
      /\ Len(s) # 0 /\ \A i \in 1 .. Len(s) : s[i] \in Addr
 <2>1. s \in Seq(Addr) /\ Len(s) \in Nat /\ (\A i, j \in 1 .. Len(s) : s[i] = s[j] => i = j) /\ (s = <<>> <=> Len(s) = 0)
       /\ \A i \in 1 .. Len(s) : s[i] \in Addr
  BY TableFacts
 <2>2. ToSet(s) = {s[i] : i \in 1 .. Len(s)}
  BY <2>1, SeqFacts
 <2> QED BY <2>1, <2>2
<1>2. /\ r \in Seq(Addr) /\ Len(r) = Len(s)
      /\ \A i \in 1 .. Len(s) : r[i] \in ToSet(s)
      /\ \A i, j \in 1 .. Len(s) : r[i] = r[j] => i = j
 BY <1>1, ReorderingFacts
<1>3. /\ Table(v, r) /\ v.pInternalPointer = r[1]
      /\ v.key = t.key /\ v.pData = t.pData /\ v.nNextFreeElement = t.nNextFreeElement
 <2>1. Table(v, r) /\ v.pInternalPointer = r[1] /\ \A g \in Fields \ Relinking : v[g] = t[g]
  BY TableRelink
 <2>2. "key" \in Fields \ Relinking /\ "pData" \in Fields \ Relinking /\ "nNextFreeElement" \in Fields \ Relinking
  BY DEF Fields, Relinking
 <2> QED BY <2>1, <2>2
<1>4. /\ Table(u, r) /\ u.pInternalPointer = r[1] /\ u.pData = t.pData
      /\ u.nNextFreeElement = IF renumber THEN Len(s) ELSE t.nNextFreeElement
      /\ \A i \in 1 .. Len(s) : u.key[r[i]] = IF renumber THEN Numeric(i - 1) ELSE t.key[r[i]]
 <2>1. CASE ~renumber
  BY <1>3, <2>1
 <2>2. CASE renumber
  <3>1. u = Renumber(v, r)
   BY <2>2
  <3>2. /\ Table(u, r) /\ u.nNextFreeElement = Len(r)
        /\ \A i \in 1 .. Len(r) : u.key[r[i]] = Numeric(i - 1)
        /\ \A g \in Fields \ {"nNextFreeElement", "key", "arBuckets", "pNext", "pLast"} : u[g] = v[g]
   BY <1>3, <3>1, TableRenumber
  <3>3. /\ "pData" \in Fields \ {"nNextFreeElement", "key", "arBuckets", "pNext", "pLast"}
        /\ "pInternalPointer" \in Fields \ {"nNextFreeElement", "key", "arBuckets", "pNext", "pLast"}
   BY DEF Fields
  <3>4. u.pData = v.pData /\ u.pInternalPointer = v.pInternalPointer
   BY <3>2, <3>3
  <3> QED BY <1>2, <1>3, <2>2, <3>2, <3>4
 <2> QED BY <2>1, <2>2
<1>5. PICK n, o, o2 : n = Len(s) /\ o = MapOrder(t) /\ o2 = MapOrder(u)
 OBVIOUS
<1>6. n \in Nat /\ n # 0 /\ Len(o) = n /\ o = [i \in 1 .. n |-> Pair(t, s[i])]
 BY <1>1, <1>5, MapOrderIs
<1>7. /\ o2 = [i \in 1 .. n |-> Pair(u, r[i])]
      /\ \A i \in 1 .. n : r[i] = u.pInternalPointer => MapCursor(u) = i
 BY <1>2, <1>4, <1>5, MapOrderIs
<1>8. MapCursor(u) = 1 /\ o # <<>>
 BY <1>4, <1>6, <1>7
<1>9. PICK f : f = [i \in 1 .. n |-> CHOOSE j \in 1 .. n : s[j] = r[i]]
 OBVIOUS
<1>10. \A i \in 1 .. n : f[i] \in 1 .. n /\ s[f[i]] = r[i]
 <2>1. ASSUME NEW i \in 1 .. n PROVE f[i] \in 1 .. n /\ s[f[i]] = r[i]
  <3>1. \E j \in 1 .. n : s[j] = r[i]
   BY <1>1, <1>2, <1>5
  <3> QED BY <1>9, <3>1
 <2> QED BY <2>1
<1>11. f \in [1 .. n -> 1 .. n] /\ \A i, j \in 1 .. n : f[i] = f[j] => i = j
 BY <1>2, <1>5, <1>9, <1>10
<1>12. o2 = [i \in 1 .. n |-> IF renumber THEN [o[f[i]] EXCEPT !.key = Numeric(i - 1)] ELSE o[f[i]]]
 <2>1. ASSUME NEW i \in 1 .. n
       PROVE  Pair(u, r[i]) = IF renumber THEN [o[f[i]] EXCEPT !.key = Numeric(i - 1)] ELSE o[f[i]]
  <3>1. o[f[i]] = Pair(t, r[i])
   BY <1>6, <1>10
  <3>2. Pair(u, r[i]) = [key |-> IF renumber THEN Numeric(i - 1) ELSE t.key[r[i]], data |-> t.pData[r[i]]]
   BY <1>4, <1>5 DEF Pair
  <3> QED BY <3>1, <3>2 DEF Pair
 <2> QED BY <1>7, <2>1
<1>13. Rearranged(o, o2, renumber)
 <2>1. Len(o) = n
  BY <1>6
 <2>2. f \in [1 .. n -> 1 .. n] /\ \A i, j \in 1 .. n : f[i] = f[j] => i = j
  BY <1>11
 <2> QED BY ONLY <2>1, <2>2, <1>12 DEF Rearranged
<1>14. u.nNextFreeElement = IF renumber THEN Len(o) ELSE t.nNextFreeElement
 BY <1>4, <1>5, <1>6
<1> QED BY ONLY <1>5, <1>8, <1>13, <1>14 DEF Sorts

\* No elements.
Empties(u) == MapOrder(u) = <<>> /\ MapCursor(u) = 0 /\ u.nNextFreeElement = 0

\* A table just set up.
LEMMA MapEmpty ==
    ASSUME NEW n \in Nat \ {0}, NEW u, u = EmptyTable(n)
    PROVE  Empties(u)
<1>1. Table(u, <<>>) /\ u.nNextFreeElement = 0 /\ u.pInternalPointer = NULL
 BY TableEmpty
<1>2. MapOrder(u) = [i \in 1 .. Len(<<>>) |-> Pair(u, <<>>[i])] /\ MapCursor(u) = 0
 BY <1>1, MapOrderIs
<1>3. MapOrder(u) = <<>>
 BY <1>2
<1> QED BY <1>1, <1>2, <1>3 DEF Empties

\* Freeing a bucket that is not listed changes nothing.
LEMMA MapFree ==
    ASSUME NEW t, NEW s, Table(t, s), NEW p \in Addr, p \notin ToSet(s), NEW u, u = Free(t, p)
    PROVE  Table(u, s) /\ SameMap(t, u)
<1>1. /\ Table(u, s)
      /\ u.allocated = t.allocated \ {p}
      /\ u.nTableSize = t.nTableSize /\ u.nNumOfElements = t.nNumOfElements
      /\ u.nNextFreeElement = t.nNextFreeElement /\ u.pInternalPointer = t.pInternalPointer
      /\ u.pListHead = t.pListHead /\ u.pListTail = t.pListTail
      /\ \A q \in Addr : q # p => /\ u.key[q] = t.key[q] /\ u.pData[q] = t.pData[q]
                                  /\ u.pListNext[q] = t.pListNext[q]
      /\ u.key[p] = NoKey /\ u.pData[p] = NULL /\ u.pListNext[p] = NULL
 BY TableFree
<1>2. ToSet(s) \subseteq Addr
 BY TableFacts, SeqFacts
<1>3. \A q \in ToSet(s) : u.key[q] = t.key[q] /\ u.pData[q] = t.pData[q]
 BY <1>1, <1>2
<1> QED BY <1>1, <1>3, MapSame

\* Nor does counting.
LEMMA MapCount ==
    ASSUME NEW t, NEW s, Table(t, s), NEW n \in Int, NEW u, u = WithCount(t, n)
    PROVE  Table(u, s) /\ SameMap(t, u)
<1>1. Table(u, s) /\ u.nNumOfElements = n /\ \A g \in Fields \ {"nNumOfElements"} : u[g] = t[g]
 BY TableCount
<1>2. /\ "key" \in Fields \ {"nNumOfElements"} /\ "pData" \in Fields \ {"nNumOfElements"}
      /\ "pInternalPointer" \in Fields \ {"nNumOfElements"} /\ "nNextFreeElement" \in Fields \ {"nNumOfElements"}
 BY DEF Fields
<1>3. /\ u.key = t.key /\ u.pData = t.pData /\ u.pInternalPointer = t.pInternalPointer
      /\ u.nNextFreeElement = t.nNextFreeElement
 BY <1>1, <1>2
<1> QED BY <1>1, <1>3, MapSame

--------------------
(* Steps of the map. *)

\* No element has key k.
Lacks(t, k) == \A i \in 1 .. Len(MapOrder(t)) : MapOrder(t)[i].key # k

\* No two elements have the same key.
Unequal(t) == \A i, j \in 1 .. Len(MapOrder(t)) : MapOrder(t)[i].key = MapOrder(t)[j].key => i = j

\* Tables t and u are an ordered map before and after one of its operations.
MapStep(t, u) ==
    \/ SameMap(t, u)
    \/ \E k \in AllKeys, d \in Data : Lacks(t, k) /\ GainsOne(t, u, k, d)
    \/ \E k \in AllKeys, d \in Data : Unequal(t) /\ Stores(t, u, k, d, NextFree(t, k))
    \/ LosesOne(t, u)
    \/ \E k \in Keys : Lacks(t, k) /\ KeyChanged(t, u, k)
    \/ Points(t, u)
    \/ \E renumber \in BOOLEAN : Sorts(t, u, renumber)
    \/ Empties(u)

\* The map's keys.
LEMMA MapKeys == Map!AllKeys = AllKeys /\ \A i : Map!Numeric(i) = Numeric(i)
BY DEF Map!AllKeys, Map!Numeric, AllKeys, Numeric

\* Finding a key that no element has.
LEMMA FindNone ==
    ASSUME NEW k, Lacks(ht, k)
    PROVE  Map!Find(k) = 0
<1>1. {i \in 1 .. Len(MapOrder(ht)) : MapOrder(ht)[i].key = k} = {}
 BY DEF Lacks
<1> QED BY <1>1 DEF Map!Find

\* Finding a key that one element has.
LEMMA FindOne ==
    ASSUME NEW k, Unequal(ht), NEW i \in 1 .. Len(MapOrder(ht)), MapOrder(ht)[i].key = k
    PROVE  Map!Find(k) = i
<1>1. PICK E : E = {j \in 1 .. Len(MapOrder(ht)) : MapOrder(ht)[j].key = k}
 OBVIOUS
<1>2. i \in E /\ \A j \in E : j = i
 BY <1>1 DEF Unequal
<1>3. Map!Find(k) = CHOOSE j \in E : TRUE
 BY <1>1, <1>2 DEF Map!Find
<1> QED BY <1>2, <1>3

\* The next index.
LEMMA NextAfterIs ==
    ASSUME NEW k
    PROVE  Map!NextAfter(k) = NextFree(ht, k)
BY DEF Map!NextAfter, NextFree

\* Adding an element is Insert.
LEMMA MapInserts ==
    ASSUME NEW k \in AllKeys, NEW d \in Data, Lacks(ht, k), GainsOne(ht, ht', k, d)
    PROVE  Map!Next
<1>1. Map!Insert(k, d)
 BY FindNone, NextAfterIs DEF Map!Insert, GainsOne
<1> QED BY <1>1, MapKeys DEF Map!Next

\* Storing a new value for a key is Replace.
LEMMA MapReplaces ==
    ASSUME NEW k \in AllKeys, NEW d \in Data, Unequal(ht), Stores(ht, ht', k, d, NextFree(ht, k))
    PROVE  Map!Next
<1>1. PICK i \in 1 .. Len(MapOrder(ht)) :
        /\ MapOrder(ht)[i].key = k
        /\ MapOrder(ht') = [MapOrder(ht) EXCEPT ![i].data = d]
        /\ MapCursor(ht') = MapCursor(ht)
        /\ ht'.nNextFreeElement = NextFree(ht, k)
 BY DEF Stores
<1>2. Map!Find(k) = i /\ i # 0
 BY <1>1, FindOne
<1>3. Map!Replace(k, d)
 BY <1>1, <1>2, NextAfterIs DEF Map!Replace
<1> QED BY <1>3, MapKeys DEF Map!Next

\* Taking an element off is Delete.
LEMMA MapDeletes ==
    ASSUME LosesOne(ht, ht')
    PROVE  Map!Next
<1>1. PICK i \in 1 .. Len(MapOrder(ht)) :
       /\ MapOrder(ht') = RemoveAt(MapOrder(ht), i)
       /\ MapCursor(ht') = CursorLeft(MapCursor(ht), i, Len(MapOrder(ht)))
       /\ ht'.nNextFreeElement = ht.nNextFreeElement
 BY DEF LosesOne
<1>2. Map!CursorWithout(i) = CursorLeft(MapCursor(ht), i, Len(MapOrder(ht)))
 BY DEF Map!CursorWithout, CursorLeft
<1>3. Map!Delete(i)
 BY <1>1, <1>2 DEF Map!Delete, Map!RemoveAt, RemoveAt
<1> QED BY <1>1, <1>3 DEF Map!Next

\* A new key for the current element is Rename.
LEMMA MapRenames ==
    ASSUME NEW k \in Keys, Lacks(ht, k), KeyChanged(ht, ht', k)
    PROVE  Map!Next
<1>1. Map!Rename(k)
 BY FindNone DEF Map!Rename, KeyChanged
<1> QED BY <1>1 DEF Map!Next

\* Moving the internal pointer is MoveTo.
LEMMA MapPoints ==
    ASSUME Points(ht, ht')
    PROVE  Map!Next
<1>1. PICK c : c = MapCursor(ht')
 OBVIOUS
<1>2. Map!MoveTo(c) /\ c \in 0 .. Len(MapOrder(ht))
 BY <1>1 DEF Map!MoveTo, Points
<1> QED BY <1>2 DEF Map!Next

\* Emptying the table is Clear.
LEMMA MapEmpties ==
    ASSUME Empties(ht')
    PROVE  Map!Next
<1>1. Map!Clear
 BY DEF Map!Clear, Empties
<1> QED BY <1>1 DEF Map!Next
\* MapOrder in another order.
LEMMA PermutedBy ==
    ASSUME NEW o, o = MapOrder(ht), NEW f \in [1 .. Len(o) -> 1 .. Len(o)],
           \A i, j \in 1 .. Len(o) : f[i] = f[j] => i = j, DOMAIN o = 1 .. Len(o),
           NEW s, s = [i \in 1 .. Len(o) |-> o[f[i]]]
    PROVE  s \in Map!Permuted
<1>1. PICK G : G = {g \in [DOMAIN o -> DOMAIN o] : \A i, j \in DOMAIN o : g[i] = g[j] => i = j}
 OBVIOUS
<1>2. f \in G
 BY <1>1
<1>3. \E p \in G : s = [i \in DOMAIN o |-> o[p[i]]]
 BY <1>2
<1>4. s \in {[i \in DOMAIN o |-> o[p[i]]] : p \in G}
 BY <1>3
<1>5. Map!Permuted = {[i \in DOMAIN o |-> o[p[i]]] : p \in G}
 BY <1>1 DEF Map!Permuted
<1> QED BY <1>4, <1>5

\* Sorting is Reorder, or Renumber.
LEMMA MapSorts ==
    ASSUME NEW s, Table(ht, s), NEW renumber \in BOOLEAN, Sorts(ht, ht', renumber)
    PROVE  Map!Next
<1>1. PICK o, o2 : o = MapOrder(ht) /\ o2 = MapOrder(ht')
 OBVIOUS
<1>2. o = [i \in 1 .. Len(s) |-> Pair(ht, s[i])] /\ Len(o) = Len(s)
 BY <1>1, MapOrderIs
<1>3. DOMAIN o = 1 .. Len(o)
 BY <1>2
<1>4. PICK f \in [1 .. Len(o) -> 1 .. Len(o)] :
        /\ \A i, j \in 1 .. Len(o) : f[i] = f[j] => i = j
        /\ o2 = [i \in 1 .. Len(o) |-> IF renumber THEN [o[f[i]] EXCEPT !.key = Numeric(i - 1)] ELSE o[f[i]]]
 BY <1>1 DEF Sorts, Rearranged
<1>5. PICK v : v = [i \in 1 .. Len(o) |-> o[f[i]]]
 OBVIOUS
<1>6. v \in Map!Permuted
 <2>1. \A i, j \in 1 .. Len(o) : f[i] = f[j] => i = j
  BY <1>4
 <2>2. f \in [1 .. Len(o) -> 1 .. Len(o)]
  BY <1>4
 <2> QED BY ONLY <1>1, <1>3, <1>5, <2>1, <2>2, PermutedBy
<1>7. /\ o # <<>> /\ MapCursor(ht') = 1
      /\ ht'.nNextFreeElement = IF renumber THEN Len(o) ELSE ht.nNextFreeElement
 BY <1>1 DEF Sorts
<1>8. CASE ~renumber
 <2>1. o2 = v
  BY <1>4, <1>5, <1>8
 <2>2. Map!Reorder(v)
  BY <1>1, <1>7, <1>8, <2>1 DEF Map!Reorder
 <2> QED BY <1>6, <2>2 DEF Map!Next
<1>9. CASE renumber
 <2>1. DOMAIN v = 1 .. Len(o) /\ Len(v) = Len(o)
  BY <1>2, <1>5, TableFacts
 <2>2. o2 = [i \in DOMAIN v |-> [v[i] EXCEPT !.key = Map!Numeric(i - 1)]]
  BY <1>4, <1>5, <1>9, <2>1, MapKeys
 <2>3. Map!Renumber(v)
  BY <1>1, <1>7, <1>9, <2>1, <2>2 DEF Map!Renumber
 <2> QED BY <1>6, <2>3 DEF Map!Next
<1> QED BY <1>8, <1>9

\* Whatever happens to the table is a step of the map, or none.
LEMMA MapStepIs ==
    ASSUME NEW s, Table(ht, s), MapStep(ht, ht')
    PROVE  [Map!Next]_(Map!vars)
<1>1. CASE SameMap(ht, ht')
 BY <1>1 DEF Map!vars, SameMap
<1>2. CASE Map!Next
 BY <1>2
<1>3. ASSUME ~SameMap(ht, ht') PROVE Map!Next
 <2>1. ASSUME NEW k \in AllKeys, NEW d \in Data, Lacks(ht, k), GainsOne(ht, ht', k, d) PROVE Map!Next
  BY <2>1, MapInserts
 <2>2. ASSUME NEW k \in AllKeys, NEW d \in Data, Unequal(ht), Stores(ht, ht', k, d, NextFree(ht, k)) PROVE Map!Next
  BY <2>2, MapReplaces
 <2>3. ASSUME NEW k \in Keys, Lacks(ht, k), KeyChanged(ht, ht', k) PROVE Map!Next
  BY <2>3, MapRenames
 <2>4. ASSUME NEW renumber \in BOOLEAN, Sorts(ht, ht', renumber) PROVE Map!Next
  BY <2>4, MapSorts
 <2> QED BY <1>3, <2>1, <2>2, <2>3, <2>4, MapDeletes, MapPoints, MapEmpties DEF MapStep
<1> QED BY <1>1, <1>2, <1>3

\* No element of the table has key k, seen as a map.
LEMMA LacksIs ==
    ASSUME NEW t, NEW s, Table(t, s), NEW k, \A q \in ToSet(s) : t.key[q] # k
    PROVE  Lacks(t, k)
<1>1. PICK o : o = MapOrder(t)
 OBVIOUS
<1>2. Len(o) = Len(s) /\ o = [i \in 1 .. Len(s) |-> Pair(t, s[i])]
 BY <1>1, MapOrderIs
<1>3. \A i \in 1 .. Len(s) : s[i] \in ToSet(s)
 BY TableFacts
<1> QED BY <1>1, <1>2, <1>3 DEF Lacks, Pair

\* Its keys are distinct.
LEMMA UnequalIs ==
    ASSUME NEW t, NEW s, Table(t, s), Distinct(t.key, ToSet(s))
    PROVE  Unequal(t)
<1>1. PICK o : o = MapOrder(t)
 OBVIOUS
<1>2. Len(o) = Len(s) /\ o = [i \in 1 .. Len(s) |-> Pair(t, s[i])]
 BY <1>1, MapOrderIs
<1>3. /\ \A i \in 1 .. Len(s) : s[i] \in ToSet(s)
      /\ \A i, j \in 1 .. Len(s) : s[i] = s[j] => i = j
 BY TableFacts
<1>4. ASSUME NEW i \in 1 .. Len(s), NEW j \in 1 .. Len(s), o[i].key = o[j].key PROVE i = j
 <2>1. t.key[s[i]] = t.key[s[j]]
  BY <1>2, <1>4 DEF Pair
 <2> QED BY <1>3, <2>1 DEF Distinct
<1> QED BY <1>1, <1>2, <1>4 DEF Unequal

\* A deleter takes an element.
LEMMA MapCalls ==
    ASSUME NEW t, NEW s, Table(t, s), NEW p \in ToSet(s), NEW loop, NEW next, NEW stop, NEW frames,
           CallDeleter(loop, t, p, next, stop, frames)
    PROVE  LosesOne(t, ht')
<1>1. PICK v, u, n : v = Unlink(t, p) /\ u = ht' /\ n = v.nNumOfElements - 1
 OBVIOUS
<1>2. u = WithCount(v, n)
 BY <1>1 DEF CallDeleter, WithCount
<1>3. LosesOne(t, v)
 BY <1>1, MapUnlink
<1>4. /\ s \in Seq(Addr) /\ Len(s) \in Nat
 BY TableFacts
<1>5. PICK k \in 1 .. Len(s) : s[k] = p
 BY <1>4, PlaceOf
<1>6. PICK w : w = Without(s, k)
 OBVIOUS
<1>7. Table(v, w)
 BY <1>1, <1>5, <1>6, TableUnlink
<1>8. n \in Int
 BY <1>1, <1>7 DEF Table, Shaped
<1>9. SameMap(v, u)
 BY <1>2, <1>7, <1>8, MapCount
<1> QED BY <1>1, <1>3, <1>9, LosesSame

\* zend_hash_del unlinks an element.
LEMMA MapDeleteCalled ==
    ASSUME StructureInv, NEW p \in Listed, NEW frames, Delete(ht, p, frames)
    PROVE  LosesOne(ht, ht')
<1>1. PICK s, u : s = List(ht) /\ u = ht'
 OBVIOUS
<1>2. Table(ht, s) /\ p \in ToSet(s)
 BY <1>1, InvFacts
<1>3. u = Unlink(ht, p)
 BY <1>1 DEF Delete
<1> QED BY <1>1, <1>2, <1>3, MapUnlink

\* A bucket to be freed is not listed.
LEMMA TopUnlisted ==
    ASSUME StructureInv, stack # <<>>, Last(stack).fn \notin Settled
    PROVE  Last(stack).p \in Addr /\ Last(stack).p \notin Listed
<1>1. PICK s : s = List(ht)
 OBVIOUS
<1>2. State(ht, s, stack) /\ Listed = ToSet(s) /\ stack \in Seq(Waiting)
 BY <1>1, InvFacts
<1>3. PICK n, K2 : n = Len(stack) /\ K2 = Front(stack)
 OBVIOUS
<1>4. n \in Nat \ {0} /\ Last(stack) = stack[n]
 BY <1>2, <1>3, FrontFacts
<1>5. n \in Half(stack)
 BY <1>3, <1>4 DEF Half
<1>6. StackOK(ht, ToSet(s), stack)
 BY <1>2, StateFacts
<1>7. Last(stack).p \notin ToSet(s)
 BY <1>4, <1>5, <1>6 DEF StackOK
<1>8. Last(stack).p \in Addr
 BY <1>2, TopWaiting
<1> QED BY <1>2, <1>7, <1>8

\* A deleter that returns frees its bucket.
LEMMA MapFreed ==
    ASSUME StructureInv, stack # <<>>, Last(stack).fn \notin Settled, NEW s, s = List(ht),
           NEW v, v = Free(ht, Last(stack).p)
    PROVE  Table(v, s) /\ SameMap(ht, v)
<1>1. PICK p : p = Last(stack).p
 OBVIOUS
<1>2. Table(ht, s) /\ Listed = ToSet(s)
 BY InvFacts
<1>3. p \in Addr /\ p \notin ToSet(s) /\ v = Free(ht, p)
 BY <1>1, <1>2, TopUnlisted
<1> QED BY <1>2, <1>3, MapFree

--------------------
(* The invariant of the map. *)

\* The functions that change an element after a callback.
Changers == {"update", "update_current_key"}

\* zend_hash_update has an element with the key it was called for, and
\* zend_hash_update_current_key the current one.
ChangerOK(t, E, f) ==
    /\ f.fn = "update" => /\ f.p \in E /\ t.key[f.p] = f.key
                          /\ f.key \in Keys /\ f.data \in Data
    /\ f.fn = "update_current_key" => f.p = t.pInternalPointer /\ f.key \in Keys

ChangersOK(t, E, K) == \A i \in 1 .. Len(K) : ChangerOK(t, E, K[i])

MapInv == KeysInv /\ TypeInv /\ ChangersOK(ht, Listed, stack)

\* No destructor that those functions wait for uses the table.
ChangersCalm == RenamesCalm /\ "update" \notin Reentrant

\* Then nothing runs inside them, but the deletion for a new key.
LEMMA CalmChangers == ChangersCalm => Calm(Changers) /\ Calm({"update"})
<1>1. "update_current_key" \notin Reentrant
 BY ReentrantAssumption
<1> QED BY <1>1 DEF ChangersCalm, RenamesCalm, Calm, Changers

\* What the invariant of the map says.
LEMMA MapFacts ==
    ASSUME MapInv
    PROVE  /\ StructureInv /\ Distinct(ht.key, Listed) /\ RenameFree(ht.key, Listed, stack)
           /\ stack \in Seq(Waiting) /\ Listed \subseteq Addr /\ KeysInv /\ TypeInv
           /\ ChangersOK(ht, Listed, stack)
           /\ Table(ht, List(ht)) /\ Listed = ToSet(List(ht))
BY KeysFacts, InvFacts DEF MapInv

\* What it says of the function on top.
LEMMA ChangerTop ==
    ASSUME MapInv, stack # <<>>
    PROVE  ChangerOK(ht, Listed, Last(stack))
<1>1. stack \in Seq(Waiting) /\ ChangersOK(ht, Listed, stack)
 BY MapFacts
<1>2. PICK n, K2 : n = Len(stack) /\ K2 = Front(stack)
 OBVIOUS
<1>3. n \in Nat \ {0} /\ Last(stack) = stack[n]
 BY <1>1, <1>2, FrontFacts
<1> QED BY <1>1, <1>2, <1>3 DEF ChangersOK

--------------------
(* Every step of the table is one of the map. *)

\* A step that leaves the table.
LEMMA MapStays ==
    ASSUME ht' = ht
    PROVE  MapStep(ht, ht')
BY DEF MapStep, SameMap

\* An insertion.
LEMMA MapInserted ==
    ASSUME MapInv, NEW k \in AllKeys, k \in Stored, NEW d \in Data, Lookup(ht, k) = NULL,
           NEW p \in Fresh, ht' = Insert(ht, p, k, d)
    PROVE  MapStep(ht, ht')
<1>1. PICK s, u : s = List(ht) /\ u = ht'
 OBVIOUS
<1>2. StructureInv /\ Table(ht, s) /\ Listed = ToSet(s)
 BY <1>1, MapFacts
<1>3. p \in Addr /\ p \notin ToSet(s)
 BY <1>2, InvFacts DEF Fresh
<1>4. u = Insert(ht, p, k, d)
 BY <1>1
<1>5. GainsOne(ht, u, k, d)
 BY <1>2, <1>3, <1>4, MapInsert
<1>6. \A q \in ToSet(s) : ht.key[q] # k
 BY <1>2, Absent
<1>7. Lacks(ht, k)
 BY <1>2, <1>6, LacksIs
<1> QED BY <1>1, <1>5, <1>7 DEF MapStep

\* zend_hash_add and zend_hash_next_index_insert insert.
LEMMA MapAdded ==
    ASSUME MapInv, NEW d \in Data, NextInsert(d) \/ \E k \in Keys : Add(k, d)
    PROVE  MapStep(ht, ht')
<1>1. CASE NextInsert(d)
 <2>1. PICK k : k = Numeric(ht.nNextFreeElement)
  OBVIOUS
 <2>2. Lookup(ht, k) = NULL /\ \E p \in Fresh : ht' = Insert(ht, p, k, d)
  BY <1>1, <2>1 DEF NextInsert
 <2>3. ht.nNextFreeElement \in Nat /\ ht.nNextFreeElement <= LongMax
  BY MapFacts, InvFacts DEF TypeInv, Shaped
 <2>4. k \in Stored
  BY <2>1, <2>3, KeysStored
 <2>5. k \in AllKeys
  <3>1. ht.nNextFreeElement \in 0 .. LongMax
   BY <2>3, KeyAssumption
  <3> QED BY <2>1, <3>1 DEF AllKeys
 <2> QED BY <2>2, <2>4, <2>5, MapInserted
<1>2. ASSUME NEW k \in Keys, Add(k, d) PROVE MapStep(ht, ht')
 <2>1. Lookup(ht, k) = NULL /\ \E p \in Fresh : ht' = Insert(ht, p, k, d)
  BY <1>2 DEF Add
 <2>2. k \in Stored /\ k \in AllKeys
  BY KeysStored DEF AllKeys
 <2> QED BY <2>1, <2>2, MapInserted
<1> QED BY <1>1, <1>2

\* zend_hash_update replaces the value of its element.
LEMMA MapUpdated ==
    ASSUME MapInv, UpdateReturns
    PROVE  MapStep(ht, ht')
<1>1. Returning("update")
 BY DEF UpdateReturns
<1>2. PICK f, s, u, p, d, n : /\ f = Last(stack) /\ s = List(ht) /\ u = ht' /\ p = f.p /\ d = f.data
                              /\ n = NextFree(ht, f.key)
 OBVIOUS
<1>3. /\ StructureInv /\ Table(ht, s) /\ Listed = ToSet(s) /\ Distinct(ht.key, ToSet(s))
 BY <1>2, MapFacts
<1>4. stack # <<>> /\ f.fn = "update"
 BY <1>1, <1>2, <1>3, ReturningFacts
<1>5. p \in ToSet(s) /\ ht.key[p] = f.key /\ f.key \in Keys /\ d \in Data
 BY <1>2, <1>3, <1>4, ChangerTop DEF ChangerOK
<1>6. p \in ht.allocated
 BY <1>3, <1>5, InvFacts
<1>7. u = WithValue(ht, p, d, n)
 BY <1>2, <1>6 DEF UpdateReturns, Top, WithValue
<1>8. n \in Nat
 BY <1>2, <1>3, <1>5, KeysStored, InvFacts, NextFreeFacts DEF Shaped
<1>9. d \in Data \cup {NULL}
 BY <1>5
<1>10. Stores(ht, u, ht.key[p], d, n)
 BY <1>3, <1>5, <1>7, <1>8, <1>9, MapStore
<1>11. Unequal(ht)
 BY <1>3, UnequalIs
<1>12. f.key \in AllKeys
 BY <1>5 DEF AllKeys
<1> QED BY <1>2, <1>5, <1>10, <1>11, <1>12 DEF MapStep

\* zend_hash_del unlinks the element, and later frees its bucket.
LEMMA MapDeleted ==
    ASSUME MapInv, DelReturns \/ \E k \in Keys : zend_hash_del(k)
    PROVE  MapStep(ht, ht')
<1>0. StructureInv
 BY MapFacts
<1>1. CASE DelReturns
 <2>1. PICK s, u, v, n : s = List(ht) /\ u = ht' /\ v = Free(ht, Last(stack).p) /\ n = v.nNumOfElements - 1
  OBVIOUS
 <2>2. u = WithCount(v, n)
  BY <1>1, <2>1 DEF DelReturns, Top, WithCount
 <2>3. stack # <<>> /\ Last(stack).fn = "del"
  BY <1>0, <1>1, ReturningFacts DEF DelReturns
 <2>4. Last(stack).fn \notin Settled
  BY <2>3 DEF Settled
 <2>5. Table(v, s) /\ SameMap(ht, v)
  BY <1>0, <2>1, <2>3, <2>4, MapFreed
 <2>6. n \in Int
  BY <2>1, <2>5 DEF Table, Shaped
 <2>7. SameMap(v, u)
  BY <2>2, <2>5, <2>6, MapCount
 <2> QED BY <2>1, <2>5, <2>7, LosesSame DEF MapStep
<1>2. ASSUME NEW k \in Keys, zend_hash_del(k) PROVE MapStep(ht, ht')
 <2>1. PICK p : p = Lookup(ht, k)
  OBVIOUS
 <2>2. p # NULL /\ Delete(ht, p, stack)
  BY <1>2, <2>1 DEF zend_hash_del
 <2>3. p \in Listed
  BY <1>0, <2>1, <2>2, Found, KeysStored
 <2> QED BY <1>0, <2>2, <2>3, MapDeleteCalled DEF MapStep
<1> QED BY <1>1, <1>2

\* zend_hash_update_current_key deletes the element that has the key, and later
\* gives the key to the current one.
LEMMA MapRenamed ==
    ASSUME MapInv, UpdateCurrentKeyGoesOn \/ \E k \in Keys : zend_hash_update_current_key(k)
    PROVE  MapStep(ht, ht')
<1>0. StructureInv
 BY MapFacts
<1>1. ASSUME NEW k \in Keys, zend_hash_update_current_key(k) PROVE MapStep(ht, ht')
 <2>1. PICK q, K1 : q = Lookup(ht, k) /\ K1 = Append(stack, RenameFrame(ht.pInternalPointer, k))
  OBVIOUS
 <2>2. IF q = NULL THEN ht' = ht ELSE Delete(ht, q, K1)
  BY <1>1, <2>1 DEF zend_hash_update_current_key, RenameFrame
 <2>3. q # NULL => q \in Listed
  BY <1>0, <2>1, Found, KeysStored
 <2>4. CASE q = NULL
  BY <2>2, <2>4, MapStays
 <2>5. CASE q # NULL
  BY <1>0, <2>2, <2>3, <2>5, MapDeleteCalled DEF MapStep
 <2> QED BY <2>4, <2>5
<1>2. CASE UpdateCurrentKeyGoesOn
 <2>1. Returning("update_current_key")
  BY <1>2 DEF UpdateCurrentKeyGoesOn
 <2>2. PICK f, s, p, k, u : f = Last(stack) /\ s = List(ht) /\ p = f.p /\ k = f.key /\ u = ht'
  OBVIOUS
 <2>3. /\ Table(ht, s) /\ Listed = ToSet(s) /\ stack \in Seq(Waiting) /\ RenameFree(ht.key, ToSet(s), stack)
  BY <2>2, MapFacts
 <2>4. stack # <<>> /\ f.fn = "update_current_key"
  BY <1>0, <2>1, <2>2, ReturningFacts
 <2>5. p = ht.pInternalPointer /\ k \in Keys
  BY <2>2, <2>4, ChangerTop DEF ChangerOK
 <2>6. CASE p \notin ht.allocated
  <3>1. ht' = ht
   BY <1>2, <2>2, <2>6 DEF UpdateCurrentKeyGoesOn, Top, Breaks
  <3> QED BY <3>1, MapStays
 <2>7. CASE p \in ht.allocated
  <3>1. \/ u = ConnectToBucket(WithKey(DisconnectFromBucket(ht, p), p, k), p)
        \/ \E q \in Addr \ ht.allocated :
              u = ConnectToBucket(WithKey(Replace(DisconnectFromBucket(ht, p), p, q), q, k), q)
   BY <1>2, <2>2, <2>7 DEF UpdateCurrentKeyGoesOn, Top, Outer, WithKey, Fresh
  <3>2. ToSet(s) \subseteq ht.allocated /\ NULL \notin ht.allocated
   BY <1>0, <2>3, InvFacts, AddrAssumption
  <3>3. \/ u = ConnectToBucket(WithKey(DisconnectFromBucket(ht, p), p, k), p)
        \/ \E q \in Addr \ ToSet(s) :
              u = ConnectToBucket(WithKey(Replace(DisconnectFromBucket(ht, p), p, q), q, k), q)
   BY <3>1, <3>2
  <3>4. p \in ToSet(s)
   BY <2>3, <2>5, <2>7, <3>2 DEF Table, Pointed
  <3>5. k \in Stored
   BY <2>5, KeysStored
  <3>6. KeyChanged(ht, u, k)
   BY <2>3, <2>5, <3>3, <3>4, <3>5, MapRename
  <3>7. \A q \in ToSet(s) : ht.key[q] # k
   <4>1. Last(stack).fn \in Renames
    BY <2>2, <2>4 DEF Renames
   <4> QED BY <2>2, <2>3, <2>4, <4>1, RenamePop
  <3>8. Lacks(ht, k)
   BY <2>3, <3>7, LacksIs
  <3> QED BY <2>2, <2>5, <3>6, <3>8 DEF MapStep
 <2> QED BY <2>6, <2>7
<1> QED BY <1>1, <1>2

\* The internal pointer moves; foreach saves it.
LEMMA MapMoved ==
    ASSUME MapInv, PointerMoves \/ zend_hash_get_pointer
    PROVE  MapStep(ht, ht')
<1>1. CASE zend_hash_get_pointer
 <2>1. ht' = ht
  BY <1>1 DEF zend_hash_get_pointer
 <2> QED BY <2>1, MapStays
<1>2. CASE PointerMoves
 <2>1. PICK s, u : s = List(ht) /\ u = ht'
  OBVIOUS
 <2>2. StructureInv /\ Table(ht, s) /\ Listed = ToSet(s)
  BY <2>1, MapFacts
 <2>3. \E p : (p = NULL \/ p \in Listed) /\ Changes(WithPointer(ht, p))
  BY <1>2, <2>2, PointsTo
 <2>4. PICK p : (p = NULL \/ p \in ToSet(s)) /\ Changes(WithPointer(ht, p))
  BY <2>2, <2>3
 <2>5. u = WithPointer(ht, p)
  BY <2>1, <2>4 DEF Changes
 <2>6. Points(ht, u)
  BY <2>2, <2>4, <2>5, MapPoint
 <2> QED BY <2>1, <2>6 DEF MapStep
<1> QED BY <1>1, <1>2

\* zend_hash_sort reorders the elements, and may renumber them.
LEMMA MapSorted ==
    ASSUME MapInv, NEW renumber \in BOOLEAN, zend_hash_sort(renumber)
    PROVE  MapStep(ht, ht')
<1>1. PICK s, u : s = List(ht) /\ u = ht'
 OBVIOUS
<1>2. Table(ht, s) /\ Listed = ToSet(s)
 BY <1>1, MapFacts
<1>3. CASE s = <<>>
 <2>1. ht' = ht
  BY <1>1, <1>3 DEF zend_hash_sort, Breaks
 <2> QED BY <2>1, MapStays
<1>4. CASE s # <<>>
 <2>1. PICK r : r \in Sorted /\ Changes(IF renumber THEN Renumber(Relink(ht, r), r) ELSE Relink(ht, r))
  BY <1>1, <1>4 DEF zend_hash_sort
 <2>2. PICK v : v = Relink(ht, r)
  OBVIOUS
 <2>3. u = IF renumber THEN Renumber(v, r) ELSE v
  BY <1>1, <2>1, <2>2 DEF Changes
 <2>4. Reordering(s, r)
  BY <1>1, <2>1 DEF Sorted, Reordering
 <2>5. Sorts(ht, u, renumber)
  BY <1>2, <1>4, <2>2, <2>3, <2>4, MapSort
 <2> QED BY <1>1, <2>5 DEF MapStep
<1> QED BY <1>3, <1>4

\* zend_hash_clean and _zend_hash_init leave no element.
LEMMA MapCleared ==
    ASSUME MapInv, zend_hash_clean \/ _zend_hash_init
    PROVE  MapStep(ht, ht')
<1>1. \E n \in Nat \ {0} : ht' = EmptyTable(n)
 <2>1. CASE zend_hash_clean
  <3>1. ht' = EmptyTable(ht.nTableSize)
   BY <2>1 DEF zend_hash_clean
  <3>2. ht.nTableSize \in Nat \ {0}
   BY MapFacts, InvFacts DEF Shaped
  <3> QED BY <3>1, <3>2
 <2>2. CASE _zend_hash_init
  BY <2>2, SizeAssumption DEF _zend_hash_init
 <2> QED BY <2>1, <2>2
<1>2. PICK n \in Nat \ {0} : ht' = EmptyTable(n)
 BY <1>1
<1>3. PICK u : u = ht'
 OBVIOUS
<1>4. u = EmptyTable(n)
 BY <1>2, <1>3
<1>5. Empties(u)
 BY <1>4, MapEmpty
<1> QED BY <1>3, <1>5 DEF MapStep

\* The loops that apply a function remove elements.
LEMMA MapApplied ==
    ASSUME MapInv,
           \/ \E loop \in Loops : zend_hash_apply(loop) \/ ApplyDeleterReturns(loop)
           \/ \E remove, stop \in BOOLEAN : ApplyFuncReturns(remove, stop)
    PROVE  MapStep(ht, ht')
<1>0. StructureInv /\ Table(ht, List(ht)) /\ Listed = ToSet(List(ht))
 BY MapFacts
<1>1. ASSUME NEW loop \in Loops, zend_hash_apply(loop) PROVE MapStep(ht, ht')
 <2>1. ht' = ht
  BY <1>1 DEF zend_hash_apply
 <2> QED BY <2>1, MapStays
<1>2. ASSUME NEW loop \in Loops, ApplyDeleterReturns(loop) PROVE MapStep(ht, ht')
 <2>1. PICK s, v : s = List(ht) /\ v = Free(ht, Last(stack).p)
  OBVIOUS
 <2>2. stack # <<>> /\ Last(stack).fn = loop
  BY <1>0, <1>2, ReturningFacts DEF ApplyDeleterReturns
 <2>3. Last(stack).fn \notin Settled
  BY <2>2 DEF Settled, Loops
 <2>4. Table(v, s) /\ SameMap(ht, v)
  BY <1>0, <2>1, <2>2, <2>3, MapFreed
 <2>5. ht' = v \/ ht' = ht
  BY <1>2, <2>1 DEF ApplyDeleterReturns, ApplyGoesOn, Breaks, Top
 <2> QED BY <2>4, <2>5, MapStays DEF MapStep
<1>3. ASSUME NEW remove \in BOOLEAN, NEW stop \in BOOLEAN, ApplyFuncReturns(remove, stop) PROVE MapStep(ht, ht')
 <2>1. PICK s, p, q, loop : /\ s = List(ht) /\ p = Last(stack).p /\ loop = Last(stack).loop
                            /\ q = IF loop = "apply" THEN ht.pListNext[p] ELSE ht.pListLast[p]
  OBVIOUS
 <2>2. \/ ht' = ht
       \/ p \in ht.allocated /\ CallDeleter(loop, ht, p, q, stop, Outer)
  BY <1>3, <2>1 DEF ApplyFuncReturns, ApplyGoesOn, Breaks, Top
 <2>3. stack # <<>> /\ Last(stack).fn = "apply_func"
  BY <1>0, <1>3, ReturningFacts DEF ApplyFuncReturns
 <2>4. p \in ht.allocated => p \in ToSet(s)
  <3>1. Last(stack).fn \in Settled
   BY <2>3 DEF Settled
  <3> QED BY <1>0, <2>1, <2>3, <3>1, TopPopped
 <2>5. ASSUME p \in ToSet(s), CallDeleter(loop, ht, p, q, stop, Outer) PROVE MapStep(ht, ht')
  <3>1. LosesOne(ht, ht')
   BY <1>0, <2>1, <2>5, MapCalls
  <3> QED BY <3>1 DEF MapStep
 <2> QED BY <2>2, <2>4, <2>5, MapStays
<1> QED BY <1>1, <1>2, <1>3

\* A graceful destroy of table t that goes on with q.
LEMMA MapDestroy ==
    ASSUME NEW s, NEW t, Table(t, s), SameMap(ht, t), NEW q, q \in t.allocated => q \in ToSet(s), NEW loop, NEW frames,
           DestroyGoesOn(loop, t, q, frames)
    PROVE  MapStep(ht, ht')
<1>1. CASE q = NULL
 <2>1. ht' = t
  BY <1>1 DEF DestroyGoesOn
 <2> QED BY <2>1 DEF MapStep
<1>2. CASE q # NULL /\ q \in t.allocated
 <2>1. CallDeleter(loop, t, q, NULL, FALSE, frames) /\ q \in ToSet(s)
  BY <1>2 DEF DestroyGoesOn
 <2>2. LosesOne(t, ht')
  BY <2>1, MapCalls
 <2> QED BY <2>2, LosesSame DEF MapStep
<1>3. CASE q # NULL /\ q \notin t.allocated
 <2>1. ht' = ht
  BY <1>3 DEF DestroyGoesOn, Breaks
 <2> QED BY <2>1, MapStays
<1> QED BY <1>1, <1>2, <1>3

\* The graceful destroys remove elements.
LEMMA MapDestroyed ==
    ASSUME MapInv, NEW loop \in Graceful, zend_hash_graceful_destroy(loop) \/ GracefulDeleterReturns(loop)
    PROVE  MapStep(ht, ht')
<1>1. PICK s : s = List(ht)
 OBVIOUS
<1>2. StructureInv /\ Table(ht, s) /\ Listed = ToSet(s) /\ NULL \notin ht.allocated
 BY <1>1, MapFacts, InvFacts, AddrAssumption
<1>3. /\ ht.pListHead = NULL \/ ht.pListHead \in ToSet(s)
      /\ ht.pListTail = NULL \/ ht.pListTail \in ToSet(s)
      /\ ht.pListHead = NULL <=> s = <<>>
      /\ ht.pListTail = NULL <=> s = <<>>
 BY <1>2, NeighboursListed
<1>4. CASE zend_hash_graceful_destroy(loop)
 <2>1. PICK q : q = First(loop)
  OBVIOUS
 <2>2. DestroyGoesOn(loop, ht, q, stack)
  BY <1>4, <2>1 DEF zend_hash_graceful_destroy
 <2>3. q \in ht.allocated => q \in ToSet(s)
  BY <1>2, <1>3, <2>1 DEF First
 <2>4. SameMap(ht, ht)
  BY DEF SameMap
 <2> QED BY <1>2, <2>2, <2>3, <2>4, MapDestroy
<1>5. CASE GracefulDeleterReturns(loop)
 <2>1. PICK v, q, K2 : /\ v = Free(ht, Last(stack).p) /\ K2 = Front(stack)
                       /\ q = IF loop = "graceful_destroy" THEN ht.pListNext[Last(stack).p] ELSE ht.pListTail
  OBVIOUS
 <2>2. DestroyGoesOn(loop, v, q, K2)
  BY <1>5, <2>1 DEF GracefulDeleterReturns, Top, Outer
 <2>3. stack # <<>> /\ Last(stack).fn = loop
  BY <1>2, <1>5, ReturningFacts DEF GracefulDeleterReturns
 <2>4. Last(stack).fn \notin Settled /\ Last(stack).fn \in Loops \cup Graceful
  BY <2>3 DEF Settled, Graceful
 <2>5. Table(v, s) /\ SameMap(ht, v)
  BY <1>1, <1>2, <2>1, <2>3, <2>4, MapFreed
 <2>6. /\ State(v, List(ht), K2) /\ WaitsOK(K2)
       /\ K2 # <<>> => Last(K2).fn \in Reentrant
       /\ Released(ht, v, Last(stack).p, Listed)
       /\ ht.pListNext[Last(stack).p] \in v.allocated => ht.pListNext[Last(stack).p] \in Listed
       /\ Last(stack).next \in v.allocated => Last(stack).next \in Listed
  BY <1>2, <2>1, <2>3, <2>4, TopFreed
 <2>7. NULL \notin v.allocated
  BY <2>6, StateFacts, AddrAssumption
 <2>8. q \in v.allocated => q \in ToSet(s)
  BY <1>2, <1>3, <2>1, <2>6, <2>7
 <2> QED BY <2>2, <2>5, <2>8, MapDestroy
<1> QED BY <1>4, <1>5

--------------------
(* The functions that change an element have the right one. *)

\* Where none waits.
LEMMA NoChanger ==
    ASSUME NEW t, NEW E, NEW K, None(Changers, K)
    PROVE  ChangersOK(t, E, K)
BY DEF None, ChangersOK, ChangerOK, Changers

\* One more function waits.
LEMMA ChangersPush ==
    ASSUME NEW T, NEW K \in Seq(T), NEW f \in T, NEW t, NEW E, ChangersOK(t, E, K), ChangerOK(t, E, f),
           NEW K2, K2 = Append(K, f)
    PROVE  ChangersOK(t, E, K2)
<1>1. /\ Len(K) \in Nat /\ Len(K2) = Len(K) + 1
      /\ \A i \in 1 .. Len(K) : K2[i] = K[i]
      /\ K2[Len(K) + 1] = f
 BY AppendFacts
<1>2. ASSUME NEW i \in 1 .. Len(K2) PROVE ChangerOK(t, E, K2[i])
 <2>1. CASE i \in 1 .. Len(K)
  BY <1>1, <2>1 DEF ChangersOK
 <2>2. CASE i = Len(K) + 1
  BY <1>1, <2>2
 <2> QED BY <1>1, <2>1, <2>2
<1> QED BY <1>2 DEF ChangersOK

\* One returns.
LEMMA ChangersPop ==
    ASSUME NEW T, NEW K \in Seq(T), K # <<>>, NEW t, NEW E, ChangersOK(t, E, K)
    PROVE  ChangersOK(t, E, Front(K))
<1>1. PICK n, K2 : n = Len(K) /\ K2 = Front(K)
 OBVIOUS
<1>2. /\ n \in Nat \ {0} /\ K2 \in Seq(T) /\ Len(K2) = n - 1
      /\ \A i \in 1 .. n - 1 : K2[i] = K[i]
      /\ Last(K) = K[n] /\ K[n] \in T
      /\ \A i \in 1 .. n : i \in 1 .. n - 1 \/ i = n
 BY <1>1, FrontFacts
<1>3. \A i \in 1 .. n - 1 : ChangerOK(t, E, K2[i])
 BY <1>1, <1>2 DEF ChangersOK
<1> QED BY <1>1, <1>2, <1>3 DEF ChangersOK

\* The table changes, but for the elements' keys and the internal pointer.
LEMMA ChangersKept ==
    ASSUME NEW t, NEW u, NEW E, NEW K, ChangersOK(t, E, K), u.pInternalPointer = t.pInternalPointer,
           \A x \in E : u.key[x] = t.key[x]
    PROVE  ChangersOK(u, E, K)
BY DEF ChangersOK, ChangerOK

\* A step that leaves table and stack.
LEMMA ChangersStay ==
    ASSUME MapInv, ht' = ht, stack' = stack, Listed' = Listed
    PROVE  ChangersOK(ht, Listed, stack)'
BY MapFacts DEF ChangersOK, ChangerOK

\* None waits where a caller calls.
LEMMA ChangersCalled ==
    ASSUME MapInv, ChangersCalm, NEW fn, MayCall(fn)
    PROVE  None(Changers, stack) /\ stack \in Seq(Waiting)
BY MapFacts, CalmChangers, NoneCalled

\* Nor below a function that returns, unless that is a deletion.
LEMMA ChangersBelow ==
    ASSUME MapInv, ChangersCalm, stack # <<>>, Last(stack).fn # "del", NEW K2, K2 = Front(stack)
    PROVE  None(Changers, K2) /\ K2 \in Seq(Waiting)
BY MapFacts, CalmChangers, NoneUnder, SeqPop

\* A function that changes no element is called.
LEMMA ChangersOther ==
    ASSUME NEW K \in Seq(Waiting), None(Changers, K), NEW f \in Waiting, f.fn \notin Changers,
           stack' = Append(K, f)
    PROVE  ChangersOK(ht, Listed, stack)'
<1>1. None(Changers, stack')
 BY NonePush
<1> QED BY <1>1, NoChanger

\* The steps that store.
LEMMA ChangersStoring ==
    ASSUME MapInv, ChangersCalm,
           \/ \E d \in Data : NextInsert(d) \/ \E k \in Keys : Add(k, d) \/ Update(k, d)
           \/ UpdateReturns
    PROVE  ChangersOK(ht, Listed, stack)'
<1>0. StructureInv /\ stack \in Seq(Waiting)
 BY MapFacts
<1>1. ASSUME NEW d \in Data, NextInsert(d) \/ \E k \in Keys : Add(k, d) PROVE ChangersOK(ht, Listed, stack)'
 <2>1. stack' = stack /\ \E fn : MayCall(fn)
  BY <1>1 DEF NextInsert, Add
 <2>2. None(Changers, stack')
  BY <2>1, ChangersCalled
 <2> QED BY <2>2, NoChanger
<1>2. ASSUME NEW d \in Data, NEW k \in Keys, Update(k, d) PROVE ChangersOK(ht, Listed, stack)'
 <2>1. PICK p, f : p = Lookup(ht, k) /\ f = UpdateFrame(p, d, k)
  OBVIOUS
 <2>2. MayCall("update") /\ p # NULL /\ stack' = Append(stack, f) /\ ht' = ht
  BY <1>2, <2>1 DEF Update, MayWait, UpdateFrame
 <2>3. p \in Listed /\ p \in Addr /\ k \in Stored /\ ht.key[p] = k
  BY <1>0, <2>1, <2>2, Found, KeysStored
 <2>4. f \in Waiting /\ f.fn = "update" /\ f.p = p /\ f.next = NULL /\ f.data = d /\ f.key = k
       /\ f.loop = "none"
  <3>1. f = UpdateFrame(p, d, k)
   BY <2>1
  <3> QED BY <2>3, <3>1, FrameUpdate
 <2>5. ChangerOK(ht, Listed, f)
  BY <2>3, <2>4 DEF ChangerOK
 <2>6. ChangersOK(ht, Listed, stack)
  BY MapFacts
 <2>7. ChangersOK(ht, Listed, stack')
  BY <1>0, <2>2, <2>4, <2>5, <2>6, ChangersPush
 <2>8. Listed' = Listed
  BY <2>2 DEF Listed
 <2> QED BY <2>2, <2>7, <2>8
<1>3. CASE UpdateReturns
 <2>1. /\ StructureInv' /\ Listed' = Listed
       /\ Top.fn = "update" /\ stack # <<>> /\ Top.p \in Addr /\ Top.key \in Stored /\ Top.data \in Data \cup {NULL}
       /\ \/ /\ ht' = ht /\ stack' = stack /\ owned' = owned /\ broken' # "no" /\ Top.p \notin Listed
          \/ /\ stack' = Front(stack) /\ ht'.key = ht.key /\ Top.p \in Listed
             /\ \A q \in Addr : ht'.pData[q] = IF q = Top.p THEN Top.data ELSE ht.pData[q]
             /\ ht'.nNextFreeElement = NextFree(ht, Top.key)
             /\ owned' = owned \cup {Top.data} /\ broken' = broken
  BY <1>0, <1>3, StepUpdateReturns
 <2>2. CASE ht' = ht /\ stack' = stack
  BY <2>1, <2>2, ChangersStay
 <2>3. CASE stack' = Front(stack)
  <3>1. Last(stack).fn # "del"
   BY <2>1 DEF Top
  <3>2. None(Changers, stack')
   BY <2>1, <2>3, <3>1, ChangersBelow
  <3> QED BY <3>2, NoChanger
 <2> QED BY <2>1, <2>2, <2>3
<1> QED BY <1>1, <1>2, <1>3

\* zend_hash_del.
LEMMA ChangersDeleting ==
    ASSUME MapInv, ChangersCalm, DelReturns \/ \E k \in Keys : zend_hash_del(k)
    PROVE  ChangersOK(ht, Listed, stack)'
<1>0. StructureInv /\ stack \in Seq(Waiting) /\ Listed \subseteq Addr /\ ChangersOK(ht, Listed, stack)
 BY MapFacts
<1>1. ASSUME NEW k \in Keys, zend_hash_del(k) PROVE ChangersOK(ht, Listed, stack)'
 <2>1. /\ StructureInv'
       /\ \E p \in Listed : \E f \in Waiting :
               /\ Unlinked(ht, ht', p, Listed, Listed') /\ owned' = owned \ {ht.pData[p]}
               /\ f.fn = "del" /\ f.p = p /\ f.key = NoKey /\ f.data = NULL /\ stack' = Append(stack, f)
  BY <1>0, <1>1, StepDel
 <2>2. PICK f \in Waiting : f.fn = "del" /\ stack' = Append(stack, f)
  BY <2>1
 <2>3. f.fn \notin Changers
  BY <2>2 DEF Changers
 <2>4. MayCall("del")
  BY <1>1 DEF zend_hash_del, MayWait
 <2>5. None(Changers, stack)
  BY <2>4, ChangersCalled
 <2> QED BY <1>0, <2>2, <2>3, <2>5, ChangersOther
<1>2. CASE DelReturns
 <2>1. /\ StructureInv' /\ Listed' = Listed /\ Released(ht, ht', Top.p, Listed)
       /\ stack # <<>> /\ Top.fn = "del" /\ stack' = Front(stack) /\ owned' = owned
  BY <1>0, <1>2, StepDelReturns
 <2>2. ChangersOK(ht, Listed, Front(stack))
  BY <1>0, <2>1, ChangersPop
 <2>3. ht'.pInternalPointer = ht.pInternalPointer
  <3>1. PICK p, v, u, n : p = Top.p /\ v = Free(ht, p) /\ u = ht' /\ n = v.nNumOfElements - 1
   OBVIOUS
  <3>2. u = WithCount(v, n)
   BY <1>2, <3>1 DEF DelReturns, WithCount
  <3>3. u.pInternalPointer = v.pInternalPointer /\ v.pInternalPointer = ht.pInternalPointer
   <4>1. Shaped(ht)
    BY <1>0, InvFacts
   <4>2. v.pInternalPointer = ht.pInternalPointer
    BY <3>1, <4>1 DEF Free, Shaped, Fields
   <4>3. u.pInternalPointer = v.pInternalPointer
    BY <3>1, <3>2, <4>1 DEF WithCount, Free, Shaped, Fields
   <4> QED BY <4>2, <4>3
  <3> QED BY <3>1, <3>3
 <2>4. \A x \in Listed : ht'.key[x] = ht.key[x]
  BY <1>0, <2>1 DEF Released
 <2>5. ChangersOK(ht', Listed, Front(stack))
  BY <2>2, <2>3, <2>4, ChangersKept
 <2> QED BY <2>1, <2>5
<1> QED BY <1>1, <1>2

\* Unlinking another element leaves the internal pointer and the keys.
LEMMA UnlinkKeeps ==
    ASSUME NEW t, NEW s, Table(t, s), NEW q \in ToSet(s), q # t.pInternalPointer, NEW u, u = Unlink(t, q)
    PROVE  u.pInternalPointer = t.pInternalPointer /\ u.key = t.key
<1>1. s \in Seq(Addr)
 BY TableFacts
<1>2. PICK k \in 1 .. Len(s) : s[k] = q
 BY <1>1, PlaceOf
<1>3. PICK w : w = Without(s, k)
 OBVIOUS
<1>4. /\ Table(u, w)
      /\ Len(w) = Len(s) - 1
      /\ ToSet(w) = ToSet(s) \ {q}
      /\ u.nTableSize = t.nTableSize /\ u.nNumOfElements = t.nNumOfElements
      /\ u.nNextFreeElement = t.nNextFreeElement /\ u.allocated = t.allocated
      /\ u.key = t.key /\ u.pData = t.pData
      /\ u.pInternalPointer = IF t.pInternalPointer = q THEN t.pListNext[q] ELSE t.pInternalPointer
      /\ u.pListNext[q] = t.pListNext[q]
      /\ t.pListNext[q] = NULL \/ t.pListNext[q] \in ToSet(w)
      /\ t.pListLast[q] = NULL \/ t.pListLast[q] \in ToSet(w)
      /\ \A x \in Addr : x \notin ToSet(s) => u.pListNext[x] = t.pListNext[x]
      /\ u.pListHead = IF t.pListLast[q] = NULL THEN t.pListNext[q] ELSE t.pListHead
 BY <1>2, <1>3, TableUnlink
<1> QED BY <1>4

\* Renaming: the function waits for the current element, and the deletion it
\* calls leaves that one current.
LEMMA ChangersRenaming ==
    ASSUME MapInv, ChangersCalm, UpdateCurrentKeyGoesOn \/ \E k \in Keys : zend_hash_update_current_key(k)
    PROVE  ChangersOK(ht, Listed, stack)'
<1>0. StructureInv /\ stack \in Seq(Waiting) /\ Listed \subseteq Addr
 BY MapFacts
<1>1. ASSUME NEW k \in Keys, zend_hash_update_current_key(k) PROVE ChangersOK(ht, Listed, stack)'
 <2>1. PICK p, q, f, K1 : p = ht.pInternalPointer /\ q = Lookup(ht, k) /\ f = RenameFrame(p, k) /\ K1 = Append(stack, f)
  OBVIOUS
 <2>2. /\ MayCall("update_current_key") /\ p # NULL /\ ht.key[p] # k
       /\ IF q = NULL THEN stack' = K1 /\ UNCHANGED <<ht, inconsistent, saved, owned, broken>>
          ELSE Delete(ht, q, K1)
  BY <1>1, <2>1 DEF zend_hash_update_current_key, MayWait, RenameFrame
 <2>3. PICK s : s = List(ht)
  OBVIOUS
 <2>4. Listed = ToSet(s) /\ Table(ht, s)
  BY <1>0, <2>3, InvFacts
 <2>5. p \in Addr
  BY <2>1, <2>2, <2>4, <1>0 DEF Table, Pointed
 <2>6. f \in Waiting /\ f.fn = "update_current_key" /\ f.p = p /\ f.next = NULL /\ f.data = NULL /\ f.key = k
       /\ f.loop = "none"
  <3>1. k \in Stored
   BY KeysStored
  <3>2. f = RenameFrame(p, k)
   BY <2>1
  <3> QED BY <2>5, <3>1, <3>2, FrameRename
 <2>7. None(Changers, stack)
  BY <2>2, ChangersCalled
 <2>8. ASSUME NEW t, NEW E, t.pInternalPointer = p PROVE ChangersOK(t, E, K1)
  <3>1. ChangersOK(t, E, stack)
   BY <2>7, NoChanger
  <3>2. ChangerOK(t, E, f)
   BY <2>6, <2>8 DEF ChangerOK
  <3> QED BY <1>0, <2>1, <2>6, <3>1, <3>2, ChangersPush
 <2>9. CASE q = NULL
  <3>1. stack' = K1 /\ ht' = ht
   BY <2>2, <2>9
  <3>2. ht'.pInternalPointer = p
   BY <2>1, <3>1
  <3>3. ChangersOK(ht', Listed', K1)
   BY <2>8, <3>2
  <3> QED BY <3>1, <3>3
 <2>10. CASE q # NULL
  <3>1. Delete(ht, q, K1)
   BY <2>2, <2>10
  <3>2. q \in Listed /\ ht.key[q] = k
   BY <1>0, <2>1, <2>10, Found, KeysStored
  <3>3. PICK u, g : u = ht' /\ g = Frame("del", q)
   OBVIOUS
  <3>4. u = Unlink(ht, q) /\ stack' = Append(K1, g)
   BY <3>1, <3>3 DEF Delete
  <3>5. u.pInternalPointer = p
   <4>1. q \in ToSet(s) /\ q # ht.pInternalPointer
    BY <2>1, <2>2, <2>4, <3>2
   <4> QED BY <2>1, <2>4, <3>4, <4>1, UnlinkKeeps
  <3>6. g \in Waiting /\ g.fn = "del"
   <4>1. "del" \in Fns
    BY DEF Fns
   <4> QED BY <1>0, <3>2, <3>3, <4>1, FrameFacts
  <3>7. K1 \in Seq(Waiting)
   BY <1>0, <2>1, <2>6, SeqPush
  <3>8. ChangersOK(u, Listed', K1)
   BY <2>8, <3>5
  <3>9. ChangerOK(u, Listed', g)
   BY <3>6 DEF ChangerOK
  <3>10. ChangersOK(u, Listed', stack')
   BY <3>4, <3>6, <3>7, <3>8, <3>9, ChangersPush
  <3> QED BY <3>3, <3>10
 <2> QED BY <2>9, <2>10
<1>2. CASE UpdateCurrentKeyGoesOn
 <2>1. /\ StructureInv'
       /\ stack # <<>> /\ Top.fn = "update_current_key" /\ broken = "no" /\ Top.key \in Stored
       /\ \/ Broke /\ Listed' = Listed /\ Top.p \notin Listed
          \/ /\ stack' = Front(stack) /\ owned' = owned /\ broken' = broken /\ Top.p \in Listed
             /\ \E q : Moved(ht, ht', Top.p, q, Top.key, Listed, Listed')
  BY <1>0, <1>2, StepRenamed
 <2>2. CASE Broke /\ Listed' = Listed
  BY <2>2, ChangersStay DEF Broke
 <2>3. CASE stack' = Front(stack)
  <3>1. Last(stack).fn # "del"
   BY <2>1 DEF Top
  <3>2. None(Changers, stack')
   BY <2>1, <2>3, <3>1, ChangersBelow
  <3> QED BY <3>2, NoChanger
 <2> QED BY <2>1, <2>2, <2>3
<1> QED BY <1>1, <1>2

\* Moving the pointer, sorting and emptying: nothing waits that changes an element.
LEMMA ChangersMoving ==
    ASSUME MapInv, ChangersCalm,
           \/ PointerMoves \/ zend_hash_get_pointer \/ zend_hash_clean \/ _zend_hash_init
           \/ \E renumber \in BOOLEAN : zend_hash_sort(renumber)
    PROVE  ChangersOK(ht, Listed, stack)'
<1>0. StructureInv
 BY MapFacts
<1>1. CASE PointerMoves
 <2>1. stack' = stack
  BY <1>0, <1>1, StepPointer
 <2>2. \E fn : MayCall(fn)
  BY <1>1 DEF PointerMoves, internal_pointer_reset, internal_pointer_end, move_forward, move_backwards,
              zend_hash_set_pointer
 <2>3. None(Changers, stack')
  BY <2>1, <2>2, ChangersCalled
 <2> QED BY <2>3, NoChanger
<1>2. CASE zend_hash_get_pointer
 <2>1. StructureInv' /\ Listed' = Listed /\ UNCHANGED <<ht, stack, owned, broken>>
  BY <1>0, <1>2, StepSaved
 <2> QED BY <2>1, ChangersStay
<1>3. CASE zend_hash_clean \/ _zend_hash_init
 <2>1. stack' = <<>>
  BY <1>0, <1>3, StepClean, StepInit
 <2>2. None(Changers, stack')
  BY <2>1 DEF None
 <2> QED BY <2>2, NoChanger
<1>4. ASSUME NEW renumber \in BOOLEAN, zend_hash_sort(renumber) PROVE ChangersOK(ht, Listed, stack)'
 <2>1. stack' = stack
  <3>1. /\ StructureInv' /\ Listed' = Listed
        /\ \/ Broke /\ List(ht) = <<>> /\ ht.nNumOfElements > 0
           \/ UNCHANGED <<stack, owned, broken>> /\ \E r : Ordered(ht, ht', Listed, r, renumber)
   BY <1>0, <1>4, StepSort
  <3> QED BY <3>1 DEF Broke
 <2>2. MayCall("sort")
  BY <1>4 DEF zend_hash_sort
 <2>3. None(Changers, stack')
  BY <2>1, <2>2, ChangersCalled
 <2> QED BY <2>3, NoChanger
<1> QED BY <1>1, <1>2, <1>3, <1>4

\* A loop goes on with an element, or returns.
LEMMA ChangersNext ==
    ASSUME NEW K \in Seq(Waiting), None(Changers, K), NEW E, AppliesNext(K, E)
    PROVE  ChangersOK(ht, Listed, stack)'
<1>1. CASE stack' = K
 BY <1>1, NoChanger
<1>2. ASSUME NEW f \in Waiting, f.fn = "apply_func", stack' = Append(K, f)
      PROVE  ChangersOK(ht, Listed, stack)'
 <2>1. f.fn \notin Changers
  BY <1>2 DEF Changers
 <2> QED BY <1>2, <2>1, ChangersOther
<1> QED BY <1>1, <1>2 DEF AppliesNext

\* A destructor is called.
LEMMA ChangersTaken ==
    ASSUME NEW K \in Seq(Waiting), None(Changers, K), NEW t, NEW loop \in Loops \cup Graceful, NEW p, NEW next,
           NEW E, Taken(t, loop, p, next, E, K)
    PROVE  ChangersOK(ht, Listed, stack)'
<1>1. PICK f \in Waiting : f.fn = loop /\ stack' = Append(K, f)
 BY DEF Taken
<1>2. f.fn \notin Changers
 BY <1>1 DEF Changers, Loops, Graceful
<1> QED BY <1>1, <1>2, ChangersOther

\* The loops that apply a function.
LEMMA ChangersApplying ==
    ASSUME MapInv, ChangersCalm,
           \/ \E loop \in Loops : zend_hash_apply(loop) \/ ApplyDeleterReturns(loop)
           \/ \E remove, stop \in BOOLEAN : ApplyFuncReturns(remove, stop)
    PROVE  ChangersOK(ht, Listed, stack)'
<1>0. StructureInv
 BY MapFacts
<1>1. ASSUME NEW loop \in Loops, zend_hash_apply(loop) PROVE ChangersOK(ht, Listed, stack)'
 <2>1. StructureInv' /\ Listed' = Listed /\ UNCHANGED <<ht, owned, broken>> /\ AppliesNext(stack, Listed)
  BY <1>0, <1>1, StepApply
 <2>2. MayCall(loop)
  BY <1>1 DEF zend_hash_apply, MayWait
 <2>3. None(Changers, stack) /\ stack \in Seq(Waiting)
  BY <2>2, ChangersCalled
 <2> QED BY <2>1, <2>3, ChangersNext
<1>2. ASSUME NEW loop \in Loops, ApplyDeleterReturns(loop) PROVE ChangersOK(ht, Listed, stack)'
 <2>1. /\ StructureInv' /\ stack # <<>> /\ Top.fn = loop /\ broken = "no"
       /\ \/ /\ Broke /\ Listed' = Listed
             /\ ht.pListNext[Top.p] \notin Listed \cup {NULL} \/ Top.next \notin Listed \cup {NULL}
          \/ /\ Released(ht, ht', Top.p, Listed) /\ Listed' = Listed /\ UNCHANGED <<owned, broken>>
             /\ AppliesNext(Front(stack), Listed)
  BY <1>0, <1>2, StepApplyDeleter
 <2>2. CASE Broke /\ Listed' = Listed
  BY <2>2, ChangersStay DEF Broke
 <2>3. CASE AppliesNext(Front(stack), Listed)
  <3>1. Last(stack).fn # "del"
   BY <2>1 DEF Top, Loops
  <3>2. None(Changers, Front(stack)) /\ Front(stack) \in Seq(Waiting)
   BY <2>1, <3>1, ChangersBelow
  <3> QED BY <2>3, <3>2, ChangersNext
 <2> QED BY <2>1, <2>2, <2>3
<1>3. ASSUME NEW remove \in BOOLEAN, NEW stop \in BOOLEAN, ApplyFuncReturns(remove, stop)
      PROVE  ChangersOK(ht, Listed, stack)'
 <2>1. /\ StructureInv' /\ stack # <<>> /\ Top.fn = "apply_func" /\ broken = "no"
       /\ \/ Broke /\ Listed' = Listed /\ Top.p \notin Listed
          \/ /\ Top.p \in Listed
             /\ \E loop \in Loops : \E next : Taken(ht, loop, Top.p, next, Listed, Front(stack))
                                              /\ next \in Listed' \cup {NULL}
          \/ Top.p \in Listed /\ Listed' = Listed /\ UNCHANGED <<ht, owned, broken>> /\ AppliesNext(Front(stack), Listed)
  BY <1>0, <1>3, StepApplyFunc
 <2>2. CASE Broke /\ Listed' = Listed
  BY <2>2, ChangersStay DEF Broke
 <2>3. Last(stack).fn # "del"
  BY <2>1 DEF Top
 <2>4. None(Changers, Front(stack)) /\ Front(stack) \in Seq(Waiting)
  BY <2>1, <2>3, ChangersBelow
 <2>5. ASSUME NEW loop \in Loops, NEW next, Taken(ht, loop, Top.p, next, Listed, Front(stack))
       PROVE  ChangersOK(ht, Listed, stack)'
  <3>1. loop \in Loops \cup Graceful
   OBVIOUS
  <3> QED BY <2>4, <2>5, <3>1, ChangersTaken
 <2>6. CASE AppliesNext(Front(stack), Listed)
  BY <2>4, <2>6, ChangersNext
 <2> QED BY <2>1, <2>2, <2>5, <2>6
<1> QED BY <1>1, <1>2, <1>3

\* The graceful destroys wait alone.
LEMMA ChangersDestroying ==
    ASSUME MapInv, NEW loop \in Graceful, zend_hash_graceful_destroy(loop) \/ GracefulDeleterReturns(loop)
    PROVE  ChangersOK(ht, Listed, stack)'
<1>0. StructureInv
 BY MapFacts
<1>a. <<>> \in Seq(Waiting) /\ None(Changers, <<>>) /\ loop \in Loops \cup Graceful
 BY EmptyCalm DEF None
<1>1. ASSUME NEW t, Destroyed(t) PROVE ChangersOK(ht, Listed, stack)'
 <2>1. None(Changers, stack')
  BY <1>a, <1>1 DEF Destroyed
 <2> QED BY <2>1, NoChanger
<1>2. ASSUME NEW t, NEW p, Taken(t, loop, p, NULL, Listed, <<>>) PROVE ChangersOK(ht, Listed, stack)'
 BY <1>a, <1>2, ChangersTaken
<1>3. CASE zend_hash_graceful_destroy(loop)
 <2>1. \/ Destroyed(ht)
       \/ \E p \in Listed : Taken(ht, loop, p, NULL, Listed, <<>>)
  <3>1. /\ StructureInv' /\ stack = <<>> /\ broken = "no"
        /\ \/ Destroyed(ht) /\ Listed = {} /\ Listed' = Listed
           \/ \E p \in Listed : /\ Taken(ht, loop, p, NULL, Listed, <<>>)
                                /\ loop = "graceful_destroy" => p = ht.pListHead
   BY <1>0, <1>3, StepDestroy
  <3> QED BY <3>1
 <2> QED BY <1>1, <1>2, <2>1
<1>4. CASE GracefulDeleterReturns(loop)
 <2>1. /\ StructureInv' /\ stack # <<>> /\ Top.fn = loop /\ broken = "no" /\ Front(stack) = <<>>
       /\ \/ /\ Broke /\ Listed' = Listed /\ loop = "graceful_destroy"
             /\ ht.pListNext[Top.p] \notin Listed \cup {NULL}
          \/ \E t : /\ Released(ht, t, Top.p, Listed)
                    /\ \/ /\ Destroyed(t) /\ Listed' = Listed
                          /\ loop = "graceful_destroy" => ht.pListNext[Top.p] = NULL
                          /\ loop = "graceful_reverse_destroy" => Listed = {}
                       \/ \E p \in Listed : /\ Taken(t, loop, p, NULL, Listed, <<>>)
                                            /\ loop = "graceful_destroy" => p = ht.pListNext[Top.p]
  BY <1>0, <1>4, StepDestroyed
 <2>2. CASE Broke /\ Listed' = Listed
  BY <2>2, ChangersStay DEF Broke
 <2>3. ASSUME NEW t, \/ Destroyed(t)
                     \/ \E p \in Listed : Taken(t, loop, p, NULL, Listed, <<>>)
       PROVE  ChangersOK(ht, Listed, stack)'
  BY <1>1, <1>2, <2>3
 <2> QED BY <2>1, <2>2, <2>3
<1> QED BY <1>3, <1>4

\* The invariant of the map holds initially, and the map is empty.
LEMMA MapInit ==
    ASSUME Init
    PROVE  MapInv /\ Map!Init
<1>1. KeysInv /\ TypeInv
 BY KeysInit, TypeInit
<1>2. stack = <<>> /\ ht = EmptyTable(InitTableSize)
 BY DEF Init
<1>3. None(Changers, stack)
 BY <1>2 DEF None
<1>4. ChangersOK(ht, Listed, stack)
 BY <1>3, NoChanger
<1>5. PICK n : n = InitTableSize
 OBVIOUS
<1>6. n \in Nat \ {0} /\ ht = EmptyTable(n)
 BY <1>2, <1>5, SizeAssumption
<1>7. Empties(ht)
 BY <1>6, MapEmpty
<1>8. Map!Init
 BY <1>7 DEF Empties, Map!Init
<1> QED BY <1>1, <1>4, <1>8 DEF MapInv

\* Every step of the table is one that the map has, or none.
LEMMA MapStepped ==
    ASSUME MapInv, [Next]_vars
    PROVE  MapStep(ht, ht')
<1>1. CASE UNCHANGED vars
 BY <1>1, MapStays DEF vars
<1>2. CASE \E d \in Data : NextInsert(d) \/ \E k \in Keys : Add(k, d) \/ Update(k, d)
 <2>1. ASSUME NEW d \in Data, NEW k \in Keys, Update(k, d) PROVE MapStep(ht, ht')
  BY <2>1, MapStays DEF Update
 <2> QED BY <1>2, <2>1, MapAdded
<1>3. CASE UpdateReturns
 BY <1>3, MapUpdated
<1>4. CASE DelReturns \/ \E k \in Keys : zend_hash_del(k)
 BY <1>4, MapDeleted
<1>5. CASE UpdateCurrentKeyGoesOn \/ \E k \in Keys : zend_hash_update_current_key(k)
 BY <1>5, MapRenamed
<1>6. CASE PointerMoves \/ zend_hash_get_pointer
 BY <1>6, MapMoved
<1>7. CASE \E renumber \in BOOLEAN : zend_hash_sort(renumber)
 BY <1>7, MapSorted
<1>8. CASE zend_hash_clean \/ _zend_hash_init
 BY <1>8, MapCleared
<1>9. CASE \/ \E loop \in Loops : zend_hash_apply(loop) \/ ApplyDeleterReturns(loop)
           \/ \E remove, stop \in BOOLEAN : ApplyFuncReturns(remove, stop)
 BY <1>9, MapApplied
<1>10. ASSUME NEW loop \in Graceful, zend_hash_graceful_destroy(loop) \/ GracefulDeleterReturns(loop)
       PROVE  MapStep(ht, ht')
 BY <1>10, MapDestroyed
<1> QED BY <1>1, <1>2, <1>3, <1>4, <1>5, <1>6, <1>7, <1>8, <1>9, <1>10 DEF Next, PointerMoves, Loops, Graceful

\* Every step keeps the invariant.
LEMMA MapKept ==
    ASSUME MapInv, Cardinality(Addr) <= LongMax, ChangersCalm, [Next]_vars
    PROVE  MapInv'
<1>1. KeysInv /\ TypeInv
 BY MapFacts
<1>2. KeysInv'
 BY <1>1, KeysStep DEF ChangersCalm
<1>3. TypeInv'
 BY <1>1, TypeStep
<1>4. ChangersOK(ht, Listed, stack)'
 <2>1. CASE UNCHANGED vars
  <3>1. ht' = ht /\ stack' = stack /\ Listed' = Listed
   BY <2>1 DEF vars, Listed
  <3> QED BY <3>1, ChangersStay
 <2>2. CASE \/ \E d \in Data : NextInsert(d) \/ \E k \in Keys : Add(k, d) \/ Update(k, d)
            \/ UpdateReturns
  BY <2>2, ChangersStoring
 <2>3. CASE DelReturns \/ \E k \in Keys : zend_hash_del(k)
  BY <2>3, ChangersDeleting
 <2>4. CASE UpdateCurrentKeyGoesOn \/ \E k \in Keys : zend_hash_update_current_key(k)
  BY <2>4, ChangersRenaming
 <2>5. CASE \/ PointerMoves \/ zend_hash_get_pointer \/ zend_hash_clean \/ _zend_hash_init
            \/ \E renumber \in BOOLEAN : zend_hash_sort(renumber)
  BY <2>5, ChangersMoving
 <2>6. CASE \/ \E loop \in Loops : zend_hash_apply(loop) \/ ApplyDeleterReturns(loop)
            \/ \E remove, stop \in BOOLEAN : ApplyFuncReturns(remove, stop)
  BY <2>6, ChangersApplying
 <2>7. ASSUME NEW loop \in Graceful, zend_hash_graceful_destroy(loop) \/ GracefulDeleterReturns(loop)
       PROVE  ChangersOK(ht, Listed, stack)'
  BY <2>7, ChangersDestroying
 <2> QED BY <2>1, <2>2, <2>3, <2>4, <2>5, <2>6, <2>7 DEF Next, PointerMoves, Loops, Graceful
<1> QED BY <1>2, <1>3, <1>4 DEF MapInv

\* Where no destructor that zend_hash_update or zend_hash_update_current_key waits
\* for uses the table, and a sort cannot number an element past LONG_MAX, every
\* step of the table is one operation of an ordered map, or invisible in it: the
\* elements keep their order, the current one goes to its successor when it is
\* deleted, and the two halves of a deletion or an update, the growing of the table
\* and whatever runs between them are never seen as anything else.
THEOREM MapCorrect ==
    ASSUME Cardinality(Addr) <= LongMax,
           "del" \notin Reentrant \/ "update_current_key" \notin Functions,
           "update" \notin Reentrant
    PROVE  Spec => IsOrderedMap
<1>0. ChangersCalm
 BY DEF ChangersCalm, RenamesCalm
<1>1. Init => MapInv /\ Map!Init
 BY MapInit
<1>2. MapInv /\ [Next]_vars => MapInv'
 BY <1>0, MapKept
<1>3. MapInv /\ [Next]_vars => [Map!Next]_(Map!vars)
 <2> SUFFICES ASSUME MapInv, [Next]_vars PROVE [Map!Next]_(Map!vars)
  OBVIOUS
 <2>1. PICK s : s = List(ht)
  OBVIOUS
 <2>2. Table(ht, s)
  BY <2>1, MapFacts
 <2>3. MapStep(ht, ht')
  BY MapStepped
 <2> QED BY <2>2, <2>3, MapStepIs
<1> QED BY <1>1, <1>2, <1>3, PTL DEF Spec, IsOrderedMap, Map!Spec

--------------------
(* Copying a table. *)

\* c[i] is the size after i of the steps that look for one of at least n.
Sizes(c, n, k) ==
    c = [i \in 0 .. k |-> IF i = 0 THEN InitTableSize
                          ELSE IF c[i - 1] < n THEN 2 * c[i - 1] ELSE c[i - 1]]

\* There are such sizes.
LEMMA SizesExist ==
    ASSUME NEW n, NEW m \in Nat
    PROVE  \E c : Sizes(c, n, m)
<1> DEFINE G == {k \in Nat : \E c : Sizes(c, n, k)}
<1>1. 0 \in G
 <2> DEFINE c == [i \in 0 .. 0 |-> InitTableSize]
 <2>1. c = [i \in 0 .. 0 |-> IF i = 0 THEN InitTableSize
                             ELSE IF c[i - 1] < n THEN 2 * c[i - 1] ELSE c[i - 1]]
  <3>1. \A i \in 0 .. 0 : i = 0
   OBVIOUS
  <3> QED BY <3>1, Zenon
 <2>2. Sizes(c, n, 0)
  <3> HIDE DEF c
  <3> QED BY <2>1, Zenon DEF Sizes
 <2> HIDE DEF c
 <2> QED BY <2>2
<1>2. ASSUME NEW k \in Nat, k \in G PROVE k + 1 \in G
 <2>1. PICK c : Sizes(c, n, k)
  BY <1>2
 <2>2. PICK x : x = IF c[k] < n THEN 2 * c[k] ELSE c[k]
  OBVIOUS
 <2> DEFINE d == [i \in 0 .. k + 1 |-> IF i = k + 1 THEN x ELSE c[i]]
 <2>3. ASSUME NEW i \in 0 .. k + 1
       PROVE  d[i] = IF i = 0 THEN InitTableSize ELSE IF d[i - 1] < n THEN 2 * d[i - 1] ELSE d[i - 1]
  <3>1. CASE i = k + 1
   <4>1. k \in 0 .. k + 1 /\ i # 0 /\ i - 1 = k /\ k # k + 1
    BY <3>1
   <4>2. d[k] = c[k] /\ d[i] = x
    BY <4>1, <3>1
   <4> HIDE DEF d
   <4> QED BY <2>2, <4>1, <4>2, <3>1, Zenon
  <3>2. CASE i # k + 1
   <4>1. i \in 0 .. k /\ d[i] = c[i]
    BY <3>2
   <4>2. c[i] = IF i = 0 THEN InitTableSize ELSE IF c[i - 1] < n THEN 2 * c[i - 1] ELSE c[i - 1]
    BY <2>1, <4>1, Zenon DEF Sizes
   <4>3. CASE i = 0
    <5> HIDE DEF d
    <5> QED BY <4>1, <4>2, <4>3, Zenon
   <4>4. CASE i # 0
    <5>1. i - 1 \in 0 .. k + 1 /\ i - 1 # k + 1
     BY <4>4, <4>1
    <5>2. d[i - 1] = c[i - 1]
     BY <5>1
    <5> HIDE DEF d
    <5> QED BY <4>1, <4>2, <4>4, <5>2, Zenon
   <4> QED BY <4>3, <4>4
  <3> QED BY <3>1, <3>2
 <2>4. Sizes(d, n, k + 1)
  <3> d = [i \in 0 .. k + 1 |-> d[i]]
   OBVIOUS
  <3> HIDE DEF d
  <3> QED BY <2>3, Zenon DEF Sizes
 <2> HIDE DEF d
 <2> QED BY <2>4
<1>3. Nat \subseteq G
 <2> HIDE DEF G
 <2> QED BY <1>1, <1>2, NatSet
<1> QED BY <1>3

\* The size zend_hash_init finds is that of a table.
LEMMA SizeIs ==
    ASSUME NEW n \in Nat
    PROVE  SizeFor(n) \in Nat \ {0}
<1> DEFINE c == CHOOSE x : Sizes(x, n, n)
<1>1. Sizes(c, n, n)
 BY SizesExist, Zenon
<1>2. SizeFor(n) = c[n]
 BY Zenon DEF SizeFor, Sizes
<1> HIDE DEF c
<1> DEFINE G == {i \in Nat : i <= n => c[i] \in Nat \ {0}}
<1>3. 0 \in G
 <2>1. 0 \in 0 .. n
  OBVIOUS
 <2>2. c[0] = InitTableSize
  BY <1>1, <2>1, Zenon DEF Sizes
 <2> QED BY <2>2, SizeAssumption
<1>4. ASSUME NEW i \in Nat, i \in G PROVE i + 1 \in G
 <2> SUFFICES ASSUME i + 1 <= n PROVE c[i + 1] \in Nat \ {0}
  OBVIOUS
 <2>1. i + 1 \in 0 .. n /\ i + 1 # 0 /\ (i + 1) - 1 = i /\ i <= n
  OBVIOUS
 <2>2. c[i + 1] = IF i + 1 = 0 THEN InitTableSize
                  ELSE IF c[(i + 1) - 1] < n THEN 2 * c[(i + 1) - 1] ELSE c[(i + 1) - 1]
  BY <1>1, <2>1, Zenon DEF Sizes
 <2>3. PICK x, y : x = c[i] /\ y = c[i + 1]
  OBVIOUS
 <2>4. x \in Nat \ {0} /\ y = IF x < n THEN 2 * x ELSE x
  BY <1>4, <2>1, <2>2, <2>3
 <2>5. y \in Nat \ {0}
  BY <2>4
 <2> QED BY <2>3, <2>5
<1>5. n \in G
 <2> HIDE DEF G
 <2> QED BY <1>3, <1>4, NatSet
<1> QED BY <1>2, <1>5

\* c[n] has copies of the first n of list, starting from base.
Copies(c, t, base, list, k) ==
    c = [n \in 0 .. k |-> IF n = 0 THEN base ELSE CopyElement(t, c[n - 1], list[n])]

\* There is such a function, from any table.
LEMMA CopiesExist ==
    ASSUME NEW t, NEW base, NEW list, NEW n \in Nat
    PROVE  \E c : Copies(c, t, base, list, n)
<1> DEFINE G == {k \in Nat : \E c : Copies(c, t, base, list, k)}
<1>1. 0 \in G
 <2> DEFINE c == [i \in 0 .. 0 |-> base]
 <2>1. c = [i \in 0 .. 0 |-> IF i = 0 THEN base ELSE CopyElement(t, c[i - 1], list[i])]
  <3>1. \A i \in 0 .. 0 : i = 0
   OBVIOUS
  <3> QED BY <3>1, Zenon
 <2>2. Copies(c, t, base, list, 0)
  <3> HIDE DEF c
  <3> QED BY <2>1, Zenon DEF Copies
 <2> HIDE DEF c
 <2> QED BY <2>2
<1>2. ASSUME NEW k \in Nat, k \in G PROVE k + 1 \in G
 <2>1. PICK c : Copies(c, t, base, list, k)
  BY <1>2
 <2> DEFINE d == [i \in 0 .. k + 1 |-> IF i = k + 1 THEN CopyElement(t, c[k], list[k + 1]) ELSE c[i]]
 <2>2. ASSUME NEW i \in 0 .. k + 1
       PROVE  d[i] = IF i = 0 THEN base ELSE CopyElement(t, d[i - 1], list[i])
  <3>1. CASE i = k + 1
   <4>1. k \in 0 .. k + 1 /\ i # 0 /\ i - 1 = k /\ k # k + 1
    BY <3>1
   <4>2. d[k] = c[k] /\ d[i] = CopyElement(t, c[k], list[k + 1])
    BY <4>1, <3>1
   <4> HIDE DEF d
   <4> QED BY <4>1, <4>2, <3>1, Zenon
  <3>2. CASE i # k + 1
   <4>1. i \in 0 .. k /\ d[i] = c[i]
    BY <3>2
   <4>2. c[i] = IF i = 0 THEN base ELSE CopyElement(t, c[i - 1], list[i])
    BY <2>1, <4>1, Zenon DEF Copies
   <4>3. CASE i = 0
    <5> HIDE DEF d
    <5> QED BY <4>1, <4>2, <4>3, Zenon
   <4>4. CASE i # 0
    <5>1. i - 1 \in 0 .. k + 1 /\ i - 1 # k + 1
     BY <4>4, <4>1
    <5>2. d[i - 1] = c[i - 1]
     BY <5>1
    <5> HIDE DEF d
    <5> QED BY <4>1, <4>2, <4>4, <5>2, Zenon
   <4> QED BY <4>3, <4>4
  <3> QED BY <3>1, <3>2
 <2>3. Copies(d, t, base, list, k + 1)
  <3> d = [i \in 0 .. k + 1 |-> d[i]]
   OBVIOUS
  <3> HIDE DEF d
  <3> QED BY <2>2, Zenon DEF Copies
 <2> HIDE DEF d
 <2> QED BY <2>3
<1>3. Nat \subseteq G
 <2> HIDE DEF G
 <2> QED BY <1>1, <1>2, NatSet
<1> QED BY <1>3

\* The current element of a copy of the first n of s.
PartPointer(t, s, n) ==
    IF n = 0 THEN NULL
    ELSE IF \E i \in 1 .. n : s[i] = t.pInternalPointer THEN t.pInternalPointer ELSE s[1]

\* u is a copy of the first n elements s of t.
Part(t, u, s, n) ==
    \E r : /\ Table(u, r) /\ Len(r) = n
           /\ \A i \in 1 .. n : r[i] = s[i]
           /\ \A i \in 1 .. n : u.key[s[i]] = t.key[s[i]] /\ u.pData[s[i]] = t.pData[s[i]]
           /\ u.pInternalPointer = PartPointer(t, s, n)

\* It is when the table is new.
LEMMA PartEmpty ==
    ASSUME NEW t, NEW s, NEW m \in Nat \ {0}, NEW u, u = EmptyTable(m)
    PROVE  Part(t, u, s, 0)
<1>1. Table(u, <<>>) /\ u.pInternalPointer = NULL
 BY TableEmpty
<1>2. Len(<<>>) = 0 /\ \A i \in 1 .. 0 : FALSE
 OBVIOUS
<1>3. PartPointer(t, s, 0) = NULL
 BY DEF PartPointer
<1> QED BY <1>1, <1>2, <1>3 DEF Part

\* Each element copied makes one more.
LEMMA PartGrows ==
    ASSUME NEW t, NEW s, Table(t, s), NEW u, NEW n \in Nat, n + 1 <= Len(s), Part(t, u, s, n),
           NEW v, v = CopyElement(t, u, s[n + 1])
    PROVE  Part(t, v, s, n + 1)
<1>1. PICK r : /\ Table(u, r) /\ Len(r) = n
               /\ \A i \in 1 .. n : r[i] = s[i]
               /\ \A i \in 1 .. n : u.key[s[i]] = t.key[s[i]] /\ u.pData[s[i]] = t.pData[s[i]]
               /\ u.pInternalPointer = PartPointer(t, s, n)
 BY DEF Part
<1>2. /\ s \in Seq(Addr) /\ Len(s) \in Nat
      /\ \A i \in 1 .. Len(s) : s[i] \in Addr /\ s[i] # NULL
      /\ \A i, j \in 1 .. Len(s) : s[i] = s[j] => i = j
 BY TableFacts
<1>3. r \in Seq(Addr)
 BY <1>1, TableFacts
<1>4. PICK p : p = s[n + 1]
 OBVIOUS
<1>5. n + 1 \in 1 .. Len(s) /\ p \in Addr /\ p # NULL /\ \A i \in 1 .. n : i \in 1 .. Len(s) /\ s[i] # p /\ s[i] \in Addr
 BY <1>2, <1>4
<1>6. p \notin ToSet(r)
 <2> SUFFICES ASSUME p \in ToSet(r) PROVE FALSE
  OBVIOUS
 <2>1. PICK i \in 1 .. Len(r) : r[i] = p
  BY <1>3, PlaceOf
 <2> QED BY <2>1, <1>1, <1>5
<1>7. PICK k, e : k = t.key[p] /\ e = t.pData[p]
 OBVIOUS
<1>8. k \in Stored /\ e \in Data \cup {NULL}
 BY <1>5, <1>7 DEF Table, Shaped
<1>9. PICK d : d = IF t.pInternalPointer = p THEN WithPointer(u, NULL) ELSE u
 OBVIOUS
<1>10. v = Insert(d, p, k, e)
 BY <1>4, <1>7, <1>9, Zenon DEF CopyElement, WithPointer
<1>11. Table(d, r) /\ d.key = u.key /\ d.pData = u.pData
       /\ d.pInternalPointer = IF t.pInternalPointer = p THEN NULL ELSE u.pInternalPointer
 <2>1. CASE t.pInternalPointer = p
  <3>1. d = WithPointer(u, NULL)
   BY <1>9, <2>1
  <3>2. Table(d, r) /\ d.pInternalPointer = NULL
        /\ \A g \in Fields \ {"pInternalPointer"} : d[g] = u[g]
   BY <3>1, <1>1, TablePoint
  <3>3. "key" \in Fields \ {"pInternalPointer"} /\ "pData" \in Fields \ {"pInternalPointer"}
   BY DEF Fields
  <3>4. d.key = u.key /\ d.pData = u.pData
   BY <3>2, <3>3
  <3> QED BY <3>2, <3>4, <2>1
 <2>2. CASE t.pInternalPointer # p
  BY <1>9, <1>1, <2>2
 <2> QED BY <2>1, <2>2
<1>12. PICK r1 : r1 = Append(r, p)
 OBVIOUS
<1>13. /\ Table(v, r1) /\ Len(r1) = n + 1
       /\ \A q \in Addr : v.key[q] = IF q = p THEN k ELSE d.key[q]
       /\ \A q \in Addr : v.pData[q] = IF q = p THEN e ELSE d.pData[q]
       /\ v.pInternalPointer = IF d.pInternalPointer = NULL THEN p ELSE d.pInternalPointer
 <2>1. /\ Table(v, Append(r, p))
       /\ Len(Append(r, p)) = Len(r) + 1
       /\ ToSet(Append(r, p)) = ToSet(r) \cup {p}
       /\ v.allocated = d.allocated \cup {p}
       /\ \A q \in Addr : v.key[q] = IF q = p THEN k ELSE d.key[q]
       /\ \A q \in Addr : v.pData[q] = IF q = p THEN e ELSE d.pData[q]
       /\ v.nNumOfElements = d.nNumOfElements + 1
       /\ v.nNextFreeElement = NextFree(d, k)
       /\ v.pInternalPointer = IF d.pInternalPointer = NULL THEN p ELSE d.pInternalPointer
       /\ \A q \in Addr : q # p /\ q \notin ToSet(r) => v.pListNext[q] = d.pListNext[q]
  BY <1>5, <1>6, <1>8, <1>10, <1>11, TableInsert
 <2> QED BY <2>1, <1>12, <1>1
<1>14. \A i \in 1 .. n + 1 : r1[i] = s[i]
 <2> SUFFICES ASSUME NEW i \in 1 .. n + 1 PROVE r1[i] = s[i]
  OBVIOUS
 <2>1. r1[i] = IF i = n + 1 THEN p ELSE r[i]
  BY <1>1, <1>3, <1>5, <1>12
 <2>2. i # n + 1 => i \in 1 .. n
  OBVIOUS
 <2> QED BY <2>1, <2>2, <1>1, <1>4
<1>15. ASSUME NEW i \in 1 .. n + 1
       PROVE  v.key[s[i]] = t.key[s[i]] /\ v.pData[s[i]] = t.pData[s[i]]
 <2>1. CASE i = n + 1
  <3>1. s[i] = p
   BY <2>1, <1>4
  <3> QED BY <3>1, <1>5, <1>7, <1>13
 <2>2. CASE i # n + 1
  <3>1. i \in 1 .. n
   BY <2>2
  <3>2. s[i] \in Addr /\ s[i] # p
   BY <3>1, <1>5
  <3>3. v.key[s[i]] = u.key[s[i]] /\ v.pData[s[i]] = u.pData[s[i]]
   BY <3>2, <1>11, <1>13
  <3> QED BY <3>1, <3>3, <1>1
 <2> QED BY <2>1, <2>2
<1>16. v.pInternalPointer = PartPointer(t, s, n + 1)
 <2>1. PartPointer(t, s, n + 1) =
         IF \E i \in 1 .. n + 1 : s[i] = t.pInternalPointer THEN t.pInternalPointer ELSE s[1]
  BY DEF PartPointer
 <2>2. CASE t.pInternalPointer = p
  <3>1. v.pInternalPointer = p
   BY <1>11, <1>13, <2>2
  <3>2. \E i \in 1 .. n + 1 : s[i] = t.pInternalPointer
   BY <1>4, <2>2
  <3> QED BY <2>1, <2>2, <3>1, <3>2
 <2>3. CASE t.pInternalPointer # p
  <3>1. (\E i \in 1 .. n + 1 : s[i] = t.pInternalPointer) <=> (\E i \in 1 .. n : s[i] = t.pInternalPointer)
   BY <1>4, <2>3
  <3>2. v.pInternalPointer = IF u.pInternalPointer = NULL THEN p ELSE u.pInternalPointer
   BY <1>11, <1>13, <2>3
  <3>3. CASE n = 0
   <4>1. u.pInternalPointer = NULL
    BY <1>1, <3>3 DEF PartPointer
   <4>2. ~ \E i \in 1 .. n : s[i] = t.pInternalPointer
    BY <3>3
   <4>3. p = s[1]
    BY <1>4, <3>3
   <4> QED BY <2>1, <3>1, <3>2, <4>1, <4>2, <4>3
  <3>4. CASE n # 0
   <4>1. u.pInternalPointer = IF \E i \in 1 .. n : s[i] = t.pInternalPointer THEN t.pInternalPointer ELSE s[1]
    BY <1>1, <3>4 DEF PartPointer
   <4>2. 1 \in 1 .. Len(s)
    BY <1>5
   <4>3. u.pInternalPointer # NULL
    <5>1. CASE \E i \in 1 .. n : s[i] = t.pInternalPointer
     BY <5>1, <4>1, <1>2, <1>5
    <5>2. CASE ~ \E i \in 1 .. n : s[i] = t.pInternalPointer
     BY <5>2, <4>1, <4>2, <1>2
    <5> QED BY <5>1, <5>2
   <4> QED BY <2>1, <3>1, <3>2, <4>1, <4>3
  <3> QED BY <3>3, <3>4
 <2> QED BY <2>2, <2>3
<1> QED BY <1>13, <1>14, <1>15, <1>16 DEF Part

\* The last of such tables.
Copied(t, base, list) == (CHOOSE x : Copies(x, t, base, list, Len(list)))[Len(list)]

\* Where the current element is after the copy.
LEMMA CopyEnds ==
    ASSUME NEW t, NEW x, x = Copied(t, EmptyTable(SizeFor(t.nNumOfElements)), List(t))
    PROVE  Copy(t) = IF x.pInternalPointer = NULL THEN WithPointer(x, x.pListHead) ELSE x
<1> DEFINE C == Copied(t, EmptyTable(SizeFor(t.nNumOfElements)), List(t))
<1>1. Copy(t) = IF C.pInternalPointer = NULL THEN [C EXCEPT !.pInternalPointer = C.pListHead] ELSE C
 BY Zenon DEF Copy, Copied, Copies
<1>2. x = C
 OBVIOUS
<1> HIDE DEF C
<1> QED BY <1>1, <1>2 DEF WithPointer

\* w has the elements s of t, and its current element.
CopyOf(t, s, w) ==
    /\ Table(w, s)
    /\ \A i \in 1 .. Len(s) : w.key[s[i]] = t.key[s[i]] /\ w.pData[s[i]] = t.pData[s[i]]
    /\ w.pInternalPointer = IF t.pInternalPointer = NULL THEN t.pListHead ELSE t.pInternalPointer

\* A copy of all elements, and its current element.
LEMMA CopyIs ==
    ASSUME NEW t, NEW s, Table(t, s), t.nNumOfElements \in Nat,
           t.pInternalPointer = NULL \/ t.pInternalPointer \in ToSet(s),
           NEW w, w = Copy(t)
    PROVE  CopyOf(t, s, w)
<1>1. /\ s \in Seq(Addr) /\ Len(s) \in Nat
      /\ \A i \in 1 .. Len(s) : s[i] \in Addr /\ s[i] # NULL
      /\ t.pListHead = Nth(s, 1) /\ List(t) = s
 BY TableFacts
<1>2. PICK base : base = EmptyTable(SizeFor(t.nNumOfElements))
 OBVIOUS
<1> DEFINE c == CHOOSE x : Copies(x, t, base, s, Len(s))
<1>3. Copies(c, t, base, s, Len(s))
 BY <1>1, CopiesExist, Zenon
<1>4. PICK u : u = c[Len(s)]
 OBVIOUS
<1>8. u = Copied(t, base, s)
 BY <1>4, Zenon DEF Copied
<1> HIDE DEF c
<1> DEFINE G == {n \in Nat : n <= Len(s) => Part(t, c[n], s, n)}
<1>5. 0 \in G
 <2>1. 0 \in 0 .. Len(s)
  BY <1>1
 <2>2. c[0] = base
  BY <2>1, <1>3, Zenon DEF Copies
 <2>3. SizeFor(t.nNumOfElements) \in Nat \ {0}
  BY SizeIs
 <2>4. Part(t, c[0], s, 0)
  BY <1>2, <2>2, <2>3, PartEmpty
 <2> QED BY <2>4
<1>6. ASSUME NEW n \in Nat, n \in G PROVE n + 1 \in G
 <2> SUFFICES ASSUME n + 1 <= Len(s) PROVE Part(t, c[n + 1], s, n + 1)
  OBVIOUS
 <2>1. n + 1 \in 0 .. Len(s) /\ n + 1 # 0 /\ (n + 1) - 1 = n /\ n <= Len(s)
  BY <1>1
 <2>2. c[n + 1] = IF n + 1 = 0 THEN base ELSE CopyElement(t, c[(n + 1) - 1], s[n + 1])
  BY <2>1, <1>3, Zenon DEF Copies
 <2>3. c[n + 1] = CopyElement(t, c[n], s[n + 1])
  BY <2>1, <2>2, Zenon
 <2>4. Part(t, c[n], s, n)
  BY <1>6, <2>1
 <2> QED BY <2>3, <2>4, PartGrows
<1>7. Part(t, c[Len(s)], s, Len(s))
 <2> HIDE DEF G
 <2>1. Len(s) \in G
  BY <1>1, <1>5, <1>6, NatSet
 <2> QED BY <2>1, <1>1 DEF G
<1>9. PICK r : /\ Table(u, r) /\ Len(r) = Len(s)
               /\ \A i \in 1 .. Len(s) : r[i] = s[i]
               /\ \A i \in 1 .. Len(s) : u.key[s[i]] = t.key[s[i]] /\ u.pData[s[i]] = t.pData[s[i]]
               /\ u.pInternalPointer = PartPointer(t, s, Len(s))
 BY <1>7, <1>4 DEF Part
<1>10. r = s
 <2>1. r \in Seq(Addr)
  BY <1>9, TableFacts
 <2> QED BY <2>1, <1>1, <1>9
<1>11. Table(u, s) /\ u.pListHead = Nth(s, 1)
 BY <1>9, <1>10, TableFacts
<1>12. w = IF u.pInternalPointer = NULL THEN WithPointer(u, u.pListHead) ELSE u
 <2>1. u = Copied(t, EmptyTable(SizeFor(t.nNumOfElements)), List(t))
  BY <1>1, <1>2, <1>8
 <2> QED BY <2>1, CopyEnds
<1>13. CASE Len(s) = 0
 <2>1. s = <<>> /\ ToSet(s) = {} /\ Nth(s, 1) = NULL
  <3>1. s = <<>>
   BY <1>1, <1>13
  <3> QED BY <3>1, LinksEmpty
 <2>2. u.pInternalPointer = NULL
  BY <1>9, <1>13 DEF PartPointer
 <2>3. w = WithPointer(u, NULL)
  BY <1>11, <1>12, <2>1, <2>2
 <2>4. Table(w, s) /\ w.pInternalPointer = NULL
       /\ \A g \in Fields \ {"pInternalPointer"} : w[g] = u[g]
  BY <1>11, <2>3, TablePoint
 <2>5. t.pInternalPointer = NULL /\ t.pListHead = NULL
  BY <1>1, <2>1
 <2> QED BY <2>4, <2>5, <1>13 DEF CopyOf
<1>14. CASE Len(s) # 0
 <2>1. 1 \in 1 .. Len(s)
  BY <1>1, <1>14
 <2>2. Nth(s, 1) = s[1] /\ s[1] # NULL
  BY <2>1, <1>1, NthFacts
 <2>3. u.pInternalPointer = IF \E i \in 1 .. Len(s) : s[i] = t.pInternalPointer
                            THEN t.pInternalPointer ELSE s[1]
  BY <1>9, <1>14 DEF PartPointer
 <2>4. (\E i \in 1 .. Len(s) : s[i] = t.pInternalPointer) <=> t.pInternalPointer # NULL
  BY <1>1, PlaceOf
 <2>5. u.pInternalPointer = IF t.pInternalPointer = NULL THEN t.pListHead ELSE t.pInternalPointer
  BY <2>2, <2>3, <2>4, <1>1
 <2>6. w = u
  BY <1>1, <1>12, <2>2, <2>5
 <2> QED BY <2>5, <2>6, <1>9, <1>11 DEF CopyOf
<1> QED BY <1>13, <1>14

\* A table with distinct keys is copied faithfully.
LEMMA CopyStates ==
    ASSUME KeysInv
    PROVE  CopyFaithful
<1>1. StructureInv /\ Distinct(ht.key, Listed) /\ Listed \subseteq Addr
 BY KeysFacts
<1>2. PICK s : State(ht, s, stack) /\ Listed = ToSet(s)
 BY <1>1, InvFacts
<1>3. Table(ht, s) /\ List(ht) = s /\ s \in Seq(Addr) /\ Len(s) \in Nat
      /\ ht.nNumOfElements = Len(s) + Cardinality(Dels(stack)) /\ Cardinality(Dels(stack)) \in Nat
 BY <1>2, StateFacts
<1>4. ht.nNumOfElements \in Nat
 BY <1>3
<1>5. ht.pInternalPointer = NULL \/ ht.pInternalPointer \in ToSet(s)
 BY <1>3 DEF Table, Pointed
<1>6. PICK w : w = Copy(ht)
 OBVIOUS
<1>7. /\ Table(w, s)
      /\ \A i \in 1 .. Len(s) : w.key[s[i]] = ht.key[s[i]] /\ w.pData[s[i]] = ht.pData[s[i]]
      /\ w.pInternalPointer = IF ht.pInternalPointer = NULL THEN ht.pListHead ELSE ht.pInternalPointer
 <2>1. CopyOf(ht, s, w)
  BY ONLY <1>3, <1>4, <1>5, <1>6, CopyIs
 <2> QED BY <2>1 DEF CopyOf
<1>8. List(w) = s
 BY <1>7, TableFacts
<1>9. \A p \in ToSet(s) : w.key[p] = ht.key[p] /\ w.pData[p] = ht.pData[p]
 BY <1>3, <1>7, PlaceOf
<1>10. ASSUME NEW p \in Listed PROVE Lookup(w, ht.key[p]) = p
 <2>1. p \in ToSet(s) /\ \A q \in ToSet(s) : w.key[q] = w.key[p] => q = p
  BY <1>1, <1>2, <1>9 DEF Distinct
 <2>2. Lookup(w, w.key[p]) = p
  BY <1>7, <2>1, LookupUnique
 <2> QED BY <2>1, <2>2, <1>9
<1> QED BY <1>2, <1>3, <1>6, <1>7, <1>8, <1>9, <1>10 DEF CopyFaithful

\* Under the same condition a copy of the table (an array separated on write)
\* has the elements, their order and the current element of the original,
\* however large the new table is and wherever its buckets hang.
THEOREM CopyCorrect ==
    ASSUME "del" \notin Reentrant \/ "update_current_key" \notin Functions
    PROVE  Spec => []CopyFaithful
<1>0. RenamesCalm
 BY DEF RenamesCalm
<1>1. Init => KeysInv
 BY KeysInit
<1>2. KeysInv /\ [Next]_vars => KeysInv'
 BY <1>0, KeysStep
<1> QED BY <1>1, <1>2, CopyStates, PTL DEF Spec
=============================================================================
