------------------------- MODULE ObjectsStoreProofs -------------------------
(***************************************************************************)
(* Theorems about the objects store, for any number of variables,          *)
(* properties and objects.                                                 *)
(*                                                                         *)
(* First the types, and that a destructor runs at most once: Inv is the    *)
(* inductive invariant.  Then the references the store counts: the counts  *)
(* are exact, nothing that is still referred to is freed, and every object *)
(* is freed once.  The lemmas of this part come first, on one state of the *)
(* store: how variables, properties and calls add up to the references of  *)
(* a handle, what the counts, the objects and the call stack have to do    *)
(* with each other (Good), and which changes of the data and of the stack  *)
(* keep them so.  Then they are applied to the actions.                    *)
(***************************************************************************)
EXTENDS ObjectsStore, TLAPS, FiniteSetTheorems, SequenceTheorems,
        WellFoundedInduction, FunctionTheorems

Phases == {"main", "shutdown_functions", "symtab", "call_dtors", "call_dtors_dtor",
           "mark", "end_ob_buffers", "symtab_destroy", "free_all", "store_destroy",
           "done", "crashed"}

Halted == {"done", "crashed"}

Inner == TryFrames \cup {"__construct", "__destruct", "del_ref", "free_storage"}

FrameType == [fn : FrameFns, h : 0 .. MaxCreated + 1, obj : Nat, failure : BOOLEAN]

\* Frames that name an object have a handle; the loops' counters start at 1.
GoodFrame(f) ==
    /\ f \in FrameType
    /\ f.fn \in Inner \cup {"call_dtors_dtor"} => f.h \in Handles
    /\ f.fn \in {"call_dtors", "free_all"} => f.h >= 1

\* A phase at the bottom, engine and user calls above it, nothing once halted.
StackOK(s) ==
    /\ s \in Seq(FrameType)
    /\ s # <<>>
    /\ \A i \in 1 .. Len(s) : GoodFrame(s[i])
    /\ s[1].fn \in Phases
    /\ \A i \in 2 .. Len(s) : s[i].fn \in Inner
    /\ s[1].fn \in Halted => Len(s) = 1

--------------------
(* The call stack. *)

\* Pushing a call keeps the stack well formed.
LEMMA PushOK ==
    ASSUME NEW s, StackOK(s), s[1].fn \notin Halted,
           NEW f, GoodFrame(f), f.fn \in Inner
    PROVE  StackOK(Append(s, f)) /\ Append(s, f)[1] = s[1]
<1>1. /\ Append(s, f) \in Seq(FrameType) /\ Len(Append(s, f)) = Len(s) + 1
      /\ \A i \in 1 .. Len(s) : Append(s, f)[i] = s[i]
      /\ Append(s, f)[Len(s) + 1] = f
      /\ Len(s) >= 1
 BY DEF StackOK, GoodFrame
<1>2. \A i \in 1 .. Len(s) + 1 : i \in 1 .. Len(s) \/ i = Len(s) + 1
 BY <1>1 DEF StackOK
<1>3. \A i \in 1 .. Len(s) + 1 : GoodFrame(Append(s, f)[i])
 BY <1>1, <1>2 DEF StackOK
<1>4. \A i \in 2 .. Len(s) + 1 : Append(s, f)[i].fn \in Inner
 BY <1>1 DEF StackOK
<1> QED BY <1>1, <1>3, <1>4 DEF StackOK

\* Returning from a call keeps the stack well formed.
LEMMA PopOK ==
    ASSUME NEW s, StackOK(s), Len(s) > 1
    PROVE  /\ StackOK(SubSeq(s, 1, Len(s) - 1))
           /\ SubSeq(s, 1, Len(s) - 1)[1] = s[1]
           /\ s[1].fn \notin Halted
           /\ s[Len(s)].fn \in Inner
<1> DEFINE r == SubSeq(s, 1, Len(s) - 1)
<1>1. /\ r \in Seq(FrameType) /\ Len(r) = Len(s) - 1
      /\ \A i \in 1 .. Len(r) : r[i] = s[i]
 BY DEF StackOK
<1>2. Len(s) \in Nat
 BY DEF StackOK
<1> HIDE DEF r
<1>3. StackOK(r) /\ r[1] = s[1]
 BY <1>1, <1>2 DEF StackOK
<1> QED BY <1>2, <1>3 DEF r, StackOK

LEMMA SingleOK ==
    ASSUME NEW f, GoodFrame(f), f.fn \in Phases
    PROVE  StackOK(<<f>>) /\ <<f>>[1] = f
BY DEF StackOK, GoodFrame

\* Every phase in which code runs has a place to continue after a bailout.
LEMMA AfterBailoutOK ==
    ASSUME NEW ph \in Phases \ Halted
    PROVE  GoodFrame(Frame(AfterBailout[ph], 1)) /\ AfterBailout[ph] \in Phases \ {"crashed"}
<1>1. AfterBailout[ph] \in Phases \ {"crashed", "call_dtors_dtor"}
 BY DEF AfterBailout, Phases, Halted
<1> QED
 BY <1>1, BoundAssumption
 DEF GoodFrame, Frame, FrameType, FrameFns, Phases, UserFrames, UserPhases, TryFrames, Inner

\* zend_try frames: the innermost one exists whenever there is one at all.
LEMMA InnermostTry ==
    ASSUME NEW n \in Nat, NEW T \in SUBSET (1 .. n), T # {}
    PROVE  (CHOOSE i \in T : \A j \in T : j <= i) \in T
<1> DEFINE S == {n - i : i \in T}
<1>1. \A i \in T : n - i \in Nat
 OBVIOUS
<1>2. S \subseteq Nat /\ S # {}
 BY <1>1
<1>3. PICK x \in S : \A y \in S : ~(<<y, x>> \in OpToRel(<, Nat))
 BY <1>2, WFMin, NatLessThanWellFounded, Zenon
<1>4. ASSUME NEW y \in S PROVE x <= y
 <2>1. x \in Nat /\ y \in Nat
  BY <1>2
 <2>2. ~(y < x)
  BY <1>3, <2>1 DEF OpToRel
 <2> QED BY <2>1, <2>2
<1>5. PICK i \in T : x = n - i
 BY <1>3
<1>6. ASSUME NEW j \in T PROVE j <= i
 <2>1. x <= n - j
  BY <1>4
 <2> QED BY <2>1, <1>5
<1> QED BY <1>6

\* A bailout leaves a well-formed stack, whatever it abandons.
LEMMA UnwindOK ==
    ASSUME NEW s, StackOK(s), s[1].fn \notin Halted
    PROVE  StackOK(Unwind(s)) /\ Unwind(s)[1].fn # "crashed"
<1> DEFINE tries == {i \in 1 .. Len(s) : s[i].fn \in TryFrames}
           c == CHOOSE i \in tries : \A j \in tries : j <= i
<1>0. Len(s) \in Nat /\ Len(s) >= 1 /\ s[1].fn \in Phases \ Halted
 BY DEF StackOK
<1>1. CASE tries = {}
 <2>1. Unwind(s) = <<Frame(AfterBailout[s[1].fn], 1)>>
  BY <1>1 DEF Unwind
 <2>2. /\ GoodFrame(Frame(AfterBailout[s[1].fn], 1))
       /\ AfterBailout[s[1].fn] \in Phases \ {"crashed"}
  BY <1>0, AfterBailoutOK
 <2>3. Frame(AfterBailout[s[1].fn], 1).fn = AfterBailout[s[1].fn]
  BY DEF Frame
 <2> QED BY <2>1, <2>2, <2>3, SingleOK
<1>2. CASE tries # {}
 <2> DEFINE f == [s[c] EXCEPT !.failure = TRUE]
            r == SubSeq(s, 1, c - 1)
 <2>1. Unwind(s) = Append(r, f)
  BY <1>2 DEF Unwind
 <2>2. c \in tries
  BY <1>0, <1>2, InnermostTry
 <2>3. c \in 2 .. Len(s) /\ s[c].fn \in TryFrames
  <3>1. \A x \in Phases : x \notin TryFrames
   BY DEF Phases, TryFrames
  <3> QED BY <2>2, <1>0, <3>1
 <2> HIDE DEF c
 <2>4. GoodFrame(f) /\ f.fn \in Inner
  <3>1. GoodFrame(s[c])
   BY <2>3 DEF StackOK
  <3>2. f \in FrameType /\ f.fn = s[c].fn /\ f.h = s[c].h
   BY <3>1 DEF GoodFrame, FrameType
  <3> QED BY <2>3, <3>1, <3>2 DEF GoodFrame, Inner
 <2>5. /\ r \in Seq(FrameType) /\ Len(r) = c - 1
       /\ \A i \in 1 .. Len(r) : r[i] = s[i]
  BY <2>3 DEF StackOK
 <2> HIDE DEF r, f
 <2>6. StackOK(r) /\ r[1] = s[1]
  BY <2>3, <2>5, <1>0 DEF StackOK
 <2>7. StackOK(Append(r, f)) /\ Append(r, f)[1] = r[1]
  BY <2>4, <2>6, PushOK
 <2> QED BY <2>1, <2>6, <2>7, <1>0 DEF Halted
<1> QED BY <1>1, <1>2

\* The frame on top: either a call, or the phase itself.
LEMMA TopOK ==
    ASSUME StackOK(stack)
    PROVE  /\ GoodFrame(Top)
           /\ Len(stack) \in Nat /\ Len(stack) >= 1
           /\ Top.fn \in Inner => Len(stack) > 1
           /\ Top.fn \in Phases => Len(stack) = 1 /\ Phase = Top.fn
           /\ Top.fn \notin Halted => Phase \notin Halted
<1>1. Len(stack) \in Nat /\ Len(stack) >= 1
 BY DEF StackOK
<1>2. GoodFrame(Top)
 BY <1>1 DEF StackOK, Top
<1>3. \A x \in Phases : x \notin Inner
 BY DEF Phases, Inner, TryFrames
<1>4. Len(stack) = 1 => Top.fn \in Phases /\ Phase = Top.fn
 BY <1>1 DEF StackOK, Top, Phase
<1>5. Len(stack) > 1 => Top.fn \in Inner /\ Phase \notin Halted
 BY <1>1 DEF StackOK, Top, Phase
<1>6. CASE Len(stack) = 1
 BY <1>1, <1>2, <1>3, <1>4, <1>6
<1>7. CASE Len(stack) > 1
 BY <1>1, <1>2, <1>3, <1>5, <1>7
<1>8. Len(stack) = 1 \/ Len(stack) > 1
 <2>1. \A n \in Nat : n >= 1 => n = 1 \/ n > 1
  OBVIOUS
 <2> QED BY <1>1, <2>1, Zenon
<1> QED BY <1>6, <1>7, <1>8, Zenon

LEMMA FrameOK ==
    /\ \A fn \in Inner, h \in Handles : GoodFrame(Frame(fn, h)) /\ Frame(fn, h).fn = fn
    /\ \A fn \in Phases \ {"call_dtors_dtor"}, h \in 1 .. MaxCreated + 1 :
         GoodFrame(Frame(fn, h)) /\ Frame(fn, h).fn = fn
    /\ \A fn \in Halted \cup {"symtab"} : GoodFrame(Frame(fn, 0)) /\ Frame(fn, 0).fn = fn
    /\ \A h \in Handles :
         GoodFrame(Frame("call_dtors_dtor", h))
         /\ Frame("call_dtors_dtor", h).fn = "call_dtors_dtor"
BY BoundAssumption
DEF Frame, GoodFrame, FrameType, FrameFns, Inner, Phases, Halted, UserFrames, UserPhases,
    TryFrames, Handles

\* The stacks the actions build.
LEMMA StackStep ==
    ASSUME StackOK(stack), Phase \notin Halted
    PROVE  /\ \A h \in Handles \cup {0} :
                StackOK(Releasing(h)) /\ Releasing(h)[1] = stack[1]
           /\ \A f : GoodFrame(f) /\ f.fn \in Inner =>
                StackOK(Push(f)) /\ Push(f)[1] = stack[1]
           /\ Len(stack) > 1 =>
                /\ StackOK(Callers) /\ Callers[1] = stack[1]
                /\ \A f : GoodFrame(f) /\ f.fn \in Inner =>
                     StackOK(ReplaceTop(f)) /\ ReplaceTop(f)[1] = stack[1]
           /\ Len(stack) = 1 =>
                \A f : GoodFrame(f) /\ f.fn \in Phases =>
                     StackOK(ReplaceTop(f)) /\ ReplaceTop(f)[1] = f
<1>1. stack[1].fn \notin Halted
 BY DEF Phase
<1>2. ASSUME NEW f, GoodFrame(f), f.fn \in Inner
      PROVE  StackOK(Push(f)) /\ Push(f)[1] = stack[1]
 BY <1>1, <1>2, PushOK DEF Push
<1>3. ASSUME NEW h \in Handles \cup {0}
      PROVE  StackOK(Releasing(h)) /\ Releasing(h)[1] = stack[1]
 <2>1. CASE h = 0
  BY <2>1 DEF Releasing
 <2>2. CASE h # 0
  <3>1. GoodFrame(Frame("del_ref", h)) /\ Frame("del_ref", h).fn \in Inner
   BY <2>2, FrameOK DEF Inner
  <3> QED BY <2>2, <3>1, <1>2 DEF Releasing
 <2> QED BY <2>1, <2>2
<1>4. ASSUME Len(stack) > 1
      PROVE  /\ StackOK(Callers) /\ Callers[1] = stack[1]
             /\ \A f : GoodFrame(f) /\ f.fn \in Inner =>
                  StackOK(ReplaceTop(f)) /\ ReplaceTop(f)[1] = stack[1]
 <2>1. StackOK(Callers) /\ Callers[1] = stack[1]
  BY <1>4, PopOK DEF Callers
 <2>2. ASSUME NEW f, GoodFrame(f), f.fn \in Inner
       PROVE  StackOK(ReplaceTop(f)) /\ ReplaceTop(f)[1] = stack[1]
  BY <2>1, <2>2, <1>1, PushOK DEF ReplaceTop
 <2> QED BY <2>1, <2>2
<1>5. ASSUME Len(stack) = 1, NEW f, GoodFrame(f), f.fn \in Phases
      PROVE  StackOK(ReplaceTop(f)) /\ ReplaceTop(f)[1] = f
 <2>1. Callers = <<>>
  BY <1>5, SubSeqEmpty DEF Callers
 <2>2. ReplaceTop(f) = <<f>>
  BY <2>1 DEF ReplaceTop
 <2> QED BY <1>5, <2>2, SingleOK
<1> QED BY <1>2, <1>3, <1>4, <1>5

--------------------
(* The inductive invariant: types, the shape of the stack, the bound on top,  *)
(* and what the flag destructor_called stands for.                            *)

StoreOK ==
    /\ bucket \in [Handles -> [valid : BOOLEAN, destructor_called : BOOLEAN, refcount : Int]]
    /\ top \in 1 .. MaxCreated + 1
    /\ size \in Nat /\ capacity \in Nat /\ table \in Nat
    /\ free_list \in Seq(Handles)
    /\ created \in 0 .. MaxCreated
    /\ Phase # "crashed" => top <= created + 1

HeapOK ==
    /\ object \in [Handles -> [live : BOOLEAN, destr : {"none", "public", "private"},
                               prop : [Props -> Handles \cup {0}]]]
    /\ symbol_table \in [Vars -> Handles \cup {0}]
    /\ shared \subseteq Vars
    /\ pass \in [symbols : Nat, todo : SUBSET Vars]
    /\ unclean \in BOOLEAN

\* Until the flag is set the destructor has not run.
SettledOK ==
    /\ settled \in [Handles -> {0, 1}]
    /\ \A h \in Handles :
         bucket[h].valid /\ ~bucket[h].destructor_called => settled[h] = 0

Inv == StackOK(stack) /\ StoreOK /\ HeapOK /\ SettledOK

LEMMA InvImpliesTypeOK == Inv => TypeOK
<1> SUFFICES ASSUME Inv PROVE TypeOK
 OBVIOUS
<1>1. stack \in Seq([fn : FrameFns, h : 0 .. MaxCreated + 1, obj : Nat, failure : BOOLEAN])
      /\ stack # <<>>
 BY DEF Inv, StackOK, FrameType
<1>2. settled \in [Handles -> Nat]
 BY DEF Inv, SettledOK
<1> QED BY <1>1, <1>2 DEF Inv, TypeOK, StoreOK, HeapOK

LEMMA InvImpliesAtMostOnce == Inv => DestructorAtMostOnce
BY DEF Inv, SettledOK, DestructorAtMostOnce

LEMMA InitInv == Init => Inv
<1> SUFFICES ASSUME Init PROVE Inv
 OBVIOUS
<1>1. StackOK(stack)
 <2>1. GoodFrame(Frame("main", 0)) /\ Frame("main", 0).fn = "main"
  BY BoundAssumption DEF GoodFrame, Frame, FrameType, FrameFns, UserFrames, UserPhases, Inner, TryFrames
 <2> QED BY <2>1, SingleOK DEF Init, Phases
<1>2. StoreOK
 BY SizeAssumption, BoundAssumption DEF Init, StoreOK, NoBucket, Handles
<1>3. HeapOK
 BY DEF Init, HeapOK, NoObject, NoPass
<1>4. SettledOK
 BY DEF Init, SettledOK
<1> QED BY <1>1, <1>2, <1>3, <1>4 DEF Inv

\* A bailout: the stack it leaves, and the flag.
LEMMA BailoutOK ==
    ASSUME NEW s, StackOK(s), s[1].fn \notin Halted, Bailout(s)
    PROVE  StackOK(stack') /\ Phase' # "crashed" /\ unclean' \in BOOLEAN
BY UnwindOK DEF Bailout, Phase

LEMMA AddRefOK ==
    ASSUME NEW b \in [Handles -> [valid : BOOLEAN, destructor_called : BOOLEAN, refcount : Int]],
           NEW h \in Handles \cup {0}
    PROVE  /\ AddRef(b, h)
               \in [Handles -> [valid : BOOLEAN, destructor_called : BOOLEAN, refcount : Int]]
           /\ \A k \in Handles :
                /\ AddRef(b, h)[k].valid = b[k].valid
                /\ AddRef(b, h)[k].destructor_called = b[k].destructor_called
BY DEF AddRef

\* Buckets of the right type, whose unset flags are right.
BucketsOK(b) ==
    /\ b \in [Handles -> [valid : BOOLEAN, destructor_called : BOOLEAN, refcount : Int]]
    /\ \A h \in Handles : b[h].valid /\ ~b[h].destructor_called => settled[h] = 0

--------------------
(* User code. *)

LEMMA UserTop ==
    ASSUME Inv, InUserCode
    PROVE  /\ StackOK(stack) /\ Phase \notin Halted
           /\ Phase # "crashed"
           /\ Top.fn \in {"__construct", "__destruct"} => Top.h \in Handles
           /\ Accessible \subseteq Handles
<1>1. StackOK(stack)
 BY DEF Inv
<1>2. Top.fn \notin Halted
 BY DEF InUserCode, UserFrames, UserPhases, Halted
<1>3. GoodFrame(Top) /\ Phase \notin Halted
 BY <1>1, <1>2, TopOK
<1>4. Top.fn \in {"__construct", "__destruct"} => Top.h \in Handles
 BY <1>3 DEF GoodFrame, Inner
<1>5. Held \subseteq Handles \cup {0}
 BY <1>4 DEF Held, Inv, HeapOK
<1>6. Accessible \subseteq Handles
 BY <1>5 DEF Accessible, Inv, HeapOK
<1> QED BY <1>1, <1>3, <1>4, <1>6 DEF Halted

\* put: the handle it returns, and the store it leaves.
LEMMA PutOK ==
    ASSUME Inv, Phase \notin Halted, created < MaxCreated
    PROVE  /\ NextHandle \in Handles
           /\ \A b : BucketsOK(b) /\ zend_objects_store_put(NextHandle, b)
                /\ settled' = [settled EXCEPT ![NextHandle] = 0]
                /\ created' = created + 1
                => StoreOK' /\ SettledOK'
<1>1. NextHandle \in Handles
 BY HeadTailProperties, BoundAssumption DEF Inv, StoreOK, NextHandle, Handles, Halted
<1>2. ASSUME NEW b, BucketsOK(b), zend_objects_store_put(NextHandle, b),
             settled' = [settled EXCEPT ![NextHandle] = 0], created' = created + 1
      PROVE  StoreOK' /\ SettledOK'
 <2>1. bucket' \in [Handles -> [valid : BOOLEAN, destructor_called : BOOLEAN, refcount : Int]]
  BY <1>1, <1>2 DEF zend_objects_store_put, BucketsOK
 <2>2. SettledOK'
  BY <1>1, <1>2, <2>1 DEF zend_objects_store_put, BucketsOK, SettledOK, Inv
 <2>3. free_list' \in Seq(Handles)
  BY <1>2, HeadTailProperties DEF zend_objects_store_put, Inv, StoreOK
 <2>4. created \in Nat /\ top \in Nat /\ top >= 1 /\ top <= created + 1
  BY DEF Inv, StoreOK, Halted
 <2>5. top' \in 1 .. MaxCreated + 1 /\ top' <= created' + 1
  BY <1>2, <2>4, BoundAssumption DEF zend_objects_store_put
 <2>6. size' \in Nat /\ capacity' \in Nat /\ table' \in Nat
  BY <1>2 DEF zend_objects_store_put, Inv, StoreOK
 <2>7. created' \in 0 .. MaxCreated
  BY <1>2, <2>4, BoundAssumption
 <2> QED BY <2>1, <2>2, <2>3, <2>5, <2>6, <2>7 DEF StoreOK
<1> QED BY <1>1, <1>2

LEMMA NewInv == ASSUME Inv, NEW d \in Destructors, New(d) PROVE Inv'
<1>1. StackOK(stack) /\ Phase \notin Halted /\ created < MaxCreated
 BY UserTop DEF New, NewObject
<1>2. NextHandle \in Handles
 BY <1>1, PutOK
<1>3. StoreOK' /\ SettledOK'
 BY <1>1, PutOK DEF New, NewObject, BucketsOK, Inv, StoreOK, SettledOK
<1>4. StackOK(stack')
 BY <1>1, <1>2, StackStep, FrameOK DEF New, Inner
<1>5. HeapOK'
 BY <1>2, KindAssumption DEF New, NewObject, NoObject, symVars, Inv, HeapOK
<1> QED BY <1>3, <1>4, <1>5 DEF Inv

LEMMA CloneInv ==
    ASSUME Inv, NEW o \in Accessible, NEW v \in Vars, zend_objects_clone_obj(o, v)
    PROVE  Inv'
<1> DEFINE copies(k) == Cardinality({p \in Props : object[o].prop[p] = k})
           b == [k \in Handles |-> [bucket[k] EXCEPT !.refcount = @ + copies(k)]]
<1>1. StackOK(stack) /\ Phase \notin Halted /\ created < MaxCreated /\ o \in Handles
 BY UserTop DEF zend_objects_clone_obj, NewObject
<1>2. NextHandle \in Handles
 BY <1>1, PutOK
<1>3. \A k : copies(k) \in Nat
 <2> TAKE k
 <2>1. IsFiniteSet({p \in Props : object[o].prop[p] = k})
  BY FS_Subset, NamesAssumption
 <2> QED BY <2>1, FS_CardinalityType
<1> HIDE DEF copies
<1>4. BucketsOK(b)
 <2>1. \A k \in Handles :
         /\ bucket[k] \in [valid : BOOLEAN, destructor_called : BOOLEAN, refcount : Int]
         /\ bucket[k].refcount + copies(k) \in Int
  BY <1>3 DEF Inv, StoreOK
 <2>2. \A k \in Handles :
         /\ b[k] \in [valid : BOOLEAN, destructor_called : BOOLEAN, refcount : Int]
         /\ b[k].valid = bucket[k].valid
         /\ b[k].destructor_called = bucket[k].destructor_called
  BY <2>1
 <2>3. b \in [Handles -> [valid : BOOLEAN, destructor_called : BOOLEAN, refcount : Int]]
  BY <2>2
 <2> QED BY <2>2, <2>3 DEF BucketsOK, Inv, SettledOK
<1>5. zend_objects_store_put(NextHandle, b)
 BY DEF zend_objects_clone_obj, copies
<1> HIDE DEF b
<1>6. settled' = [settled EXCEPT ![NextHandle] = 0] /\ created' = created + 1
 BY DEF zend_objects_clone_obj, NewObject
<1>7. StoreOK' /\ SettledOK'
 BY <1>1, <1>4, <1>5, <1>6, PutOK
<1>8. StackOK(stack')
 BY <1>1 DEF zend_objects_clone_obj
<1>9. HeapOK'
 BY <1>1, <1>2 DEF zend_objects_clone_obj, NewObject, Inv, HeapOK
<1> QED BY <1>7, <1>8, <1>9 DEF Inv

\* Steps that change only the buckets of the store.
BucketOnly == UNCHANGED <<top, size, capacity, free_list, table, created, settled>>

LEMMA BucketOnlyOK ==
    ASSUME Inv, BucketOnly, BucketsOK(bucket'), Phase' = "crashed" \/ Phase # "crashed"
    PROVE  StoreOK' /\ SettledOK'
BY DEF Inv, StoreOK, SettledOK, BucketOnly, BucketsOK

LEMMA BucketsNow == ASSUME Inv PROVE BucketsOK(bucket)
BY DEF Inv, StoreOK, SettledOK, BucketsOK

LEMMA BucketsMark == ASSUME NEW b, BucketsOK(b) PROVE BucketsOK(mark_destructed(b))
BY DEF mark_destructed, BucketsOK

LEMMA BucketsAddRef ==
    ASSUME NEW b, BucketsOK(b), NEW h \in Handles \cup {0}
    PROVE  BucketsOK(AddRef(b, h))
BY AddRefOK DEF BucketsOK

LEMMA BucketsCount ==
    ASSUME NEW b, BucketsOK(b), NEW h \in Handles, NEW n \in Int
    PROVE  BucketsOK([b EXCEPT ![h].refcount = n])
BY DEF BucketsOK

LEMMA MemoryInv ==
    ASSUME Inv, NewHitsMemoryLimit \/ NewOutOfBounds
    PROVE  Inv'
<1>1. InUserCode /\ created < MaxCreated
 BY DEF NewHitsMemoryLimit, NewOutOfBounds
<1>2. StackOK(stack) /\ Phase \notin Halted /\ Phase # "crashed"
 BY <1>1, UserTop
<1>3. CASE NewHitsMemoryLimit
 <2>1. StackOK(stack') /\ Phase' # "crashed" /\ unclean' \in BOOLEAN
  BY <1>2, <1>3, BailoutOK DEF NewHitsMemoryLimit, Phase
 <2>2. BucketsOK(bucket')
  BY <1>3, BucketsNow, BucketsMark DEF NewHitsMemoryLimit, BucketsOK, heapVars
 <2>3. StoreOK' /\ SettledOK'
  BY <1>2, <1>3, <2>2 DEF NewHitsMemoryLimit, BucketsOK, Inv, StoreOK, SettledOK, heapVars
 <2>4. HeapOK'
  BY <1>3, <2>1 DEF NewHitsMemoryLimit, heapVars, symVars, Inv, HeapOK
 <2> QED BY <2>1, <2>3, <2>4 DEF Inv
<1>4. CASE NewOutOfBounds
 <2>1. stack' = <<Frame("crashed", 0)>>
  BY <1>4 DEF NewOutOfBounds
 <2>2. StackOK(stack') /\ Phase' = "crashed"
  BY <2>1, FrameOK, SingleOK DEF Halted, Phases, Phase
 <2>3. StoreOK'
  BY <1>1, <1>2, <1>4, <2>2, BoundAssumption DEF NewOutOfBounds, heapVars, Inv, StoreOK
 <2>4. HeapOK' /\ SettledOK'
  BY <1>4 DEF NewOutOfBounds, heapVars, symVars, Inv, HeapOK, SettledOK
 <2> QED BY <2>2, <2>3, <2>4 DEF Inv
<1> QED BY <1>3, <1>4

LEMMA ConstructorInv ==
    ASSUME Inv,
           \/ \E v \in Vars : ConstructorReturns(v)
           \/ ConstructorDiscards
           \/ zend_object_store_ctor_failed
           \/ DestructorReturns
    PROVE  Inv'
<1>1. InUserCode /\ Top.fn \in {"__construct", "__destruct"}
 BY DEF ConstructorReturns, ConstructorDiscards, zend_object_store_ctor_failed,
        DestructorReturns, InUserCode, UserFrames
<1>2. StackOK(stack) /\ Phase \notin Halted /\ Phase # "crashed" /\ Top.h \in Handles
 BY <1>1, UserTop
<1>3. Len(stack) > 1
 BY <1>1, <1>2, TopOK DEF Inner
<1>4. StackOK(ReplaceTop(Frame("del_ref", Top.h))) /\ StackOK(Callers)
      /\ ReplaceTop(Frame("del_ref", Top.h))[1] = stack[1] /\ Callers[1] = stack[1]
 BY <1>2, <1>3, StackStep, FrameOK DEF Inner
<1>5. CASE \E v \in Vars : ConstructorReturns(v)
 <2> PICK v \in Vars : ConstructorReturns(v)
  BY <1>5
 <2>1. symbol_table[v] = 0 \/ symbol_table[v] \in Handles
  BY DEF Inv, HeapOK
 <2> DEFINE result == ReplaceTop(Frame("del_ref", Top.h))
            old    == Frame("del_ref", symbol_table[v])
 <2>2. symbol_table[v] # 0 =>
         StackOK(Append(result, old)) /\ Append(result, old)[1] = stack[1]
  <3>1. symbol_table[v] # 0 => GoodFrame(old) /\ old.fn \in Inner
   BY <2>1, FrameOK DEF Inner
  <3>2. StackOK(result) /\ result[1] = stack[1] /\ stack[1].fn \notin Halted
   BY <1>2, <1>4 DEF Phase
  <3> HIDE DEF result, old
  <3> QED BY <3>1, <3>2, PushOK
 <2>3. StackOK(stack') /\ stack'[1] = stack[1]
  BY <1>4, <2>2 DEF ConstructorReturns
 <2>4. BucketsOK(bucket')
  BY <1>2, BucketsNow, BucketsAddRef DEF ConstructorReturns
 <2>5. StoreOK' /\ SettledOK'
  BY <1>2, <2>4, BucketOnlyOK DEF ConstructorReturns, BucketOnly, heapVars
 <2>6. HeapOK'
  BY <1>2 DEF ConstructorReturns, heapVars, Inv, HeapOK
 <2> QED BY <2>3, <2>5, <2>6 DEF Inv
<1>6. CASE ConstructorDiscards \/ DestructorReturns
 <2>1. StackOK(stack') /\ stack'[1] = stack[1]
  BY <1>4, <1>6 DEF ConstructorDiscards, DestructorReturns
 <2>2. StoreOK' /\ SettledOK' /\ HeapOK'
  BY <1>6, <2>1
  DEF ConstructorDiscards, DestructorReturns, storeVars, heapVars, symVars, Phase,
      Inv, StoreOK, SettledOK, HeapOK
 <2> QED BY <2>1, <2>2 DEF Inv
<1>7. CASE zend_object_store_ctor_failed
 <2>1. StackOK(stack') /\ stack'[1] = stack[1]
  BY <1>4, <1>7 DEF zend_object_store_ctor_failed
 <2>2. StoreOK'
  BY <1>2, <1>7, <2>1 DEF zend_object_store_ctor_failed, Phase, Inv, StoreOK
 <2>3. SettledOK'
  <3>1. settled' \in [Handles -> {0, 1}]
   BY <1>7 DEF zend_object_store_ctor_failed, Inv, SettledOK
  <3>2. \A h \in Handles :
          bucket'[h].valid /\ ~bucket'[h].destructor_called => settled'[h] = 0
   BY <1>2, <1>7 DEF zend_object_store_ctor_failed, Inv, SettledOK, StoreOK
  <3> QED BY <3>1, <3>2 DEF SettledOK
 <2>4. HeapOK'
  BY <1>7 DEF zend_object_store_ctor_failed, symVars, Inv, HeapOK
 <2> QED BY <2>1, <2>2, <2>3, <2>4 DEF Inv
<1> QED BY <1>5, <1>6, <1>7

LEMMA AssignInv ==
    ASSUME Inv,
           \/ \E v \in Vars, h \in Accessible \cup {0} : AssignVar(v, h)
           \/ \E v \in Vars : ShareVar(v)
           \/ \E o \in Accessible, p \in Props, h \in Accessible \cup {0} : AssignProp(o, p, h)
    PROVE  Inv'
<1>1. InUserCode
 BY DEF AssignVar, ShareVar, AssignProp
<1>2. StackOK(stack) /\ Phase \notin Halted /\ Phase # "crashed" /\ Accessible \subseteq Handles
 BY <1>1, UserTop
<1>3. CASE \E v \in Vars, h \in Accessible \cup {0} : AssignVar(v, h)
 <2> PICK v \in Vars, h \in Accessible \cup {0} : AssignVar(v, h)
  BY <1>3
 <2>1. h \in Handles \cup {0} /\ symbol_table[v] \in Handles \cup {0}
  BY <1>2 DEF Inv, HeapOK
 <2>2. StackOK(stack')
  BY <1>2, <2>1, StackStep DEF AssignVar
 <2>3. BucketsOK(bucket')
  BY <2>1, BucketsNow, BucketsAddRef DEF AssignVar
 <2>4. StoreOK' /\ SettledOK'
  BY <1>2, <2>3, BucketOnlyOK DEF AssignVar, BucketOnly, heapVars
 <2>5. HeapOK'
  BY <2>1 DEF AssignVar, heapVars, Inv, HeapOK
 <2> QED BY <2>2, <2>4, <2>5 DEF Inv
<1>4. CASE \E v \in Vars : ShareVar(v)
 BY <1>4
 DEF ShareVar, storeVars, heapVars, Phase, Inv, StoreOK, HeapOK, SettledOK
<1>5. CASE \E o \in Accessible, p \in Props, h \in Accessible \cup {0} : AssignProp(o, p, h)
 <2> PICK o \in Accessible, p \in Props, h \in Accessible \cup {0} : AssignProp(o, p, h)
  BY <1>5
 <2>1. o \in Handles /\ h \in Handles \cup {0} /\ object[o].prop[p] \in Handles \cup {0}
  BY <1>2 DEF Inv, HeapOK
 <2>2. StackOK(stack')
  BY <1>2, <2>1, StackStep DEF AssignProp
 <2>3. BucketsOK(bucket')
  BY <2>1, BucketsNow, BucketsAddRef DEF AssignProp
 <2>4. StoreOK' /\ SettledOK'
  BY <1>2, <2>3, BucketOnlyOK DEF AssignProp, BucketOnly
 <2>5. object' \in [Handles -> [live : BOOLEAN, destr : {"none", "public", "private"},
                               prop : [Props -> Handles \cup {0}]]]
  <3>1. object[o] \in [live : BOOLEAN, destr : {"none", "public", "private"},
                       prop : [Props -> Handles \cup {0}]]
   BY <2>1 DEF Inv, HeapOK
  <3>2. [object[o] EXCEPT !.prop[p] = h]
          \in [live : BOOLEAN, destr : {"none", "public", "private"},
               prop : [Props -> Handles \cup {0}]]
   BY <2>1, <3>1
  <3>3. object' = [object EXCEPT ![o] = [object[o] EXCEPT !.prop[p] = h]]
   BY <2>1 DEF AssignProp, Inv, HeapOK
  <3> QED BY <3>2, <3>3 DEF Inv, HeapOK
 <2>6. HeapOK'
  BY <2>5 DEF AssignProp, symVars, Inv, HeapOK
 <2> QED BY <2>2, <2>4, <2>6 DEF Inv
<1> QED BY <1>3, <1>4, <1>5

LEMMA InterruptInv ==
    ASSUME Inv, Exit \/ FatalError \/ DestructorFails
    PROVE  Inv'
<1>1. InUserCode
 BY DEF Exit, FatalError, DestructorFails, InUserCode, UserFrames
<1>2. StackOK(stack) /\ Phase \notin Halted /\ Phase # "crashed"
      /\ (Top.fn = "__destruct" => Top.h \in Handles)
 BY <1>1, UserTop
<1>3. StackOK(stack') /\ Phase' # "crashed" /\ unclean' \in BOOLEAN
 BY <1>2, BailoutOK DEF Exit, FatalError, DestructorFails, Phase
<1>4. BucketsOK(bucket')
 <2>1. CASE Exit
  BY <2>1, BucketsNow DEF Exit, storeVars
 <2>2. CASE FatalError
  BY <2>2, BucketsNow, BucketsMark DEF FatalError
 <2>3. CASE DestructorFails
  <3>1. bucket[Top.h].refcount - 1 \in Int
   BY <1>2, <2>3 DEF DestructorFails, Inv, StoreOK
  <3>2. BucketsOK([bucket EXCEPT ![Top.h].refcount = bucket[Top.h].refcount - 1])
   BY <1>2, <2>3, <3>1, BucketsNow, BucketsCount DEF DestructorFails
  <3> QED BY <2>3, <3>2, BucketsMark DEF DestructorFails
 <2> QED BY <2>1, <2>2, <2>3
<1>5. StoreOK' /\ SettledOK'
 <2>1. BucketOnly
  BY DEF Exit, FatalError, DestructorFails, BucketOnly, storeVars, heapVars
 <2> QED BY <1>2, <1>4, <2>1, BucketOnlyOK
<1>6. HeapOK'
 BY <1>3 DEF Exit, FatalError, DestructorFails, heapVars, symVars, Inv, HeapOK
<1> QED BY <1>3, <1>5, <1>6 DEF Inv

LEMMA UserPhaseEndsInv == ASSUME Inv, UserPhaseEnds PROVE Inv'
<1>1. stack' = <<Frame(AfterBailout[Phase], 1)>> /\ Phase \in Phases \ Halted
 BY DEF UserPhaseEnds, UserPhases, Phases, Halted
<1>2. StackOK(stack') /\ Phase' # "crashed"
 <2>1. GoodFrame(Frame(AfterBailout[Phase], 1)) /\ AfterBailout[Phase] \in Phases \ {"crashed"}
  BY <1>1, AfterBailoutOK
 <2>2. Frame(AfterBailout[Phase], 1).fn = AfterBailout[Phase]
  BY DEF Frame
 <2> QED BY <1>1, <2>1, <2>2, SingleOK DEF Phase
<1>3. StoreOK' /\ SettledOK' /\ HeapOK'
 BY <1>1, <1>2
 DEF UserPhaseEnds, storeVars, heapVars, symVars, Halted, Inv, StoreOK, SettledOK, HeapOK
<1> QED BY <1>2, <1>3 DEF Inv

LEMMA UserStepInv == ASSUME Inv, UserStep PROVE Inv'
BY NewInv, CloneInv, MemoryInv, ConstructorInv, AssignInv, InterruptInv, UserPhaseEndsInv
   DEF UserStep

--------------------
(* The engine. *)

LEMMA EngineTop ==
    ASSUME Inv, Top.fn \notin Halted
    PROVE  /\ StackOK(stack) /\ GoodFrame(Top) /\ Phase \notin Halted /\ Phase # "crashed"
           /\ Top.fn \in Inner => Len(stack) > 1 /\ Top.h \in Handles
           /\ Top.fn \in Phases => Len(stack) = 1 /\ Phase = Top.fn
BY TopOK DEF Inv, GoodFrame, Halted

\* What zend_objects_destroy_object leaves, called on h with frame f.
LEMMA DestroyOK ==
    ASSUME Inv, NEW h \in Handles, NEW f, NEW b,
           StackOK(ReplaceTop(f)), ReplaceTop(f)[1].fn \notin Halted,
           bucket[h].valid, ~bucket[h].destructor_called,
           BucketsOK(b), b[h].destructor_called,
           UNCHANGED <<top, size, capacity, free_list, table, object, created, symVars, pass>>,
           Phase # "crashed",
           zend_objects_destroy_object(h, f, b)
    PROVE  Inv'
<1>1. HeapOK' \/ unclean' \notin BOOLEAN
 BY DEF symVars, Inv, HeapOK
<1>2. unclean \in BOOLEAN /\ settled[h] = 0 /\ settled \in [Handles -> {0, 1}]
 BY DEF Inv, HeapOK, SettledOK
<1>3. CASE bucket' = b /\ settled' = settled
 <2>1. StackOK(stack') /\ unclean' \in BOOLEAN
  <3>1. StackOK(<<Frame("crashed", 0)>>)
   BY FrameOK, SingleOK DEF Halted, Phases
  <3>2. CASE stack' = ReplaceTop(f) /\ unclean' = unclean
   BY <3>2, <1>2
  <3>3. CASE Bailout(ReplaceTop(f))
   BY <3>3, BailoutOK
  <3>4. CASE stack' = <<Frame("crashed", 0)>> /\ unclean' = unclean
   BY <3>1, <3>4, <1>2
  <3>5. CASE DestructorCalled(h, f, b)
   BY <3>5, <1>2, <1>3 DEF DestructorCalled
  <3> QED
   BY <3>2, <3>3, <3>4, <3>5
   DEF zend_objects_destroy_object, DestructorIgnored, DestructorRefused, DestructorWithoutClass
 <2>2. BucketOnly
  BY <1>3 DEF BucketOnly
 <2>3. StoreOK' /\ SettledOK'
  BY <1>3, <2>2, BucketOnlyOK
 <2> QED BY <1>1, <2>1, <2>3 DEF Inv
<1>4. CASE DestructorRefused(h, f, b)
 <2>1. StackOK(stack') /\ unclean' \in BOOLEAN
  BY <1>4, BailoutOK DEF DestructorRefused
 <2>2. BucketsOK(bucket') /\ BucketOnly
  BY <1>4, BucketsMark DEF DestructorRefused, BucketOnly
 <2>3. StoreOK' /\ SettledOK'
  BY <2>2, BucketOnlyOK
 <2> QED BY <1>1, <2>1, <2>3 DEF Inv
<1>5. CASE DestructorCalled(h, f, b)
 <2>1. GoodFrame(Frame("__destruct", h)) /\ Frame("__destruct", h).fn \in Inner
  BY FrameOK DEF Inner
 <2>2. StackOK(stack') /\ unclean' \in BOOLEAN
  BY <1>2, <1>5, <2>1, PushOK DEF DestructorCalled
 <2>3. BucketsOK(AddRef(b, h)) /\ AddRef(b, h)[h].destructor_called
  BY BucketsAddRef, AddRefOK DEF BucketsOK
 <2>4. SettledOK'
  BY <1>2, <1>5, <2>3 DEF DestructorCalled, BucketsOK, SettledOK
 <2>5. StoreOK'
  BY <1>5, <2>3 DEF DestructorCalled, BucketsOK, Inv, StoreOK
 <2> QED BY <1>1, <2>2, <2>4, <2>5 DEF Inv
<1> QED
 BY <1>3, <1>4, <1>5
 DEF zend_objects_destroy_object, DestructorIgnored, DestructorWithoutClass

\* Steps that touch neither the heap nor the symbol table.
HeapSame == UNCHANGED <<object, symVars, pass>>

LEMMA HeapSameOK == ASSUME Inv, HeapSame, unclean' \in BOOLEAN PROVE HeapOK'
BY DEF Inv, HeapOK, HeapSame, symVars

LEMMA ReturnOK ==
    ASSUME Inv, Len(stack) > 1, Phase \notin Halted,
           \/ stack' = Callers /\ UNCHANGED unclean
           \/ Bailout(Callers)
    PROVE  StackOK(stack') /\ unclean' \in BOOLEAN
<1>1. StackOK(Callers) /\ Callers[1] = stack[1] /\ stack[1].fn \notin Halted
 BY StackStep DEF Inv, Phase
<1> QED BY <1>1, BailoutOK DEF Inv, HeapOK

LEMMA DelRefInv ==
    ASSUME Inv, DelRefShared \/ DelRefLast \/ DelRefAfterDtor \/ DelRefAfterFree
    PROVE  Inv'
<1> DEFINE h == Top.h
<1>1. Top.fn \in {"del_ref", "del_ref_dtor", "del_ref_free"}
 BY DEF DelRefShared, DelRefLast, DelRefAfterDtor, DelRefAfterFree
<1>2. /\ StackOK(stack) /\ GoodFrame(Top) /\ Phase \notin Halted /\ Phase # "crashed"
      /\ Len(stack) > 1 /\ h \in Handles
 BY <1>1, EngineTop DEF Inner, TryFrames, Halted
<1>3. bucket[h].refcount - 1 \in Int /\ unclean \in BOOLEAN /\ table \in Nat
 BY <1>2 DEF Inv, StoreOK, HeapOK
<1>4. BucketsOK([bucket EXCEPT ![h].refcount = bucket[h].refcount - 1])
 BY <1>2, <1>3, BucketsNow, BucketsCount
<1>5. CASE DelRefShared
 <2>1. BucketsOK(bucket') /\ StackOK(stack')
  BY <1>2, <1>4, <1>5, ReturnOK DEF DelRefShared
 <2>2. BucketOnly /\ HeapSame /\ unclean' \in BOOLEAN
  BY <1>3, <1>5 DEF DelRefShared, BucketOnly, HeapSame, heapVars
 <2> QED BY <1>2, <2>1, <2>2, BucketOnlyOK, HeapSameOK DEF Inv
<1>6. CASE DelRefLast
 <2> DEFINE f == Frame("del_ref_dtor", h)
            b == [bucket EXCEPT ![h].destructor_called = TRUE]
 <2>1. StackOK(ReplaceTop(f)) /\ ReplaceTop(f)[1] = stack[1]
  BY <1>2, StackStep, FrameOK DEF Inner, TryFrames
 <2>2. CASE bucket[h].destructor_called
  <3>1. StackOK(stack') /\ BucketsOK(bucket') /\ BucketOnly /\ HeapSame /\ unclean' \in BOOLEAN
   BY <1>3, <1>6, <2>1, <2>2, BucketsNow DEF DelRefLast, BucketOnly, HeapSame
  <3> QED BY <1>2, <3>1, BucketOnlyOK, HeapSameOK DEF Inv
 <2>3. CASE ~bucket[h].destructor_called
  <3>1. BucketsOK(b) /\ b[h].destructor_called
   BY <1>2, BucketsNow DEF BucketsOK
  <3>2. zend_objects_destroy_object(h, f, b) /\ bucket[h].valid
   BY <1>6, <2>3 DEF DelRefLast
  <3>3. UNCHANGED <<top, size, capacity, free_list, table, object, created, symVars, pass>>
   BY <1>6 DEF DelRefLast
  <3>4. ReplaceTop(f)[1].fn \notin Halted
   BY <1>2, <2>1 DEF Phase
  <3> HIDE DEF f, b, h
  <3> QED BY <1>2, <2>1, <2>3, <3>1, <3>2, <3>3, <3>4, DestroyOK
 <2> QED BY <2>2, <2>3
<1>7. CASE DelRefAfterDtor
 <2>1. BucketOnly /\ HeapSame
  BY <1>7 DEF DelRefAfterDtor, BucketOnly, HeapSame, heapVars
 <2>2. CASE bucket[h].refcount = 1
  <3> DEFINE f == [Top EXCEPT !.fn = "del_ref_free", !.obj = table]
             g == Frame("free_storage", h)
  <3>1. GoodFrame(f) /\ f.fn \in Inner
   BY <1>2, <1>3 DEF GoodFrame, FrameType, FrameFns, Inner, TryFrames
  <3>2. GoodFrame(g) /\ g.fn \in Inner
   BY <1>2, FrameOK DEF Inner
  <3> HIDE DEF f, g
  <3>3. StackOK(ReplaceTop(f)) /\ ReplaceTop(f)[1] = stack[1]
   BY <1>2, <3>1, StackStep
  <3>4. StackOK(Append(ReplaceTop(f), g))
   BY <1>2, <3>2, <3>3, PushOK DEF Phase
  <3>5. StackOK(stack') /\ BucketsOK(bucket') /\ unclean' \in BOOLEAN
   BY <1>3, <1>7, <2>2, <3>4, BucketsNow DEF DelRefAfterDtor, f, g
  <3> QED BY <1>2, <2>1, <3>5, BucketOnlyOK, HeapSameOK DEF Inv
 <2>3. CASE bucket[h].refcount # 1
  <3>1. BucketsOK(bucket')
   BY <1>4, <1>7, <2>3 DEF DelRefAfterDtor
  <3>2. StackOK(stack') /\ unclean' \in BOOLEAN
   BY <1>2, <1>7, <2>3, ReturnOK DEF DelRefAfterDtor
  <3> QED BY <1>2, <2>1, <3>1, <3>2, BucketOnlyOK, HeapSameOK DEF Inv
 <2> QED BY <2>2, <2>3
<1>8. CASE DelRefAfterFree
 <2>1. StackOK(stack') /\ unclean' \in BOOLEAN
  BY <1>2, <1>8, ReturnOK DEF DelRefAfterFree
 <2>2. HeapOK'
  BY <1>8, <2>1, HeapSameOK DEF DelRefAfterFree, HeapSame, heapVars
 <2>3. BucketsOK(bucket')
  <3>1. bucket' = [bucket EXCEPT ![h] = [@ EXCEPT !.valid = FALSE,
                                                  !.refcount = IF Top.obj = table THEN bucket[h].refcount - 1 ELSE bucket[h].refcount]]
   BY <1>2, <1>8 DEF DelRefAfterFree, Inv, StoreOK
  <3>2. (IF Top.obj = table THEN bucket[h].refcount - 1 ELSE bucket[h].refcount) \in Int
   BY <1>2 DEF Inv, StoreOK
  <3> QED BY <1>2, <3>1, <3>2, BucketsNow DEF BucketsOK
 <2>4. free_list' \in Seq(Handles)
  BY <1>2, <1>8 DEF DelRefAfterFree, Inv, StoreOK
 <2>5. StoreOK' /\ SettledOK'
  BY <1>2, <1>8, <2>3, <2>4
  DEF DelRefAfterFree, heapVars, BucketsOK, Inv, StoreOK, SettledOK
 <2> QED BY <2>1, <2>2, <2>5 DEF Inv
<1> QED BY <1>5, <1>6, <1>7, <1>8

LEMMA FreeStorageInv ==
    ASSUME Inv, FreeObject \/ \E p \in Props : FreeProperty(p)
    PROVE  Inv'
<1> DEFINE h == Top.h
<1>1. Top.fn = "free_storage"
 BY DEF FreeObject, FreeProperty
<1>2. StackOK(stack) /\ Phase \notin Halted /\ Phase # "crashed" /\ Len(stack) > 1 /\ h \in Handles
 BY <1>1, EngineTop DEF Inner, Halted
<1>3. UNCHANGED <<storeVars, created, settled, symVars, pass, unclean>>
 BY DEF FreeObject, FreeProperty
<1>4. CASE FreeObject
 <2>1. StackOK(stack')
  BY <1>2, <1>4, StackStep DEF FreeObject
 <2>2. HeapOK'
  BY <1>2, <1>4 DEF FreeObject, NoObject, symVars, Inv, HeapOK
 <2> QED BY <1>2, <1>3, <2>1, <2>2 DEF storeVars, Inv, StoreOK, SettledOK
<1>5. CASE \E p \in Props : FreeProperty(p)
 <2> PICK p \in Props : FreeProperty(p)
  BY <1>5
 <2>1. object[h] \in [live : BOOLEAN, destr : {"none", "public", "private"},
                      prop : [Props -> Handles \cup {0}]]
  BY <1>2 DEF Inv, HeapOK
 <2>2. StackOK(stack')
  BY <1>2, <2>1, StackStep DEF FreeProperty
 <2>3. [object[h] EXCEPT !.prop[p] = 0]
         \in [live : BOOLEAN, destr : {"none", "public", "private"},
              prop : [Props -> Handles \cup {0}]]
  BY <2>1
 <2>4. object' = [object EXCEPT ![h] = [object[h] EXCEPT !.prop[p] = 0]]
  BY <1>2 DEF FreeProperty, Inv, HeapOK
 <2>5. HeapOK'
  BY <1>3, <2>3, <2>4 DEF symVars, Inv, HeapOK
 <2> QED BY <1>2, <1>3, <2>2, <2>5 DEF storeVars, Inv, StoreOK, SettledOK
<1> QED BY <1>4, <1>5

\* Entering a phase.
LEMMA EnterOK ==
    ASSUME NEW fn, NEW i, EnterPhase(fn, i),
           \/ fn \in Phases \ (Halted \cup {"call_dtors_dtor"}) /\ i \in 1 .. MaxCreated + 1
           \/ fn = "symtab" /\ i = 0
           \/ fn = "done" /\ i = 0
    PROVE  StackOK(stack') /\ Phase' # "crashed"
<1>1. GoodFrame(Frame(fn, i)) /\ Frame(fn, i).fn = fn /\ fn \in Phases \ {"crashed"}
 BY FrameOK DEF Phases, Halted
<1> QED BY <1>1, SingleOK DEF EnterPhase, Phase

\* A step that changes only the phase.
LEMMA PhaseOnlyOK ==
    ASSUME Inv, Phase # "crashed", StackOK(stack'),
           UNCHANGED <<storeVars, heapVars, symVars, pass, unclean>>
    PROVE  Inv'
BY DEF storeVars, heapVars, symVars, Inv, StoreOK, HeapOK, SettledOK

LEMMA OneOK == 1 \in 1 .. MaxCreated + 1
BY BoundAssumption

LEMMA SymtabInv ==
    ASSUME Inv, SymtabPass \/ \E v \in Vars : SymtabVisit(v)
    PROVE  Inv'
<1>1. Top.fn = "symtab"
 BY DEF SymtabPass, SymtabVisit
<1>2. StackOK(stack) /\ Phase \notin Halted /\ Phase # "crashed"
 BY <1>1, EngineTop DEF Halted
<1>3. CASE SymtabPass
 <2>1. num_elements \in Nat
  <3>1. IsFiniteSet({v \in Vars : symbol_table[v] # 0}) /\ IsFiniteSet(shared)
   BY FS_Subset, NamesAssumption DEF Inv, HeapOK
  <3> QED BY <3>1, FS_CardinalityType DEF num_elements
 <2>2. pass' \in [symbols : Nat, todo : SUBSET Vars]
  BY <1>3, <2>1 DEF SymtabPass, NoPass
 <2>3. StackOK(stack')
  BY <1>3, EnterOK, OneOK DEF SymtabPass, Phases, Halted
 <2> QED
  BY <1>2, <1>3, <2>2, <2>3
  DEF SymtabPass, storeVars, heapVars, symVars, Inv, StoreOK, HeapOK, SettledOK
<1>4. CASE \E v \in Vars : SymtabVisit(v)
 <2> PICK v \in Vars : SymtabVisit(v)
  BY <1>4
 <2>1. symbol_table[v] \in Handles \cup {0}
  BY DEF Inv, HeapOK
 <2>2. StackOK(stack')
  BY <1>2, <2>1, StackStep DEF SymtabVisit
 <2>3. HeapOK'
  BY DEF SymtabVisit, heapVars, Inv, HeapOK
 <2> QED BY <1>2, <2>2, <2>3 DEF SymtabVisit, storeVars, heapVars, Inv, StoreOK, SettledOK
<1> QED BY <1>3, <1>4

LEMMA CallDtorsInv ==
    ASSUME Inv, CallDtorsLoop \/ CallDtorsAfterDtor \/ CallDtorsEnd
    PROVE  Inv'
<1> DEFINE i == Top.h
<1>1. Top.fn \in {"call_dtors", "call_dtors_dtor"}
 BY DEF CallDtorsLoop, CallDtorsAfterDtor, CallDtorsEnd
<1>2. /\ StackOK(stack) /\ GoodFrame(Top) /\ Phase \notin Halted /\ Phase # "crashed"
      /\ Len(stack) = 1 /\ i \in 1 .. MaxCreated + 1
      /\ Top.fn = "call_dtors_dtor" => i \in Handles
 <2>1. /\ StackOK(stack) /\ GoodFrame(Top) /\ Phase \notin Halted /\ Phase # "crashed"
       /\ Len(stack) = 1
  BY <1>1, EngineTop DEF Phases, Halted
 <2>2. i \in 0 .. MaxCreated + 1 /\ (Top.fn = "call_dtors" => i >= 1)
       /\ (Top.fn = "call_dtors_dtor" => i \in Handles)
  BY <2>1 DEF GoodFrame, FrameType
 <2> QED BY <1>1, <2>1, <2>2, BoundAssumption DEF Handles
<1>3. CASE CallDtorsLoop
 <2>1. i \in Handles /\ i + 1 \in 1 .. MaxCreated + 1
  BY <1>2, <1>3, BoundAssumption DEF CallDtorsLoop, Inv, StoreOK, Handles
 <2>2. CASE bucket[i].valid /\ ~bucket[i].destructor_called
  <3> DEFINE f == Frame("call_dtors_dtor", i)
             b == [bucket EXCEPT ![i] = [@ EXCEPT !.destructor_called = TRUE, !.refcount = bucket[i].refcount + 1]]
  <3>1. StackOK(ReplaceTop(f)) /\ ReplaceTop(f)[1].fn \notin Halted
   BY <1>2, <2>1, StackStep, FrameOK DEF Phases, Halted
  <3>2. bucket[i].refcount + 1 \in Int
   BY <2>1 DEF Inv, StoreOK
  <3>3. BucketsOK(b) /\ b[i].destructor_called
   BY <2>1, <3>2, BucketsNow DEF BucketsOK
  <3>4. zend_objects_destroy_object(i, f, b)
   BY <1>3, <2>1, <2>2 DEF CallDtorsLoop, Inv, StoreOK
  <3>5. UNCHANGED <<top, size, capacity, free_list, table, object, created, symVars, pass>>
   BY <1>3 DEF CallDtorsLoop
  <3> HIDE DEF f, b, i
  <3> QED BY <1>2, <2>1, <2>2, <3>1, <3>3, <3>4, <3>5, DestroyOK
 <2>3. CASE ~(bucket[i].valid /\ ~bucket[i].destructor_called)
  <3>1. EnterPhase("call_dtors", i + 1)
        /\ UNCHANGED <<storeVars, heapVars, symVars, pass, unclean>>
   BY <1>3, <2>3 DEF CallDtorsLoop, storeVars, heapVars
  <3>2. StackOK(stack')
   BY <2>1, <3>1, EnterOK DEF Phases, Halted
  <3> QED BY <1>2, <3>1, <3>2, PhaseOnlyOK
 <2> QED BY <2>2, <2>3
<1>4. CASE CallDtorsAfterDtor
 <2>1. i \in Handles /\ i + 1 \in 1 .. MaxCreated + 1 /\ bucket[i].refcount - 1 \in Int
  BY <1>2, <1>4, BoundAssumption DEF CallDtorsAfterDtor, Inv, StoreOK, Handles
 <2>2. StackOK(stack')
  BY <1>4, <2>1, EnterOK DEF CallDtorsAfterDtor, Phases, Halted
 <2>3. BucketsOK(bucket')
  BY <1>4, <2>1, BucketsNow, BucketsCount DEF CallDtorsAfterDtor
 <2>4. BucketOnly /\ HeapSame /\ unclean' \in BOOLEAN
  BY <1>4 DEF CallDtorsAfterDtor, heapVars, BucketOnly, HeapSame, Inv, HeapOK
 <2> QED BY <1>2, <2>2, <2>3, <2>4, BucketOnlyOK, HeapSameOK DEF Inv
<1>5. CASE CallDtorsEnd
 <2>1. StackOK(stack')
  BY <1>5, EnterOK, OneOK DEF CallDtorsEnd, Phases, Halted
 <2> QED BY <1>2, <1>5, <2>1, PhaseOnlyOK DEF CallDtorsEnd
<1> QED BY <1>3, <1>4, <1>5

LEMMA ShutdownInv ==
    ASSUME Inv,
           \/ MarkDestructed
           \/ \E v \in Vars : SymtabDestroy(v)
           \/ SymtabDestroyed \/ FreeAllLoop \/ FreeAllEnd \/ StoreDestroy
    PROVE  Inv'
<1>1. Top.fn \in {"mark", "symtab_destroy", "free_all", "store_destroy"}
 BY DEF MarkDestructed, SymtabDestroy, SymtabDestroyed, FreeAllLoop, FreeAllEnd, StoreDestroy
<1>2. StackOK(stack) /\ GoodFrame(Top) /\ Phase \notin Halted /\ Phase # "crashed" /\ Len(stack) = 1
 BY <1>1, EngineTop DEF Phases, Halted
<1>3. CASE MarkDestructed
 <2>1. StackOK(stack')
  BY <1>3, EnterOK, OneOK DEF MarkDestructed, Phases, Halted
 <2>2. BucketsOK(bucket')
  BY <1>3, BucketsNow, BucketsMark DEF MarkDestructed
 <2>3. BucketOnly /\ HeapSame /\ unclean' \in BOOLEAN
  BY <1>3 DEF MarkDestructed, heapVars, BucketOnly, HeapSame, Inv, HeapOK
 <2> QED BY <1>2, <2>1, <2>2, <2>3, BucketOnlyOK, HeapSameOK DEF Inv
<1>4. CASE \E v \in Vars : SymtabDestroy(v)
 <2> PICK v \in Vars : SymtabDestroy(v)
  BY <1>4
 <2>1. StackOK(stack')
  BY <1>2, StackStep DEF SymtabDestroy, Inv, HeapOK
 <2>2. HeapOK'
  BY DEF SymtabDestroy, heapVars, Inv, HeapOK
 <2> QED BY <1>2, <2>1, <2>2 DEF SymtabDestroy, storeVars, heapVars, Inv, StoreOK, SettledOK
<1>5. CASE SymtabDestroyed \/ FreeAllEnd
 <2>1. StackOK(stack')
  BY <1>5, EnterOK, OneOK DEF SymtabDestroyed, FreeAllEnd, Phases, Halted
 <2> QED BY <1>2, <1>5, <2>1, PhaseOnlyOK DEF SymtabDestroyed, FreeAllEnd
<1>6. CASE FreeAllLoop
 <2> DEFINE i == Top.h
            f == Frame("free_all", i + 1)
 <2>1. i \in Handles /\ i + 1 \in 1 .. MaxCreated + 1
  BY <1>2, <1>6, BoundAssumption DEF FreeAllLoop, GoodFrame, FrameType, Inv, StoreOK, Handles
 <2>2. StackOK(ReplaceTop(f)) /\ ReplaceTop(f)[1] = f /\ f.fn = "free_all"
  BY <1>2, <2>1, StackStep, FrameOK DEF Phases
 <2> HIDE DEF f
 <2>3. StackOK(Append(ReplaceTop(f), Frame("free_storage", i)))
  BY <2>1, <2>2, PushOK, FrameOK DEF Inner, Halted
 <2>4. StackOK(stack')
  BY <1>6, <2>2, <2>3 DEF FreeAllLoop, f
 <2>5. BucketsOK(bucket')
  BY <1>6, <2>1, BucketsNow DEF FreeAllLoop, BucketsOK
 <2>6. BucketOnly /\ HeapSame /\ unclean' \in BOOLEAN
  BY <1>6 DEF FreeAllLoop, heapVars, BucketOnly, HeapSame, Inv, HeapOK
 <2> QED BY <1>2, <2>4, <2>5, <2>6, BucketOnlyOK, HeapSameOK DEF Inv
<1>7. CASE StoreDestroy
 <2>1. StackOK(stack')
  BY <1>7, EnterOK DEF StoreDestroy
 <2> QED
  BY <1>2, <1>7, <2>1 DEF StoreDestroy, heapVars, symVars, Inv, StoreOK, HeapOK, SettledOK
<1> QED BY <1>3, <1>4, <1>5, <1>6, <1>7

LEMMA EngineStepInv == ASSUME Inv, EngineStep PROVE Inv'
BY DelRefInv, FreeStorageInv, SymtabInv, CallDtorsInv, ShutdownInv DEF EngineStep

--------------------
(* Theorems. *)

LEMMA StepInv == Inv /\ [Next]_vars => Inv'
<1> SUFFICES ASSUME Inv, [Next]_vars PROVE Inv'
 OBVIOUS
<1>1. CASE UNCHANGED vars
 BY <1>1
 DEF vars, storeVars, heapVars, symVars, Phase, Inv, StackOK, StoreOK, HeapOK, SettledOK
<1>2. CASE UserStep
 BY <1>2, UserStepInv
<1>3. CASE EngineStep
 BY <1>3, EngineStepInv
<1> QED BY <1>1, <1>2, <1>3 DEF Next, Finished

\* The engine's data structures keep their types through every program,
\* interruption and shutdown: no handle, count of buckets or phase is ever
\* outside its range, and the C stack is always one the engine can return from.
THEOREM TypeCorrect == Spec => []TypeOK
<1>1. Spec => []Inv
 BY InitInv, StepInv, PTL DEF Spec
<1> QED BY <1>1, InvImpliesTypeOK, PTL

\* zend_objects_store_del_ref and zend_objects_store_call_destructors set
\* destructor_called before they call, so __destruct runs at most once for an
\* object, and never after its constructor threw.
THEOREM AtMostOnce == Spec => []DestructorAtMostOnce
<1>1. Spec => []Inv
 BY InitInv, StepInv, PTL DEF Spec
<1> QED BY <1>1, InvImpliesAtMostOnce, PTL

--------------------
(* Counting references. *)

BucketType == [valid : BOOLEAN, destructor_called : BOOLEAN, refcount : Int]

ObjectType == [live : BOOLEAN, destr : {"none", "public", "private"},
               prop : [Props -> Handles \cup {0}]]

One(x) == IF x THEN 1 ELSE 0

Is(x, k) == IF x = k THEN 1 ELSE 0

VarsOf(st, k) == {v \in Vars : st[v] = k}

PropsOf(ob, k) == {e \in Handles \X Props : ob[e[1]].live /\ ob[e[1]].prop[e[2]] = k}

HoldersOf(s, k) == {i \in 1 .. Len(s) : s[i].fn \in HoldingFrames /\ s[i].h = k}

\* A frame that holds a reference to k.
Holds(f, k) == f.fn \in HoldingFrames /\ f.h = k

VarRefs(st, k) == Cardinality(VarsOf(st, k))

PropRefs(ob, k) == Cardinality(PropsOf(ob, k))

FrameRefs(s, k) == Cardinality(HoldersOf(s, k))

RefsIn(ob, st, s, k) == VarRefs(st, k) + PropRefs(ob, k) + FrameRefs(s, k)

\* There are finitely many handles and properties.
LEMMA HandlesFinite == IsFiniteSet(Handles) /\ IsFiniteSet(Handles \X Props)
<1>1. IsFiniteSet(Handles)
 BY FS_Interval, BoundAssumption DEF Handles
<1>2. IsFiniteSet(Props)
 BY NamesAssumption
<1> QED BY <1>1, <1>2, FS_Product

\* How many variables refer to k,
LEMMA VarTypes == ASSUME NEW st, NEW k PROVE IsFiniteSet(VarsOf(st, k)) /\ VarRefs(st, k) \in Nat
<1>1. IsFiniteSet(VarsOf(st, k))
 BY FS_Subset, NamesAssumption DEF VarsOf
<1> QED BY <1>1, FS_CardinalityType DEF VarRefs

\* how many properties,
LEMMA PropTypes ==
    ASSUME NEW ob, NEW k
    PROVE  IsFiniteSet(PropsOf(ob, k)) /\ PropRefs(ob, k) \in Nat
<1>1. IsFiniteSet(PropsOf(ob, k))
 BY FS_Subset, HandlesFinite DEF PropsOf
<1> QED BY <1>1, FS_CardinalityType DEF PropRefs

\* and how many frames.
LEMMA FrameTypes ==
    ASSUME NEW s, Len(s) \in Nat, NEW k
    PROVE  IsFiniteSet(HoldersOf(s, k)) /\ FrameRefs(s, k) \in Nat
<1>1. IsFiniteSet(HoldersOf(s, k))
 <2>1. IsFiniteSet(1 .. Len(s))
  BY FS_Interval
 <2> QED BY <2>1, FS_Subset DEF HoldersOf
<1> QED BY <1>1, FS_CardinalityType DEF FrameRefs

\* Two sets that agree but on x.
LEMMA OneDiffers ==
    ASSUME NEW A, NEW B, IsFiniteSet(A), IsFiniteSet(B), NEW x,
           \A y : y # x => (y \in A <=> y \in B)
    PROVE  Cardinality(B) = Cardinality(A) - One(x \in A) + One(x \in B)
<1> DEFINE C == A \ {x}
<1>1. IsFiniteSet(C) /\ Cardinality(C) \in Nat
 BY FS_Subset, FS_CardinalityType
<1>2. x \notin C
 OBVIOUS
<1>3. Cardinality(A) = Cardinality(C) + One(x \in A)
 <2>1. CASE x \in A
  <3>1. A = C \cup {x}
   BY <2>1
  <3> HIDE DEF C
  <3>2. Cardinality(C \cup {x}) = Cardinality(C) + 1
   BY <1>1, <1>2, FS_AddElement
  <3> QED BY <3>1, <3>2, <2>1 DEF One, Is
 <2>2. CASE x \notin A
  <3>1. A = C
   BY <2>2
  <3> HIDE DEF C
  <3> QED BY <3>1, <2>2, <1>1 DEF One, Is
 <2> QED BY <2>1, <2>2
<1>4. Cardinality(B) = Cardinality(C) + One(x \in B)
 <2>1. CASE x \in B
  <3>1. B = C \cup {x}
   BY <2>1
  <3> HIDE DEF C
  <3>2. Cardinality(C \cup {x}) = Cardinality(C) + 1
   BY <1>1, <1>2, FS_AddElement
  <3> QED BY <3>1, <3>2, <2>1 DEF One, Is
 <2>2. CASE x \notin B
  <3>1. B = C
   BY <2>2
  <3> HIDE DEF C
  <3> QED BY <3>1, <2>2, <1>1 DEF One, Is
 <2> QED BY <2>1, <2>2
<1> HIDE DEF C
<1> QED BY <1>1, <1>3, <1>4 DEF One, Is

\* Assigning a variable.
SameBut(st, st2, v) == \A w \in Vars : w # v => st2[w] = st[w]

\* Assigning a variable moves one reference.
LEMMA VarSet ==
    ASSUME NEW st, NEW st2, NEW v \in Vars, NEW k, SameBut(st, st2, v)
    PROVE  VarRefs(st2, k) = VarRefs(st, k) - Is(st[v], k) + Is(st2[v], k)
<1>1. IsFiniteSet(VarsOf(st, k)) /\ IsFiniteSet(VarsOf(st2, k))
 BY VarTypes
<1>2. \A y : y # v => (y \in VarsOf(st, k) <=> y \in VarsOf(st2, k))
 BY DEF VarsOf, SameBut
<1>3. (v \in VarsOf(st, k) <=> st[v] = k) /\ (v \in VarsOf(st2, k) <=> st2[v] = k)
 BY DEF VarsOf
<1>4. VarRefs(st2, k) = VarRefs(st, k) - One(v \in VarsOf(st, k)) + One(v \in VarsOf(st2, k))
 BY <1>1, <1>2, OneDiffers DEF VarRefs
<1> QED BY <1>3, <1>4 DEF One, Is

\* Assigning a property of a live object.
LEMMA PropSet ==
    ASSUME NEW ob, NEW ob2, NEW o \in Handles, ob[o].live, NEW p \in Props, NEW k,
           \A g \in Handles : ob2[g].live = ob[g].live,
           \A g \in Handles, q \in Props :
              ~(g = o /\ q = p) => ob2[g].prop[q] = ob[g].prop[q]
    PROVE  PropRefs(ob2, k) = PropRefs(ob, k) - Is(ob[o].prop[p], k) + Is(ob2[o].prop[p], k)
<1> DEFINE x == <<o, p>>
<1>1. IsFiniteSet(PropsOf(ob, k)) /\ IsFiniteSet(PropsOf(ob2, k))
 BY PropTypes
<1>2. \A y \in Handles \X Props : y # x => ~(y[1] = o /\ y[2] = p)
 OBVIOUS
<1>3. \A y : y # x => (y \in PropsOf(ob, k) <=> y \in PropsOf(ob2, k))
 BY <1>2 DEF PropsOf
<1>4. x \in Handles \X Props /\ x[1] = o /\ x[2] = p
 OBVIOUS
<1>5. (x \in PropsOf(ob, k) <=> ob[o].prop[p] = k) /\ (x \in PropsOf(ob2, k) <=> ob2[o].prop[p] = k)
 BY <1>4 DEF PropsOf
<1> HIDE DEF x
<1>6. PropRefs(ob2, k) = PropRefs(ob, k) - One(x \in PropsOf(ob, k)) + One(x \in PropsOf(ob2, k))
 BY <1>1, <1>3, OneDiffers DEF PropRefs
<1> QED BY <1>5, <1>6 DEF One, Is

\* The members of the object at h that refer to k.
MembersOf(pr, k) == {p \in Props : pr[p] = k}

\* A new object at h: what was there before is lost if it was live.
LEMMA PropNew ==
    ASSUME NEW ob \in [Handles -> ObjectType], NEW h \in Handles,
           NEW new \in ObjectType, new.live, NEW k
    PROVE  /\ PropRefs([ob EXCEPT ![h] = new], k)
                <= PropRefs(ob, k) + Cardinality(MembersOf(new.prop, k))
           /\ ~ob[h].live => PropRefs([ob EXCEPT ![h] = new], k)
                               = PropRefs(ob, k) + Cardinality(MembersOf(new.prop, k))
           /\ Cardinality(MembersOf(new.prop, k)) \in Nat
<1> DEFINE ob2 == [ob EXCEPT ![h] = new]
           M == MembersOf(new.prop, k)
           N == {e \in Handles \X Props : e[1] = h /\ e[2] \in M}
           O == {e \in Handles \X Props : e[1] # h /\ e \in PropsOf(ob, k)}
<1>1. IsFiniteSet(M) /\ IsFiniteSet(N) /\ IsFiniteSet(O) /\ IsFiniteSet(PropsOf(ob, k))
 <2>1. IsFiniteSet(M)
  BY FS_Subset, NamesAssumption DEF MembersOf
 <2>2. IsFiniteSet(N) /\ IsFiniteSet(O) /\ IsFiniteSet(PropsOf(ob, k))
  BY FS_Subset, HandlesFinite DEF PropsOf
 <2> QED BY <2>1, <2>2
<1>2. PropsOf(ob2, k) = N \cup O
 BY DEF PropsOf, MembersOf, ObjectType
<1>3. N \cap O = {}
 OBVIOUS
<1>4. O \subseteq PropsOf(ob, k) /\ (~ob[h].live => O = PropsOf(ob, k))
 BY DEF PropsOf
<1>5. Cardinality(N) = Cardinality(M)
 <2> DEFINE f == [p \in M |-> <<h, p>>]
 <2>1. f \in Bijection(M, N)
  <3>1. f \in [M -> N]
   BY DEF MembersOf
  <3>2. \A a, b \in M : f[a] = f[b] => a = b
   OBVIOUS
  <3>3. \A e \in N : \E a \in M : f[a] = e
   <4> TAKE e \in N
   <4>1. e[2] \in M /\ e = <<h, e[2]>>
    OBVIOUS
   <4> QED BY <4>1
  <3> HIDE DEF f, M, N
  <3> QED BY <3>1, <3>2, <3>3, Fun_IsBij
 <2> HIDE DEF f, M, N
 <2>2. ExistsBijection(M, N)
  BY <2>1 DEF ExistsBijection
 <2> QED BY <1>1, <2>2, FS_Bijection
<1> HIDE DEF N, O, M
<1>6. Cardinality(N \cup O) = Cardinality(N) + Cardinality(O)
 <2>1. Cardinality(N \cap O) = 0
  BY <1>3, FS_EmptySet
 <2>2. Cardinality(N \cup O) = Cardinality(N) + Cardinality(O) - Cardinality(N \cap O)
  BY <1>1, FS_Union
 <2>3. Cardinality(N) \in Nat /\ Cardinality(O) \in Nat
  BY <1>1, FS_CardinalityType
 <2> QED BY <2>1, <2>2, <2>3
<1>7. Cardinality(O) <= PropRefs(ob, k) /\ (~ob[h].live => Cardinality(O) = PropRefs(ob, k))
 BY <1>1, <1>4, FS_Subset DEF PropRefs
<1>8. Cardinality(N) \in Nat /\ Cardinality(O) \in Nat /\ PropRefs(ob, k) \in Nat
      /\ Cardinality(M) \in Nat
 BY <1>1, FS_CardinalityType DEF PropRefs
<1>9. /\ PropRefs(ob2, k) <= PropRefs(ob, k) + Cardinality(M)
      /\ ~ob[h].live => PropRefs(ob2, k) = PropRefs(ob, k) + Cardinality(M)
 <2>1. PropRefs(ob2, k) = Cardinality(M) + Cardinality(O)
  BY <1>2, <1>5, <1>6 DEF PropRefs
 <2> QED BY <2>1, <1>7, <1>8
<1> QED BY <1>8, <1>9 DEF M

\* An object without properties is freed.
NoProps(ob, h) == \A p \in Props : ob[h].prop[p] = 0

\* An object without properties takes no reference with it.
LEMMA PropDrop ==
    ASSUME NEW ob \in [Handles -> ObjectType], NEW h \in Handles, NEW k, k # 0,
           NoProps(ob, h)
    PROVE  PropRefs([ob EXCEPT ![h] = NoObject], k) = PropRefs(ob, k)
<1>1. PropsOf([ob EXCEPT ![h] = NoObject], k) = PropsOf(ob, k)
 BY DEF PropsOf, NoObject, NoProps
<1> QED BY <1>1 DEF PropRefs

\* Frames come and go at the top.
LEMMA FramePush ==
    ASSUME NEW s \in Seq(FrameType), NEW f \in FrameType, NEW k
    PROVE  FrameRefs(Append(s, f), k) = FrameRefs(s, k) + One(Holds(f, k))
<1> DEFINE t == Append(s, f)
           n == Len(s) + 1
<1>1. /\ t \in Seq(FrameType) /\ Len(t) = n /\ Len(s) \in Nat
      /\ \A i \in 1 .. Len(s) : t[i] = s[i]
      /\ t[n] = f
 OBVIOUS
<1> HIDE DEF t
<1>2. IsFiniteSet(HoldersOf(s, k)) /\ IsFiniteSet(HoldersOf(t, k)) /\ FrameRefs(s, k) \in Nat
 BY <1>1, FrameTypes
<1>3. \A y : y # n => (y \in HoldersOf(s, k) <=> y \in HoldersOf(t, k))
 BY <1>1 DEF HoldersOf
<1>4. n \notin HoldersOf(s, k) /\ (n \in HoldersOf(t, k) <=> Holds(f, k))
 BY <1>1 DEF HoldersOf, Holds
<1> HIDE DEF n
<1>5. FrameRefs(t, k) = FrameRefs(s, k) - One(n \in HoldersOf(s, k)) + One(n \in HoldersOf(t, k))
 BY <1>2, <1>3, OneDiffers DEF FrameRefs
<1>6. FrameRefs(t, k) = FrameRefs(s, k) + One(Holds(f, k))
 BY <1>2, <1>4, <1>5 DEF One, Is
<1> QED BY <1>6 DEF t

\* The frame on top returns.
LEMMA FramePop ==
    ASSUME NEW s \in Seq(FrameType), s # <<>>, NEW k
    PROVE  FrameRefs(SubSeq(s, 1, Len(s) - 1), k) = FrameRefs(s, k) - One(Holds(s[Len(s)], k))
<1> DEFINE r == SubSeq(s, 1, Len(s) - 1)
<1>0. Len(s) \in Nat /\ Len(s) >= 1 /\ s[Len(s)] \in FrameType
 OBVIOUS
<1>1. /\ r \in Seq(FrameType) /\ Len(r) = Len(s) - 1 /\ Len(s) \in Nat /\ Len(s) >= 1
      /\ \A i \in 1 .. Len(r) : r[i] = s[i]
      /\ s[Len(s)] \in FrameType
 <2>1. Len(s) - 1 \in Int /\ 1 \in Int /\ \A i \in 1 .. Len(s) - 1 : s[i] \in FrameType
  BY <1>0
 <2>2. /\ r \in Seq(FrameType)
       /\ Len(r) = IF 1 <= Len(s) - 1 THEN Len(s) - 1 - 1 + 1 ELSE 0
  BY <2>1, SubSeqProperties
 <2>3. \A i \in 1 .. Len(s) - 1 : r[i] = s[i]
  BY <1>0
 <2> HIDE DEF r
 <2>4. Len(r) = Len(s) - 1
  <3>1. \A n \in Nat : n >= 1 => (IF 1 <= n - 1 THEN n - 1 - 1 + 1 ELSE 0) = n - 1
   OBVIOUS
  <3> QED BY <1>0, <2>2, <3>1, Zenon
 <2> QED BY <1>0, <2>2, <2>3, <2>4
<1> HIDE DEF r
<1>2. s = Append(r, s[Len(s)])
 BY <1>1
<1>3. FrameRefs(r, k) \in Nat
 BY <1>1, FrameTypes
<1>4. FrameRefs(s, k) = FrameRefs(r, k) + One(Holds(s[Len(s)], k))
 BY <1>1, <1>2, FramePush
<1>5. FrameRefs(r, k) = FrameRefs(s, k) - One(Holds(s[Len(s)], k))
 BY <1>3, <1>4 DEF One, Is
<1> QED BY <1>5 DEF r

\* A frame alone on the stack.
LEMMA FrameSingle ==
    ASSUME NEW f, NEW k
    PROVE  FrameRefs(<<f>>, k) = One(Holds(f, k))
<1>1. HoldersOf(<<f>>, k) = IF Holds(f, k) THEN {1} ELSE {}
 BY DEF HoldersOf, Holds
<1>2. Cardinality({1}) = 1 /\ Cardinality({}) = 0
 BY FS_Singleton, FS_EmptySet
<1> QED BY <1>1, <1>2 DEF FrameRefs, One, Is

\* A holder counts, and two count twice.
LEMMA HolderCounts ==
    ASSUME NEW s, Len(s) \in Nat, NEW k, NEW i \in HoldersOf(s, k)
    PROVE  FrameRefs(s, k) >= 1 /\ \A j \in HoldersOf(s, k) : j # i => FrameRefs(s, k) >= 2
<1> DEFINE H == HoldersOf(s, k)
<1>1. IsFiniteSet(H) /\ Cardinality(H) \in Nat
 BY FrameTypes, FS_CardinalityType
<1>2. Cardinality({i}) <= Cardinality(H) /\ Cardinality({i}) = 1
 <2>1. {i} \subseteq H
  OBVIOUS
 <2> QED BY <1>1, <2>1, FS_Subset, FS_Singleton
<1>3. ASSUME NEW j \in H, j # i PROVE Cardinality(H) >= 2
 <2>1. {i} \cup {j} \subseteq H
  BY <1>3
 <2>2. IsFiniteSet({i}) /\ Cardinality({i}) = 1
  BY FS_Singleton
 <2>3. Cardinality({i} \cup {j}) = 2
  BY <2>2, <1>3, FS_AddElement
 <2>4. Cardinality({i} \cup {j}) <= Cardinality(H)
  BY <1>1, <2>1, FS_Subset
 <2> QED BY <2>3, <2>4, <1>1
<1> QED BY <1>1, <1>2, <1>3 DEF FrameRefs

\* A variable counts for what it refers to.
LEMMA VarCounts ==
    ASSUME NEW st, NEW v \in Vars
    PROVE  VarRefs(st, st[v]) >= 1
<1>1. IsFiniteSet(VarsOf(st, st[v])) /\ v \in VarsOf(st, st[v])
 BY FS_Subset, NamesAssumption DEF VarsOf
<1>2. Cardinality(VarsOf(st, st[v])) \in Nat /\ Cardinality(VarsOf(st, st[v])) # 0
 BY <1>1, FS_CardinalityType, FS_EmptySet
<1> QED BY <1>2 DEF VarRefs

\* So does a property of a live object.
LEMMA PropCounts ==
    ASSUME NEW ob, NEW o \in Handles, NEW p \in Props, ob[o].live
    PROVE  PropRefs(ob, ob[o].prop[p]) >= 1
<1> DEFINE P == PropsOf(ob, ob[o].prop[p])
<1>1. IsFiniteSet(P) /\ <<o, p>> \in P
 BY FS_Subset, HandlesFinite DEF PropsOf
<1>2. Cardinality(P) \in Nat /\ Cardinality(P) # 0
 BY <1>1, FS_CardinalityType, FS_EmptySet
<1> QED BY <1>2 DEF PropRefs

--------------------
(* What relates the counts, the objects and the call stack, on buckets b,    *)
(* objects ob, variables st, stack s, flag u and first unused handle tp.     *)

EndPhases == {"free_all", "store_destroy", "done", "crashed"}

\* The counts, as RefcountExact has them; nothing refers to an invalid bucket
\* before the store is torn down.
CountsOK(b, ob, st, s, u) ==
    \A k \in Handles :
        /\ b[k].valid =>
             /\ b[k].refcount >= RefsIn(ob, st, s, k)
             /\ ~u => b[k].refcount = RefsIn(ob, st, s, k)
        /\ ~b[k].valid /\ s[1].fn \notin EndPhases => RefsIn(ob, st, s, k) = 0

\* A release that is destroying its object found a count of one and calls
\* free_storage, which only a bailout cuts short; storage is freed for such a
\* release or for zend_objects_store_free_object_storage.
FramesOK(b, ob, s, u) ==
    \A i \in 1 .. Len(s) :
        /\ s[i].fn \in TryFrames => b[s[i].h].valid /\ b[s[i].h].destructor_called
        /\ s[i].fn = "del_ref_free" =>
             /\ b[s[i].h].refcount = 1
             /\ IF i = Len(s) THEN ~u => ~ob[s[i].h].live
                ELSE s[i + 1].fn = "free_storage" /\ s[i + 1].h = s[i].h
        /\ s[i].fn = "free_storage" =>
             /\ ob[s[i].h].live
             /\ i > 1
             /\ \/ s[i - 1].fn = "del_ref_free" /\ s[i - 1].h = s[i].h
                \/ s[1].fn = "free_all" /\ i = 2 /\ ~b[s[i].h].valid

\* A valid bucket has its storage until the release on top gives the handle
\* back; storage is kept only for a bucket or by a bailout.
LiveOK(b, ob, s, u, tp) ==
    \A k \in Handles :
        /\ b[k].valid /\ ~ob[k].live => s[Len(s)].fn = "del_ref_free" /\ s[Len(s)].h = k
        /\ b[k].valid \/ ob[k].live => k < tp
        /\ ~u /\ ob[k].live =>
             b[k].valid \/ \E i \in 1 .. Len(s) : s[i].fn = "free_storage" /\ s[i].h = k

\* The end of the request: no user code is left, and free_all has invalidated
\* the buckets it passed.
PhaseOK(b, ob, s, u) ==
    /\ s[1].fn = "mark" => u
    /\ s[1].fn \in EndPhases =>
         \A i \in 1 .. Len(s) : s[i].fn \notin {"__construct", "__destruct"}
    /\ s[1].fn \in {"store_destroy", "done"} =>
         /\ Len(s) = 1
         /\ ~u => \A k \in Handles : ~ob[k].live
    /\ s[1].fn = "free_all" => \A k \in Handles : k < s[1].h => ~b[k].valid

Types(b, ob, st) ==
    /\ b \in [Handles -> BucketType]
    /\ ob \in [Handles -> ObjectType]
    /\ st \in [Vars -> Handles \cup {0}]

--------------------
(* Lemmas about the call stack.                                              *)

\* The stack without its top.
LEMMA PopSeq ==
    ASSUME NEW s \in Seq(FrameType), s # <<>>
    PROVE  LET r == SubSeq(s, 1, Len(s) - 1) IN
           /\ r \in Seq(FrameType) /\ Len(r) = Len(s) - 1
           /\ Len(s) \in Nat /\ Len(s) >= 1
           /\ \A i \in 1 .. Len(s) - 1 : r[i] = s[i]
           /\ s[Len(s)] \in FrameType
<1> DEFINE r == SubSeq(s, 1, Len(s) - 1)
<1>0. Len(s) \in Nat /\ Len(s) >= 1 /\ s[Len(s)] \in FrameType
 OBVIOUS
<1>1. Len(s) - 1 \in Int /\ 1 \in Int /\ \A i \in 1 .. Len(s) - 1 : s[i] \in FrameType
 BY <1>0
<1>2. /\ r \in Seq(FrameType)
      /\ Len(r) = IF 1 <= Len(s) - 1 THEN Len(s) - 1 - 1 + 1 ELSE 0
 BY <1>1, SubSeqProperties
<1>3. \A i \in 1 .. Len(s) - 1 : r[i] = s[i]
 BY <1>0
<1> HIDE DEF r
<1>4. Len(r) = Len(s) - 1
 <2>1. \A n \in Nat : n >= 1 => (IF 1 <= n - 1 THEN n - 1 - 1 + 1 ELSE 0) = n - 1
  OBVIOUS
 <2> QED BY <1>0, <1>2, <2>1, Zenon
<1> QED BY <1>0, <1>2, <1>3, <1>4 DEF r

\* What a bailout leaves: one phase, or the stack up to the innermost zend_try.
LEMMA UnwindShape ==
    ASSUME NEW s, StackOK(s), s[1].fn \notin Halted
    PROVE  \/ Unwind(s) = <<Frame(AfterBailout[s[1].fn], 1)>>
           \/ \E c \in 2 .. Len(s) :
                /\ Len(Unwind(s)) = c /\ s[c].fn \in TryFrames
                /\ \A i \in 1 .. c - 1 : Unwind(s)[i] = s[i]
                /\ Unwind(s)[c].fn = s[c].fn /\ Unwind(s)[c].h = s[c].h
<1> DEFINE tries == {i \in 1 .. Len(s) : s[i].fn \in TryFrames}
           c == CHOOSE i \in tries : \A j \in tries : j <= i
<1>0. Len(s) \in Nat /\ Len(s) >= 1 /\ s[1].fn \in Phases \ Halted
 BY DEF StackOK
<1>1. CASE tries = {}
 BY <1>1 DEF Unwind
<1>2. CASE tries # {}
 <2> DEFINE f == [s[c] EXCEPT !.failure = TRUE]
            r == SubSeq(s, 1, c - 1)
 <2>1. Unwind(s) = Append(r, f)
  BY <1>2 DEF Unwind
 <2>2. c \in tries
  BY <1>0, <1>2, InnermostTry
 <2>3. c \in 2 .. Len(s) /\ s[c].fn \in TryFrames
  <3>1. \A x \in Phases : x \notin TryFrames
   BY DEF Phases, TryFrames
  <3> QED BY <2>2, <1>0, <3>1
 <2> HIDE DEF c
 <2>4. f \in FrameType /\ f.fn = s[c].fn /\ f.h = s[c].h
  <3>1. s[c] \in FrameType
   BY <2>3 DEF StackOK
  <3> QED BY <3>1 DEF FrameType
 <2>5. /\ r \in Seq(FrameType) /\ Len(r) = c - 1
       /\ \A i \in 1 .. c - 1 : r[i] = s[i]
  BY <2>3 DEF StackOK
 <2> HIDE DEF r, f
 <2>6. /\ Len(Append(r, f)) = c /\ Append(r, f)[c] = f
       /\ \A i \in 1 .. c - 1 : Append(r, f)[i] = r[i]
  BY <2>3, <2>4, <2>5
 <2> QED BY <2>1, <2>3, <2>4, <2>5, <2>6
<1> QED BY <1>1, <1>2

\* A bailout loses references and adds none.
LEMMA UnwindRefs ==
    ASSUME NEW s, StackOK(s), s[1].fn \notin Halted, NEW k
    PROVE  FrameRefs(Unwind(s), k) <= FrameRefs(s, k)
<1>0. Len(s) \in Nat
 BY DEF StackOK
<1>1. FrameRefs(s, k) \in Nat /\ IsFiniteSet(HoldersOf(s, k))
 BY <1>0, FrameTypes
<1>2. CASE Unwind(s) = <<Frame(AfterBailout[s[1].fn], 1)>>
 <2>1. AfterBailout[s[1].fn] \notin HoldingFrames
  BY DEF StackOK, AfterBailout, Phases, Halted, HoldingFrames, TryFrames
 <2>2. FrameRefs(Unwind(s), k) = 0
  BY <1>2, <2>1, FrameSingle DEF One, Is, Holds, Frame
 <2> QED BY <1>1, <2>2
<1>3. CASE \E c \in 2 .. Len(s) :
             /\ Len(Unwind(s)) = c /\ s[c].fn \in TryFrames
             /\ \A i \in 1 .. c - 1 : Unwind(s)[i] = s[i]
             /\ Unwind(s)[c].fn = s[c].fn /\ Unwind(s)[c].h = s[c].h
 <2>1. HoldersOf(Unwind(s), k) \subseteq HoldersOf(s, k)
  BY <1>0, <1>3 DEF HoldersOf
 <2> QED BY <1>1, <2>1, FS_Subset DEF FrameRefs
<1> QED BY <1>2, <1>3, UnwindShape

\* The frame of a bailout on top is no zend_try: the callers catch it.
LEMMA UnwindCallers ==
    ASSUME NEW s, StackOK(s), Len(s) > 1, s[Len(s)].fn \notin TryFrames
    PROVE  Unwind(s) = Unwind(SubSeq(s, 1, Len(s) - 1))
<1> DEFINE r == SubSeq(s, 1, Len(s) - 1)
           T(q) == {i \in 1 .. Len(q) : q[i].fn \in TryFrames}
           C(q) == CHOOSE i \in T(q) : \A j \in T(q) : j <= i
<1>1. /\ Len(r) = Len(s) - 1 /\ Len(s) \in Nat
      /\ \A i \in 1 .. Len(s) - 1 : r[i] = s[i]
 BY PopSeq DEF StackOK
<1> HIDE DEF r
<1>2. T(r) = T(s) /\ T(s) \subseteq 1 .. Len(s) - 1 /\ r[1] = s[1]
 <2>1. \A i \in 1 .. Len(s) : i # Len(s) => i \in 1 .. Len(s) - 1
  BY <1>1
 <2> QED BY <1>1, <2>1
<1>3. ASSUME T(s) = {} PROVE Unwind(s) = Unwind(r)
 BY <1>2, <1>3 DEF Unwind
<1>4. ASSUME T(s) # {} PROVE Unwind(s) = Unwind(r)
 <2>1. C(s) \in T(s)
  BY <1>1, <1>4, InnermostTry
 <2> DEFINE c == C(s)
 <2>2. c \in 1 .. Len(s) - 1 /\ C(r) = c
  BY <1>2, <2>1
 <2>3. Unwind(s) = Append(SubSeq(s, 1, c - 1), [s[c] EXCEPT !.failure = TRUE])
  BY <1>4 DEF Unwind
 <2>4. Unwind(r) = Append(SubSeq(r, 1, c - 1), [r[c] EXCEPT !.failure = TRUE])
  BY <1>2, <1>4, <2>2 DEF Unwind
 <2> HIDE DEF c
 <2>5. SubSeq(s, 1, c - 1) = SubSeq(r, 1, c - 1)
  <3>1. \A i \in 1 .. c - 1 : s[i] = r[i]
   BY <1>1, <2>2
  <3> QED BY <2>2, <3>1, <1>1
 <2> QED BY <1>1, <2>2, <2>3, <2>4, <2>5
<1>5. Unwind(s) = Unwind(r)
 BY <1>3, <1>4
<1> QED BY <1>5 DEF r

--------------------
(* Frames and the data they rely on.                                         *)

\* A release of s at i whose count is one.
AtOne(b, s, i) ==
    /\ s[i].fn \in TryFrames \cup {"del_ref"}
    /\ b[s[i].h].valid
    /\ b[s[i].h].refcount = 1

\* The frame at i holds the only reference to its handle.
OnlyHolder(ob, st, s, i) ==
    /\ VarRefs(st, s[i].h) = 0 /\ PropRefs(ob, s[i].h) = 0
    /\ FrameRefs(s, s[i].h) = 1
    /\ \A j \in HoldersOf(s, s[i].h) : j = i

\* A release that found a count of one is the only reference left.
LEMMA LastReference ==
    ASSUME NEW b, NEW ob, NEW st, NEW s, NEW u,
           Types(b, ob, st), StackOK(s), CountsOK(b, ob, st, s, u),
           NEW i \in 1 .. Len(s), AtOne(b, s, i)
    PROVE  OnlyHolder(ob, st, s, i)
<1> DEFINE k == s[i].h
<1>1. Len(s) \in Nat /\ k \in Handles
 BY DEF StackOK, GoodFrame, Inner, AtOne
<1>2. RefsIn(ob, st, s, k) <= 1
 BY <1>1 DEF CountsOK, AtOne
<1>3. i \in HoldersOf(s, k)
 BY DEF HoldersOf, HoldingFrames, AtOne
<1> HIDE DEF k
<1>4. FrameRefs(s, k) >= 1 /\ \A j \in HoldersOf(s, k) : j # i => FrameRefs(s, k) >= 2
 BY <1>1, <1>3, HolderCounts
<1>5. VarRefs(st, k) \in Nat /\ PropRefs(ob, k) \in Nat /\ FrameRefs(s, k) \in Nat
 BY <1>1, VarTypes, PropTypes, FrameTypes
<1>6. FrameRefs(s, k) = 1 /\ VarRefs(st, k) = 0 /\ PropRefs(ob, k) = 0
 BY <1>2, <1>4, <1>5 DEF RefsIn
<1>7. \A j \in HoldersOf(s, k) : j = i
 BY <1>4, <1>6
<1> QED BY <1>6, <1>7 DEF k, OnlyHolder

\* Frames above which nothing they rely on changes.
LEMMA FramesData ==
    ASSUME NEW b, NEW ob, NEW b2, NEW ob2, NEW s, NEW u,
           FramesOK(b, ob, s, u), Len(s) \in Nat,
           \A i \in 1 .. Len(s) :
              /\ s[i].fn \in TryFrames =>
                   /\ b2[s[i].h].valid
                   /\ b[s[i].h].destructor_called => b2[s[i].h].destructor_called
              /\ s[i].fn = "del_ref_free" =>
                   /\ b2[s[i].h].refcount = b[s[i].h].refcount
                   /\ ob2[s[i].h].live = ob[s[i].h].live
              /\ s[i].fn = "free_storage" =>
                   /\ ob2[s[i].h].live
                   /\ ~b[s[i].h].valid => ~b2[s[i].h].valid
    PROVE  FramesOK(b2, ob2, s, u)
BY DEF FramesOK, TryFrames

\* A call that neither frees storage nor waits for storage to be freed.
LEMMA FramesPush ==
    ASSUME NEW b, NEW ob, NEW s \in Seq(FrameType), NEW u, NEW f \in FrameType,
           FramesOK(b, ob, s, u), s # <<>>,
           f.fn \notin {"del_ref_free", "free_storage"},
           f.fn \in TryFrames => b[f.h].valid /\ b[f.h].destructor_called,
           s[Len(s)].fn # "del_ref_free"
    PROVE  FramesOK(b, ob, Append(s, f), u)
<1> DEFINE t == Append(s, f)
           n == Len(s) + 1
<1>1. /\ Len(t) = n /\ Len(s) \in Nat /\ Len(s) >= 1
      /\ \A i \in 1 .. Len(s) : t[i] = s[i]
      /\ t[n] = f
 OBVIOUS
<1> HIDE DEF t
<1> SUFFICES FramesOK(b, ob, t, u)
 BY DEF t
<1>2. ASSUME NEW i \in 1 .. n
      PROVE  /\ t[i].fn \in TryFrames => b[t[i].h].valid /\ b[t[i].h].destructor_called
             /\ t[i].fn = "del_ref_free" =>
                  /\ b[t[i].h].refcount = 1
                  /\ IF i = Len(t) THEN ~u => ~ob[t[i].h].live
                     ELSE t[i + 1].fn = "free_storage" /\ t[i + 1].h = t[i].h
             /\ t[i].fn = "free_storage" =>
                  /\ ob[t[i].h].live
                  /\ i > 1
                  /\ \/ t[i - 1].fn = "del_ref_free" /\ t[i - 1].h = t[i].h
                     \/ t[1].fn = "free_all" /\ i = 2 /\ ~b[t[i].h].valid
 <2>1. CASE i = n
  BY <1>1, <2>1
 <2>2. CASE i # n
  <3>1. i \in 1 .. Len(s) /\ t[i] = s[i] /\ t[1] = s[1] /\ i # Len(t)
   BY <1>1, <2>2
  <3>2. i > 1 => i - 1 \in 1 .. Len(s) /\ t[i - 1] = s[i - 1]
   BY <1>1, <3>1
  <3>3. i # Len(s) => i + 1 \in 1 .. Len(s) /\ t[i + 1] = s[i + 1]
   BY <1>1, <3>1
  <3>4. i = Len(s) => t[i].fn # "del_ref_free"
   BY <3>1
  <3> HIDE DEF n
  <3> QED BY <3>1, <3>2, <3>3, <3>4 DEF FramesOK
 <2> QED BY <2>1, <2>2
<1> QED BY <1>1, <1>2 DEF FramesOK

\* A return from a call that freed no storage.
LEMMA FramesPop ==
    ASSUME NEW b, NEW ob, NEW s \in Seq(FrameType), NEW u,
           FramesOK(b, ob, s, u), s # <<>>, s[Len(s)].fn # "free_storage"
    PROVE  LET r == SubSeq(s, 1, Len(s) - 1) IN
           /\ FramesOK(b, ob, r, u)
           /\ r # <<>> => r[Len(r)].fn # "del_ref_free"
<1> DEFINE r == SubSeq(s, 1, Len(s) - 1)
<1>1. /\ r \in Seq(FrameType) /\ Len(r) = Len(s) - 1 /\ Len(s) \in Nat /\ Len(s) >= 1
      /\ \A i \in 1 .. Len(s) - 1 : r[i] = s[i]
 BY PopSeq
<1> HIDE DEF r
<1>2. r # <<>> => r[Len(r)].fn # "del_ref_free"
 <2> SUFFICES ASSUME r # <<>>, r[Len(r)].fn = "del_ref_free" PROVE FALSE
  OBVIOUS
 <2>1. Len(r) \in 1 .. Len(s) - 1 /\ Len(r) # Len(s) /\ Len(r) + 1 = Len(s)
  BY <1>1
 <2>2. s[Len(r)].fn = "del_ref_free"
  BY <1>1, <2>1
 <2>3. s[Len(r) + 1].fn = "free_storage"
  BY <1>1, <2>1, <2>2 DEF FramesOK
 <2> QED BY <2>1, <2>3
<1>3. FramesOK(b, ob, r, u)
 <2> SUFFICES ASSUME NEW i \in 1 .. Len(s) - 1
     PROVE  /\ r[i].fn \in TryFrames => b[r[i].h].valid /\ b[r[i].h].destructor_called
            /\ r[i].fn = "del_ref_free" =>
                 /\ b[r[i].h].refcount = 1
                 /\ IF i = Len(r) THEN ~u => ~ob[r[i].h].live
                    ELSE r[i + 1].fn = "free_storage" /\ r[i + 1].h = r[i].h
            /\ r[i].fn = "free_storage" =>
                 /\ ob[r[i].h].live
                 /\ i > 1
                 /\ \/ r[i - 1].fn = "del_ref_free" /\ r[i - 1].h = r[i].h
                    \/ r[1].fn = "free_all" /\ i = 2 /\ ~b[r[i].h].valid
  BY <1>1 DEF FramesOK
 <2>1. i \in 1 .. Len(s) /\ r[i] = s[i] /\ r[1] = s[1] /\ i # Len(s)
  BY <1>1
 <2>2. i > 1 => r[i - 1] = s[i - 1]
  BY <1>1
 <2>3. i # Len(r) => r[i + 1] = s[i + 1]
  BY <1>1
 <2>4. i = Len(r) => r[i].fn # "del_ref_free"
  BY <1>1, <1>2
 <2> QED BY <2>1, <2>2, <2>3, <2>4 DEF FramesOK
<1> QED BY <1>2, <1>3 DEF r

\* A phase alone on the stack.
LEMMA FramesSingle ==
    ASSUME NEW b, NEW ob, NEW u, NEW f, f.fn \notin TryFrames \cup {"free_storage"}
    PROVE  FramesOK(b, ob, <<f>>, u)
BY DEF FramesOK, TryFrames

\* A bailout.
LEMMA FramesUnwind ==
    ASSUME NEW b, NEW ob, NEW s, NEW u, StackOK(s), s[1].fn \notin Halted,
           FramesOK(b, ob, s, u)
    PROVE  FramesOK(b, ob, Unwind(s), TRUE)
<1> DEFINE t == Unwind(s)
<1>0. Len(s) \in Nat /\ Len(s) >= 1
 BY DEF StackOK
<1>1. CASE t = <<Frame(AfterBailout[s[1].fn], 1)>>
 <2>1. AfterBailout[s[1].fn] \notin TryFrames \cup {"free_storage"}
  BY DEF StackOK, AfterBailout, Phases, Halted, TryFrames
 <2> QED BY <1>1, <2>1, FramesSingle DEF Frame
<1>2. CASE \E c \in 2 .. Len(s) :
             /\ Len(t) = c /\ s[c].fn \in TryFrames
             /\ \A i \in 1 .. c - 1 : t[i] = s[i]
             /\ t[c].fn = s[c].fn /\ t[c].h = s[c].h
 <2> HIDE DEF t
 <2> PICK c \in 2 .. Len(s) :
            /\ Len(t) = c /\ s[c].fn \in TryFrames
            /\ \A i \in 1 .. c - 1 : t[i] = s[i]
            /\ t[c].fn = s[c].fn /\ t[c].h = s[c].h
  BY <1>2
 <2>1. \A i \in 1 .. c : t[i].fn = s[i].fn /\ t[i].h = s[i].h /\ i \in 1 .. Len(s)
  BY <1>0
 <2>2. t[c].fn # "free_storage"
  BY DEF TryFrames
 <2>3. ASSUME NEW i \in 1 .. c
       PROVE  /\ t[i].fn \in TryFrames => b[t[i].h].valid /\ b[t[i].h].destructor_called
              /\ t[i].fn = "del_ref_free" =>
                   /\ b[t[i].h].refcount = 1
                   /\ i # c => t[i + 1].fn = "free_storage" /\ t[i + 1].h = t[i].h
              /\ t[i].fn = "free_storage" =>
                   /\ ob[t[i].h].live
                   /\ i > 1
                   /\ \/ t[i - 1].fn = "del_ref_free" /\ t[i - 1].h = t[i].h
                      \/ t[1].fn = "free_all" /\ i = 2 /\ ~b[t[i].h].valid
  <3>1. i > 1 => i - 1 \in 1 .. c
   BY <1>0
  <3>2. 1 \in 1 .. c /\ (i # c => i + 1 \in 1 .. c /\ i # Len(s))
   BY <1>0
  <3> QED BY <2>1, <3>1, <3>2 DEF FramesOK
 <2>4. FramesOK(b, ob, t, TRUE)
  BY <2>3 DEF FramesOK
 <2> QED BY <2>4 DEF t
<1> QED BY <1>1, <1>2, UnwindShape

--------------------
(* The invariant on one state of the store, and the steps it survives.       *)

Good(b, ob, st, s, u, tp) ==
    /\ CountsOK(b, ob, st, s, u)
    /\ FramesOK(b, ob, s, u)
    /\ LiveOK(b, ob, s, u, tp)
    /\ PhaseOK(b, ob, s, u)

\* A stack on which a call can be made.
CanCall(s) ==
    /\ StackOK(s)
    /\ s[1].fn \notin {"store_destroy", "done", "crashed"}
    /\ s[Len(s)].fn # "del_ref_free"

\* h is in use and no release is destroying it.
Usable(b, ob, s, h) ==
    /\ b[h].valid
    /\ ob[h].live
    /\ \A i \in 1 .. Len(s) : s[i].h = h => s[i].fn # "del_ref_free"

\* What counts as a use: a variable, a property or a frame.
LEMMA UsedIsUsable ==
    ASSUME NEW b, NEW ob, NEW st, NEW s, NEW u, NEW tp, NEW h \in Handles,
           Types(b, ob, st), StackOK(s), Good(b, ob, st, s, u, tp),
           s[1].fn \notin EndPhases \/ b[h].valid,
           \/ VarRefs(st, h) >= 1
           \/ PropRefs(ob, h) >= 1
           \/ \E i \in HoldersOf(s, h) : s[i].fn # "del_ref_free"
    PROVE  Usable(b, ob, s, h)
<1>1. Len(s) \in Nat /\ Len(s) >= 1
 BY DEF StackOK
<1>2. VarRefs(st, h) \in Nat /\ PropRefs(ob, h) \in Nat /\ FrameRefs(s, h) \in Nat
 BY <1>1, VarTypes, PropTypes, FrameTypes
<1>3. b[h].valid
 <2>1. CASE s[1].fn \notin EndPhases
  <3> SUFFICES ASSUME ~b[h].valid PROVE FALSE
   OBVIOUS
  <3>1. RefsIn(ob, st, s, h) = 0
   BY <2>1 DEF Good, CountsOK
  <3>2. \A i \in HoldersOf(s, h) : FrameRefs(s, h) >= 1
   BY <1>1, HolderCounts
  <3>3. FrameRefs(s, h) >= 1 \/ VarRefs(st, h) >= 1 \/ PropRefs(ob, h) >= 1
   BY <3>2
  <3>4. \A x, y, z \in Nat : x + y + z = 0 => ~(x >= 1) /\ ~(y >= 1) /\ ~(z >= 1)
   OBVIOUS
  <3>5. VarRefs(st, h) + PropRefs(ob, h) + FrameRefs(s, h) = 0
   BY <3>1 DEF RefsIn
  <3> QED BY <1>2, <3>3, <3>4, <3>5, Zenon
 <2> QED BY <2>1
<1>4. ASSUME NEW i \in 1 .. Len(s), s[i].h = h, s[i].fn = "del_ref_free" PROVE FALSE
 <2>1. AtOne(b, s, i) /\ CountsOK(b, ob, st, s, u)
  BY <1>3, <1>4 DEF Good, FramesOK, TryFrames, AtOne
 <2>2. OnlyHolder(ob, st, s, i)
  BY <2>1, LastReference
 <2>3. VarRefs(st, h) = 0 /\ PropRefs(ob, h) = 0 /\ \A j \in HoldersOf(s, h) : j = i
  BY <1>4, <2>2 DEF OnlyHolder
 <2> QED BY <1>4, <2>3
<1>5. ob[h].live
 <2>1. Len(s) \in 1 .. Len(s)
  BY <1>1
 <2> QED BY <1>3, <1>4, <2>1 DEF Good, LiveOK
<1> QED BY <1>3, <1>4, <1>5 DEF Usable

\* Where a bailout leaves the request.
LEMMA UnwindPhase ==
    ASSUME NEW s, StackOK(s), s[1].fn \notin Halted
    PROVE  s[1].fn \in EndPhases => Unwind(s)[1].fn \in EndPhases
<1>1. CASE Unwind(s) = <<Frame(AfterBailout[s[1].fn], 1)>>
 <2>1. Unwind(s)[1].fn = AfterBailout[s[1].fn]
  BY <1>1 DEF Frame
 <2> QED BY <2>1 DEF EndPhases, Halted, AfterBailout
<1>2. CASE \E c \in 2 .. Len(s) :
             /\ Len(Unwind(s)) = c /\ s[c].fn \in TryFrames
             /\ \A i \in 1 .. c - 1 : Unwind(s)[i] = s[i]
             /\ Unwind(s)[c].fn = s[c].fn /\ Unwind(s)[c].h = s[c].h
 <2>1. Unwind(s)[1] = s[1]
  BY <1>2 DEF StackOK
 <2> QED BY <2>1
<1> QED BY <1>1, <1>2, UnwindShape

\* What a bailout leaves of the end of the request.
LEMMA UnwindPhaseOK ==
    ASSUME NEW b, NEW ob, NEW s, NEW u, StackOK(s), s[1].fn \notin Halted,
           PhaseOK(b, ob, s, u)
    PROVE  PhaseOK(b, ob, Unwind(s), TRUE)
<1>1. CASE Unwind(s) = <<Frame(AfterBailout[s[1].fn], 1)>>
 <2>1. AfterBailout[s[1].fn] \notin {"__construct", "__destruct"}
  BY DEF StackOK, AfterBailout, Phases, Halted
 <2> DEFINE t == Unwind(s)
 <2>2. Len(t) = 1 /\ t[1].fn \notin {"__construct", "__destruct"} /\ t[1].h = 1
  BY <1>1, <2>1 DEF Frame
 <2>3. \A k \in Handles : ~(k < 1)
  BY DEF Handles
 <2> HIDE DEF t
 <2>4. PhaseOK(b, ob, t, TRUE)
  BY <2>2, <2>3 DEF PhaseOK
 <2> QED BY <2>4 DEF t
<1>2. CASE \E c \in 2 .. Len(s) :
             /\ Len(Unwind(s)) = c /\ s[c].fn \in TryFrames
             /\ \A i \in 1 .. c - 1 : Unwind(s)[i] = s[i]
             /\ Unwind(s)[c].fn = s[c].fn /\ Unwind(s)[c].h = s[c].h
 <2> DEFINE t == Unwind(s)
 <2> HIDE DEF t
 <2> PICK c \in 2 .. Len(s) :
            /\ Len(t) = c /\ s[c].fn \in TryFrames
            /\ \A i \in 1 .. c - 1 : t[i] = s[i]
            /\ t[c].fn = s[c].fn /\ t[c].h = s[c].h
  BY <1>2 DEF t
 <2>1. Len(s) \in Nat
  BY DEF StackOK
 <2>2. t[1] = s[1] /\ Len(s) # 1
  BY <2>1
 <2>3. \A i \in 1 .. c : t[i].fn = s[i].fn /\ i \in 1 .. Len(s)
  BY <2>1
 <2>4. PhaseOK(b, ob, t, TRUE)
  BY <2>2, <2>3 DEF PhaseOK
 <2> QED BY <2>4 DEF t
<1> QED BY <1>1, <1>2, UnwindShape

\* A bailout, which may mark objects as destructed: m are the buckets after it.
LEMMA BailoutGood ==
    ASSUME NEW b, NEW ob, NEW st, NEW s, NEW u, NEW tp,
           NEW m \in [Handles -> BucketType],
           Types(b, ob, st), StackOK(s), s[1].fn \notin Halted,
           s[Len(s)].fn # "del_ref_free",
           Good(b, ob, st, s, u, tp),
           \A k \in Handles :
              /\ m[k].valid = b[k].valid /\ m[k].refcount = b[k].refcount
              /\ b[k].destructor_called => m[k].destructor_called
    PROVE  Good(m, ob, st, Unwind(s), TRUE, tp)
<1> DEFINE t == Unwind(s)
<1>1. StackOK(t) /\ Len(s) \in Nat /\ Len(t) \in Nat
 BY UnwindOK DEF StackOK
<1>2. CountsOK(m, ob, st, t, TRUE)
 <2> SUFFICES ASSUME NEW k \in Handles
     PROVE  /\ m[k].valid => m[k].refcount >= RefsIn(ob, st, t, k)
            /\ ~m[k].valid /\ t[1].fn \notin EndPhases => RefsIn(ob, st, t, k) = 0
  BY DEF CountsOK
 <2>1. /\ VarRefs(st, k) \in Nat /\ PropRefs(ob, k) \in Nat
       /\ FrameRefs(s, k) \in Nat /\ FrameRefs(t, k) \in Nat
  BY <1>1, VarTypes, PropTypes, FrameTypes
 <2>2. FrameRefs(t, k) <= FrameRefs(s, k)
  BY UnwindRefs
 <2>3. RefsIn(ob, st, t, k) <= RefsIn(ob, st, s, k) /\ RefsIn(ob, st, t, k) \in Nat
       /\ RefsIn(ob, st, s, k) \in Nat
  BY <2>1, <2>2 DEF RefsIn
 <2>4. m[k].refcount \in Int
  BY DEF BucketType
 <2>5. t[1].fn \notin EndPhases => s[1].fn \notin EndPhases
  BY UnwindPhase
 <2> HIDE DEF t
 <2> QED BY <2>3, <2>4, <2>5 DEF Good, CountsOK
<1>3. FramesOK(m, ob, t, TRUE)
 <2>1. FramesOK(b, ob, t, TRUE)
  BY FramesUnwind DEF Good
 <2> HIDE DEF t
 <2>2. \A i \in 1 .. Len(t) : t[i].fn \in TryFrames \cup {"free_storage"} => t[i].h \in Handles
  BY <1>1 DEF StackOK, GoodFrame, Inner
 <2>3. \A i \in 1 .. Len(t) : t[i].fn \in TryFrames => b[t[i].h].valid
  BY <2>1 DEF FramesOK
 <2>4. \A i \in 1 .. Len(t) : t[i].fn = "free_storage" => ob[t[i].h].live
  BY <2>1 DEF FramesOK
 <2>5. ASSUME NEW i \in 1 .. Len(t)
       PROVE  /\ t[i].fn \in TryFrames => m[t[i].h].valid /\ m[t[i].h].destructor_called
              /\ t[i].fn = "del_ref_free" => m[t[i].h].refcount = b[t[i].h].refcount
              /\ t[i].fn = "free_storage" => (~b[t[i].h].valid => ~m[t[i].h].valid)
  BY <2>1, <2>2 DEF FramesOK, TryFrames
 <2> QED BY <1>1, <2>1, <2>5 DEF FramesOK
<1>4. LiveOK(m, ob, t, TRUE, tp)
 BY DEF Good, LiveOK
<1>5. PhaseOK(m, ob, t, TRUE)
 <2>1. PhaseOK(b, ob, t, TRUE)
  BY UnwindPhaseOK DEF Good
 <2> HIDE DEF t
 <2> QED BY <2>1 DEF PhaseOK
<1> QED BY <1>2, <1>3, <1>4, <1>5 DEF Good

\* Marking objects changes no count.
LEMMA MarkSame ==
    ASSUME NEW b \in [Handles -> BucketType]
    PROVE  /\ mark_destructed(b) \in [Handles -> BucketType]
           /\ \A k \in Handles :
                /\ mark_destructed(b)[k].valid = b[k].valid
                /\ mark_destructed(b)[k].refcount = b[k].refcount
                /\ b[k].destructor_called => mark_destructed(b)[k].destructor_called
BY DEF mark_destructed, BucketType

--------------------
(* Steps that keep buckets valid and objects alive.                          *)

\* Data that change under a stack s: only counts, and no count a release on s
\* has found to be one.
Kept(b, ob, b2, ob2, s) ==
    \A k \in Handles :
        /\ b2[k].valid = b[k].valid
        /\ b[k].destructor_called => b2[k].destructor_called
        /\ ob2[k].live = ob[k].live
        /\ \/ b2[k].refcount = b[k].refcount
           \/ \A i \in 1 .. Len(s) : s[i].h = k => s[i].fn # "del_ref_free"

\* Counts that follow the references stay right.
LEMMA CountsStep ==
    ASSUME NEW b, NEW ob, NEW st, NEW s, NEW u, CountsOK(b, ob, st, s, u),
           NEW b2, NEW ob2, NEW st2, NEW s2, Len(s) \in Nat, Len(s2) \in Nat,
           b \in [Handles -> BucketType], b2 \in [Handles -> BucketType],
           s2[1].fn \notin EndPhases => s[1].fn \notin EndPhases,
           \A k \in Handles :
              /\ b2[k].valid = b[k].valid
              /\ b[k].valid => b2[k].refcount - b[k].refcount
                                 = RefsIn(ob2, st2, s2, k) - RefsIn(ob, st, s, k)
              /\ ~b[k].valid => RefsIn(ob2, st2, s2, k) <= RefsIn(ob, st, s, k)
                                  \/ s2[1].fn \in EndPhases
    PROVE  CountsOK(b2, ob2, st2, s2, u)
<1> SUFFICES ASSUME NEW k \in Handles
    PROVE  /\ b2[k].valid =>
                /\ b2[k].refcount >= RefsIn(ob2, st2, s2, k)
                /\ ~u => b2[k].refcount = RefsIn(ob2, st2, s2, k)
           /\ ~b2[k].valid /\ s2[1].fn \notin EndPhases => RefsIn(ob2, st2, s2, k) = 0
 BY DEF CountsOK
<1> DEFINE x == RefsIn(ob, st, s, k)
           y == RefsIn(ob2, st2, s2, k)
<1>1. x \in Nat /\ y \in Nat
 BY VarTypes, PropTypes, FrameTypes DEF RefsIn
<1>2. b[k].refcount \in Int /\ b2[k].refcount \in Int
 BY DEF BucketType
<1>3. /\ b[k].valid => b[k].refcount >= x /\ (~u => b[k].refcount = x)
      /\ ~b[k].valid /\ s[1].fn \notin EndPhases => x = 0
 BY DEF CountsOK
<1>4. /\ b2[k].valid = b[k].valid
      /\ b[k].valid => b2[k].refcount - b[k].refcount = y - x
      /\ ~b[k].valid => y <= x \/ s2[1].fn \in EndPhases
 OBVIOUS
<1> HIDE DEF x, y
<1>5. CASE b[k].valid
 BY <1>1, <1>2, <1>3, <1>4, <1>5 DEF x, y
<1>6. CASE ~b[k].valid
 <2>1. s2[1].fn \notin EndPhases => y <= 0
  BY <1>3, <1>4, <1>6
 <2>2. s2[1].fn \notin EndPhases => y = 0
  BY <1>1, <2>1
 <2> QED BY <1>4, <1>6, <2>2 DEF y
<1> QED BY <1>5, <1>6

\* The data change and the stack stays.
LEMMA DataGood ==
    ASSUME NEW b, NEW ob, NEW st, NEW s, NEW u, NEW tp, NEW b2, NEW ob2, NEW st2,
           StackOK(s), Good(b, ob, st, s, u, tp), Kept(b, ob, b2, ob2, s),
           CountsOK(b2, ob2, st2, s, u)
    PROVE  Good(b2, ob2, st2, s, u, tp)
<1>1. Len(s) \in Nat
      /\ \A i \in 1 .. Len(s) : s[i].fn \in TryFrames \cup {"free_storage"} => s[i].h \in Handles
 BY DEF StackOK, GoodFrame, Inner
<1>2. FramesOK(b2, ob2, s, u)
 <2>1. FramesOK(b, ob, s, u)
  BY DEF Good
 <2>2. \A i \in 1 .. Len(s) : s[i].fn \in TryFrames => b[s[i].h].valid
  BY <2>1 DEF FramesOK
 <2>3. \A i \in 1 .. Len(s) : s[i].fn = "free_storage" => ob[s[i].h].live
  BY <2>1 DEF FramesOK
 <2> QED BY <1>1, <2>1, <2>2, <2>3, FramesData DEF Kept, TryFrames
<1>3. LiveOK(b2, ob2, s, u, tp)
 BY DEF Good, LiveOK, Kept
<1>4. PhaseOK(b2, ob2, s, u)
 BY DEF Good, PhaseOK, Kept
<1> QED BY <1>2, <1>3, <1>4 DEF Good

\* Facts about a stack with one more frame.
LEMMA PushSeq ==
    ASSUME NEW s \in Seq(FrameType), NEW f \in FrameType
    PROVE  /\ Append(s, f) \in Seq(FrameType) /\ Len(Append(s, f)) = Len(s) + 1
           /\ Len(s) \in Nat
           /\ \A i \in 1 .. Len(s) : Append(s, f)[i] = s[i]
           /\ Append(s, f)[Len(s) + 1] = f
           /\ Append(s, f) # <<>>
OBVIOUS

\* A call on top of a stack.
LEMMA PushShape ==
    ASSUME NEW b, NEW ob, NEW s, NEW u, NEW tp, NEW f, CanCall(s),
           FramesOK(b, ob, s, u), LiveOK(b, ob, s, u, tp), PhaseOK(b, ob, s, u),
           GoodFrame(f), f.fn \in {"del_ref", "del_ref_dtor", "__construct", "__destruct"},
           f.fn = "del_ref_dtor" => b[f.h].valid /\ b[f.h].destructor_called,
           f.fn \in {"del_ref", "del_ref_dtor"} \/ s[1].fn \notin EndPhases
    PROVE  /\ FramesOK(b, ob, Append(s, f), u)
           /\ LiveOK(b, ob, Append(s, f), u, tp)
           /\ PhaseOK(b, ob, Append(s, f), u)
<1> DEFINE t == Append(s, f)
<1>1. s \in Seq(FrameType) /\ s # <<>> /\ f \in FrameType /\ Len(s) >= 1
 BY DEF CanCall, StackOK, GoodFrame
<1>2. /\ t \in Seq(FrameType) /\ Len(t) = Len(s) + 1 /\ Len(s) \in Nat
      /\ \A i \in 1 .. Len(s) : t[i] = s[i]
      /\ t[Len(s) + 1] = f
 BY <1>1, PushSeq
<1>3. FramesOK(b, ob, t, u)
 <2>1. s[Len(s)].fn # "del_ref_free"
  BY DEF CanCall
 <2>2. /\ f.fn \notin {"del_ref_free", "free_storage"}
       /\ f.fn \in TryFrames => b[f.h].valid /\ b[f.h].destructor_called
  BY DEF TryFrames
 <2> QED BY <1>1, <2>1, <2>2, FramesPush
<1> HIDE DEF t
<1>4. LiveOK(b, ob, t, u, tp)
 <2> SUFFICES ASSUME NEW k \in Handles
     PROVE  /\ b[k].valid => ob[k].live
            /\ b[k].valid \/ ob[k].live => k < tp
            /\ ~u /\ ob[k].live =>
                 b[k].valid \/ \E i \in 1 .. Len(t) : t[i].fn = "free_storage" /\ t[i].h = k
  BY DEF LiveOK
 <2>1. b[k].valid => ob[k].live
  BY DEF LiveOK, CanCall
 <2>2. \A i \in 1 .. Len(s) : i \in 1 .. Len(t) /\ t[i] = s[i]
  BY <1>2
 <2> QED BY <2>1, <2>2 DEF LiveOK
<1>5. PhaseOK(b, ob, t, u)
 <2>1. t[1] = s[1]
  BY <1>1, <1>2
 <2>2. \A i \in 1 .. Len(t) : (i \in 1 .. Len(s) /\ t[i] = s[i]) \/ t[i] = f
  BY <1>2
 <2>3. s[1].fn \notin {"store_destroy", "done"}
  BY DEF CanCall
 <2> QED BY <2>1, <2>2, <2>3 DEF PhaseOK
<1> QED BY <1>3, <1>4, <1>5 DEF t

\* The data change and a call is made.
LEMMA PushGood ==
    ASSUME NEW b, NEW ob, NEW st, NEW s, NEW u, NEW tp, NEW b2, NEW ob2, NEW st2, NEW f,
           CanCall(s), Good(b, ob, st, s, u, tp), Kept(b, ob, b2, ob2, s),
           GoodFrame(f), f.fn \in {"del_ref", "del_ref_dtor", "__construct", "__destruct"},
           f.fn = "del_ref_dtor" => b2[f.h].valid /\ b2[f.h].destructor_called,
           f.fn \in {"del_ref", "del_ref_dtor"} \/ s[1].fn \notin EndPhases,
           CountsOK(b2, ob2, st2, Append(s, f), u)
    PROVE  Good(b2, ob2, st2, Append(s, f), u, tp)
<1>1. Len(s) \in Nat
      /\ \A i \in 1 .. Len(s) : s[i].fn \in TryFrames \cup {"free_storage"} => s[i].h \in Handles
 BY DEF CanCall, StackOK, GoodFrame, Inner
<1>2. FramesOK(b2, ob2, s, u)
 <2>1. FramesOK(b, ob, s, u)
  BY DEF Good
 <2>2. \A i \in 1 .. Len(s) : s[i].fn \in TryFrames => b[s[i].h].valid
  BY <2>1 DEF FramesOK
 <2>3. \A i \in 1 .. Len(s) : s[i].fn = "free_storage" => ob[s[i].h].live
  BY <2>1 DEF FramesOK
 <2> QED BY <1>1, <2>1, <2>2, <2>3, FramesData DEF Kept, TryFrames
<1>3. LiveOK(b2, ob2, s, u, tp) /\ PhaseOK(b2, ob2, s, u)
 BY DEF Good, LiveOK, PhaseOK, Kept
<1> QED BY <1>2, <1>3, PushShape DEF Good

\* A frame that is neither freeing nor about to free storage returns.
LEMMA PopGood ==
    ASSUME NEW b, NEW ob, NEW st, NEW s, NEW u, NEW tp, NEW b2,
           StackOK(s), Len(s) > 1, Good(b, ob, st, s, u, tp), Kept(b, ob, b2, ob, s),
           s[Len(s)].fn \notin {"del_ref_free", "free_storage"},
           CountsOK(b2, ob, st, SubSeq(s, 1, Len(s) - 1), u)
    PROVE  /\ Good(b2, ob, st, SubSeq(s, 1, Len(s) - 1), u, tp)
           /\ CanCall(SubSeq(s, 1, Len(s) - 1))
<1> DEFINE r == SubSeq(s, 1, Len(s) - 1)
<1>1. /\ r \in Seq(FrameType) /\ Len(r) = Len(s) - 1 /\ Len(s) \in Nat
      /\ \A i \in 1 .. Len(s) - 1 : r[i] = s[i]
 BY PopSeq DEF StackOK
<1>2. StackOK(r) /\ r[1] = s[1]
 BY PopOK
<1>3. FramesOK(b, ob, r, u) /\ r[Len(r)].fn # "del_ref_free"
 <2>1. s \in Seq(FrameType) /\ s # <<>> /\ FramesOK(b, ob, s, u) /\ s[Len(s)].fn # "free_storage"
  BY DEF StackOK, Good
 <2>2. r # <<>>
  BY <1>2 DEF StackOK
 <2> QED BY <2>1, <2>2, FramesPop
<1>4. CountsOK(b2, ob, st, r, u)
 OBVIOUS
<1> HIDE DEF r
<1>5. \A i \in 1 .. Len(r) : i \in 1 .. Len(s) /\ r[i] = s[i]
 BY <1>1
<1>6. FramesOK(b2, ob, r, u)
 <2>1. \A i \in 1 .. Len(r) : r[i].fn \in TryFrames \cup {"free_storage"} => r[i].h \in Handles
  BY <1>2 DEF StackOK, GoodFrame, Inner
 <2>2. \A i \in 1 .. Len(r) : r[i].fn \in TryFrames => b[r[i].h].valid
  BY <1>3 DEF FramesOK
 <2>3. \A i \in 1 .. Len(r) : r[i].fn = "free_storage" => ob[r[i].h].live
  BY <1>3 DEF FramesOK
 <2>4. ASSUME NEW i \in 1 .. Len(r)
       PROVE  /\ r[i].fn \in TryFrames =>
                   /\ b2[r[i].h].valid
                   /\ b[r[i].h].destructor_called => b2[r[i].h].destructor_called
              /\ r[i].fn = "del_ref_free" =>
                   /\ b2[r[i].h].refcount = b[r[i].h].refcount
                   /\ ob[r[i].h].live = ob[r[i].h].live
              /\ r[i].fn = "free_storage" =>
                   /\ ob[r[i].h].live
                   /\ ~b[r[i].h].valid => ~b2[r[i].h].valid
  BY <1>5, <2>1, <2>2, <2>3 DEF Kept, TryFrames
 <2>5. Len(r) \in Nat
  BY <1>1
 <2> QED BY <1>3, <2>4, <2>5, FramesData
<1>7. LiveOK(b2, ob, r, u, tp)
 <2> SUFFICES ASSUME NEW k \in Handles
     PROVE  /\ b2[k].valid => ob[k].live
            /\ b2[k].valid \/ ob[k].live => k < tp
            /\ ~u /\ ob[k].live =>
                 b2[k].valid \/ \E i \in 1 .. Len(r) : r[i].fn = "free_storage" /\ r[i].h = k
  BY DEF LiveOK
 <2>1. LiveOK(b, ob, s, u, tp) /\ b2[k].valid = b[k].valid
  BY DEF Good, Kept
 <2>2. b[k].valid => ob[k].live
  BY <2>1 DEF LiveOK
 <2>3. \A i \in 1 .. Len(s) : s[i].fn = "free_storage" => i \in 1 .. Len(r) /\ r[i] = s[i]
  <3> TAKE i \in 1 .. Len(s)
  <3>1. i = Len(s) \/ i \in 1 .. Len(s) - 1
   BY <1>1
  <3> QED BY <1>1, <3>1
 <2> QED BY <2>1, <2>2, <2>3 DEF LiveOK
<1>8. PhaseOK(b2, ob, r, u)
 <2>1. PhaseOK(b, ob, s, u) /\ Len(s) # 1
  BY <1>1 DEF Good
 <2> QED BY <1>2, <1>5, <2>1 DEF PhaseOK, Kept
<1>9. CanCall(r)
 <2>1. s[1].fn \notin Halted
  BY PopOK
 <2>2. s[1].fn # "store_destroy"
  BY <1>1 DEF Good, PhaseOK
 <2> QED BY <1>2, <1>3, <2>1, <2>2 DEF CanCall, Halted
<1>10. Good(b2, ob, st, r, u, tp)
 BY <1>4, <1>6, <1>7, <1>8 DEF Good
<1> QED BY <1>9, <1>10 DEF r

--------------------
(* References taken and given back.                                          *)

\* A release of the reference q on the stack s.
Release(s, q) == IF q = 0 THEN s ELSE Append(s, Frame("del_ref", q))

\* No release is destroying an object that another frame holds.
LEMMA NotFreeing ==
    ASSUME NEW b, NEW ob, NEW st, NEW s, NEW u, NEW tp, NEW h \in Handles,
           Types(b, ob, st), StackOK(s), Good(b, ob, st, s, u, tp),
           NEW j \in HoldersOf(s, h), s[j].fn # "del_ref_free"
    PROVE  \A i \in 1 .. Len(s) : s[i].h = h => s[i].fn # "del_ref_free"
<1>1. CASE b[h].valid
 <2>1. Usable(b, ob, s, h)
  BY <1>1, UsedIsUsable
 <2> QED BY <2>1 DEF Usable
<1>2. CASE ~b[h].valid
 BY <1>2 DEF Good, FramesOK, TryFrames
<1> QED BY <1>1, <1>2

\* A frame's reference is given back when it returns.
LEMMA ReleaseGood ==
    ASSUME NEW b, NEW ob, NEW st, NEW s, NEW u, NEW tp, NEW h \in Handles,
           Types(b, ob, st), StackOK(s), Len(s) > 1, Good(b, ob, st, s, u, tp),
           s[Len(s)].fn \in {"del_ref", "del_ref_dtor", "__construct", "__destruct"},
           s[Len(s)].h = h,
           NEW b2 \in [Handles -> BucketType],
           \A k \in Handles :
              /\ b2[k].valid = b[k].valid
              /\ b2[k].destructor_called = b[k].destructor_called
              /\ b2[k].refcount = b[k].refcount - Is(k, h)
    PROVE  /\ Good(b2, ob, st, SubSeq(s, 1, Len(s) - 1), u, tp)
           /\ CanCall(SubSeq(s, 1, Len(s) - 1))
           /\ \A i \in 1 .. Len(s) : s[i].h = h => s[i].fn # "del_ref_free"
<1> DEFINE r == SubSeq(s, 1, Len(s) - 1)
           f == s[Len(s)]
<1>1. /\ s \in Seq(FrameType) /\ s # <<>> /\ Len(s) \in Nat /\ StackOK(r) /\ r[1] = s[1]
      /\ Len(r) \in Nat
 BY PopOK DEF StackOK
<1>2. Len(s) \in HoldersOf(s, h)
 BY <1>1 DEF HoldersOf, HoldingFrames, TryFrames
<1>3. \A i \in 1 .. Len(s) : s[i].h = h => s[i].fn # "del_ref_free"
 BY <1>2, NotFreeing
<1>4. \A k \in Handles : FrameRefs(r, k) = FrameRefs(s, k) - Is(k, h)
 <2> TAKE k \in Handles
 <2>1. FrameRefs(r, k) = FrameRefs(s, k) - One(Holds(f, k))
  BY <1>1, FramePop
 <2>2. Holds(f, k) <=> k = h
  BY DEF Holds, HoldingFrames, TryFrames
 <2> QED BY <2>1, <2>2 DEF One, Is
<1> HIDE DEF r, f
<1>5. CountsOK(b2, ob, st, r, u)
 <2>1. \A k \in Handles :
         /\ b2[k].refcount - b[k].refcount = RefsIn(ob, st, r, k) - RefsIn(ob, st, s, k)
         /\ RefsIn(ob, st, r, k) <= RefsIn(ob, st, s, k)
  <3> TAKE k \in Handles
  <3>1. /\ VarRefs(st, k) \in Nat /\ PropRefs(ob, k) \in Nat
        /\ FrameRefs(s, k) \in Nat /\ FrameRefs(r, k) \in Nat
   BY <1>1, VarTypes, PropTypes, FrameTypes
  <3>2. b[k].refcount \in Int
   BY DEF Types, BucketType
  <3>3. b2[k].refcount = b[k].refcount - Is(k, h) /\ Is(k, h) \in {0, 1}
   BY DEF One, Is
  <3> QED BY <1>4, <3>1, <3>2, <3>3 DEF RefsIn
 <2>2. CountsOK(b, ob, st, s, u) /\ b \in [Handles -> BucketType]
  BY DEF Good, Types
 <2> QED BY <1>1, <2>1, <2>2, CountsStep
<1>6. Kept(b, ob, b2, ob, s)
 <2> SUFFICES ASSUME NEW k \in Handles
     PROVE  \/ b2[k].refcount = b[k].refcount
            \/ \A i \in 1 .. Len(s) : s[i].h = k => s[i].fn # "del_ref_free"
  BY DEF Kept
 <2>1. CASE k = h
  BY <1>3, <2>1
 <2>2. CASE k # h
  BY <2>2 DEF One, Is, Types, BucketType
 <2> QED BY <2>1, <2>2
<1>7. Good(b2, ob, st, r, u, tp) /\ CanCall(r)
 <2>1. s[Len(s)].fn \notin {"del_ref_free", "free_storage"}
  OBVIOUS
 <2> QED BY <1>5, <1>6, <2>1, PopGood DEF r
<1> QED BY <1>3, <1>7 DEF r

\* A call is made that holds a new reference.
LEMMA HoldGood ==
    ASSUME NEW b, NEW ob, NEW st, NEW s, NEW u, NEW tp, NEW f, NEW h \in Handles,
           Types(b, ob, st), CanCall(s), Good(b, ob, st, s, u, tp),
           GoodFrame(f), f.h = h,
           f.fn \in {"del_ref", "del_ref_dtor", "__construct", "__destruct"},
           f.fn \in {"del_ref", "del_ref_dtor"} \/ s[1].fn \notin EndPhases,
           b[h].valid \/ s[1].fn \in EndPhases,
           \A i \in 1 .. Len(s) : s[i].h = h => s[i].fn # "del_ref_free",
           NEW b2 \in [Handles -> BucketType],
           \A k \in Handles :
              /\ b2[k].valid = b[k].valid
              /\ b[k].destructor_called => b2[k].destructor_called
              /\ b2[k].refcount = b[k].refcount + Is(k, h),
           f.fn = "del_ref_dtor" => b2[h].valid /\ b2[h].destructor_called
    PROVE  Good(b2, ob, st, Append(s, f), u, tp)
<1> DEFINE t == Append(s, f)
<1>1. /\ s \in Seq(FrameType) /\ s # <<>> /\ f \in FrameType /\ Len(s) \in Nat /\ Len(s) >= 1
 BY DEF CanCall, StackOK, GoodFrame
<1>2. Len(t) \in Nat /\ t[1] = s[1]
 BY <1>1, PushSeq
<1>3. \A k \in Handles : FrameRefs(t, k) = FrameRefs(s, k) + Is(k, h)
 <2> TAKE k \in Handles
 <2>1. FrameRefs(t, k) = FrameRefs(s, k) + One(Holds(f, k))
  BY <1>1, FramePush
 <2>2. Holds(f, k) <=> k = h
  BY DEF Holds, HoldingFrames, TryFrames
 <2> QED BY <2>1, <2>2 DEF One, Is
<1> HIDE DEF t
<1>4. CountsOK(b2, ob, st, t, u)
 <2>1. \A k \in Handles :
         /\ b2[k].refcount - b[k].refcount = RefsIn(ob, st, t, k) - RefsIn(ob, st, s, k)
         /\ k # h => RefsIn(ob, st, t, k) <= RefsIn(ob, st, s, k)
  <3> TAKE k \in Handles
  <3>1. /\ VarRefs(st, k) \in Nat /\ PropRefs(ob, k) \in Nat
        /\ FrameRefs(s, k) \in Nat /\ FrameRefs(t, k) \in Nat
   BY <1>1, <1>2, VarTypes, PropTypes, FrameTypes
  <3>2. b[k].refcount \in Int
   BY DEF Types, BucketType
  <3>3. /\ b2[k].refcount = b[k].refcount + Is(k, h) /\ Is(k, h) \in {0, 1}
        /\ k # h => Is(k, h) = 0
   BY DEF One, Is
  <3>4. FrameRefs(t, k) = FrameRefs(s, k) + Is(k, h)
   BY <1>3
  <3>5. /\ RefsIn(ob, st, t, k) = RefsIn(ob, st, s, k) + Is(k, h)
        /\ RefsIn(ob, st, s, k) \in Nat
   BY <3>1, <3>3, <3>4 DEF RefsIn
  <3> QED BY <3>2, <3>3, <3>5
 <2>2. CountsOK(b, ob, st, s, u) /\ b \in [Handles -> BucketType]
  BY DEF Good, Types
 <2>3. \A k \in Handles : ~b[k].valid =>
         RefsIn(ob, st, t, k) <= RefsIn(ob, st, s, k) \/ t[1].fn \in EndPhases
  BY <1>2, <2>1
 <2> QED BY <1>1, <1>2, <2>1, <2>2, <2>3, CountsStep
<1>5. Kept(b, ob, b2, ob, s)
 <2> SUFFICES ASSUME NEW k \in Handles
     PROVE  \/ b2[k].refcount = b[k].refcount
            \/ \A i \in 1 .. Len(s) : s[i].h = k => s[i].fn # "del_ref_free"
  BY DEF Kept
 <2>1. CASE k = h
  BY <2>1
 <2>2. CASE k # h
  BY <2>2 DEF One, Is, Types, BucketType
 <2> QED BY <2>1, <2>2
<1>6. Good(b2, ob, st, t, u, tp)
 BY <1>4, <1>5, PushGood DEF t
<1> QED BY <1>6 DEF t

\* A frame hands its reference to the call that replaces it.
LEMMA ReplaceGood ==
    ASSUME NEW b, NEW ob, NEW st, NEW s, NEW u, NEW tp, NEW g, NEW h \in Handles,
           Types(b, ob, st), StackOK(s), Len(s) > 1, Good(b, ob, st, s, u, tp),
           s[Len(s)].fn \in {"del_ref", "__construct", "__destruct"}, s[Len(s)].h = h,
           GoodFrame(g), g.fn \in {"del_ref", "del_ref_dtor"}, g.h = h,
           b[h].valid \/ s[1].fn \in EndPhases,
           NEW b2 \in [Handles -> BucketType],
           \A k \in Handles :
              /\ b2[k].valid = b[k].valid
              /\ b[k].destructor_called => b2[k].destructor_called
              /\ b2[k].refcount = b[k].refcount,
           g.fn = "del_ref_dtor" => b2[h].valid /\ b2[h].destructor_called
    PROVE  Good(b2, ob, st, Append(SubSeq(s, 1, Len(s) - 1), g), u, tp)
<1> DEFINE r == SubSeq(s, 1, Len(s) - 1)
           c == [b EXCEPT ![h].refcount = b[h].refcount - 1]
<1>1. /\ c \in [Handles -> BucketType]
      /\ \A k \in Handles :
           /\ c[k].valid = b[k].valid
           /\ c[k].destructor_called = b[k].destructor_called
           /\ c[k].refcount = b[k].refcount - Is(k, h)
 <2>1. \A k \in Handles : b[k] \in BucketType /\ b[k].refcount \in Int
  BY DEF Types, BucketType
 <2>2. b[h].refcount - 1 \in Int
  BY <2>1
 <2>3. c \in [Handles -> BucketType]
  BY <2>1, <2>2 DEF Types, BucketType
 <2>4. \A k \in Handles :
          /\ c[k].valid = b[k].valid
          /\ c[k].destructor_called = b[k].destructor_called
          /\ c[k].refcount = IF k = h THEN b[k].refcount - 1 ELSE b[k].refcount
  BY <2>1 DEF Types, BucketType
 <2> HIDE DEF c
 <2> QED BY <2>1, <2>3, <2>4 DEF Is
<1> HIDE DEF c, r
<1>2. /\ Good(c, ob, st, r, u, tp) /\ CanCall(r)
      /\ \A i \in 1 .. Len(s) : s[i].h = h => s[i].fn # "del_ref_free"
 <2>1. s[Len(s)].fn \in {"del_ref", "del_ref_dtor", "__construct", "__destruct"}
  OBVIOUS
 <2> QED BY <1>1, <2>1, ReleaseGood DEF r
<1>3. /\ r[1] = s[1]
      /\ \A i \in 1 .. Len(r) : r[i].h = h => r[i].fn # "del_ref_free"
 <2>1. /\ Len(r) = Len(s) - 1 /\ Len(s) \in Nat
       /\ \A i \in 1 .. Len(s) - 1 : r[i] = s[i]
  BY PopSeq DEF StackOK, r
 <2> QED BY <1>2, <2>1
<1>4. Types(c, ob, st)
 BY <1>1 DEF Types
<1>5. \A k \in Handles : b2[k].refcount = c[k].refcount + Is(k, h)
 BY <1>1 DEF One, Is, Types, BucketType
<1>6. /\ c[h].valid \/ r[1].fn \in EndPhases
      /\ g.fn \in {"del_ref", "del_ref_dtor", "__construct", "__destruct"}
      /\ \A k \in Handles :
           /\ b2[k].valid = c[k].valid
           /\ c[k].destructor_called => b2[k].destructor_called
 BY <1>1, <1>3
<1>7. Good(b2, ob, st, Append(r, g), u, tp)
 BY <1>2, <1>3, <1>4, <1>5, <1>6, HoldGood
<1> QED BY <1>7 DEF r

\* The buckets after a copy of h was counted.
LEMMA AddRefCounts ==
    ASSUME NEW b \in [Handles -> BucketType], NEW h \in Handles \cup {0}
    PROVE  /\ AddRef(b, h) \in [Handles -> BucketType]
           /\ \A k \in Handles :
                /\ AddRef(b, h)[k].valid = b[k].valid
                /\ AddRef(b, h)[k].destructor_called = b[k].destructor_called
                /\ AddRef(b, h)[k].refcount = b[k].refcount + Is(k, h)
<1>1. \A k \in Handles : k # 0 /\ b[k].refcount \in Int
 BY DEF Handles, BucketType
<1>2. CASE h = 0
 BY <1>1, <1>2 DEF AddRef, One, Is
<1>3. CASE h # 0
 <2>1. h \in Handles /\ b[h].refcount + 1 \in Int
  BY <1>1, <1>3
 <2>2. AddRef(b, h) = [b EXCEPT ![h].refcount = b[h].refcount + 1]
  BY <1>3 DEF AddRef
 <2> QED BY <1>1, <2>1, <2>2 DEF BucketType, One, Is
<1> QED BY <1>2, <1>3

\* The stack with a release on it.
LEMMA ReleaseSeq ==
    ASSUME NEW s, StackOK(s), s[1].fn \notin Halted, NEW q \in Handles \cup {0}
    PROVE  /\ StackOK(Release(s, q)) /\ Release(s, q)[1] = s[1]
           /\ \A k \in Handles : FrameRefs(Release(s, q), k) = FrameRefs(s, k) + Is(q, k)
           /\ q # 0 => GoodFrame(Frame("del_ref", q))
<1>1. s \in Seq(FrameType) /\ Len(s) \in Nat
 BY DEF StackOK
<1>2. \A k \in Handles : k # 0 /\ FrameRefs(s, k) \in Nat
 BY <1>1, FrameTypes DEF Handles
<1>3. CASE q = 0
 BY <1>2, <1>3 DEF Release, One, Is
<1>4. CASE q # 0
 <2> DEFINE f == Frame("del_ref", q)
 <2>1. GoodFrame(f) /\ f.fn = "del_ref" /\ f.h = q
  BY <1>4, FrameOK DEF Inner, Frame
 <2>2. f \in FrameType /\ f.fn \in Inner
  BY <2>1 DEF GoodFrame, Inner
 <2> HIDE DEF f
 <2>3. StackOK(Append(s, f)) /\ Append(s, f)[1] = s[1]
  BY <2>1, <2>2, PushOK
 <2>4. \A k \in Handles : FrameRefs(Append(s, f), k) = FrameRefs(s, k) + Is(q, k)
  <3> TAKE k \in Handles
  <3>1. FrameRefs(Append(s, f), k) = FrameRefs(s, k) + One(Holds(f, k))
   BY <1>1, <2>2, FramePush
  <3>2. Holds(f, k) <=> q = k
   BY <2>1 DEF Holds, HoldingFrames
  <3> QED BY <3>1, <3>2 DEF One, Is
 <2> QED BY <1>4, <2>1, <2>3, <2>4 DEF Release, f
<1> QED BY <1>3, <1>4

\* One reference is replaced by another: the new one is counted, the old one
\* is released by a call.
LEMMA MoveGood ==
    ASSUME NEW b, NEW ob, NEW st, NEW s, NEW u, NEW tp, NEW ob2, NEW st2,
           NEW h \in Handles \cup {0}, NEW q \in Handles \cup {0},
           Types(b, ob, st), CanCall(s), Good(b, ob, st, s, u, tp),
           h # 0 => Usable(b, ob, s, h),
           \A k \in Handles : ob2[k].live = ob[k].live,
           \A k \in Handles : VarRefs(st2, k) + PropRefs(ob2, k)
              = VarRefs(st, k) + PropRefs(ob, k) - Is(q, k) + Is(h, k)
    PROVE  Good(AddRef(b, h), ob2, st2, Release(s, q), u, tp)
<1> DEFINE b2 == AddRef(b, h)
           t == Release(s, q)
<1>1. StackOK(s) /\ s[1].fn \notin Halted /\ Len(s) \in Nat
 BY DEF CanCall, StackOK, Halted
<1>2. /\ b2 \in [Handles -> BucketType]
      /\ \A k \in Handles :
           /\ b2[k].valid = b[k].valid
           /\ b2[k].destructor_called = b[k].destructor_called
           /\ b2[k].refcount = b[k].refcount + Is(k, h)
 BY AddRefCounts DEF Types
<1>3. /\ StackOK(t) /\ t[1] = s[1]
      /\ \A k \in Handles : FrameRefs(t, k) = FrameRefs(s, k) + Is(q, k)
 BY <1>1, ReleaseSeq
<1>4. Len(t) \in Nat
 BY <1>3 DEF StackOK
<1> HIDE DEF b2, t
<1>5. CountsOK(b2, ob2, st2, t, u)
 <2>1. \A k \in Handles :
         /\ b2[k].refcount - b[k].refcount = RefsIn(ob2, st2, t, k) - RefsIn(ob, st, s, k)
         /\ k # h => RefsIn(ob2, st2, t, k) <= RefsIn(ob, st, s, k)
  <3> TAKE k \in Handles
  <3>1. /\ VarRefs(st, k) \in Nat /\ PropRefs(ob, k) \in Nat
        /\ VarRefs(st2, k) \in Nat /\ PropRefs(ob2, k) \in Nat
        /\ FrameRefs(s, k) \in Nat /\ FrameRefs(t, k) \in Nat
   BY <1>1, <1>4, VarTypes, PropTypes, FrameTypes
  <3>2. b[k].refcount \in Int
   BY DEF Types, BucketType
  <3>3. Is(q, k) \in {0, 1} /\ Is(h, k) \in {0, 1} /\ Is(k, h) = Is(h, k)
        /\ (k # h => Is(h, k) = 0)
   BY DEF One, Is
  <3>4. FrameRefs(t, k) = FrameRefs(s, k) + Is(q, k)
   BY <1>3
  <3>5. /\ RefsIn(ob2, st2, t, k) = RefsIn(ob, st, s, k) + Is(h, k)
        /\ RefsIn(ob, st, s, k) \in Nat
   <4> DEFINE v == VarRefs(st, k)    p == PropRefs(ob, k)   f == FrameRefs(s, k)
              v2 == VarRefs(st2, k)  p2 == PropRefs(ob2, k) f2 == FrameRefs(t, k)
              x == Is(q, k)        y == Is(h, k)
   <4>1. /\ v2 + p2 = v + p - x + y /\ f2 = f + x
         /\ v \in Nat /\ p \in Nat /\ f \in Nat /\ v2 \in Nat /\ p2 \in Nat /\ f2 \in Nat
         /\ x \in Int /\ y \in Int
    BY <3>1, <3>3, <3>4
   <4> HIDE DEF v, p, f, v2, p2, f2, x, y
   <4>2. v2 + p2 + f2 = v + p + f + y /\ v + p + f \in Nat
    BY <4>1
   <4> QED BY <4>2 DEF RefsIn, v, p, f, v2, p2, f2, x, y
  <3> QED BY <1>2, <3>2, <3>3, <3>5
 <2>2. CountsOK(b, ob, st, s, u) /\ b \in [Handles -> BucketType]
  BY DEF Good, Types
 <2>3. \A k \in Handles : ~b[k].valid => k # h
  BY DEF Usable, Handles
 <2>4. \A k \in Handles : ~b[k].valid =>
         RefsIn(ob2, st2, t, k) <= RefsIn(ob, st, s, k) \/ t[1].fn \in EndPhases
  BY <2>1, <2>3
 <2> QED BY <1>1, <1>2, <1>3, <1>4, <2>1, <2>2, <2>4, CountsStep
<1>6. Kept(b, ob, b2, ob2, s)
 <2> SUFFICES ASSUME NEW k \in Handles
     PROVE  \/ b2[k].refcount = b[k].refcount
            \/ \A i \in 1 .. Len(s) : s[i].h = k => s[i].fn # "del_ref_free"
  BY <1>2 DEF Kept
 <2>1. CASE k = h
  BY <2>1 DEF Usable, Handles
 <2>2. CASE k # h
  BY <1>2, <2>2 DEF One, Is, Types, BucketType
 <2> QED BY <2>1, <2>2
<1>7. Good(b2, ob2, st2, t, u, tp)
 <2>1. CASE q = 0
  <3>1. t = s
   BY <2>1 DEF t, Release
  <3> QED BY <1>1, <1>5, <1>6, <3>1, DataGood
 <2>2. CASE q # 0
  <3> DEFINE f == Frame("del_ref", q)
  <3>1. GoodFrame(f) /\ f.fn = "del_ref"
   BY <1>1, <2>2, ReleaseSeq DEF Frame
  <3>2. t = Append(s, f)
   BY <2>2 DEF t, Release
  <3> HIDE DEF f
  <3> QED BY <1>5, <1>6, <3>1, <3>2, PushGood
 <2> QED BY <2>1, <2>2
<1> QED BY <1>7 DEF b2, t

\* A variable is assigned or unset.
LEMMA VarGood ==
    ASSUME NEW b, NEW ob, NEW st, NEW s, NEW u, NEW tp,
           NEW v \in Vars, NEW h \in Handles \cup {0},
           Types(b, ob, st), CanCall(s), Good(b, ob, st, s, u, tp),
           h # 0 => Usable(b, ob, s, h)
    PROVE  Good(AddRef(b, h), ob, [st EXCEPT ![v] = h], Release(s, st[v]), u, tp)
<1> DEFINE st2 == [st EXCEPT ![v] = h]
           q == st[v]
<1>1. q \in Handles \cup {0} /\ st \in [Vars -> Handles \cup {0}]
 BY DEF Types
<1>2. \A k \in Handles : VarRefs(st2, k) = VarRefs(st, k) - Is(q, k) + Is(h, k)
 <2> TAKE k \in Handles
 <2>1. st2[v] = h /\ SameBut(st, st2, v)
  BY <1>1 DEF SameBut
 <2> HIDE DEF st2
 <2>2. VarRefs(st2, k) = VarRefs(st, k) - Is(st[v], k) + Is(st2[v], k)
  BY <2>1, VarSet
 <2> QED BY <2>1, <2>2
<1>3. \A k \in Handles : VarRefs(st2, k) + PropRefs(ob, k)
              = VarRefs(st, k) + PropRefs(ob, k) - Is(q, k) + Is(h, k)
 <2> TAKE k \in Handles
 <2>1. VarRefs(st, k) \in Nat /\ PropRefs(ob, k) \in Nat /\ VarRefs(st2, k) \in Nat
  BY VarTypes, PropTypes
 <2>2. Is(q, k) \in Int /\ Is(h, k) \in Int
  BY DEF One, Is
 <2>3. VarRefs(st2, k) = VarRefs(st, k) - Is(q, k) + Is(h, k)
  BY <1>2
 <2> HIDE DEF st2, q
 <2> QED BY <2>1, <2>2, <2>3
<1> HIDE DEF st2, q
<1>4. Good(AddRef(b, h), ob, st2, Release(s, q), u, tp)
 BY <1>1, <1>3, MoveGood
<1> QED BY <1>4 DEF st2, q

\* A property of a live object is assigned or unset.
LEMMA PropGood ==
    ASSUME NEW b, NEW ob, NEW st, NEW s, NEW u, NEW tp,
           NEW o \in Handles, NEW p \in Props, NEW h \in Handles \cup {0},
           Types(b, ob, st), CanCall(s), Good(b, ob, st, s, u, tp), ob[o].live,
           h # 0 => Usable(b, ob, s, h)
    PROVE  Good(AddRef(b, h), [ob EXCEPT ![o].prop[p] = h], st, Release(s, ob[o].prop[p]), u, tp)
<1> DEFINE ob2 == [ob EXCEPT ![o].prop[p] = h]
           q == ob[o].prop[p]
<1>1. q \in Handles \cup {0} /\ ob \in [Handles -> ObjectType]
 BY DEF Types, ObjectType
<1>2. \A k \in Handles : PropRefs(ob2, k) = PropRefs(ob, k) - Is(q, k) + Is(h, k)
 <2> TAKE k \in Handles
 <2>1. /\ ob2[o].prop[p] = h
       /\ \A g \in Handles : ob2[g].live = ob[g].live
       /\ \A g \in Handles, r \in Props :
            ~(g = o /\ r = p) => ob2[g].prop[r] = ob[g].prop[r]
  BY <1>1 DEF ObjectType
 <2> HIDE DEF ob2
 <2>2. PropRefs(ob2, k) = PropRefs(ob, k) - Is(ob[o].prop[p], k) + Is(ob2[o].prop[p], k)
  BY <2>1, PropSet
 <2> QED BY <2>1, <2>2
<1>3. \A k \in Handles : VarRefs(st, k) + PropRefs(ob2, k)
              = VarRefs(st, k) + PropRefs(ob, k) - Is(q, k) + Is(h, k)
 <2> TAKE k \in Handles
 <2>1. VarRefs(st, k) \in Nat /\ PropRefs(ob, k) \in Nat /\ PropRefs(ob2, k) \in Nat
  BY VarTypes, PropTypes
 <2>2. Is(q, k) \in Int /\ Is(h, k) \in Int
  BY DEF One, Is
 <2>3. PropRefs(ob2, k) = PropRefs(ob, k) - Is(q, k) + Is(h, k)
  BY <1>2
 <2> HIDE DEF ob2, q
 <2> QED BY <2>1, <2>2, <2>3
<1>4. \A k \in Handles : ob2[k].live = ob[k].live
 BY <1>1 DEF ObjectType
<1> HIDE DEF ob2, q
<1>5. Good(AddRef(b, h), ob2, st, Release(s, q), u, tp)
 BY <1>1, <1>3, <1>4, MoveGood
<1> QED BY <1>5 DEF ob2, q

--------------------
(* Objects come and go.                                                      *)

\* Storage is freed by one call at a time.
LEMMA StorageOnce ==
    ASSUME NEW b, NEW ob, NEW st, NEW s, NEW u, NEW tp,
           Types(b, ob, st), StackOK(s), Good(b, ob, st, s, u, tp),
           NEW i \in 1 .. Len(s), NEW j \in 1 .. Len(s),
           s[i].fn = "free_storage", s[j].fn = "free_storage", s[i].h = s[j].h
    PROVE  i = j
<1>1. Len(s) \in Nat
 BY DEF StackOK
<1>2. /\ i > 1 /\ j > 1 /\ i - 1 \in 1 .. Len(s) /\ j - 1 \in 1 .. Len(s)
      /\ \/ s[i - 1].fn = "del_ref_free" /\ s[i - 1].h = s[i].h
         \/ i = 2 /\ ~b[s[i].h].valid
      /\ \/ s[j - 1].fn = "del_ref_free" /\ s[j - 1].h = s[i].h
         \/ j = 2 /\ ~b[s[i].h].valid
 BY <1>1 DEF Good, FramesOK
<1>3. \A m \in 1 .. Len(s) : s[m].fn = "del_ref_free" =>
        /\ b[s[m].h].valid /\ b[s[m].h].refcount = 1 /\ s[m].fn \in TryFrames \cup {"del_ref"}
 BY DEF Good, FramesOK, TryFrames
<1>4. CASE s[i - 1].fn = "del_ref_free" /\ s[i - 1].h = s[i].h
 <2>1. s[j - 1].fn = "del_ref_free" /\ s[j - 1].h = s[i].h
  BY <1>2, <1>3, <1>4
 <2>2. i - 1 \in HoldersOf(s, s[i - 1].h) /\ j - 1 \in HoldersOf(s, s[i - 1].h)
  BY <1>2, <1>4, <2>1 DEF HoldersOf, HoldingFrames, TryFrames
 <2>3. CountsOK(b, ob, st, s, u)
  BY DEF Good
 <2> DEFINE m == i - 1
 <2>4. m \in 1 .. Len(s) /\ s[m].fn = "del_ref_free"
  BY <1>2, <1>4
 <2> HIDE DEF m
 <2>5. \A n \in HoldersOf(s, s[m].h) : n = m
  <3>1. AtOne(b, s, m)
   BY <1>3, <2>4 DEF AtOne
  <3>2. OnlyHolder(ob, st, s, m)
   BY <2>3, <2>4, <3>1, LastReference
  <3> QED BY <3>2 DEF OnlyHolder
 <2>6. j - 1 = i - 1
  BY <2>2, <2>5 DEF m
 <2> QED BY <2>6, <1>1
<1>5. CASE i = 2 /\ ~b[s[i].h].valid
 <2>1. j = 2
  BY <1>2, <1>3, <1>5
 <2> QED BY <1>5, <2>1
<1> QED BY <1>2, <1>4, <1>5

\* No reference to h, no release and no storage being freed.
Unused(ob, st, s, u, h) ==
    /\ RefsIn(ob, st, s, h) = 0
    /\ \A i \in 1 .. Len(s) : s[i].fn \in TryFrames \cup {"free_storage"} => s[i].h # h
    /\ ~u => ~ob[h].live

\* A handle that is not in use has no release and no storage being freed
\* before the store is torn down, and after a clean start no storage at all.
LEMMA UnusedHandle ==
    ASSUME NEW b, NEW ob, NEW st, NEW s, NEW u, NEW tp, NEW h \in Handles,
           StackOK(s), Good(b, ob, st, s, u, tp), s[1].fn \notin EndPhases, ~b[h].valid
    PROVE  Unused(ob, st, s, u, h)
<1>1. RefsIn(ob, st, s, h) = 0
 BY DEF Good, CountsOK
<1>2. \A i \in 1 .. Len(s) : s[i].fn \in TryFrames => s[i].h # h
 BY DEF Good, FramesOK
<1>3. ASSUME NEW i \in 1 .. Len(s), s[i].fn = "free_storage", s[i].h = h PROVE FALSE
 <2>1. i > 1 /\ s[i - 1].fn = "del_ref_free" /\ s[i - 1].h = h
  BY <1>3 DEF Good, FramesOK, EndPhases
 <2>2. i - 1 \in 1 .. Len(s)
  BY <2>1 DEF StackOK
 <2> QED BY <1>2, <2>1, <2>2 DEF TryFrames
<1>4. ~u => ~ob[h].live
 BY <1>3 DEF Good, LiveOK
<1> QED BY <1>1, <1>2, <1>3, <1>4 DEF Unused

\* The buckets after an object with the members pr was put at h.
NewBuckets(b, b2, h, pr) ==
    \A k \in Handles :
        IF k = h
        THEN b2[k].valid /\ b2[k].refcount = 1
        ELSE /\ b2[k].valid = b[k].valid
             /\ b2[k].destructor_called = b[k].destructor_called
             /\ b2[k].refcount = b[k].refcount + Cardinality(MembersOf(pr, k))

\* A new object at an unused handle, on the stack of the call that creates it.
LEMMA NewShape ==
    ASSUME NEW b, NEW ob, NEW st, NEW s, NEW u, NEW tp, NEW h \in Handles,
           NEW b2, NEW ob2, NEW tp2,
           Types(b, ob, st), CanCall(s), Good(b, ob, st, s, u, tp),
           s[1].fn \notin EndPhases, ~b[h].valid,
           ob2[h].live, \A k \in Handles : k # h => ob2[k].live = ob[k].live,
           NewBuckets(b, b2, h, ob2[h].prop),
           h < tp2, \A k \in Handles : k < tp => k < tp2,
           \A k \in Handles : Cardinality(MembersOf(ob2[h].prop, k)) # 0 => Usable(b, ob, s, k)
    PROVE  FramesOK(b2, ob2, s, u) /\ LiveOK(b2, ob2, s, u, tp2) /\ PhaseOK(b2, ob2, s, u)
<1>1. /\ Len(s) \in Nat /\ StackOK(s)
      /\ \A i \in 1 .. Len(s) : s[i].fn \in TryFrames \cup {"free_storage"} =>
           s[i].h \in Handles /\ s[i].h # h
 <2>1. StackOK(s) /\ Len(s) \in Nat
  BY DEF CanCall, StackOK
 <2>2. Good(b, ob, st, s, u, tp)
  OBVIOUS
 <2>3. Unused(ob, st, s, u, h)
  BY <2>1, <2>2, UnusedHandle
 <2> QED BY <2>1, <2>3 DEF StackOK, GoodFrame, Inner, Unused
<1>2. \A k \in Handles : k # h =>
        /\ b2[k].valid = b[k].valid
        /\ b2[k].destructor_called = b[k].destructor_called
        /\ Cardinality(MembersOf(ob2[h].prop, k)) = 0 => b2[k].refcount = b[k].refcount
 BY DEF NewBuckets, Types, BucketType
<1>3. FramesOK(b2, ob2, s, u)
 <2>1. FramesOK(b, ob, s, u)
  BY DEF Good
 <2>2. ASSUME NEW i \in 1 .. Len(s)
       PROVE  /\ s[i].fn \in TryFrames =>
                   /\ b2[s[i].h].valid
                   /\ b[s[i].h].destructor_called => b2[s[i].h].destructor_called
              /\ s[i].fn = "del_ref_free" =>
                   /\ b2[s[i].h].refcount = b[s[i].h].refcount
                   /\ ob2[s[i].h].live = ob[s[i].h].live
              /\ s[i].fn = "free_storage" =>
                   /\ ob2[s[i].h].live
                   /\ ~b[s[i].h].valid => ~b2[s[i].h].valid
  <3>1. s[i].fn \in TryFrames => b[s[i].h].valid
   BY <2>1 DEF FramesOK
  <3>2. s[i].fn = "free_storage" => ob[s[i].h].live
   BY <2>1 DEF FramesOK
  <3>3. s[i].fn = "del_ref_free" => Cardinality(MembersOf(ob2[h].prop, s[i].h)) = 0
   BY <1>1 DEF Usable, TryFrames
  <3> QED BY <1>1, <1>2, <3>1, <3>2, <3>3 DEF TryFrames
 <2> QED BY <1>1, <2>1, <2>2, FramesData
<1>4. LiveOK(b2, ob2, s, u, tp2)
 <2> SUFFICES ASSUME NEW k \in Handles
     PROVE  /\ b2[k].valid => ob2[k].live
            /\ b2[k].valid \/ ob2[k].live => k < tp2
            /\ ~u /\ ob2[k].live =>
                 b2[k].valid \/ \E i \in 1 .. Len(s) : s[i].fn = "free_storage" /\ s[i].h = k
  BY DEF LiveOK
 <2>1. CASE k = h
  BY <2>1 DEF NewBuckets
 <2>2. CASE k # h
  <3>1. b[k].valid => ob[k].live
   BY DEF Good, LiveOK, CanCall
  <3> QED BY <1>2, <2>2, <3>1 DEF Good, LiveOK
 <2> QED BY <2>1, <2>2
<1>5. PhaseOK(b2, ob2, s, u)
 BY DEF Good, PhaseOK, EndPhases
<1> QED BY <1>3, <1>4, <1>5

\* The counts after it, given who refers to the new object.
LEMMA NewCounts ==
    ASSUME NEW b, NEW ob, NEW st, NEW s, NEW u, NEW tp, NEW h \in Handles,
           NEW b2, NEW new \in ObjectType, NEW st2, NEW s2,
           Types(b, ob, st), StackOK(s), Good(b, ob, st, s, u, tp),
           s[1].fn \notin EndPhases, ~b[h].valid, new.live,
           NewBuckets(b, b2, h, new.prop), Len(s2) \in Nat,
           \A k \in Handles : Cardinality(MembersOf(new.prop, k)) # 0 => Usable(b, ob, s, k),
           \A k \in Handles : VarRefs(st2, k) + FrameRefs(s2, k)
                                = VarRefs(st, k) + FrameRefs(s, k) + Is(k, h)
    PROVE  CountsOK(b2, [ob EXCEPT ![h] = new], st2, s2, u)
<1> DEFINE ob2 == [ob EXCEPT ![h] = new]
           c(k) == Cardinality(MembersOf(new.prop, k))
<1>1. /\ RefsIn(ob, st, s, h) = 0 /\ Len(s) \in Nat
      /\ ~u => ~ob[h].live
 BY UnusedHandle DEF StackOK, Unused
<1>2. ASSUME NEW k \in Handles
      PROVE  /\ PropRefs(ob2, k) <= PropRefs(ob, k) + c(k)
             /\ ~u => PropRefs(ob2, k) = PropRefs(ob, k) + c(k)
             /\ c(k) \in Nat
 BY <1>1, PropNew DEF Types
<1>3. ASSUME NEW k \in Handles
      PROVE  /\ RefsIn(ob2, st2, s2, k) <= RefsIn(ob, st, s, k) + c(k) + Is(k, h)
             /\ ~u => RefsIn(ob2, st2, s2, k) = RefsIn(ob, st, s, k) + c(k) + Is(k, h)
             /\ RefsIn(ob, st, s, k) \in Nat /\ RefsIn(ob2, st2, s2, k) \in Nat
             /\ c(k) \in Nat
 <2> DEFINE v == VarRefs(st, k)    p == PropRefs(ob, k)   f == FrameRefs(s, k)
            v2 == VarRefs(st2, k)  p2 == PropRefs(ob2, k) f2 == FrameRefs(s2, k)
            x == c(k)              y == Is(k, h)
 <2>1. /\ v \in Nat /\ p \in Nat /\ f \in Nat /\ v2 \in Nat /\ p2 \in Nat /\ f2 \in Nat
       /\ x \in Nat /\ y \in Nat
  BY <1>1, <1>2, VarTypes, PropTypes, FrameTypes DEF Is
 <2>2. /\ v2 + f2 = v + f + y
       /\ p2 <= p + x
       /\ ~u => p2 = p + x
  BY <1>2
 <2> HIDE DEF v, p, f, v2, p2, f2, x, y
 <2>3. /\ v2 + p2 + f2 <= v + p + f + x + y
       /\ ~u => v2 + p2 + f2 = v + p + f + x + y
       /\ v + p + f \in Nat /\ v2 + p2 + f2 \in Nat
  BY <2>1, <2>2
 <2> QED BY <2>1, <2>3 DEF RefsIn, v, p, f, v2, p2, f2, x, y
<1> HIDE DEF ob2, c
<1>4. CountsOK(b2, ob2, st2, s2, u)
 <2> SUFFICES ASSUME NEW k \in Handles
     PROVE  /\ b2[k].valid =>
                 /\ b2[k].refcount >= RefsIn(ob2, st2, s2, k)
                 /\ ~u => b2[k].refcount = RefsIn(ob2, st2, s2, k)
            /\ ~b2[k].valid => RefsIn(ob2, st2, s2, k) = 0
  BY DEF CountsOK
 <2>1. CASE k = h
  <3>1. c(k) = 0
   BY <2>1 DEF Usable, c
  <3>2. b2[k].valid /\ b2[k].refcount = 1
   BY <2>1 DEF NewBuckets
  <3>3. Is(k, h) = 1 /\ RefsIn(ob, st, s, k) = 0
   BY <1>1, <2>1 DEF Is
  <3>4. /\ RefsIn(ob2, st2, s2, k) <= 1
        /\ ~u => RefsIn(ob2, st2, s2, k) = 1
   BY <1>3, <3>1, <3>3
  <3> QED BY <1>3, <3>2, <3>4
 <2>2. CASE k # h
  <3>1. /\ b2[k].valid = b[k].valid
        /\ b2[k].refcount = b[k].refcount + c(k)
   BY <2>2 DEF NewBuckets, c
  <3>2. Is(k, h) = 0 /\ b[k].refcount \in Int
   BY <2>2 DEF Is, Types, BucketType
  <3>3. ~b[k].valid => c(k) = 0 /\ RefsIn(ob, st, s, k) = 0
   BY DEF Usable, Good, CountsOK, c
  <3>4. b[k].valid =>
          /\ b[k].refcount >= RefsIn(ob, st, s, k)
          /\ ~u => b[k].refcount = RefsIn(ob, st, s, k)
   BY DEF Good, CountsOK
  <3>5. /\ RefsIn(ob2, st2, s2, k) <= RefsIn(ob, st, s, k) + c(k)
        /\ ~u => RefsIn(ob2, st2, s2, k) = RefsIn(ob, st, s, k) + c(k)
        /\ RefsIn(ob, st, s, k) \in Nat /\ RefsIn(ob2, st2, s2, k) \in Nat
        /\ c(k) \in Nat
   BY <1>3, <3>2
  <3>6. CASE b[k].valid
   <4> DEFINE n == RefsIn(ob2, st2, s2, k)  m == RefsIn(ob, st, s, k)
              x == b[k].refcount            y == b2[k].refcount
              d == c(k)
   <4>1. /\ n <= m + d /\ (~u => n = m + d) /\ x >= m /\ (~u => x = m) /\ y = x + d
         /\ n \in Nat /\ m \in Nat /\ x \in Int /\ d \in Nat
    BY <3>1, <3>2, <3>4, <3>5, <3>6
   <4> HIDE DEF n, m, x, y, d
   <4>2. y >= n
    BY <4>1
   <4>3. ~u => y = n
    BY <4>1
   <4>4. b2[k].valid
    BY <3>1, <3>6
   <4>5. b2[k].refcount >= RefsIn(ob2, st2, s2, k)
    BY <4>2 DEF n, y
   <4>6. ~u => b2[k].refcount = RefsIn(ob2, st2, s2, k)
    BY <4>3 DEF n, y
   <4> QED BY <4>4, <4>5, <4>6
  <3>7. CASE ~b[k].valid
   <4>1. ~b2[k].valid
    BY <3>1, <3>7
   <4>2. c(k) = 0 /\ RefsIn(ob, st, s, k) = 0
    BY <3>3, <3>7
   <4>3. \A n, m, d \in Nat : n <= m + d /\ m = 0 /\ d = 0 => n = 0
    OBVIOUS
   <4>4. RefsIn(ob2, st2, s2, k) = 0
    BY <3>5, <4>2, <4>3, Zenon
   <4> QED BY <4>1, <4>4
  <3> QED BY <3>6, <3>7
 <2> QED BY <2>1, <2>2
<1> QED BY <1>4 DEF ob2

\* A new object without members, whose constructor is called.
LEMMA NewGood ==
    ASSUME NEW b, NEW ob, NEW st, NEW s, NEW u, NEW tp, NEW h \in Handles,
           NEW b2, NEW new \in ObjectType, NEW tp2,
           Types(b, ob, st), CanCall(s), Good(b, ob, st, s, u, tp),
           s[1].fn \notin EndPhases, ~b[h].valid, new.live,
           \A p \in Props : new.prop[p] = 0,
           NewBuckets(b, b2, h, new.prop),
           h < tp2, \A k \in Handles : k < tp => k < tp2
    PROVE  Good(b2, [ob EXCEPT ![h] = new], st, Append(s, Frame("__construct", h)), u, tp2)
<1> DEFINE ob2 == [ob EXCEPT ![h] = new]
           f == Frame("__construct", h)
           t == Append(s, f)
<1>1. ob2[h] = new /\ \A k \in Handles : k # h => ob2[k] = ob[k]
 BY DEF Types
<1>2. \A k \in Handles : Cardinality(MembersOf(new.prop, k)) = 0
 <2> TAKE k \in Handles
 <2>1. MembersOf(new.prop, k) = {}
  BY DEF MembersOf, Handles
 <2> QED BY <2>1, FS_EmptySet
<1>3. StackOK(s) /\ s[1].fn \notin Halted /\ Len(s) \in Nat /\ s \in Seq(FrameType)
 BY DEF CanCall, StackOK, Halted
<1>4. /\ GoodFrame(f) /\ f.fn = "__construct" /\ f.h = h /\ f \in FrameType
 BY FrameOK DEF Inner, Frame, GoodFrame
<1> HIDE DEF f
<1>5. t \in Seq(FrameType) /\ Len(t) \in Nat
 BY <1>3, <1>4
<1>6. \A k \in Handles : VarRefs(st, k) + FrameRefs(t, k)
                           = VarRefs(st, k) + FrameRefs(s, k) + Is(k, h)
 <2> TAKE k \in Handles
 <2>1. FrameRefs(t, k) = FrameRefs(s, k) + One(Holds(f, k))
  BY <1>3, <1>4, FramePush
 <2>2. Holds(f, k) <=> k = h
  BY <1>4 DEF Holds, HoldingFrames
 <2>3. FrameRefs(t, k) = FrameRefs(s, k) + Is(k, h)
  BY <2>1, <2>2 DEF One, Is
 <2>4. VarRefs(st, k) \in Nat /\ FrameRefs(s, k) \in Nat /\ Is(k, h) \in Nat
  BY <1>3, VarTypes, FrameTypes DEF Is
 <2> HIDE DEF t
 <2> QED BY <2>3, <2>4
<1> HIDE DEF t
<1>7. CountsOK(b2, ob2, st, t, u)
 <2> HIDE DEF ob2
 <2>1. \A k \in Handles : Cardinality(MembersOf(new.prop, k)) # 0 => Usable(b, ob, s, k)
  BY <1>2
 <2> QED BY <1>3, <1>5, <1>6, <2>1, NewCounts DEF ob2
<1>8. FramesOK(b2, ob2, s, u) /\ LiveOK(b2, ob2, s, u, tp2) /\ PhaseOK(b2, ob2, s, u)
 <2> HIDE DEF ob2
 <2>1. /\ ob2[h].live /\ \A k \in Handles : k # h => ob2[k].live = ob[k].live
       /\ NewBuckets(b, b2, h, ob2[h].prop)
       /\ \A k \in Handles : Cardinality(MembersOf(ob2[h].prop, k)) # 0 => Usable(b, ob, s, k)
  BY <1>1, <1>2
 <2> QED BY <2>1, NewShape
<1> HIDE DEF ob2
<1>9. FramesOK(b2, ob2, t, u) /\ LiveOK(b2, ob2, t, u, tp2) /\ PhaseOK(b2, ob2, t, u)
 <2>1. /\ FramesOK(b2, ob2, Append(s, f), u) /\ LiveOK(b2, ob2, Append(s, f), u, tp2)
       /\ PhaseOK(b2, ob2, Append(s, f), u)
  BY <1>4, <1>8, PushShape
 <2> QED BY <2>1 DEF t
<1>10. Good(b2, ob2, st, t, u, tp2)
 BY <1>7, <1>9 DEF Good
<1> QED BY <1>10 DEF ob2, t, f

\* A clone, which an unset variable refers to and which shares the members.
LEMMA CloneGood ==
    ASSUME NEW b, NEW ob, NEW st, NEW s, NEW u, NEW tp, NEW h \in Handles,
           NEW b2, NEW new \in ObjectType, NEW tp2, NEW v \in Vars,
           Types(b, ob, st), CanCall(s), Good(b, ob, st, s, u, tp),
           s[1].fn \notin EndPhases, ~b[h].valid, new.live, st[v] = 0,
           \A p \in Props : new.prop[p] # 0 => Usable(b, ob, s, new.prop[p]),
           NewBuckets(b, b2, h, new.prop),
           h < tp2, \A k \in Handles : k < tp => k < tp2
    PROVE  Good(b2, [ob EXCEPT ![h] = new], [st EXCEPT ![v] = h], s, u, tp2)
<1> DEFINE ob2 == [ob EXCEPT ![h] = new]
           st2 == [st EXCEPT ![v] = h]
<1>1. ob2[h] = new /\ \A k \in Handles : k # h => ob2[k] = ob[k]
 BY DEF Types
<1>2. \A k \in Handles : Cardinality(MembersOf(new.prop, k)) # 0 => Usable(b, ob, s, k)
 <2> TAKE k \in Handles
 <2>1. CASE MembersOf(new.prop, k) = {}
  BY <2>1, FS_EmptySet
 <2>2. CASE MembersOf(new.prop, k) # {}
  <3>1. PICK p \in Props : new.prop[p] = k
   BY <2>2 DEF MembersOf
  <3>2. k # 0
   BY DEF Handles
  <3> QED BY <3>1, <3>2
 <2> QED BY <2>1, <2>2
<1>3. StackOK(s) /\ s[1].fn \notin Halted /\ Len(s) \in Nat /\ s \in Seq(FrameType)
 BY DEF CanCall, StackOK, Halted
<1>4. \A k \in Handles : VarRefs(st2, k) + FrameRefs(s, k)
                           = VarRefs(st, k) + FrameRefs(s, k) + Is(k, h)
 <2> TAKE k \in Handles
 <2>1. st2[v] = h /\ SameBut(st, st2, v)
  BY DEF SameBut, Types
 <2> HIDE DEF st2
 <2>2. VarRefs(st2, k) = VarRefs(st, k) - Is(st[v], k) + Is(st2[v], k)
  BY <2>1, VarSet
 <2>3. Is(st[v], k) = 0 /\ Is(st2[v], k) = Is(k, h) /\ Is(k, h) \in Nat
  BY <2>1 DEF Is, Handles
 <2>4. VarRefs(st, k) \in Nat /\ FrameRefs(s, k) \in Nat
  BY <1>3, VarTypes, FrameTypes
 <2> QED BY <2>2, <2>3, <2>4
<1>5. CountsOK(b2, ob2, st2, s, u)
 <2> HIDE DEF ob2, st2
 <2> QED BY <1>2, <1>3, <1>4, NewCounts DEF ob2
<1>6. FramesOK(b2, ob2, s, u) /\ LiveOK(b2, ob2, s, u, tp2) /\ PhaseOK(b2, ob2, s, u)
 <2> HIDE DEF ob2
 <2>1. /\ ob2[h].live /\ \A k \in Handles : k # h => ob2[k].live = ob[k].live
       /\ NewBuckets(b, b2, h, ob2[h].prop)
       /\ \A k \in Handles : Cardinality(MembersOf(ob2[h].prop, k)) # 0 => Usable(b, ob, s, k)
  BY <1>1, <1>2
 <2> QED BY <2>1, NewShape
<1> HIDE DEF ob2, st2
<1>7. Good(b2, ob2, st2, s, u, tp2)
 BY <1>5, <1>6 DEF Good
<1> QED BY <1>7 DEF ob2, st2

\* zend_objects_free_object_storage has freed the last property: the object
\* itself goes.
LEMMA FreeObjectGood ==
    ASSUME NEW b, NEW ob, NEW st, NEW s, NEW u, NEW tp, NEW h \in Handles,
           Types(b, ob, st), StackOK(s), Len(s) > 1, Good(b, ob, st, s, u, tp),
           s[Len(s)].fn = "free_storage", s[Len(s)].h = h,
           NoProps(ob, h)
    PROVE  Good(b, [ob EXCEPT ![h] = NoObject], st, SubSeq(s, 1, Len(s) - 1), u, tp)
<1> DEFINE ob2 == [ob EXCEPT ![h] = NoObject]
           r == SubSeq(s, 1, Len(s) - 1)
           n == Len(s)
<1>1. /\ r \in Seq(FrameType) /\ Len(r) = n - 1 /\ n \in Nat /\ n > 1
      /\ \A i \in 1 .. n - 1 : r[i] = s[i]
      /\ n \in 1 .. n /\ n - 1 \in 1 .. n /\ n - 1 \in 1 .. n - 1 /\ n - 1 # n
      /\ s \in Seq(FrameType) /\ s # <<>>
 BY PopSeq DEF StackOK
<1> HIDE DEF r, n
<1>2. r[1] = s[1] /\ \A i \in 1 .. n : i # n => i \in 1 .. n - 1
 BY <1>1
<1>3. ~ob2[h].live /\ \A k \in Handles : k # h => ob2[k] = ob[k]
 BY DEF Types, NoObject
<1>4. ASSUME NEW k \in Handles
      PROVE  RefsIn(ob2, st, r, k) = RefsIn(ob, st, s, k)
 <2>0. k # 0 /\ ob \in [Handles -> ObjectType]
  BY DEF Types, Handles
 <2>1. PropRefs(ob2, k) = PropRefs(ob, k)
  BY <2>0, PropDrop
 <2>2. FrameRefs(r, k) = FrameRefs(s, k) - One(Holds(s[n], k))
  BY <1>1, FramePop DEF r, n
 <2>3. ~Holds(s[n], k)
  BY DEF Holds, HoldingFrames, TryFrames, n
 <2>4. FrameRefs(s, k) \in Nat
  BY <1>1, FrameTypes DEF n
 <2>5. FrameRefs(r, k) = FrameRefs(s, k)
  BY <2>2, <2>3, <2>4 DEF One
 <2> QED BY <2>1, <2>5 DEF RefsIn
<1> HIDE DEF ob2
<1>5. CountsOK(b, ob2, st, r, u)
 BY <1>2, <1>4 DEF Good, CountsOK
<1>6. FramesOK(b, ob, s, u)
 BY DEF Good
<1>7. FramesOK(b, ob2, r, u)
 <2> SUFFICES ASSUME NEW i \in 1 .. Len(r)
     PROVE  /\ r[i].fn \in TryFrames => b[r[i].h].valid /\ b[r[i].h].destructor_called
            /\ r[i].fn = "del_ref_free" =>
                 /\ b[r[i].h].refcount = 1
                 /\ IF i = Len(r) THEN ~u => ~ob2[r[i].h].live
                    ELSE r[i + 1].fn = "free_storage" /\ r[i + 1].h = r[i].h
            /\ r[i].fn = "free_storage" =>
                 /\ ob2[r[i].h].live
                 /\ i > 1
                 /\ \/ r[i - 1].fn = "del_ref_free" /\ r[i - 1].h = r[i].h
                    \/ r[1].fn = "free_all" /\ i = 2 /\ ~b[r[i].h].valid
  BY DEF FramesOK
 <2>1. /\ i \in 1 .. n /\ i # n /\ (i = n - 1 => i + 1 = n) /\ r[i] = s[i]
       /\ i # n - 1 => r[i + 1] = s[i + 1]
       /\ i > 1 => r[i - 1] = s[i - 1]
  BY <1>1
 <2>2. s[i].fn = "del_ref_free" /\ i = n - 1 => ~ob2[s[i].h].live
  <3> HAVE s[i].fn = "del_ref_free" /\ i = n - 1
  <3>1. s[i + 1].h = s[i].h /\ i + 1 = n
   BY <1>6, <2>1 DEF FramesOK, n
  <3> QED BY <1>3, <3>1 DEF n
 <2>3. s[i].fn = "free_storage" => ob2[s[i].h].live
  <3> HAVE s[i].fn = "free_storage"
  <3>1. s[i].h # h
   BY <1>1, <2>1, StorageOnce DEF n
  <3>2. s[i].h \in Handles
   BY <2>1 DEF StackOK, GoodFrame, Inner, n
  <3> QED BY <1>3, <1>6, <2>1, <3>1, <3>2 DEF FramesOK, n
 <2>4. i = Len(r) <=> i = n - 1
  BY <1>1
 <2>5. s[i].fn \in TryFrames => b[s[i].h].valid /\ b[s[i].h].destructor_called
  BY <1>6, <2>1 DEF FramesOK, n
 <2>6. s[i].fn = "del_ref_free" =>
         /\ b[s[i].h].refcount = 1
         /\ s[i + 1].fn = "free_storage" /\ s[i + 1].h = s[i].h
  BY <1>6, <2>1 DEF FramesOK, n
 <2>7. s[i].fn = "free_storage" =>
         /\ i > 1
         /\ \/ s[i - 1].fn = "del_ref_free" /\ s[i - 1].h = s[i].h
            \/ s[1].fn = "free_all" /\ i = 2 /\ ~b[s[i].h].valid
  BY <1>6, <2>1 DEF FramesOK, n
 <2> QED BY <1>2, <2>1, <2>2, <2>3, <2>4, <2>5, <2>6, <2>7
<1>8. LiveOK(b, ob2, r, u, tp)
 <2> SUFFICES ASSUME NEW k \in Handles
     PROVE  /\ b[k].valid /\ ~ob2[k].live => r[n - 1].fn = "del_ref_free" /\ r[n - 1].h = k
            /\ b[k].valid \/ ob2[k].live => k < tp
            /\ ~u /\ ob2[k].live =>
                 b[k].valid \/ \E i \in 1 .. n - 1 : r[i].fn = "free_storage" /\ r[i].h = k
  BY <1>1 DEF LiveOK
 <2>1. CASE k = h
  <3>1. b[h].valid => s[n - 1].fn = "del_ref_free" /\ s[n - 1].h = h
   BY <1>1, <1>6 DEF FramesOK, n
  <3>2. b[h].valid => h < tp
   BY DEF Good, LiveOK
  <3> QED BY <1>1, <1>3, <2>1, <3>1, <3>2
 <2>2. CASE k # h
  <3>1. ob2[k] = ob[k]
   BY <1>3, <2>2
  <3>2. ~(b[k].valid /\ ~ob[k].live) /\ (b[k].valid \/ ob[k].live => k < tp)
   BY DEF Good, LiveOK
  <3>3. ASSUME ~u, ob[k].live, ~b[k].valid
        PROVE  \E i \in 1 .. n - 1 : r[i].fn = "free_storage" /\ r[i].h = k
   <4>1. PICK i \in 1 .. n : s[i].fn = "free_storage" /\ s[i].h = k
    BY <3>3 DEF Good, LiveOK, n
   <4>2. i \in 1 .. n - 1
    BY <1>2, <2>2, <4>1 DEF n
   <4> QED BY <1>1, <4>1, <4>2
  <3> QED BY <3>1, <3>2, <3>3
 <2> QED BY <2>1, <2>2
<1>9. PhaseOK(b, ob2, r, u)
 <2>1. PhaseOK(b, ob, s, u)
  BY DEF Good
 <2>2. s[1].fn \notin {"store_destroy", "done"}
  BY <2>1 DEF PhaseOK
 <2>3. \A i \in 1 .. Len(r) : i \in 1 .. Len(s) /\ r[i] = s[i]
  BY <1>1 DEF n
 <2> QED BY <1>2, <2>1, <2>2, <2>3 DEF PhaseOK
<1>10. Good(b, ob2, st, r, u, tp)
 BY <1>5, <1>7, <1>8, <1>9 DEF Good
<1> QED BY <1>10 DEF ob2, r

\* The handle of a freed object is given back.
LEMMA HandleBackGood ==
    ASSUME NEW b, NEW ob, NEW st, NEW s, NEW u, NEW tp, NEW h \in Handles, NEW b2,
           Types(b, ob, st), StackOK(s), Len(s) > 1, Good(b, ob, st, s, u, tp),
           s[Len(s)].fn = "del_ref_free", s[Len(s)].h = h,
           ~b2[h].valid, \A k \in Handles : k # h => b2[k] = b[k]
    PROVE  /\ Good(b2, ob, st, SubSeq(s, 1, Len(s) - 1), u, tp)
           /\ CanCall(SubSeq(s, 1, Len(s) - 1))
<1> DEFINE r == SubSeq(s, 1, Len(s) - 1)
           n == Len(s)
<1>1. /\ r \in Seq(FrameType) /\ Len(r) = n - 1 /\ n \in Nat /\ n > 1
      /\ \A i \in 1 .. n - 1 : r[i] = s[i]
      /\ n \in 1 .. n /\ n - 1 # n
      /\ s \in Seq(FrameType) /\ s # <<>>
 BY PopSeq DEF StackOK
<1> HIDE DEF r, n
<1>2. /\ r[1] = s[1] /\ r # <<>>
      /\ \A i \in 1 .. n : i # n => i \in 1 .. n - 1
      /\ \A i \in 1 .. n - 1 : i \in 1 .. n /\ i # n
 <2>1. Len(r) # 0
  BY <1>1
 <2>2. r # <<>>
  BY <2>1
 <2>3. \A i \in 1 .. n : i # n => i \in 1 .. n - 1
  BY <1>1
 <2>4. \A i \in 1 .. n - 1 : i \in 1 .. n /\ i # n
  BY <1>1
 <2>5. r[1] = s[1]
  BY <1>1
 <2> QED BY <2>2, <2>3, <2>4, <2>5, Zenon
<1>3. FramesOK(b, ob, s, u) /\ CountsOK(b, ob, st, s, u)
 BY DEF Good
<1>4. AtOne(b, s, n)
 BY <1>1, <1>3 DEF FramesOK, AtOne, TryFrames, n
<1>5. OnlyHolder(ob, st, s, n)
 BY <1>1, <1>3, <1>4, LastReference DEF n
<1>6. FramesOK(b, ob, r, u) /\ (r # <<>> => r[Len(r)].fn # "del_ref_free")
 BY <1>1, <1>3, FramesPop DEF r, n
<1>7. \A k \in Handles : FrameRefs(r, k) = FrameRefs(s, k) - Is(k, h)
 <2> TAKE k \in Handles
 <2>1. FrameRefs(r, k) = FrameRefs(s, k) - One(Holds(s[n], k))
  BY <1>1, FramePop DEF r, n
 <2>2. Holds(s[n], k) <=> k = h
  BY DEF Holds, HoldingFrames, TryFrames, n
 <2> QED BY <2>1, <2>2 DEF One, Is
<1>8. CountsOK(b2, ob, st, r, u)
 <2> SUFFICES ASSUME NEW k \in Handles
     PROVE  /\ b2[k].valid =>
                 /\ b2[k].refcount >= RefsIn(ob, st, r, k)
                 /\ ~u => b2[k].refcount = RefsIn(ob, st, r, k)
            /\ ~b2[k].valid /\ s[1].fn \notin EndPhases => RefsIn(ob, st, r, k) = 0
  BY <1>2 DEF CountsOK
 <2>1. CASE k = h
  <3>1. VarRefs(st, h) = 0 /\ PropRefs(ob, h) = 0 /\ FrameRefs(s, h) = 1
   BY <1>5 DEF OnlyHolder, n
  <3>2. FrameRefs(r, h) = 0
   BY <1>7, <3>1 DEF Is
  <3>3. RefsIn(ob, st, r, h) = 0
   BY <3>1, <3>2 DEF RefsIn
  <3> QED BY <2>1, <3>3
 <2>2. CASE k # h
  <3>1. FrameRefs(s, k) \in Nat
   BY <1>1, FrameTypes DEF n
  <3>2. FrameRefs(r, k) = FrameRefs(s, k)
   BY <1>7, <2>2, <3>1 DEF Is
  <3>3. RefsIn(ob, st, r, k) = RefsIn(ob, st, s, k) /\ b2[k] = b[k]
   BY <2>2, <3>2 DEF RefsIn
  <3> QED BY <1>3, <3>3 DEF CountsOK
 <2> QED BY <2>1, <2>2
<1>9. FramesOK(b2, ob, r, u)
 <2>1. ASSUME NEW i \in 1 .. Len(r)
       PROVE  /\ r[i].fn \in TryFrames =>
                   /\ b2[r[i].h].valid
                   /\ b[r[i].h].destructor_called => b2[r[i].h].destructor_called
              /\ r[i].fn = "del_ref_free" =>
                   /\ b2[r[i].h].refcount = b[r[i].h].refcount
                   /\ ob[r[i].h].live = ob[r[i].h].live
              /\ r[i].fn = "free_storage" =>
                   /\ ob[r[i].h].live
                   /\ ~b[r[i].h].valid => ~b2[r[i].h].valid
  <3>1. i \in 1 .. n /\ i # n /\ r[i] = s[i]
   BY <1>1, <1>2
  <3>2. r[i].fn \in TryFrames \cup {"free_storage"} => r[i].h \in Handles
   BY <3>1 DEF StackOK, GoodFrame, Inner, n
  <3>3. r[i].fn \in TryFrames => r[i].h # h
   BY <1>5, <3>1 DEF OnlyHolder, HoldersOf, HoldingFrames, n
  <3>4. r[i].fn \in TryFrames => b[r[i].h].valid
   BY <1>6 DEF FramesOK
  <3>5. r[i].fn = "free_storage" => ob[r[i].h].live
   BY <1>6 DEF FramesOK
  <3>6. r[i].fn = "free_storage" /\ ~b[r[i].h].valid => ~b2[r[i].h].valid
   BY <3>2
  <3> QED BY <3>2, <3>3, <3>4, <3>5, <3>6 DEF TryFrames
 <2>2. Len(r) \in Nat
  BY <1>1
 <2> QED BY <1>6, <2>1, <2>2 DEF FramesOK, TryFrames
<1>10. LiveOK(b2, ob, r, u, tp)
 <2> SUFFICES ASSUME NEW k \in Handles
     PROVE  /\ b2[k].valid => ob[k].live
            /\ b2[k].valid \/ ob[k].live => k < tp
            /\ ~u /\ ob[k].live =>
                 b2[k].valid \/ \E i \in 1 .. n - 1 : r[i].fn = "free_storage" /\ r[i].h = k
  BY <1>1 DEF LiveOK
 <2>0. b[k].valid \/ ob[k].live => k < tp
  BY DEF Good, LiveOK
 <2>1. CASE k = h
  <3>1. ~u => ~ob[h].live
   BY <1>1, <1>3 DEF FramesOK, n
  <3> QED BY <2>0, <2>1, <3>1
 <2>2. CASE k # h
  <3>1. b2[k] = b[k] /\ (b[k].valid => ob[k].live)
   BY <2>2 DEF Good, LiveOK
  <3>2. ASSUME ~u, ob[k].live, ~b[k].valid
        PROVE  \E i \in 1 .. n - 1 : r[i].fn = "free_storage" /\ r[i].h = k
   <4>1. PICK i \in 1 .. n : s[i].fn = "free_storage" /\ s[i].h = k
    BY <3>2 DEF Good, LiveOK, n
   <4>2. i \in 1 .. n - 1
    BY <1>2, <4>1 DEF n
   <4> QED BY <1>1, <4>1, <4>2
  <3> QED BY <2>0, <3>1, <3>2
 <2> QED BY <2>1, <2>2
<1>11. PhaseOK(b, ob, s, u) /\ s[1].fn \notin {"store_destroy", "done", "crashed"}
 BY <1>1 DEF Good, PhaseOK, StackOK, Halted, n
<1>12. PhaseOK(b2, ob, r, u)
 <2>1. \A i \in 1 .. Len(r) : i \in 1 .. Len(s) /\ r[i] = s[i]
  BY <1>1, <1>2 DEF n
 <2>2. \A k \in Handles : ~b[k].valid => ~b2[k].valid
  OBVIOUS
 <2> QED BY <1>2, <1>11, <2>1, <2>2 DEF PhaseOK
<1>13. CanCall(r)
 <2>1. StackOK(r)
  BY <1>1, PopOK DEF r, n
 <2> QED BY <1>2, <1>6, <1>11, <2>1 DEF CanCall
<1>14. Good(b2, ob, st, r, u, tp)
 BY <1>8, <1>9, <1>10, <1>12 DEF Good
<1> QED BY <1>13, <1>14 DEF r

\* The destructor is done and the count still one: the storage is freed.
LEMMA FreeingGood ==
    ASSUME NEW b, NEW ob, NEW st, NEW s, NEW u, NEW tp, NEW g, NEW f,
           Types(b, ob, st), StackOK(s), Len(s) > 1, Good(b, ob, st, s, u, tp),
           s[Len(s)].fn = "del_ref_dtor", b[s[Len(s)].h].refcount = 1,
           GoodFrame(g), g.fn = "del_ref_free", g.h = s[Len(s)].h,
           GoodFrame(f), f.fn = "free_storage", f.h = s[Len(s)].h
    PROVE  Good(b, ob, st, Append(Append(SubSeq(s, 1, Len(s) - 1), g), f), u, tp)
<1> DEFINE r == SubSeq(s, 1, Len(s) - 1)
           q == Append(r, g)
           t == Append(q, f)
           n == Len(s)
           h == s[Len(s)].h
<1>1. /\ r \in Seq(FrameType) /\ Len(r) = n - 1 /\ n \in Nat /\ n > 1
      /\ \A i \in 1 .. n - 1 : r[i] = s[i]
      /\ s \in Seq(FrameType) /\ s # <<>> /\ n \in 1 .. n
      /\ g \in FrameType /\ f \in FrameType /\ h \in Handles
 BY PopSeq DEF StackOK, GoodFrame, Inner, TryFrames
<1> HIDE DEF r, n
<1>2. /\ q \in Seq(FrameType) /\ Len(q) = n
      /\ \A i \in 1 .. n - 1 : q[i] = s[i]
      /\ q[n] = g
 BY <1>1
<1> HIDE DEF q
<1>3. /\ t \in Seq(FrameType) /\ Len(t) = n + 1
      /\ \A i \in 1 .. n - 1 : t[i] = s[i]
      /\ t[n] = g /\ t[n + 1] = f
 BY <1>1, <1>2
<1>4. FramesOK(b, ob, s, u) /\ PhaseOK(b, ob, s, u) /\ CountsOK(b, ob, st, s, u)
 BY DEF Good
<1>5. r # <<>> => r[Len(r)].fn # "del_ref_free"
 BY <1>1, <1>4, FramesPop DEF r, n
<1>6. s[n - 1].fn # "del_ref_free"
 <2>1. Len(r) # 0 /\ n - 1 \in 1 .. n - 1
  BY <1>1
 <2>2. r # <<>> /\ r[Len(r)] = s[n - 1]
  BY <1>1, <2>1
 <2> QED BY <1>5, <2>2
<1>7. \A k \in Handles : FrameRefs(t, k) = FrameRefs(s, k)
 <2> TAKE k \in Handles
 <2>1. FrameRefs(r, k) = FrameRefs(s, k) - One(Holds(s[n], k)) /\ FrameRefs(s, k) \in Nat
  BY <1>1, FramePop, FrameTypes DEF r, n
 <2>2. FrameRefs(q, k) = FrameRefs(r, k) + One(Holds(g, k))
  BY <1>1, FramePush DEF q
 <2>3. FrameRefs(t, k) = FrameRefs(q, k) + One(Holds(f, k))
  BY <1>1, <1>2, FramePush
 <2>4. /\ Holds(s[n], k) <=> k = h
       /\ Holds(g, k) <=> k = h
       /\ ~Holds(f, k)
  BY DEF Holds, HoldingFrames, TryFrames, n
 <2> HIDE DEF t
 <2> QED BY <2>1, <2>2, <2>3, <2>4 DEF One
<1> HIDE DEF t, h
<1>8. t[1] = s[1]
 BY <1>1, <1>3
<1>9. CountsOK(b, ob, st, t, u)
 BY <1>4, <1>7, <1>8 DEF CountsOK, RefsIn
<1>10. b[h].valid /\ b[h].destructor_called /\ ob[h].live
 BY <1>1, <1>4 DEF FramesOK, TryFrames, Good, LiveOK, h, n
<1>11. FramesOK(b, ob, t, u)
 <2> SUFFICES ASSUME NEW i \in 1 .. Len(t)
     PROVE  /\ t[i].fn \in TryFrames => b[t[i].h].valid /\ b[t[i].h].destructor_called
            /\ t[i].fn = "del_ref_free" =>
                 /\ b[t[i].h].refcount = 1
                 /\ IF i = Len(t) THEN ~u => ~ob[t[i].h].live
                    ELSE t[i + 1].fn = "free_storage" /\ t[i + 1].h = t[i].h
            /\ t[i].fn = "free_storage" =>
                 /\ ob[t[i].h].live
                 /\ i > 1
                 /\ \/ t[i - 1].fn = "del_ref_free" /\ t[i - 1].h = t[i].h
                    \/ t[1].fn = "free_all" /\ i = 2 /\ ~b[t[i].h].valid
  BY DEF FramesOK
 <2>1. i \in 1 .. n - 1 \/ i = n \/ i = n + 1
  BY <1>1, <1>3
 <2>2. CASE i \in 1 .. n - 1
  <3>1. /\ i \in 1 .. n /\ i # n /\ i # Len(t) /\ t[i] = s[i]
        /\ i # n - 1 => t[i + 1] = s[i + 1]
        /\ i > 1 => t[i - 1] = s[i - 1]
   <4>1. i \in 1 .. n /\ i # n /\ i # n + 1 /\ (i # n - 1 => i + 1 \in 1 .. n - 1)
    BY <1>1, <2>2
   <4>2. i > 1 => i - 1 \in 1 .. n - 1
    BY <1>1, <2>2
   <4>3. t[i] = s[i] /\ i # Len(t)
    BY <1>3, <2>2, <4>1
   <4> QED BY <1>3, <4>1, <4>2, <4>3, Zenon
  <3>2. s[i].fn \in TryFrames => b[s[i].h].valid /\ b[s[i].h].destructor_called
   BY <1>4, <3>1 DEF FramesOK, n
  <3>3. s[i].fn = "del_ref_free" =>
          /\ i # n - 1
          /\ b[s[i].h].refcount = 1
          /\ s[i + 1].fn = "free_storage" /\ s[i + 1].h = s[i].h
   BY <1>4, <1>6, <3>1 DEF FramesOK, n
  <3>4. s[i].fn = "free_storage" =>
          /\ ob[s[i].h].live
          /\ i > 1
          /\ \/ s[i - 1].fn = "del_ref_free" /\ s[i - 1].h = s[i].h
             \/ s[1].fn = "free_all" /\ i = 2 /\ ~b[s[i].h].valid
   BY <1>4, <3>1 DEF FramesOK, n
  <3> QED BY <1>8, <3>1, <3>2, <3>3, <3>4
 <2>3. CASE i = n
  <3>1. t[i] = g /\ t[i + 1] = f /\ i # Len(t)
   BY <1>1, <1>3, <2>3
  <3> QED BY <1>10, <3>1 DEF h
 <2>4. CASE i = n + 1
  <3>1. t[i] = f /\ t[i - 1] = g /\ i > 1
   BY <1>1, <1>3, <2>4
  <3> QED BY <1>10, <3>1 DEF h, TryFrames
 <2> QED BY <2>1, <2>2, <2>3, <2>4
<1>12. LiveOK(b, ob, t, u, tp)
 <2> SUFFICES ASSUME NEW k \in Handles
     PROVE  /\ b[k].valid => ob[k].live
            /\ b[k].valid \/ ob[k].live => k < tp
            /\ ~u /\ ob[k].live =>
                 b[k].valid \/ \E i \in 1 .. Len(t) : t[i].fn = "free_storage" /\ t[i].h = k
  BY DEF LiveOK
 <2>1. (b[k].valid => ob[k].live) /\ (b[k].valid \/ ob[k].live => k < tp)
  BY DEF Good, LiveOK
 <2>2. ASSUME ~u, ob[k].live, ~b[k].valid
       PROVE  \E i \in 1 .. Len(t) : t[i].fn = "free_storage" /\ t[i].h = k
  <3>1. PICK i \in 1 .. n : s[i].fn = "free_storage" /\ s[i].h = k
   BY <2>2 DEF Good, LiveOK, n
  <3>2. i # n
   BY <3>1 DEF n
  <3>3. i \in 1 .. n - 1 /\ i \in 1 .. Len(t)
   BY <1>1, <1>3, <3>2
  <3> QED BY <1>3, <3>1, <3>3
 <2> QED BY <2>1, <2>2
<1>13. PhaseOK(b, ob, t, u)
 <2>1. s[1].fn \notin {"store_destroy", "done"}
  BY <1>1, <1>4 DEF PhaseOK, n
 <2>2. \A i \in 1 .. Len(t) : i \in 1 .. n - 1 \/ i = n \/ i = n + 1
  BY <1>1, <1>3
 <2>3. s[1].fn \in EndPhases => \A i \in 1 .. n - 1 : s[i].fn \notin {"__construct", "__destruct"}
  <3>1. \A i \in 1 .. n - 1 : i \in 1 .. n
   BY <1>1
  <3> QED BY <1>4, <3>1 DEF PhaseOK, n
 <2>4. s[1].fn \in EndPhases => \A i \in 1 .. Len(t) : t[i].fn \notin {"__construct", "__destruct"}
  BY <1>3, <2>2, <2>3
 <2> QED BY <1>4, <1>8, <2>1, <2>4 DEF PhaseOK
<1>14. Good(b, ob, st, t, u, tp)
 BY <1>9, <1>11, <1>12, <1>13 DEF Good
<1> QED BY <1>14 DEF t, q, r

\* What the frame f of a phase counted on b, the next phase's frame g counts on b2.
Handed(b, b2, f, g) ==
    \A k \in Handles :
        /\ b2[k].valid = b[k].valid
        /\ b2[k].refcount = b[k].refcount - One(Holds(f, k)) + One(Holds(g, k))

AllFreed(ob) == \A k \in Handles : ~ob[k].live

\* The request moves from one phase to the next.
LEMMA SingleGood ==
    ASSUME NEW b, NEW ob, NEW st, NEW s, NEW u, NEW tp, NEW g,
           NEW b2 \in [Handles -> BucketType],
           Types(b, ob, st), StackOK(s), Len(s) = 1, Good(b, ob, st, s, u, tp),
           GoodFrame(g), g.fn \in Phases \ {"mark"}, Handed(b, b2, s[1], g),
           s[1].fn \in EndPhases => g.fn \in EndPhases,
           g.fn = "call_dtors_dtor" => b[g.h].valid,
           g.fn = "free_all" => g.h = 1,
           g.fn \in {"store_destroy", "done"} /\ ~u => AllFreed(ob)
    PROVE  Good(b2, ob, st, <<g>>, u, tp)
<1> DEFINE t == <<g>>
<1>1. Len(t) = 1 /\ t[1] = g /\ Len(t) \in Nat /\ Len(s) \in Nat
 OBVIOUS
<1>2. s[1].fn \in Phases /\ s[1] \in FrameType
 BY DEF StackOK, GoodFrame
<1>3. /\ s[1].fn \notin TryFrames \cup {"free_storage"}
      /\ g.fn \notin TryFrames \cup {"free_storage", "__construct", "__destruct", "del_ref"}
 BY <1>2 DEF Phases, TryFrames
<1>4. s = <<s[1]>>
 BY DEF StackOK
<1>5. ASSUME NEW k \in Handles
      PROVE  /\ b2[k].valid = b[k].valid
             /\ b2[k].refcount - b[k].refcount = RefsIn(ob, st, t, k) - RefsIn(ob, st, s, k)
             /\ ~b[k].valid => RefsIn(ob, st, t, k) <= RefsIn(ob, st, s, k) \/ g.fn \in EndPhases
 <2> DEFINE x == One(Holds(s[1], k))
            y == One(Holds(g, k))
            v == VarRefs(st, k)
            p == PropRefs(ob, k)
            c == b[k].refcount
            d == b2[k].refcount
 <2>1. x \in {0, 1} /\ y \in {0, 1} /\ v \in Nat /\ p \in Nat /\ c \in Int
  BY VarTypes, PropTypes DEF One, Types, BucketType
 <2>2. FrameRefs(t, k) = y /\ FrameRefs(s, k) = x
  BY <1>4, FrameSingle
 <2>3. d = c - x + y /\ b2[k].valid = b[k].valid
  BY DEF Handed
 <2>4. ~b[k].valid => y = 0
  BY <1>3 DEF One, Holds, HoldingFrames
 <2> HIDE DEF x, y, v, p, c, d
 <2>5. d - c = (v + p + y) - (v + p + x) /\ (y = 0 => v + p + y <= v + p + x)
  BY <2>1, <2>3
 <2> QED BY <2>2, <2>3, <2>4, <2>5 DEF RefsIn, v, p, c, d
<1> HIDE DEF t
<1>6. CountsOK(b2, ob, st, t, u)
 <2>1. CountsOK(b, ob, st, s, u) /\ b \in [Handles -> BucketType]
  BY DEF Good, Types
 <2> QED BY <1>1, <1>5, <2>1, CountsStep
<1>7. FramesOK(b2, ob, t, u)
 BY <1>3, FramesSingle DEF t
<1>8. LiveOK(b2, ob, t, u, tp)
 <2> SUFFICES ASSUME NEW k \in Handles
     PROVE  /\ b2[k].valid => ob[k].live
            /\ b2[k].valid \/ ob[k].live => k < tp
            /\ ~u /\ ob[k].live => b2[k].valid
  BY DEF LiveOK
 <2>1. /\ b[k].valid => ob[k].live
       /\ b[k].valid \/ ob[k].live => k < tp
       /\ ~u /\ ob[k].live => b[k].valid
  BY <1>1, <1>3 DEF Good, LiveOK, TryFrames
 <2> QED BY <1>5, <2>1
<1>9. PhaseOK(b2, ob, t, u)
 <2>1. \A k \in Handles : ~(k < 1)
  BY DEF Handles
 <2> QED BY <1>1, <1>3, <2>1 DEF PhaseOK, AllFreed
<1>10. Good(b2, ob, st, t, u, tp)
 BY <1>6, <1>7, <1>8, <1>9 DEF Good
<1> QED BY <1>10 DEF t

\* zend_objects_store_free_object_storage invalidates a bucket, and frees the
\* storage of one that was valid.
LEMMA FreeAllGood ==
    ASSUME NEW b, NEW ob, NEW st, NEW s, NEW u, NEW tp, NEW g, NEW f, NEW h \in Handles, NEW b2,
           Types(b, ob, st), StackOK(s), Len(s) = 1, Good(b, ob, st, s, u, tp),
           s[1].fn = "free_all", s[1].h = h,
           GoodFrame(g), g.fn = "free_all", g.h = h + 1,
           GoodFrame(f), f.fn = "free_storage", f.h = h,
           ~b2[h].valid, \A k \in Handles : k # h => b2[k] = b[k]
    PROVE  /\ ~b[h].valid => Good(b2, ob, st, <<g>>, u, tp)
           /\ b[h].valid => Good(b2, ob, st, Append(<<g>>, f), u, tp)
<1>1. g \in FrameType /\ f \in FrameType /\ s = <<s[1]>> /\ s[1] \in FrameType
 BY DEF GoodFrame, StackOK
<1>2. ASSUME NEW t, t[1] = g, Len(t) \in 1 .. 2, Len(t) = 2 => t[2] = f,
             Len(t) = 1 <=> ~b[h].valid, \A k \in Handles : FrameRefs(t, k) = FrameRefs(s, k)
      PROVE  Good(b2, ob, st, t, u, tp)
 <2>0. CountsOK(b, ob, st, s, u) /\ LiveOK(b, ob, s, u, tp) /\ PhaseOK(b, ob, s, u)
  BY DEF Good
 <2>1. CountsOK(b2, ob, st, t, u)
  <3>1. \A k \in Handles : RefsIn(ob, st, t, k) = RefsIn(ob, st, s, k)
   BY <1>2 DEF RefsIn
  <3>2. \A k \in Handles : b2[k].valid => b2[k] = b[k]
   OBVIOUS
  <3> QED BY <1>2, <2>0, <3>1, <3>2 DEF CountsOK, EndPhases
 <2>2. \A i \in 1 .. Len(t) : i = 1 \/ (i = 2 /\ Len(t) = 2)
  <3>1. Len(t) = 1 \/ Len(t) = 2
   BY <1>2
  <3>2. \A i \in 1 .. 1 : i = 1
   OBVIOUS
  <3>3. \A i \in 1 .. 2 : i = 1 \/ i = 2
   OBVIOUS
  <3> QED BY <3>1, <3>2, <3>3
 <2>3. b[h].valid => ob[h].live
  BY <2>0 DEF LiveOK
 <2>4. FramesOK(b2, ob, t, u)
  BY <1>2, <2>2, <2>3 DEF FramesOK, TryFrames
 <2>5. LiveOK(b2, ob, t, u, tp)
  <3> SUFFICES ASSUME NEW k \in Handles
      PROVE  /\ b2[k].valid => ob[k].live
             /\ b2[k].valid \/ ob[k].live => k < tp
             /\ ~u /\ ob[k].live =>
                  b2[k].valid \/ \E i \in 1 .. Len(t) : t[i].fn = "free_storage" /\ t[i].h = k
   BY DEF LiveOK
  <3>1. /\ b[k].valid => ob[k].live
        /\ b[k].valid \/ ob[k].live => k < tp
        /\ ~u /\ ob[k].live => b[k].valid
   BY <2>0 DEF LiveOK
  <3>2. b[h].valid => 2 \in 1 .. Len(t) /\ t[2] = f
   BY <1>2
  <3> QED BY <3>1, <3>2
 <2>6. PhaseOK(b2, ob, t, u)
  <3>1. \A k \in Handles : k < h + 1 => ~b2[k].valid
   <4> TAKE k \in Handles
   <4>1. k < h + 1 => k < h \/ k = h
    BY DEF Handles
   <4> QED BY <2>0, <4>1 DEF PhaseOK
  <3> QED BY <1>2, <2>2, <3>1 DEF PhaseOK
 <2> QED BY <2>1, <2>4, <2>5, <2>6 DEF Good
<1>3. ASSUME NEW k \in Handles
      PROVE  FrameRefs(s, k) = 0 /\ FrameRefs(<<g>>, k) = 0 /\ FrameRefs(Append(<<g>>, f), k) = 0
 <2>1. FrameRefs(s, k) = One(Holds(s[1], k)) /\ FrameRefs(<<g>>, k) = One(Holds(g, k))
  BY <1>1, FrameSingle
 <2>2. ~Holds(s[1], k) /\ ~Holds(g, k) /\ ~Holds(f, k)
  BY DEF Holds, HoldingFrames, TryFrames
 <2>3. FrameRefs(Append(<<g>>, f), k) = FrameRefs(<<g>>, k) + One(Holds(f, k))
  <3>1. <<g>> \in Seq(FrameType)
   BY <1>1
  <3> QED BY <1>1, <3>1, FramePush
 <2>4. One(Holds(s[1], k)) = 0 /\ One(Holds(g, k)) = 0 /\ One(Holds(f, k)) = 0
  BY <2>2 DEF One
 <2> QED BY <2>1, <2>3, <2>4
<1>4. ASSUME ~b[h].valid PROVE Good(b2, ob, st, <<g>>, u, tp)
 <2> DEFINE t == <<g>>
 <2>1. t[1] = g /\ Len(t) = 1
  OBVIOUS
 <2>2. \A k \in Handles : FrameRefs(t, k) = FrameRefs(s, k)
  BY <1>3
 <2> HIDE DEF t
 <2>3. Good(b2, ob, st, t, u, tp)
  BY <1>2, <1>4, <2>1, <2>2
 <2> QED BY <2>3 DEF t
<1>5. ASSUME b[h].valid PROVE Good(b2, ob, st, Append(<<g>>, f), u, tp)
 <2> DEFINE t == Append(<<g>>, f)
 <2>1. t[1] = g /\ t[2] = f /\ Len(t) = 2
  BY <1>1
 <2>2. \A k \in Handles : FrameRefs(t, k) = FrameRefs(s, k)
  BY <1>3
 <2> HIDE DEF t
 <2>3. Good(b2, ob, st, t, u, tp)
  BY <1>2, <1>5, <2>1, <2>2
 <2> QED BY <2>3 DEF t
<1> QED BY <1>4, <1>5

--------------------
(* The inductive invariant. *)

GoodNow == Good(bucket, object, symbol_table, stack, unclean, top)

\* While the request is clean, destructor_called is set only by a call of the
\* destructor or by a constructor that threw.
DtorInv ==
    ~Ended /\ ~unclean => \A h \in Handles :
        bucket[h].valid /\ bucket[h].destructor_called /\ object[h].destr = "public"
          => settled[h] = 1

RefsOK == Phase # "crashed" => GoodNow /\ FreeListExact /\ DtorInv

RefsInv == Inv /\ RefsOK

\* The invariant where no phase has halted.
LEMMA Now ==
    ASSUME RefsInv, Phase \notin Halted
    PROVE  /\ Types(bucket, object, symbol_table) /\ StackOK(stack) /\ unclean \in BOOLEAN
           /\ GoodNow /\ FreeListExact /\ DtorInv
           /\ bucket \in [Handles -> BucketType] /\ object \in [Handles -> ObjectType]
           /\ Top.fn # "del_ref_free" /\ Phase # "store_destroy" => CanCall(stack)
<1>1. GoodNow /\ FreeListExact /\ DtorInv /\ Inv
 BY DEF RefsInv, RefsOK, Halted
<1>2. Types(bucket, object, symbol_table) /\ StackOK(stack) /\ unclean \in BOOLEAN
 BY <1>1 DEF Inv, StoreOK, HeapOK, Types, BucketType, ObjectType
<1> QED BY <1>1, <1>2 DEF CanCall, Phase, Top, Halted, Types

\* Ended in the terms of the counting lemmas.
LEMMA EndedIs == Ended <=> stack[1].fn \in EndPhases
BY DEF Ended, EndPhases, Phase

\* What user code can name is usable.
LEMMA UserNow ==
    ASSUME RefsInv, InUserCode
    PROVE  /\ Types(bucket, object, symbol_table) /\ StackOK(stack) /\ unclean \in BOOLEAN
           /\ Phase \notin Halted /\ stack[1].fn \notin Halted
           /\ GoodNow /\ FreeListExact /\ DtorInv
           /\ CanCall(stack) /\ stack[1].fn \notin EndPhases
           /\ Top.fn \in {"__construct", "__destruct"} =>
                Top.h \in Handles /\ Usable(bucket, object, stack, Top.h)
           /\ \A k \in Accessible : k \in Handles /\ Usable(bucket, object, stack, k)
<1>1. /\ Inv /\ Phase \notin Halted /\ Accessible \subseteq Handles
      /\ Top.fn \in {"__construct", "__destruct"} => Top.h \in Handles
 BY UserTop DEF RefsInv
<1>2. /\ Types(bucket, object, symbol_table) /\ StackOK(stack) /\ unclean \in BOOLEAN
      /\ GoodNow /\ FreeListExact /\ DtorInv
 BY <1>1, Now
<1>3. Top.fn # "del_ref_free" /\ Len(stack) \in 1 .. Len(stack) /\ Top.fn \in UserFrames
 BY <1>2, TopOK DEF InUserCode, UserFrames, UserPhases, Inv
<1>4. stack[1].fn \notin EndPhases
 <2>1. CASE Top.fn \in {"__construct", "__destruct"}
  BY <1>2, <1>3, <2>1 DEF GoodNow, Good, PhaseOK, Top
 <2>2. CASE Top.fn \in UserPhases
  <3>1. Phase = Top.fn
   BY <1>2, <2>2, TopOK DEF UserPhases, Phases, Inv
  <3> QED BY <2>2, <3>1 DEF Phase, UserPhases, EndPhases
 <2> QED BY <1>3, <2>1, <2>2 DEF UserFrames
<1>5. CanCall(stack)
 BY <1>2, <1>3, <1>4 DEF CanCall, EndPhases, Top
<1>6. ASSUME NEW k \in Handles,
             VarRefs(symbol_table, k) >= 1 \/ PropRefs(object, k) >= 1
             \/ \E i \in HoldersOf(stack, k) : stack[i].fn # "del_ref_free"
      PROVE  Usable(bucket, object, stack, k)
 BY <1>2, <1>4, <1>6, UsedIsUsable DEF GoodNow
<1>7. ASSUME Top.fn \in {"__construct", "__destruct"}
      PROVE  Top.h \in Handles /\ Usable(bucket, object, stack, Top.h)
 <2>1. Len(stack) \in HoldersOf(stack, Top.h) /\ stack[Len(stack)].fn # "del_ref_free"
  BY <1>3, <1>7 DEF HoldersOf, HoldingFrames, Top
 <2> QED BY <1>1, <1>6, <1>7, <2>1
<1>8. ASSUME NEW k \in Held \ {0} PROVE k \in Handles /\ Usable(bucket, object, stack, k)
 <2>1. CASE \E v \in Vars : symbol_table[v] = k
  <3>1. PICK v \in Vars : symbol_table[v] = k
   BY <2>1
  <3>2. k \in Handles /\ VarRefs(symbol_table, k) >= 1
   BY <1>2, <1>8, <3>1, VarCounts DEF Types
  <3> QED BY <1>6, <3>2
 <2>2. CASE Top.fn \in {"__construct", "__destruct"} /\ k = Top.h
  BY <1>7, <2>2
 <2> QED BY <1>8, <2>1, <2>2 DEF Held
<1>9. ASSUME NEW k \in Accessible PROVE k \in Handles /\ Usable(bucket, object, stack, k)
 <2>1. CASE k \in Held
  BY <1>8, <1>9, <2>1 DEF Accessible
 <2>2. CASE k \notin Held
  <3>1. PICK o \in Held \ {0}, p \in Props : k = object[o].prop[p]
   BY <1>9, <2>2 DEF Accessible
  <3>2. o \in Handles /\ object[o].live
   BY <1>8, <3>1 DEF Usable
  <3>3. PropRefs(object, k) >= 1 /\ k \in Handles
   BY <1>1, <1>9, <3>1, <3>2, PropCounts
  <3> QED BY <1>6, <3>3
 <2> QED BY <2>1, <2>2
<1> QED BY <1>1, <1>2, <1>4, <1>5, <1>7, <1>9 DEF Phase

--------------------
(* The free list and the destructors. *)

\* Which handles are used and listed does not change.
ListSame ==
    /\ UNCHANGED <<free_list, top>>
    /\ \A h \in Handles : bucket'[h].valid = bucket[h].valid
    /\ Ended => Ended'

\* The free list stays exact when no handle is taken or given back.
LEMMA FreeListSame == ASSUME FreeListExact, ListSame PROVE FreeListExact'
BY DEF FreeListExact, ListSame

\* While the request is clean, no destructor is passed over.
DtorSame ==
    /\ Ended => Ended'
    /\ unclean => unclean'
    /\ ~unclean' => \A h \in Handles :
          bucket'[h].valid /\ bucket'[h].destructor_called /\ object'[h].destr = "public" =>
             \/ settled'[h] = 1
             \/ /\ bucket[h].valid /\ bucket[h].destructor_called
                /\ object[h].destr = "public" /\ settled'[h] = settled[h]

\* A step that passes no destructor over.
LEMMA DtorInvSame == ASSUME DtorInv, DtorSame PROVE DtorInv'
BY DEF DtorInv, DtorSame

\* put takes the handle it returns off the free list, or the next one.
LEMMA PutNow ==
    ASSUME RefsInv, InUserCode, created < MaxCreated, NEW added,
           zend_objects_store_put(NextHandle, added),
           \A h \in Handles : added[h].valid = bucket[h].valid,
           added \in [Handles -> BucketType], Ended => Ended'
    PROVE  /\ NextHandle \in Handles /\ ~bucket[NextHandle].valid
           /\ NextHandle < top' /\ \A h \in Handles : h < top => h < top'
           /\ FreeListExact'
<1> DEFINE h == NextHandle
           L == free_list
<1>1. /\ GoodNow /\ FreeListExact /\ ~Ended /\ Inv
 BY UserNow, EndedIs DEF RefsInv
<1>2. h \in Handles /\ top \in Nat /\ L \in Seq(Handles)
 BY <1>1, UserNow, PutOK DEF Inv, StoreOK
<1>3. /\ \A i, j \in 1 .. Len(L) : i # j => L[i] # L[j]
      /\ {L[i] : i \in 1 .. Len(L)} = {g \in Handles : g < top /\ ~bucket[g].valid}
 BY <1>1 DEF FreeListExact
<1>4. /\ bucket'[h].valid
      /\ \A g \in Handles : g # h => bucket'[g].valid = bucket[g].valid
 BY <1>2 DEF zend_objects_store_put
<1>5. CASE L # <<>>
 <2>1. h = L[1] /\ Len(L) >= 1 /\ Len(L) \in Nat /\ 1 \in 1 .. Len(L)
  BY <1>2, <1>5 DEF NextHandle
 <2>2. ~bucket[h].valid /\ h < top
  BY <1>3, <2>1
 <2>3. free_list' = Tail(L) /\ top' = top
  BY <1>5 DEF zend_objects_store_put
 <2>4. /\ Len(free_list') = Len(L) - 1
       /\ \A i \in 1 .. Len(L) - 1 : free_list'[i] = L[i + 1]
  BY <1>2, <1>5, <2>3
 <2>5. \A i \in 1 .. Len(L) - 1 : i + 1 \in 1 .. Len(L) /\ i + 1 # 1
  BY <2>1
 <2>6. \A i \in 1 .. Len(L) : i # 1 => i - 1 \in 1 .. Len(L) - 1 /\ (i - 1) + 1 = i
  BY <2>1
 <2>7. \A i, j \in 1 .. Len(L) - 1 : i # j => i + 1 # j + 1
  BY <2>1
 <2>8. \A i, j \in 1 .. Len(free_list') : i # j => free_list'[i] # free_list'[j]
  BY <1>3, <2>4, <2>5, <2>7
 <2>9. {free_list'[i] : i \in 1 .. Len(free_list')} = {g \in Handles : g < top' /\ ~bucket'[g].valid}
  <3>1. ASSUME NEW i \in 1 .. Len(L) - 1
        PROVE  free_list'[i] \in Handles /\ free_list'[i] < top' /\ ~bucket'[free_list'[i]].valid
   <4>1. free_list'[i] = L[i + 1] /\ i + 1 \in 1 .. Len(L) /\ i + 1 # 1
    BY <2>4, <2>5
   <4>2. L[i + 1] # h /\ L[i + 1] \in {L[m] : m \in 1 .. Len(L)}
    BY <1>3, <2>1, <4>1
   <4> QED BY <1>3, <1>4, <2>3, <4>1, <4>2
  <3>2. ASSUME NEW g \in Handles, g < top', ~bucket'[g].valid
        PROVE  \E i \in 1 .. Len(L) - 1 : free_list'[i] = g
   <4>1. g # h /\ ~bucket[g].valid /\ g < top
    BY <1>4, <2>3, <3>2
   <4>2. PICK m \in 1 .. Len(L) : L[m] = g
    BY <1>3, <4>1
   <4>3. m # 1
    BY <2>1, <4>1, <4>2
   <4> QED BY <2>4, <2>6, <4>2, <4>3
  <3> QED BY <2>4, <3>1, <3>2
 <2>10. FreeListExact'
  BY <2>8, <2>9 DEF FreeListExact
 <2> QED BY <1>2, <2>2, <2>3, <2>10
<1>6. CASE L = <<>>
 <2>1. h = top /\ top' = top + 1 /\ free_list' = L /\ Len(L) = 0
  BY <1>6 DEF NextHandle, zend_objects_store_put
 <2>2. \A g \in Handles : bucket[g].valid => g < top
  BY <1>1 DEF GoodNow, Good, LiveOK
 <2>3. ~bucket[h].valid
  BY <1>2, <2>1, <2>2
 <2>4. \A g \in Handles : g < top' <=> g < top \/ g = h
  BY <1>2, <2>1 DEF Handles
 <2>5. {g \in Handles : g < top /\ ~bucket[g].valid} = {}
  BY <1>3, <2>1
 <2>6. {g \in Handles : g < top' /\ ~bucket'[g].valid} = {}
  BY <1>4, <2>4, <2>5
 <2>7. FreeListExact'
  BY <2>1, <2>6 DEF FreeListExact
 <2> QED BY <1>2, <2>1, <2>3, <2>4, <2>7
<1> QED BY <1>5, <1>6

\* A bailout from the stack s, on the buckets b that a normal return leaves.
LEMMA BailoutNow ==
    ASSUME RefsInv, NEW s, NEW b,
           StackOK(s), Ended => s[1].fn \in EndPhases, s[1].fn \notin Halted,
           s[Len(s)].fn # "del_ref_free",
           b \in [Handles -> BucketType],
           Good(b, object, symbol_table, s, unclean, top),
           bucket' \in {b, mark_destructed(b)}, Bailout(s),
           UNCHANGED <<top, object, symbol_table>>
    PROVE  /\ GoodNow' /\ DtorInv' /\ (Ended => Ended')
           /\ \A h \in Handles : bucket'[h].valid = b[h].valid
<1>1. Types(b, object, symbol_table)
 BY DEF Types, RefsInv, Inv, HeapOK, ObjectType
<1>2. stack' = Unwind(s) /\ unclean' = TRUE
 BY DEF Bailout
<1>3. /\ bucket' \in [Handles -> BucketType]
      /\ \A h \in Handles :
           /\ bucket'[h].valid = b[h].valid /\ bucket'[h].refcount = b[h].refcount
           /\ b[h].destructor_called => bucket'[h].destructor_called
 BY MarkSame
<1>4. Good(bucket', object, symbol_table, Unwind(s), TRUE, top)
 BY <1>1, <1>3, BailoutGood
<1>5. GoodNow'
 BY <1>2, <1>4 DEF GoodNow
<1>6. Ended => Ended'
 <2>1. s[1].fn \in EndPhases => Unwind(s)[1].fn \in EndPhases
  BY UnwindPhase
 <2> QED BY <1>2, <2>1 DEF Ended, Phase, EndPhases
<1>7. DtorInv'
 BY <1>2 DEF DtorInv
<1> QED BY <1>3, <1>5, <1>6, <1>7

--------------------
(* User code. *)

\* An object is created.
LEMMA NewRefs == ASSUME RefsInv, NEW d \in Destructors, New(d) PROVE RefsOK'
<1> DEFINE h == NextHandle
           new == [live |-> TRUE, destr |-> d, prop |-> NoObject.prop]
<1>1. /\ InUserCode /\ created < MaxCreated /\ zend_objects_store_put(h, bucket)
      /\ object' = [object EXCEPT ![h] = new] /\ settled' = [settled EXCEPT ![h] = 0]
      /\ stack' = Append(stack, Frame("__construct", h))
      /\ symbol_table' = symbol_table /\ unclean' = unclean
 BY DEF New, NewObject, Push, symVars
<1>2. /\ Types(bucket, object, symbol_table) /\ GoodNow /\ FreeListExact /\ DtorInv
      /\ CanCall(stack) /\ stack[1].fn \notin EndPhases /\ StackOK(stack)
      /\ unclean \in BOOLEAN
 BY <1>1, UserNow
<1>3. stack'[1] = stack[1]
 BY <1>1, <1>2 DEF StackOK
<1>4. ~Ended /\ ~Ended'
 BY <1>2, <1>3 DEF Ended, Phase, EndPhases
<1>5. /\ h \in Handles /\ ~bucket[h].valid /\ h < top'
      /\ \A k \in Handles : k < top => k < top'
      /\ FreeListExact'
 BY <1>1, <1>2, <1>4, PutNow DEF Types
<1> HIDE DEF h
<1>6. new \in ObjectType /\ new.live /\ \A p \in Props : new.prop[p] = 0
 BY KindAssumption DEF ObjectType, NoObject
<1>7. bucket' = [bucket EXCEPT ![h] = [valid |-> TRUE, destructor_called |-> FALSE, refcount |-> 1]]
 BY <1>1 DEF zend_objects_store_put
<1>8. NewBuckets(bucket, bucket', h, new.prop)
 <2> HIDE DEF new
 <2>1. \A k \in Handles : Cardinality(MembersOf(new.prop, k)) = 0
  <3> TAKE k \in Handles
  <3>1. MembersOf(new.prop, k) = {}
   BY <1>6 DEF MembersOf, Handles
  <3> QED BY <3>1, FS_EmptySet
 <2>2. \A k \in Handles : bucket[k].refcount \in Int
  BY <1>2 DEF Types, BucketType
 <2> QED BY <1>2, <1>5, <1>7, <2>1, <2>2 DEF NewBuckets, Types
<1>9. GoodNow'
 <2> HIDE DEF new
 <2>1. Good(bucket', [object EXCEPT ![h] = new], symbol_table,
            Append(stack, Frame("__construct", h)), unclean, top')
  BY <1>2, <1>5, <1>6, <1>8, NewGood DEF GoodNow
 <2> QED BY <1>1, <2>1 DEF GoodNow
<1>10. DtorInv'
 <2>1. \A k \in Handles : k # h =>
         bucket'[k] = bucket[k] /\ object'[k] = object[k] /\ settled'[k] = settled[k]
  BY <1>1, <1>2, <1>5, <1>7 DEF Types, RefsInv, Inv, SettledOK
 <2>2. ~bucket'[h].destructor_called
  BY <1>2, <1>5, <1>7 DEF Types
 <2> QED BY <1>1, <1>2, <1>4, <2>1, <2>2 DEF DtorInv
<1> QED BY <1>5, <1>9, <1>10 DEF RefsOK

\* An object is cloned.
LEMMA CloneRefs ==
    ASSUME RefsInv, NEW o \in Accessible, NEW v \in Vars, zend_objects_clone_obj(o, v)
    PROVE  RefsOK'
<1> DEFINE h == NextHandle
           new == [live |-> TRUE, destr |-> object[o].destr, prop |-> object[o].prop]
           added == [k \in Handles |->
                       [bucket[k] EXCEPT !.refcount = @ + Cardinality(MembersOf(object[o].prop, k))]]
<1>1. /\ InUserCode /\ created < MaxCreated /\ zend_objects_store_put(h, added)
      /\ object' = [object EXCEPT ![h] = new] /\ settled' = [settled EXCEPT ![h] = 0]
      /\ symbol_table' = [symbol_table EXCEPT ![v] = h] /\ symbol_table[v] = 0
      /\ stack' = stack /\ unclean' = unclean
 BY DEF zend_objects_clone_obj, NewObject, MembersOf
<1>2. /\ Types(bucket, object, symbol_table) /\ GoodNow /\ FreeListExact /\ DtorInv
      /\ CanCall(stack) /\ stack[1].fn \notin EndPhases /\ StackOK(stack)
      /\ unclean \in BOOLEAN
      /\ o \in Handles /\ Usable(bucket, object, stack, o)
 BY <1>1, UserNow
<1>4. ~Ended /\ ~Ended'
 BY <1>1, <1>2 DEF Ended, Phase, EndPhases
<1>5. \A k \in Handles : bucket[k] \in BucketType /\ Cardinality(MembersOf(object[o].prop, k)) \in Nat
 <2>1. \A k \in Handles : IsFiniteSet(MembersOf(object[o].prop, k))
  BY FS_Subset, NamesAssumption DEF MembersOf
 <2> QED BY <1>2, <2>1, FS_CardinalityType DEF Types
<1>6. \A k \in Handles :
         /\ added[k] = [bucket[k] EXCEPT !.refcount = @ + Cardinality(MembersOf(object[o].prop, k))]
         /\ added[k] \in BucketType
 BY <1>5 DEF BucketType
<1>7. added \in [Handles -> BucketType]
 BY <1>6
<1> HIDE DEF added
<1>8. \A k \in Handles :
         /\ added[k].valid = bucket[k].valid
         /\ added[k].destructor_called = bucket[k].destructor_called
         /\ added[k].refcount = bucket[k].refcount + Cardinality(MembersOf(object[o].prop, k))
 BY <1>5, <1>6 DEF BucketType
<1>9. /\ h \in Handles /\ ~bucket[h].valid /\ h < top'
      /\ \A k \in Handles : k < top => k < top'
      /\ FreeListExact'
 BY <1>1, <1>4, <1>7, <1>8, PutNow
<1> HIDE DEF h
<1>10. new \in ObjectType /\ new.live /\ new.prop = object[o].prop
 BY <1>2 DEF Types, ObjectType
<1>11. bucket' = [added EXCEPT ![h] = [valid |-> TRUE, destructor_called |-> FALSE, refcount |-> 1]]
 BY <1>1 DEF zend_objects_store_put
<1> HIDE DEF new
<1>12. NewBuckets(bucket, bucket', h, new.prop)
 <2>1. bucket'[h].valid /\ bucket'[h].refcount = 1
  BY <1>7, <1>9, <1>11
 <2>2. \A k \in Handles : k # h => bucket'[k] = added[k]
  BY <1>7, <1>11
 <2> QED BY <1>8, <1>10, <2>1, <2>2 DEF NewBuckets
<1>13. \A p \in Props : new.prop[p] # 0 => Usable(bucket, object, stack, new.prop[p])
 <2> SUFFICES ASSUME NEW p \in Props, object[o].prop[p] # 0
     PROVE  Usable(bucket, object, stack, object[o].prop[p])
  BY <1>10
 <2> DEFINE m == object[o].prop[p]
 <2>1. m \in Handles /\ object[o].live
  BY <1>2 DEF Types, ObjectType, Usable
 <2>2. PropRefs(object, m) >= 1
  BY <1>2, <2>1, PropCounts
 <2> HIDE DEF m
 <2>3. Usable(bucket, object, stack, m)
  BY <1>2, <2>1, <2>2, UsedIsUsable DEF GoodNow
 <2> QED BY <2>3 DEF m
<1>14. GoodNow'
 <2>1. Good(bucket', [object EXCEPT ![h] = new], [symbol_table EXCEPT ![v] = h],
            stack, unclean, top')
  BY <1>1, <1>2, <1>9, <1>10, <1>12, <1>13, CloneGood DEF GoodNow
 <2> QED BY <1>1, <2>1 DEF GoodNow
<1>15. DtorInv'
 <2>1. \A k \in Handles : k # h =>
         /\ bucket'[k].valid = bucket[k].valid
         /\ bucket'[k].destructor_called = bucket[k].destructor_called
         /\ object'[k] = object[k] /\ settled'[k] = settled[k]
  BY <1>1, <1>2, <1>7, <1>8, <1>9, <1>11 DEF Types, RefsInv, Inv, SettledOK
 <2>2. ~bucket'[h].destructor_called
  BY <1>7, <1>9, <1>11
 <2> QED BY <1>1, <1>2, <1>4, <2>1, <2>2 DEF DtorInv
<1> QED BY <1>9, <1>14, <1>15 DEF RefsOK

\* The store cannot grow.
LEMMA MemoryRefs == ASSUME RefsInv, NewHitsMemoryLimit \/ NewOutOfBounds PROVE RefsOK'
<1>1. CASE NewHitsMemoryLimit
 <2>1. /\ InUserCode /\ bucket' = mark_destructed(bucket) /\ Bailout(stack)
       /\ UNCHANGED <<top, free_list, object, symbol_table>>
  BY <1>1 DEF NewHitsMemoryLimit, heapVars, symVars
 <2>2. /\ StackOK(stack) /\ stack[1].fn \notin Halted /\ GoodNow /\ FreeListExact
       /\ bucket \in [Handles -> BucketType] /\ stack[Len(stack)].fn # "del_ref_free"
  BY <2>1, UserNow DEF Types, CanCall
 <2>3. /\ GoodNow' /\ DtorInv' /\ (Ended => Ended')
       /\ \A h \in Handles : bucket'[h].valid = bucket[h].valid
  BY <2>1, <2>2, EndedIs, BailoutNow DEF GoodNow
 <2>4. FreeListExact'
  BY <2>1, <2>2, <2>3, FreeListSame DEF ListSame
 <2> QED BY <2>3, <2>4 DEF RefsOK
<1>2. CASE NewOutOfBounds
 BY <1>2 DEF NewOutOfBounds, RefsOK, Phase, Frame
<1> QED BY <1>1, <1>2

\* User code is cut short.
LEMMA InterruptRefs == ASSUME RefsInv, Exit \/ FatalError PROVE RefsOK'
<1>1. /\ InUserCode /\ bucket' \in {bucket, mark_destructed(bucket)} /\ Bailout(stack)
      /\ UNCHANGED <<top, free_list, object, symbol_table>>
 BY DEF Exit, FatalError, storeVars, heapVars, symVars
<1>2. /\ StackOK(stack) /\ stack[1].fn \notin Halted /\ GoodNow /\ FreeListExact
      /\ bucket \in [Handles -> BucketType] /\ stack[Len(stack)].fn # "del_ref_free"
 BY <1>1, UserNow DEF Types, CanCall
<1>3. /\ GoodNow' /\ DtorInv' /\ (Ended => Ended')
      /\ \A h \in Handles : bucket'[h].valid = bucket[h].valid
 BY <1>1, <1>2, EndedIs, BailoutNow DEF GoodNow
<1>4. FreeListExact'
 BY <1>1, <1>2, <1>3, FreeListSame DEF ListSame
<1> QED BY <1>3, <1>4 DEF RefsOK

\* The constructor's result, or the destructor's $this, is released next.
LEMMA ResultNow ==
    ASSUME RefsInv, Top.fn \in {"__construct", "__destruct"},
           NEW b2 \in [Handles -> BucketType],
           \A k \in Handles :
              /\ b2[k].valid = bucket[k].valid
              /\ bucket[k].destructor_called => b2[k].destructor_called
              /\ b2[k].refcount = bucket[k].refcount
    PROVE  LET r == ReplaceTop(Frame("del_ref", Top.h)) IN
           /\ Good(b2, object, symbol_table, r, unclean, top)
           /\ CanCall(r) /\ r[1] = stack[1] /\ Usable(b2, object, r, Top.h) /\ Top.h \in Handles
<1> DEFINE g == Frame("del_ref", Top.h)
           r == Append(Callers, g)
           n == Len(stack)
<1>1. InUserCode
 BY DEF InUserCode, UserFrames
<1>2. /\ Types(bucket, object, symbol_table) /\ GoodNow /\ StackOK(stack) /\ Phase \notin Halted
      /\ Top.h \in Handles /\ Usable(bucket, object, stack, Top.h)
      /\ stack[1].fn \notin EndPhases
 BY <1>1, UserNow
<1>3. n > 1 /\ n \in Nat /\ Top = stack[n]
 BY <1>2, TopOK DEF Inner, Top
<1>4. GoodFrame(g) /\ g.fn = "del_ref" /\ g.h = Top.h
 BY <1>2, FrameOK DEF Inner, Frame
<1>5. Callers \in Seq(FrameType) /\ Len(Callers) = n - 1 /\ \A i \in 1 .. n - 1 : Callers[i] = stack[i]
 BY <1>2, PopSeq DEF StackOK, Callers
<1> HIDE DEF g
<1>6. Good(b2, object, symbol_table, r, unclean, top)
 <2>1. bucket[Top.h].valid
  BY <1>2 DEF Usable
 <2>2. Good(b2, object, symbol_table, Append(SubSeq(stack, 1, Len(stack) - 1), g), unclean, top)
  BY <1>2, <1>3, <1>4, <2>1, ReplaceGood DEF GoodNow
 <2> QED BY <2>2 DEF Callers
<1>7. StackOK(r) /\ r[1] = stack[1]
 <2>1. StackOK(ReplaceTop(g)) /\ ReplaceTop(g)[1] = stack[1]
  BY <1>2, <1>3, <1>4, StackStep DEF Inner
 <2> QED BY <2>1 DEF ReplaceTop
<1>8. /\ Len(r) = n /\ r[n] = g /\ \A i \in 1 .. n - 1 : r[i] = stack[i]
      /\ \A i \in 1 .. n : i # n => i \in 1 .. n - 1
 <2>1. g \in FrameType
  BY <1>4 DEF GoodFrame
 <2>2. \A i \in 1 .. n : i # n => i \in 1 .. n - 1
  BY <1>3
 <2> QED BY <1>3, <1>5, <2>1, <2>2
<1> HIDE DEF r
<1>9. CanCall(r)
 BY <1>2, <1>4, <1>7, <1>8 DEF CanCall, EndPhases
<1>10. Usable(b2, object, r, Top.h)
 BY <1>2, <1>4, <1>8 DEF Usable, n
<1> QED BY <1>2, <1>6, <1>7, <1>9, <1>10 DEF r, g, ReplaceTop

\* A constructor or a destructor is over.
LEMMA ResultRefs ==
    ASSUME RefsInv, ConstructorDiscards \/ zend_object_store_ctor_failed \/ DestructorReturns
    PROVE  RefsOK'
<1>1. /\ Top.fn \in {"__construct", "__destruct"}
      /\ stack' = ReplaceTop(Frame("del_ref", Top.h))
      /\ UNCHANGED <<top, free_list, object, symbol_table, unclean>>
      /\ \/ bucket' = bucket /\ settled' = settled
         \/ /\ bucket' = [bucket EXCEPT ![Top.h].destructor_called = TRUE]
            /\ settled' = [settled EXCEPT ![Top.h] = 1]
 BY DEF ConstructorDiscards, zend_object_store_ctor_failed, DestructorReturns,
        storeVars, heapVars, symVars
<1>2. /\ Types(bucket, object, symbol_table) /\ Top.h \in Handles /\ FreeListExact /\ DtorInv
      /\ settled \in [Handles -> {0, 1}]
 BY <1>1, UserNow DEF InUserCode, UserFrames, RefsInv, Inv, SettledOK
<1>3. /\ bucket' \in [Handles -> BucketType]
      /\ \A k \in Handles :
           /\ bucket'[k].valid = bucket[k].valid
           /\ bucket[k].destructor_called => bucket'[k].destructor_called
           /\ bucket'[k].refcount = bucket[k].refcount
           /\ settled'[k] = 1
              \/ (settled'[k] = settled[k] /\ bucket'[k].destructor_called = bucket[k].destructor_called)
 <2>1. \A k \in Handles : bucket[k] \in BucketType
  BY <1>2 DEF Types
 <2>2. CASE bucket' = bucket /\ settled' = settled
  BY <1>2, <2>2 DEF Types
 <2>3. CASE /\ bucket' = [bucket EXCEPT ![Top.h].destructor_called = TRUE]
            /\ settled' = [settled EXCEPT ![Top.h] = 1]
  <3>1. bucket \in [Handles -> BucketType]
   BY <1>2 DEF Types
  <3>2. \A k \in Handles : k # Top.h => bucket'[k] = bucket[k] /\ settled'[k] = settled[k]
   BY <1>2, <2>3, <3>1
  <3>3. bucket'[Top.h] = [bucket[Top.h] EXCEPT !.destructor_called = TRUE] /\ settled'[Top.h] = 1
   BY <1>2, <2>3, <3>1
  <3>4. /\ bucket'[Top.h] \in BucketType /\ bucket'[Top.h].valid = bucket[Top.h].valid
        /\ bucket'[Top.h].destructor_called /\ bucket'[Top.h].refcount = bucket[Top.h].refcount
   BY <1>2, <2>1, <3>3 DEF BucketType
  <3>5. bucket' \in [Handles -> BucketType]
   BY <1>2, <2>1, <2>3, <3>1, <3>4
  <3> QED BY <1>2, <3>2, <3>3, <3>4, <3>5
 <2> QED BY <1>1, <2>2, <2>3
<1>4. /\ Good(bucket', object, symbol_table, ReplaceTop(Frame("del_ref", Top.h)), unclean, top)
      /\ ReplaceTop(Frame("del_ref", Top.h))[1] = stack[1]
 BY <1>1, <1>3, ResultNow
<1>5. GoodNow' /\ (Ended => Ended')
 BY <1>1, <1>4 DEF GoodNow, Ended, Phase
<1>6. FreeListExact'
 BY <1>1, <1>2, <1>3, <1>5, FreeListSame DEF ListSame
<1>7. DtorInv'
 <2>1. DtorSame
  BY <1>1, <1>3, <1>5 DEF DtorSame
 <2> QED BY <1>2, <2>1, DtorInvSame
<1> QED BY <1>5, <1>6, <1>7 DEF RefsOK

\* A reference that is assigned or dropped changes no bucket but its count.
LEMMA MovedNow ==
    ASSUME RefsInv, FreeListExact, DtorInv, NEW h \in Handles \cup {0},
           bucket' = AddRef(bucket, h), stack'[1] = stack[1],
           bucket \in [Handles -> BucketType],
           UNCHANGED <<free_list, top, settled, unclean>>,
           \A k \in Handles : object'[k].destr = object[k].destr
    PROVE  FreeListExact' /\ DtorInv'
<1>1. \A k \in Handles :
        /\ bucket'[k].valid = bucket[k].valid
        /\ bucket'[k].destructor_called = bucket[k].destructor_called
 BY AddRefCounts
<1>2. Ended => Ended'
 BY DEF Ended, Phase
<1>3. FreeListExact'
 BY <1>1, <1>2, FreeListSame DEF ListSame
<1>4. DtorSame
 BY <1>1, <1>2 DEF DtorSame
<1> QED BY <1>3, <1>4, DtorInvSame

\* The new object is assigned to a variable.
LEMMA ConstructorRefs == ASSUME RefsInv, NEW v \in Vars, ConstructorReturns(v) PROVE RefsOK'
<1> DEFINE h == Top.h
           r == ReplaceTop(Frame("del_ref", h))
           q == symbol_table[v]
<1>1. /\ Top.fn = "__construct" /\ bucket' = AddRef(bucket, h)
      /\ symbol_table' = [symbol_table EXCEPT ![v] = h]
      /\ stack' = Release(r, q)
      /\ UNCHANGED <<top, free_list, object, settled, unclean>>
 BY DEF ConstructorReturns, heapVars, Release
<1>2. /\ Types(bucket, object, symbol_table) /\ FreeListExact /\ DtorInv
      /\ h \in Handles /\ bucket \in [Handles -> BucketType] /\ q \in Handles \cup {0}
 BY <1>1, UserNow DEF InUserCode, UserFrames, Types
<1>3. /\ Good(bucket, object, symbol_table, r, unclean, top)
      /\ CanCall(r) /\ r[1] = stack[1] /\ Usable(bucket, object, r, h)
 BY <1>1, <1>2, ResultNow
<1> HIDE DEF r, h
<1>4. Good(AddRef(bucket, h), object, [symbol_table EXCEPT ![v] = h],
           Release(r, symbol_table[v]), unclean, top)
 BY <1>2, <1>3, VarGood
<1>5. GoodNow'
 BY <1>1, <1>4 DEF GoodNow
<1>6. stack'[1] = stack[1]
 <2>1. Release(r, q)[1] = r[1]
  BY <1>2, <1>3, ReleaseSeq DEF CanCall, StackOK, Halted
 <2> QED BY <1>1, <1>3, <2>1
<1>7. FreeListExact' /\ DtorInv'
 BY <1>1, <1>2, <1>6, MovedNow
<1> QED BY <1>5, <1>7 DEF RefsOK

\* References are copied and dropped.
LEMMA AssignRefs ==
    ASSUME RefsInv,
           \/ \E v \in Vars, h \in Accessible \cup {0} : AssignVar(v, h)
           \/ \E v \in Vars : ShareVar(v)
           \/ \E o \in Accessible, p \in Props, h \in Accessible \cup {0} : AssignProp(o, p, h)
    PROVE  RefsOK'
<1>0. InUserCode
 BY DEF AssignVar, ShareVar, AssignProp
<1>1. /\ Types(bucket, object, symbol_table) /\ GoodNow /\ FreeListExact /\ DtorInv
      /\ CanCall(stack) /\ StackOK(stack) /\ stack[1].fn \notin Halted
      /\ bucket \in [Handles -> BucketType]
      /\ \A k \in Accessible : k \in Handles /\ Usable(bucket, object, stack, k)
 BY <1>0, UserNow DEF Types
<1>2. ASSUME NEW v \in Vars, NEW h \in Accessible \cup {0}, AssignVar(v, h) PROVE RefsOK'
 <2>1. /\ bucket' = AddRef(bucket, h) /\ symbol_table' = [symbol_table EXCEPT ![v] = h]
       /\ stack' = Release(stack, symbol_table[v])
       /\ UNCHANGED <<top, free_list, object, settled, unclean>>
  BY <1>2 DEF AssignVar, Releasing, Release, Push, heapVars
 <2>2. h \in Handles \cup {0} /\ symbol_table[v] \in Handles \cup {0}
       /\ (h # 0 => Usable(bucket, object, stack, h))
  BY <1>1 DEF Types
 <2>3. Good(AddRef(bucket, h), object, [symbol_table EXCEPT ![v] = h],
            Release(stack, symbol_table[v]), unclean, top)
  BY <1>1, <2>2, VarGood DEF GoodNow
 <2>4. GoodNow'
  BY <2>1, <2>3 DEF GoodNow
 <2>5. stack'[1] = stack[1]
  BY <1>1, <2>1, <2>2, ReleaseSeq
 <2>6. FreeListExact' /\ DtorInv'
  BY <1>1, <2>1, <2>2, <2>5, MovedNow
 <2> QED BY <2>4, <2>6 DEF RefsOK
<1>3. ASSUME NEW v \in Vars, ShareVar(v) PROVE RefsOK'
 <2>1. UNCHANGED <<bucket, object, symbol_table, stack, unclean, top, free_list, settled>>
  BY <1>3 DEF ShareVar, storeVars, heapVars
 <2> QED BY <1>1, <2>1 DEF RefsOK, GoodNow, FreeListExact, DtorInv, Ended, Phase
<1>4. ASSUME NEW o \in Accessible, NEW p \in Props, NEW h \in Accessible \cup {0},
             AssignProp(o, p, h)
      PROVE  RefsOK'
 <2>1. /\ bucket' = AddRef(bucket, h) /\ object' = [object EXCEPT ![o].prop[p] = h]
       /\ stack' = Release(stack, object[o].prop[p])
       /\ UNCHANGED <<top, free_list, symbol_table, settled, unclean>>
  BY <1>4 DEF AssignProp, Releasing, Release, Push, symVars
 <2>2. /\ o \in Handles /\ object[o].live
       /\ h \in Handles \cup {0} /\ object[o].prop[p] \in Handles \cup {0}
       /\ h # 0 => Usable(bucket, object, stack, h)
  BY <1>1 DEF Types, ObjectType, Usable
 <2>3. Good(AddRef(bucket, h), [object EXCEPT ![o].prop[p] = h], symbol_table,
            Release(stack, object[o].prop[p]), unclean, top)
  BY <1>1, <2>2, PropGood DEF GoodNow
 <2>4. GoodNow'
  BY <2>1, <2>3 DEF GoodNow
 <2>5. stack'[1] = stack[1]
  BY <1>1, <2>1, <2>2, ReleaseSeq
 <2>6. \A k \in Handles : object'[k].destr = object[k].destr
  BY <1>1, <2>1, <2>2 DEF Types, ObjectType
 <2>7. FreeListExact' /\ DtorInv'
  BY <1>1, <2>1, <2>2, <2>5, <2>6, MovedNow
 <2> QED BY <2>4, <2>7 DEF RefsOK
<1> QED BY <1>2, <1>3, <1>4

\* The destructor fails while another exception is active.
LEMMA DestructorFailsRefs == ASSUME RefsInv, DestructorFails PROVE RefsOK'
<1> DEFINE h == Top.h
           b == [bucket EXCEPT ![h].refcount = @ - 1]
<1>1. /\ Top.fn = "__destruct" /\ bucket' = mark_destructed(b) /\ Bailout(stack)
      /\ UNCHANGED <<top, free_list, object, symbol_table>>
 BY DEF DestructorFails, heapVars, symVars
<1>2. /\ Types(bucket, object, symbol_table) /\ FreeListExact /\ GoodNow /\ StackOK(stack)
      /\ h \in Handles /\ stack[1].fn \notin Halted
 BY <1>1, UserNow DEF InUserCode, UserFrames
<1>3. /\ b \in [Handles -> BucketType]
      /\ \A k \in Handles :
           /\ b[k].valid = bucket[k].valid
           /\ b[k].destructor_called = bucket[k].destructor_called
           /\ b[k].refcount = bucket[k].refcount - Is(k, h)
 <2>1. bucket \in [Handles -> BucketType] /\ \A k \in Handles : bucket[k] \in BucketType
  BY <1>2 DEF Types
 <2>2. b[h] = [bucket[h] EXCEPT !.refcount = bucket[h].refcount - 1]
  BY <1>2, <2>1
 <2>3. /\ b[h] \in BucketType /\ b[h].valid = bucket[h].valid
       /\ b[h].destructor_called = bucket[h].destructor_called
       /\ b[h].refcount = bucket[h].refcount - 1
  BY <1>2, <2>1, <2>2 DEF BucketType
 <2>4. \A k \in Handles : k # h => b[k] = bucket[k] /\ bucket[k].refcount \in Int
  BY <2>1 DEF BucketType
 <2>5. b \in [Handles -> BucketType]
  BY <2>1, <2>3, <2>4
 <2> HIDE DEF b
 <2> QED BY <2>3, <2>4, <2>5 DEF Is
<1>4. Len(stack) > 1 /\ stack[Len(stack)].fn = "__destruct" /\ stack[Len(stack)].h = h
 BY <1>1, <1>2, TopOK DEF Inner, Top
<1> HIDE DEF b, h
<1>5. Good(b, object, symbol_table, Callers, unclean, top) /\ CanCall(Callers)
 <2>1. /\ Good(b, object, symbol_table, SubSeq(stack, 1, Len(stack) - 1), unclean, top)
       /\ CanCall(SubSeq(stack, 1, Len(stack) - 1))
  BY <1>2, <1>3, <1>4, ReleaseGood DEF GoodNow
 <2> QED BY <2>1 DEF Callers
<1>6. StackOK(Callers) /\ Callers[1] = stack[1]
 BY <1>2, <1>4, StackStep DEF Phase
<1>7. Bailout(Callers)
 <2>1. Unwind(stack) = Unwind(SubSeq(stack, 1, Len(stack) - 1))
  BY <1>2, <1>4, UnwindCallers DEF TryFrames
 <2> QED BY <1>1, <2>1 DEF Bailout, Callers
<1>8. /\ GoodNow' /\ DtorInv' /\ (Ended => Ended')
      /\ \A k \in Handles : bucket'[k].valid = b[k].valid
 BY <1>1, <1>2, <1>3, <1>5, <1>6, <1>7, EndedIs, BailoutNow DEF CanCall
<1>9. FreeListExact'
 BY <1>1, <1>2, <1>3, <1>8, FreeListSame DEF ListSame
<1> QED BY <1>8, <1>9 DEF RefsOK

\* What a phase hands over.
LEMMA PhaseNow ==
    ASSUME RefsInv, Phase \notin Halted, Len(stack) = 1, NEW g,
           NEW b \in [Handles -> BucketType],
           GoodFrame(g), g.fn \in Phases \ {"mark"}, Handed(bucket, b, stack[1], g),
           Ended => g.fn \in EndPhases,
           g.fn = "call_dtors_dtor" => bucket[g.h].valid,
           g.fn = "free_all" => g.h = 1,
           g.fn \in {"store_destroy", "done"} /\ ~unclean => AllFreed(object)
    PROVE  /\ Good(b, object, symbol_table, <<g>>, unclean, top)
           /\ StackOK(<<g>>)
           /\ g.fn \notin {"store_destroy", "done", "crashed"} => CanCall(<<g>>)
<1>1. Types(bucket, object, symbol_table) /\ StackOK(stack) /\ GoodNow
 BY Now
<1>2. StackOK(<<g>>) /\ <<g>>[1] = g /\ Len(<<g>>) = 1
 BY SingleOK
<1>3. g.fn \notin {"store_destroy", "done", "crashed"} => CanCall(<<g>>)
 BY <1>2 DEF CanCall, Phases
<1>4. Good(b, object, symbol_table, <<g>>, unclean, top)
 <2>1. stack[1].fn \in EndPhases => g.fn \in EndPhases
  BY EndedIs
 <2> QED BY <1>1, <2>1, SingleGood DEF GoodNow
<1> QED BY <1>2, <1>3, <1>4

\* A phase whose frame holds no reference ends without touching the store.
LEMMA EnterNow ==
    ASSUME RefsInv, Phase \notin Halted, Len(stack) = 1, NEW fn, NEW i,
           GoodFrame(Frame(fn, i)), fn \in Phases \ {"mark", "call_dtors_dtor", "crashed"},
           Phase # "call_dtors_dtor", EnterPhase(fn, i),
           Ended => fn \in EndPhases,
           fn = "free_all" => i = 1,
           fn \in {"store_destroy", "done"} /\ ~unclean => AllFreed(object),
           UNCHANGED <<bucket, top, free_list, object, settled, symbol_table, unclean>>
    PROVE  RefsOK'
<1> DEFINE g == Frame(fn, i)
<1>1. Types(bucket, object, symbol_table) /\ StackOK(stack) /\ GoodNow /\ FreeListExact /\ DtorInv
 BY Now
<1>2. g.fn = fn /\ g.h = i /\ GoodFrame(g) /\ stack' = <<g>>
 BY DEF Frame, EnterPhase
<1> HIDE DEF g
<1>3. Handed(bucket, bucket, stack[1], g)
 <2>1. stack[1].fn \notin HoldingFrames /\ g.fn \notin HoldingFrames
  BY <1>1, <1>2 DEF StackOK, Phases, HoldingFrames, TryFrames, Phase
 <2>2. \A k \in Handles : bucket[k].refcount \in Int
  BY <1>1 DEF Types, BucketType
 <2> QED BY <2>1, <2>2 DEF Handed, Holds, One
<1>4. Good(bucket, object, symbol_table, <<g>>, unclean, top)
 BY <1>1, <1>2, <1>3, PhaseNow DEF Types
<1>5. GoodNow' /\ (Ended => Ended')
 BY <1>2, <1>4 DEF GoodNow, Ended, Phase, EndPhases
<1>6. FreeListExact'
 BY <1>1, <1>5, FreeListSame DEF ListSame
<1>7. DtorInv'
 <2>1. DtorSame
  BY <1>5 DEF DtorSame
 <2> QED BY <1>1, <2>1, DtorInvSame
<1> QED BY <1>5, <1>6, <1>7 DEF RefsOK

\* A phase of user code ends.
LEMMA UserPhaseRefs == ASSUME RefsInv, UserPhaseEnds PROVE RefsOK'
<1>1. Phase \in UserPhases /\ Len(stack) = 1 /\ EnterPhase(AfterBailout[Phase], 1)
      /\ UNCHANGED <<bucket, top, free_list, object, settled, symbol_table, unclean>>
 BY DEF UserPhaseEnds, EnterPhase, storeVars, heapVars, symVars
<1>2. AfterBailout[Phase] \in {"shutdown_functions", "symtab", "symtab_destroy"}
 BY <1>1 DEF UserPhases, AfterBailout
<1>3. GoodFrame(Frame(AfterBailout[Phase], 1)) /\ Phase \in Phases \ Halted
 BY <1>1, AfterBailoutOK DEF UserPhases, Phases, Halted
<1>4. ~Ended /\ Phase # "call_dtors_dtor"
 BY <1>1 DEF Ended, UserPhases
<1> QED BY <1>1, <1>2, <1>3, <1>4, EnterNow DEF Phases

\* Every step of user code.
LEMMA UserRefs == ASSUME RefsInv, UserStep PROVE RefsOK'
BY NewRefs, MemoryRefs, ConstructorRefs, ResultRefs, CloneRefs, AssignRefs, InterruptRefs,
   DestructorFailsRefs, UserPhaseRefs DEF UserStep

--------------------
(* The store's functions. *)

\* The invariant at a step of the engine.
LEMMA EngineNow ==
    ASSUME RefsInv, Top.fn \notin Halted
    PROVE  /\ Types(bucket, object, symbol_table) /\ StackOK(stack)
           /\ GoodNow /\ FreeListExact /\ DtorInv
           /\ bucket \in [Handles -> BucketType] /\ object \in [Handles -> ObjectType]
           /\ Phase \notin Halted /\ stack[1].fn \notin Halted
           /\ Len(stack) \in Nat /\ Top = stack[Len(stack)] /\ GoodFrame(Top)
           /\ Top.fn \in Inner =>
                /\ Len(stack) > 1 /\ Top.h \in Handles
                /\ stack[1].fn # "store_destroy"
                /\ Top.fn # "del_ref_free" => CanCall(stack)
                /\ StackOK(Callers) /\ Callers[1] = stack[1]
           /\ Top.fn \in Phases => Len(stack) = 1 /\ Phase = Top.fn /\ Top = stack[1]
<1>1. /\ StackOK(stack) /\ Phase \notin Halted /\ GoodFrame(Top)
      /\ Top.fn \in Inner => Len(stack) > 1 /\ Top.h \in Handles
      /\ Top.fn \in Phases => Len(stack) = 1 /\ Phase = Top.fn
 BY EngineTop DEF RefsInv
<1>2. /\ Types(bucket, object, symbol_table) /\ GoodNow /\ FreeListExact /\ DtorInv
      /\ bucket \in [Handles -> BucketType] /\ object \in [Handles -> ObjectType]
      /\ Top.fn # "del_ref_free" /\ Phase # "store_destroy" => CanCall(stack)
 BY <1>1, Now
<1>3. Len(stack) \in Nat /\ Top = stack[Len(stack)]
 BY <1>1 DEF StackOK, Top
<1>4. Len(stack) > 1 => stack[1].fn # "store_destroy"
 BY <1>2, <1>3 DEF GoodNow, Good, PhaseOK
<1>5. Len(stack) > 1 => StackOK(Callers) /\ Callers[1] = stack[1]
 BY <1>1, StackStep
<1>6. Top.fn \in Phases => Top = stack[1]
 BY <1>1, <1>3
<1> QED BY <1>1, <1>2, <1>3, <1>4, <1>5, <1>6 DEF Phase

\* A step that changes no bucket but counts and returns to its caller, or
\* bails out to it.
LEMMA ReturnNow ==
    ASSUME RefsInv, Phase \notin Halted, NEW b \in [Handles -> BucketType],
           Good(b, object, symbol_table, Callers, unclean, top), CanCall(Callers),
           Callers[1] = stack[1],
           \/ bucket' = b /\ stack' = Callers /\ unclean' = unclean
           \/ bucket' = b /\ Bailout(Callers),
           \A k \in Handles : b[k].valid =>
              bucket[k].valid /\ (b[k].destructor_called => bucket[k].destructor_called),
           UNCHANGED <<top, object, settled, symbol_table>>
    PROVE  GoodNow' /\ DtorInv' /\ (Ended => Ended') /\ bucket' = b
<1>1. DtorInv
 BY Now
<1>2. CASE bucket' = b /\ stack' = Callers /\ unclean' = unclean
 <2>1. GoodNow' /\ (Ended => Ended')
  BY <1>2 DEF GoodNow, Ended, Phase
 <2>2. DtorSame
  BY <1>2, <2>1 DEF DtorSame
 <2> QED BY <1>1, <1>2, <2>1, <2>2, DtorInvSame
<1>3. CASE bucket' = b /\ Bailout(Callers)
 <2>1. Ended => Callers[1].fn \in EndPhases
  BY EndedIs
 <2>2. StackOK(Callers) /\ Callers[1].fn \notin Halted /\ Callers[Len(Callers)].fn # "del_ref_free"
  BY DEF CanCall, Halted
 <2> QED BY <1>3, <2>1, <2>2, BailoutNow
<1> QED BY <1>2, <1>3

\* One reference is taken off a bucket.
LEMMA CountedDown ==
    ASSUME NEW h \in Handles, NEW b, bucket \in [Handles -> BucketType],
           b = [bucket EXCEPT ![h].refcount = @ - 1]
    PROVE  /\ b \in [Handles -> BucketType]
           /\ \A k \in Handles :
                /\ b[k].valid = bucket[k].valid
                /\ b[k].destructor_called = bucket[k].destructor_called
                /\ b[k].refcount = bucket[k].refcount - Is(k, h)
<1>1. \A k \in Handles : bucket[k] \in BucketType
 OBVIOUS
<1>2. b[h] = [bucket[h] EXCEPT !.refcount = bucket[h].refcount - 1]
 OBVIOUS
<1>3. /\ b[h] \in BucketType /\ b[h].valid = bucket[h].valid
      /\ b[h].destructor_called = bucket[h].destructor_called
      /\ b[h].refcount = bucket[h].refcount - 1
 BY <1>1, <1>2 DEF BucketType
<1>4. \A k \in Handles : k # h => b[k] = bucket[k] /\ bucket[k].refcount \in Int
 BY <1>1 DEF BucketType
<1>5. b \in [Handles -> BucketType]
 BY <1>1, <1>3, <1>4
<1> QED BY <1>3, <1>4, <1>5 DEF Is

\* del_ref takes one reference off.
LEMMA SharedRefs == ASSUME RefsInv, DelRefShared PROVE RefsOK'
<1> DEFINE h == Top.h
           b == [bucket EXCEPT ![h].refcount = @ - 1]
<1>1. /\ Top.fn = "del_ref" /\ bucket' = b /\ stack' = Callers
      /\ UNCHANGED <<top, free_list, object, settled, symbol_table, unclean>>
 BY DEF DelRefShared, heapVars, symVars
<1>2. /\ Types(bucket, object, symbol_table) /\ StackOK(stack) /\ GoodNow /\ FreeListExact
      /\ bucket \in [Handles -> BucketType] /\ Phase \notin Halted
      /\ Top = stack[Len(stack)] /\ Len(stack) > 1 /\ h \in Handles
      /\ Callers[1] = stack[1]
 BY <1>1, EngineNow DEF Inner, Halted
<1>3. /\ b \in [Handles -> BucketType]
      /\ \A k \in Handles :
           /\ b[k].valid = bucket[k].valid
           /\ b[k].destructor_called = bucket[k].destructor_called
           /\ b[k].refcount = bucket[k].refcount - Is(k, h)
 BY <1>2, CountedDown
<1> HIDE DEF b
<1>4. Good(b, object, symbol_table, Callers, unclean, top) /\ CanCall(Callers)
 <2>1. stack[Len(stack)].fn = "del_ref" /\ stack[Len(stack)].h = h
  BY <1>1, <1>2
 <2> HIDE DEF h
 <2>2. /\ Good(b, object, symbol_table, SubSeq(stack, 1, Len(stack) - 1), unclean, top)
       /\ CanCall(SubSeq(stack, 1, Len(stack) - 1))
  BY <1>2, <1>3, <2>1, ReleaseGood DEF GoodNow
 <2> QED BY <2>2 DEF Callers
<1>5. GoodNow' /\ DtorInv' /\ (Ended => Ended') /\ bucket' = b
 BY <1>1, <1>2, <1>3, <1>4, ReturnNow
<1>6. FreeListExact'
 BY <1>1, <1>2, <1>3, <1>5, FreeListSame DEF ListSame
<1> QED BY <1>5, <1>6 DEF RefsOK

\* The destructor was called: the storage is freed, or the object has been revived.
LEMMA AfterDtorRefs == ASSUME RefsInv, DelRefAfterDtor PROVE RefsOK'
<1> DEFINE h == Top.h
           b == [bucket EXCEPT ![h].refcount = @ - 1]
<1>1. /\ Top.fn = "del_ref_dtor"
      /\ UNCHANGED <<top, free_list, table, object, settled, symbol_table>>
 BY DEF DelRefAfterDtor, heapVars, symVars
<1>2. /\ Types(bucket, object, symbol_table) /\ StackOK(stack) /\ GoodNow /\ FreeListExact
      /\ bucket \in [Handles -> BucketType] /\ Phase \notin Halted /\ DtorInv
      /\ Top = stack[Len(stack)] /\ Len(stack) > 1 /\ h \in Handles /\ GoodFrame(Top)
      /\ Callers[1] = stack[1]
 BY <1>1, EngineNow DEF Inner, TryFrames, Halted
<1>3. CASE bucket[h].refcount = 1
 <2> DEFINE g == [Top EXCEPT !.fn = "del_ref_free", !.obj = table]
            f == Frame("free_storage", h)
 <2>1. stack' = Append(ReplaceTop(g), f) /\ UNCHANGED <<bucket, unclean>>
  BY <1>3 DEF DelRefAfterDtor
 <2>2. GoodFrame(f) /\ f.fn = "free_storage" /\ f.h = h
  BY <1>2, FrameOK DEF Inner, Frame
 <2>3. GoodFrame(g) /\ g.fn = "del_ref_free" /\ g.h = h
  <3>1. Top \in FrameType /\ table \in Nat
   BY <1>2 DEF GoodFrame, RefsInv, Inv, StoreOK
  <3>2. g \in FrameType /\ g.fn = "del_ref_free" /\ g.h = h
   BY <3>1 DEF FrameType, FrameFns, TryFrames
  <3> QED BY <1>2, <3>2 DEF GoodFrame
 <2> HIDE DEF g, f
 <2>4. Good(bucket, object, symbol_table, Append(Append(SubSeq(stack, 1, Len(stack) - 1), g), f),
            unclean, top)
  BY <1>1, <1>2, <1>3, <2>2, <2>3, FreeingGood DEF GoodNow
 <2>5. GoodNow'
  BY <1>1, <2>1, <2>4 DEF GoodNow, ReplaceTop, Callers
 <2>6. stack'[1] = stack[1]
  <3>1. StackOK(ReplaceTop(g)) /\ ReplaceTop(g)[1] = stack[1]
   BY <1>2, <2>3, StackStep DEF Inner, TryFrames
  <3> HIDE DEF h
  <3> QED BY <2>1, <3>1 DEF StackOK
 <2>7. Ended => Ended'
  BY <2>6 DEF Ended, Phase
 <2>8. FreeListExact'
  BY <1>1, <1>2, <2>1, <2>7, FreeListSame DEF ListSame
 <2>9. DtorInv'
  <3>1. DtorSame
   BY <1>1, <2>1, <2>7 DEF DtorSame
  <3> QED BY <1>2, <3>1, DtorInvSame
 <2> QED BY <2>5, <2>8, <2>9 DEF RefsOK
<1>4. CASE bucket[h].refcount # 1
 <2>1. /\ bucket' = b
       /\ \/ stack' = Callers /\ unclean' = unclean
          \/ Bailout(Callers)
  BY <1>4 DEF DelRefAfterDtor
 <2>2. /\ b \in [Handles -> BucketType]
       /\ \A k \in Handles :
            /\ b[k].valid = bucket[k].valid
            /\ b[k].destructor_called = bucket[k].destructor_called
            /\ b[k].refcount = bucket[k].refcount - Is(k, h)
  BY <1>2, CountedDown
 <2> HIDE DEF b
 <2>3. Good(b, object, symbol_table, Callers, unclean, top) /\ CanCall(Callers)
  <3>1. stack[Len(stack)].fn = "del_ref_dtor" /\ stack[Len(stack)].h = h
   BY <1>1, <1>2
  <3> HIDE DEF h
  <3>2. /\ Good(b, object, symbol_table, SubSeq(stack, 1, Len(stack) - 1), unclean, top)
        /\ CanCall(SubSeq(stack, 1, Len(stack) - 1))
   BY <1>2, <2>2, <3>1, ReleaseGood DEF GoodNow
  <3> QED BY <3>2 DEF Callers
 <2>4. GoodNow' /\ DtorInv' /\ (Ended => Ended') /\ bucket' = b
  BY <1>1, <1>2, <2>1, <2>2, <2>3, ReturnNow
 <2>5. FreeListExact'
  BY <1>1, <1>2, <2>2, <2>4, FreeListSame DEF ListSame
 <2> QED BY <2>4, <2>5 DEF RefsOK
<1> QED BY <1>3, <1>4

\* The storage was freed: the handle is given back.
LEMMA AfterFreeRefs == ASSUME RefsInv, DelRefAfterFree PROVE RefsOK'
<1> DEFINE h == Top.h
<1>1. /\ Top.fn = "del_ref_free"
      /\ bucket' = [bucket EXCEPT ![h] = [@ EXCEPT !.valid = FALSE,
                                                   !.refcount = IF Top.obj = table THEN bucket[h].refcount - 1
                                                              ELSE bucket[h].refcount]]
      /\ free_list' = <<h>> \o free_list
      /\ \/ stack' = Callers /\ unclean' = unclean
         \/ Bailout(Callers)
      /\ UNCHANGED <<top, object, settled, symbol_table>>
 BY DEF DelRefAfterFree, heapVars, symVars
<1>2. /\ Types(bucket, object, symbol_table) /\ StackOK(stack) /\ GoodNow /\ FreeListExact
      /\ bucket \in [Handles -> BucketType] /\ Phase \notin Halted
      /\ Top = stack[Len(stack)] /\ Len(stack) > 1 /\ h \in Handles
      /\ Callers[1] = stack[1]
 BY <1>1, EngineNow DEF Inner, TryFrames, Halted
<1>3. /\ bucket' \in [Handles -> BucketType] /\ ~bucket'[h].valid
      /\ \A k \in Handles : k # h => bucket'[k] = bucket[k]
 <2>1. \A k \in Handles : bucket[k] \in BucketType
  BY <1>2
 <2> DEFINE n == IF Top.obj = table THEN bucket[h].refcount - 1 ELSE bucket[h].refcount
 <2>2. n \in Int
  BY <1>2, <2>1 DEF BucketType
 <2>3. bucket'[h] = [bucket[h] EXCEPT !.valid = FALSE, !.refcount = n]
  BY <1>1, <1>2
 <2> HIDE DEF n
 <2>4. bucket'[h] \in BucketType /\ ~bucket'[h].valid
  BY <1>2, <2>1, <2>2, <2>3 DEF BucketType
 <2>5. \A k \in Handles : k # h => bucket'[k] = bucket[k]
  BY <1>1, <1>2
 <2>6. bucket' \in [Handles -> BucketType]
  <3>1. \A k \in Handles : bucket'[k] \in BucketType
   BY <2>1, <2>4, <2>5
  <3>2. bucket' = [k \in Handles |-> bucket'[k]]
   BY <1>1, <1>2
  <3> QED BY <3>1, <3>2
 <2> QED BY <2>4, <2>5, <2>6
<1>4. stack[Len(stack)].fn = "del_ref_free" /\ stack[Len(stack)].h = h
 BY <1>1, <1>2
<1> HIDE DEF h
<1>5. /\ Good(bucket', object, symbol_table, Callers, unclean, top)
      /\ CanCall(Callers)
 <2>1. /\ Good(bucket', object, symbol_table, SubSeq(stack, 1, Len(stack) - 1), unclean, top)
       /\ CanCall(SubSeq(stack, 1, Len(stack) - 1))
  BY <1>2, <1>3, <1>4, HandleBackGood DEF GoodNow
 <2> QED BY <2>1 DEF Callers
<1>6. GoodNow' /\ DtorInv' /\ (Ended => Ended')
 BY <1>1, <1>2, <1>3, <1>5, ReturnNow
<1>7. FreeListExact'
 <2> DEFINE L == free_list
            M == free_list'
 <2> SUFFICES ASSUME ~Ended'
     PROVE  /\ \A i, j \in 1 .. Len(M) : i # j => M[i] # M[j]
            /\ {M[i] : i \in 1 .. Len(M)} = {k \in Handles : k < top' /\ ~bucket'[k].valid}
  BY DEF FreeListExact
 <2>1. /\ \A i, j \in 1 .. Len(L) : i # j => L[i] # L[j]
       /\ {L[i] : i \in 1 .. Len(L)} = {k \in Handles : k < top /\ ~bucket[k].valid}
  BY <1>2, <1>6 DEF FreeListExact
 <2>2. bucket[h].valid /\ h < top
  <3>1. bucket[h].valid
   BY <1>2, <1>4 DEF GoodNow, Good, FramesOK, TryFrames, StackOK
  <3> QED BY <1>2, <3>1 DEF GoodNow, Good, LiveOK
 <2>3. L \in Seq(Handles) /\ Len(L) \in Nat
  BY DEF RefsInv, Inv, StoreOK
 <2>4. /\ Len(M) = Len(L) + 1 /\ M[1] = h
       /\ \A i \in 1 .. Len(L) : M[i + 1] = L[i]
  BY <1>1, <1>2, <2>3
 <2> HIDE DEF M
 <2>5. \A i \in 1 .. Len(L) : L[i] \in Handles /\ L[i] < top /\ ~bucket[L[i]].valid /\ L[i] # h
  BY <2>1, <2>2
 <2>6. \A i \in 1 .. Len(M) : i = 1 \/ (i - 1 \in 1 .. Len(L) /\ M[i] = L[i - 1])
  <3> TAKE i \in 1 .. Len(M)
  <3>1. i = 1 \/ (i - 1 \in 1 .. Len(L) /\ (i - 1) + 1 = i)
   BY <2>3, <2>4
  <3> QED BY <2>4, <3>1
 <2>7. \A i, j \in 1 .. Len(M) : i # j /\ i # 1 /\ j # 1 => i - 1 # j - 1
  BY <2>3, <2>4
 <2>8. \A i, j \in 1 .. Len(M) : i # j => M[i] # M[j]
  <3> TAKE i, j \in 1 .. Len(M)
  <3> HAVE i # j
  <3>1. CASE i # 1 /\ j # 1
   <4>1. i - 1 \in 1 .. Len(L) /\ j - 1 \in 1 .. Len(L) /\ i - 1 # j - 1
    BY <2>6, <2>7, <3>1
   <4>2. M[i] = L[i - 1] /\ M[j] = L[j - 1]
    BY <2>6, <3>1
   <4> QED BY <2>1, <4>1, <4>2
  <3>2. CASE i = 1
   <4>1. j - 1 \in 1 .. Len(L) /\ M[j] = L[j - 1] /\ M[i] = h
    BY <2>4, <2>6, <3>2
   <4> QED BY <2>5, <4>1
  <3>3. CASE j = 1
   <4>1. i - 1 \in 1 .. Len(L) /\ M[i] = L[i - 1] /\ M[j] = h
    BY <2>4, <2>6, <3>3
   <4> QED BY <2>5, <4>1
  <3> QED BY <3>1, <3>2, <3>3
 <2>9. \A i \in 1 .. Len(L) : i + 1 \in 1 .. Len(M)
  BY <2>3, <2>4
 <2>10. 1 \in 1 .. Len(M)
  BY <2>3, <2>4
 <2>11. {M[i] : i \in 1 .. Len(M)} = {k \in Handles : k < top' /\ ~bucket'[k].valid}
  <3>1. \A i \in 1 .. Len(M) : M[i] \in Handles /\ M[i] < top /\ ~bucket'[M[i]].valid
   <4> TAKE i \in 1 .. Len(M)
   <4>1. CASE i = 1
    <5>1. M[i] = h
     BY <2>4, <4>1
    <5> QED BY <1>2, <1>3, <2>2, <5>1
   <4>2. CASE i # 1
    <5>1. i - 1 \in 1 .. Len(L) /\ M[i] = L[i - 1]
     BY <2>6, <4>2
    <5>2. M[i] \in Handles /\ M[i] < top /\ ~bucket[M[i]].valid /\ M[i] # h
     BY <2>5, <5>1
    <5> QED BY <1>3, <5>2
   <4> QED BY <4>1, <4>2
  <3>2. ASSUME NEW k \in Handles, k < top, ~bucket'[k].valid
        PROVE  \E i \in 1 .. Len(M) : M[i] = k
   <4>1. CASE k = h
    BY <2>4, <2>10, <4>1
   <4>2. CASE k # h
    <5>1. ~bucket[k].valid
     BY <1>3, <3>2, <4>2
    <5>2. PICK i \in 1 .. Len(L) : L[i] = k
     BY <2>1, <3>2, <5>1
    <5> QED BY <2>4, <2>9, <5>2
   <4> QED BY <4>1, <4>2
  <3> QED BY <1>1, <3>1, <3>2
 <2> QED BY <2>8, <2>11
<1> QED BY <1>6, <1>7 DEF RefsOK

\* zend_objects_destroy_object, called for h with the frame f left on the
\* stack, which then is r, and the buckets b.
LEMMA DestroyRefs ==
    ASSUME RefsInv, NEW h \in Handles, NEW f, NEW b \in [Handles -> BucketType], NEW r,
           r = ReplaceTop(f),
           Phase \notin Halted, CanCall(r), Ended => r[1].fn \in EndPhases,
           Phase = "free_all" \/ r[1].fn \notin EndPhases,
           Good(b, object, symbol_table, r, unclean, top),
           \A i \in 1 .. Len(r) : r[i].h = h => r[i].fn # "del_ref_free",
           bucket[h].valid, ~bucket[h].destructor_called,
           \A k \in Handles :
              /\ b[k].valid = bucket[k].valid
              /\ k # h => b[k].destructor_called = bucket[k].destructor_called,
           UNCHANGED <<top, free_list, object, symbol_table>>,
           zend_objects_destroy_object(h, f, b)
    PROVE  RefsOK'
<1>1. /\ Types(bucket, object, symbol_table) /\ FreeListExact /\ DtorInv
      /\ settled \in [Handles -> {0, 1}] /\ settled[h] = 0
 BY Now DEF RefsInv, Inv, SettledOK
<1>2. Types(b, object, symbol_table) /\ StackOK(r) /\ r[1].fn \notin Halted
 BY <1>1 DEF Types, CanCall, Halted
<1>3. ASSUME \A k \in Handles : bucket'[k].valid = b[k].valid, GoodNow', DtorInv',
             Ended => Ended'
      PROVE  RefsOK'
 <2>1. FreeListExact'
  BY <1>1, <1>3, FreeListSame DEF ListSame
 <2> QED BY <1>3, <2>1 DEF RefsOK
<1>4. ASSUME bucket' = b, stack' = r, settled' = settled, unclean' = unclean,
             Phase = "free_all" \/ object[h].destr # "public"
      PROVE  RefsOK'
 <2>1. GoodNow' /\ (Ended => Ended')
  BY <1>4 DEF GoodNow, Ended, Phase, EndPhases
 <2>2. CASE Phase = "free_all"
  <3>1. Ended'
   BY <2>1, <2>2 DEF Ended
  <3> QED BY <1>3, <1>4, <2>1, <3>1 DEF DtorInv
 <2>3. CASE object[h].destr # "public"
  <3>1. DtorSame
   BY <1>4, <2>1, <2>3 DEF DtorSame
  <3> QED BY <1>1, <1>3, <1>4, <2>1, <3>1, DtorInvSame
 <2> QED BY <1>4, <2>2, <2>3
<1>5. CASE Phase = "free_all"
 <2>1. DestructorWithoutClass(h, f, b)
  BY <1>5 DEF zend_objects_destroy_object
 <2>2. CASE stack' = <<Frame("crashed", 0)>>
  BY <2>2 DEF RefsOK, Phase, Frame
 <2>3. CASE stack' = r
  BY <1>4, <1>5, <2>1, <2>3 DEF DestructorWithoutClass
 <2> QED BY <2>1, <2>2, <2>3 DEF DestructorWithoutClass
<1>6. CASE Phase # "free_all" /\ DestructorIgnored(h, f, b)
 <2>1. /\ bucket' = b /\ stack' = r /\ settled' = settled /\ unclean' = unclean
       /\ object[h].destr # "public"
  BY <1>6 DEF DestructorIgnored
 <2> QED BY <1>4, <2>1
<1>7. CASE Phase # "free_all" /\ DestructorRefused(h, f, b)
 <2>1. bucket' = mark_destructed(b) /\ Bailout(r)
  BY <1>7 DEF DestructorRefused
 <2>2. r[Len(r)].fn # "del_ref_free"
  BY DEF CanCall
 <2>3. /\ GoodNow' /\ DtorInv' /\ (Ended => Ended')
       /\ \A k \in Handles : bucket'[k].valid = b[k].valid
  BY <1>2, <2>1, <2>2, BailoutNow
 <2> QED BY <1>3, <2>3
<1>8. CASE Phase # "free_all" /\ DestructorCalled(h, f, b)
 <2> DEFINE g == Frame("__destruct", h)
 <2>1. /\ bucket' = AddRef(b, h) /\ stack' = Append(r, g) /\ unclean' = unclean
       /\ settled' = [settled EXCEPT ![h] = @ + 1]
  BY <1>8 DEF DestructorCalled
 <2>2. GoodFrame(g) /\ g.fn = "__destruct" /\ g.h = h
  BY FrameOK DEF Inner, Frame
 <2> HIDE DEF g
 <2>3. /\ bucket' \in [Handles -> BucketType]
       /\ \A k \in Handles :
            /\ bucket'[k].valid = b[k].valid
            /\ bucket'[k].destructor_called = b[k].destructor_called
            /\ bucket'[k].refcount = b[k].refcount + Is(k, h)
  BY <2>1, AddRefCounts
 <2>4. Good(bucket', object, symbol_table, Append(r, g), unclean, top)
  <3>1. b[h].valid
   OBVIOUS
  <3>2. r[1].fn \notin EndPhases
   BY <1>8
  <3> QED BY <1>2, <2>2, <2>3, <3>1, <3>2, HoldGood
 <2>5. GoodNow'
  BY <2>1, <2>4 DEF GoodNow
 <2>6. Ended => Ended'
  <3>1. Append(r, g)[1] = r[1]
   BY <1>2, <2>2 DEF StackOK
  <3> QED BY <2>1, <3>1 DEF Ended, Phase, EndPhases
 <2>7. DtorInv'
  <3>1. settled'[h] = 1 /\ \A k \in Handles : k # h => settled'[k] = settled[k]
   BY <1>1, <2>1
  <3>2. DtorSame
   BY <2>1, <2>3, <2>6, <3>1 DEF DtorSame
  <3> QED BY <1>1, <3>2, DtorInvSame
 <2> QED BY <1>3, <2>3, <2>5, <2>6, <2>7
<1> QED BY <1>5, <1>6, <1>7, <1>8 DEF zend_objects_destroy_object

\* del_ref finds the last reference.
LEMMA LastRefs == ASSUME RefsInv, DelRefLast PROVE RefsOK'
<1> DEFINE h == Top.h
           f == Frame("del_ref_dtor", h)
           b == [bucket EXCEPT ![h].destructor_called = TRUE]
           r == ReplaceTop(f)
<1>1. /\ Top.fn = "del_ref" /\ bucket[h].valid
      /\ UNCHANGED <<top, free_list, object, symbol_table>>
      /\ IF bucket[h].destructor_called
         THEN stack' = r /\ UNCHANGED <<bucket, settled, unclean>>
         ELSE zend_objects_destroy_object(h, f, b)
 BY DEF DelRefLast, symVars
<1>2. /\ Types(bucket, object, symbol_table) /\ StackOK(stack) /\ GoodNow /\ FreeListExact
      /\ bucket \in [Handles -> BucketType] /\ Phase \notin Halted /\ DtorInv
      /\ Top = stack[Len(stack)] /\ Len(stack) > 1 /\ h \in Handles
      /\ CanCall(stack) /\ Len(stack) \in Nat /\ stack[1].fn \notin Halted
 BY <1>1, EngineNow DEF Inner, Halted
<1>3. GoodFrame(f) /\ f.fn = "del_ref_dtor" /\ f.h = h
 BY <1>2, FrameOK DEF Inner, TryFrames, Frame
<1>4. /\ b \in [Handles -> BucketType] /\ b[h].destructor_called
      /\ \A k \in Handles :
           /\ b[k].valid = bucket[k].valid
           /\ k # h => b[k].destructor_called = bucket[k].destructor_called
           /\ b[k].refcount = bucket[k].refcount
 <2>1. \A k \in Handles : bucket[k] \in BucketType
  BY <1>2
 <2>2. b[h] = [bucket[h] EXCEPT !.destructor_called = TRUE]
  BY <1>2
 <2>3. /\ b[h] \in BucketType /\ b[h].destructor_called
       /\ b[h].valid = bucket[h].valid /\ b[h].refcount = bucket[h].refcount
  BY <1>2, <2>1, <2>2 DEF BucketType
 <2>4. \A k \in Handles : k # h => b[k] = bucket[k]
  BY <1>2
 <2>5. b \in [Handles -> BucketType]
  BY <1>2, <2>1, <2>3, <2>4
 <2> HIDE DEF b
 <2> QED BY <2>3, <2>4, <2>5
<1>5. stack[Len(stack)].fn = "del_ref" /\ stack[Len(stack)].h = h
 BY <1>1, <1>2
<1> HIDE DEF h, f, b, r
<1>6. ASSUME NEW d \in {bucket, b}, d[h].destructor_called
      PROVE  Good(d, object, symbol_table, r, unclean, top)
 <2>1. /\ d \in [Handles -> BucketType] /\ d[h].valid
       /\ \A k \in Handles :
            /\ d[k].valid = bucket[k].valid
            /\ bucket[k].destructor_called => d[k].destructor_called
            /\ d[k].refcount = bucket[k].refcount
  BY <1>1, <1>2, <1>4, <1>6
 <2>2. Good(d, object, symbol_table, Append(SubSeq(stack, 1, Len(stack) - 1), f), unclean, top)
  BY <1>1, <1>2, <1>3, <1>5, <1>6, <2>1, ReplaceGood DEF GoodNow
 <2> QED BY <2>2 DEF r, ReplaceTop, Callers
<1>7. StackOK(r) /\ r[1] = stack[1]
 BY <1>2, <1>3, StackStep DEF Inner, TryFrames, r
<1>8. /\ Len(r) = Len(stack) /\ r[Len(r)] = f
      /\ \A i \in 1 .. Len(r) : r[i].fn = "del_ref_free" => r[i] = stack[i] /\ i \in 1 .. Len(stack)
 <2>1. /\ Callers \in Seq(FrameType) /\ Len(Callers) = Len(stack) - 1
       /\ \A i \in 1 .. Len(stack) - 1 : Callers[i] = stack[i]
  BY <1>2, PopSeq DEF StackOK, Callers
 <2>2. /\ Len(r) = Len(stack) /\ r[Len(stack)] = f
       /\ \A i \in 1 .. Len(stack) - 1 : r[i] = stack[i]
  BY <1>2, <1>3, <2>1 DEF r, ReplaceTop, GoodFrame
 <2>3. \A i \in 1 .. Len(stack) : i # Len(stack) => i \in 1 .. Len(stack) - 1
  BY <1>2
 <2> QED BY <1>3, <2>2, <2>3
<1>9. CanCall(r)
 BY <1>2, <1>3, <1>7, <1>8 DEF CanCall
<1>10. CASE bucket[h].destructor_called
 <2>1. GoodNow' /\ (Ended => Ended')
  BY <1>1, <1>6, <1>7, <1>10 DEF GoodNow, Ended, Phase
 <2>2. UNCHANGED <<bucket, settled, unclean, top, free_list, object>>
  BY <1>1, <1>10
 <2>3. FreeListExact'
  BY <1>2, <2>1, <2>2, FreeListSame DEF ListSame
 <2>4. DtorInv'
  <3>1. DtorSame
   BY <2>1, <2>2 DEF DtorSame
  <3> QED BY <1>2, <3>1, DtorInvSame
 <2> QED BY <2>1, <2>3, <2>4 DEF RefsOK
<1>11. CASE ~bucket[h].destructor_called
 <2>1. Good(b, object, symbol_table, r, unclean, top)
  BY <1>4, <1>6
 <2>2. \A i \in 1 .. Len(r) : r[i].h = h => r[i].fn # "del_ref_free"
  <3>1. Len(stack) \in HoldersOf(stack, h) /\ stack[Len(stack)].fn # "del_ref_free"
   BY <1>2, <1>5 DEF HoldersOf, HoldingFrames
  <3>2. \A i \in 1 .. Len(stack) : stack[i].h = h => stack[i].fn # "del_ref_free"
   BY <1>2, <3>1, NotFreeing DEF GoodNow
  <3> QED BY <1>8, <3>2
 <2>3. Ended => r[1].fn \in EndPhases
  BY <1>7, EndedIs
 <2>4. Phase = "free_all" \/ r[1].fn \notin EndPhases
  BY <1>2, <1>7 DEF EndPhases, Phase, CanCall
 <2>5. zend_objects_destroy_object(h, f, b)
  BY <1>1, <1>11
 <2> QED BY <1>1, <1>2, <1>4, <1>9, <1>11, <2>1, <2>2, <2>3, <2>4, <2>5, DestroyRefs DEF r
<1> QED BY <1>10, <1>11

\* Every step of del_ref.
LEMMA DelRefRefs ==
    ASSUME RefsInv, DelRefShared \/ DelRefLast \/ DelRefAfterDtor \/ DelRefAfterFree
    PROVE  RefsOK'
BY SharedRefs, LastRefs, AfterDtorRefs, AfterFreeRefs

--------------------
(* The storage of an object, and the symbol table. *)

\* zend_object_std_dtor destroys a property.
LEMMA FreePropertyRefs == ASSUME RefsInv, NEW p \in Props, FreeProperty(p) PROVE RefsOK'
<1> DEFINE h == Top.h
<1>1. /\ Top.fn = "free_storage"
      /\ object' = [object EXCEPT ![h].prop[p] = 0]
      /\ stack' = Release(stack, object[h].prop[p])
      /\ UNCHANGED <<bucket, top, free_list, symbol_table, settled, unclean>>
 BY DEF FreeProperty, Releasing, Release, Push, storeVars, symVars
<1>2. /\ Types(bucket, object, symbol_table) /\ StackOK(stack) /\ GoodNow
      /\ FreeListExact /\ DtorInv /\ CanCall(stack)
      /\ bucket \in [Handles -> BucketType] /\ object \in [Handles -> ObjectType]
      /\ Top = stack[Len(stack)] /\ Len(stack) > 1 /\ Len(stack) \in Nat /\ h \in Handles
      /\ stack[1].fn \notin Halted
 BY <1>1, EngineNow DEF Inner, Halted
<1>3. object[h].live
 BY <1>1, <1>2 DEF GoodNow, Good, FramesOK
<1> HIDE DEF h
<1>4. Good(bucket, [object EXCEPT ![h].prop[p] = 0], symbol_table,
           Release(stack, object[h].prop[p]), unclean, top)
 <2>1. Good(AddRef(bucket, 0), [object EXCEPT ![h].prop[p] = 0], symbol_table,
            Release(stack, object[h].prop[p]), unclean, top)
  BY <1>2, <1>3, PropGood DEF GoodNow
 <2> QED BY <2>1 DEF AddRef
<1>5. GoodNow'
 BY <1>1, <1>4 DEF GoodNow
<1>6. stack'[1] = stack[1]
 <2>1. object[h].prop[p] \in Handles \cup {0}
  BY <1>2 DEF ObjectType
 <2> QED BY <1>1, <1>2, <2>1, ReleaseSeq
<1>7. \A k \in Handles : object'[k].destr = object[k].destr
 BY <1>1, <1>2 DEF ObjectType
<1>8. FreeListExact' /\ DtorInv'
 <2>1. bucket' = AddRef(bucket, 0)
  BY <1>1 DEF AddRef
 <2> QED BY <1>1, <1>2, <1>6, <1>7, <2>1, MovedNow
<1> QED BY <1>5, <1>8 DEF RefsOK

\* The object itself is freed.
LEMMA FreeObjectRefs == ASSUME RefsInv, FreeObject PROVE RefsOK'
<1> DEFINE h == Top.h
<1>1. /\ Top.fn = "free_storage" /\ NoProps(object, h)
      /\ object' = [object EXCEPT ![h] = NoObject]
      /\ stack' = Callers
      /\ UNCHANGED <<bucket, top, free_list, symbol_table, settled, unclean>>
 BY DEF FreeObject, NoProps, storeVars, symVars
<1>2. /\ Types(bucket, object, symbol_table) /\ StackOK(stack) /\ GoodNow
      /\ FreeListExact /\ DtorInv
      /\ object \in [Handles -> ObjectType]
      /\ Top = stack[Len(stack)] /\ Len(stack) > 1 /\ h \in Handles
      /\ Callers[1] = stack[1]
 BY <1>1, EngineNow DEF Inner, Halted
<1>3. stack[Len(stack)].fn = "free_storage" /\ stack[Len(stack)].h = h
 BY <1>1, <1>2
<1> HIDE DEF h
<1>4. GoodNow'
 <2>1. Good(bucket, [object EXCEPT ![h] = NoObject], symbol_table,
            SubSeq(stack, 1, Len(stack) - 1), unclean, top)
  BY <1>1, <1>2, <1>3, FreeObjectGood DEF GoodNow
 <2> QED BY <1>1, <2>1 DEF GoodNow, Callers
<1>5. Ended => Ended'
 BY <1>1, <1>2 DEF Ended, Phase
<1>6. FreeListExact'
 BY <1>1, <1>2, <1>5, FreeListSame DEF ListSame
<1>7. DtorInv'
 <2>1. \A k \in Handles : object'[k].destr = "public" => object[k].destr = "public"
  BY <1>1, <1>2 DEF NoObject
 <2>2. DtorSame
  BY <1>1, <1>5, <2>1 DEF DtorSame
 <2> QED BY <1>2, <2>2, DtorInvSame
<1> QED BY <1>4, <1>6, <1>7 DEF RefsOK

\* A variable leaves the symbol table and its reference is released.
LEMMA UnsetNow ==
    ASSUME RefsInv, Top.fn \in {"symtab", "symtab_destroy"}, NEW v \in Vars,
           symbol_table' = [symbol_table EXCEPT ![v] = 0],
           stack' = Release(stack, symbol_table[v]),
           UNCHANGED <<bucket, top, free_list, object, settled, unclean>>
    PROVE  RefsOK'
<1>1. /\ Types(bucket, object, symbol_table) /\ StackOK(stack) /\ GoodNow
      /\ FreeListExact /\ DtorInv /\ bucket \in [Handles -> BucketType]
      /\ stack[1].fn \notin Halted /\ Phase \notin Halted /\ Phase = Top.fn
 BY EngineNow DEF Halted, Phases
<1>2. CanCall(stack)
 BY <1>1, Now
<1>3. symbol_table[v] \in Handles \cup {0}
 BY <1>1 DEF Types
<1>4. bucket' = AddRef(bucket, 0)
 BY DEF AddRef
<1>5. Good(AddRef(bucket, 0), object, [symbol_table EXCEPT ![v] = 0],
           Release(stack, symbol_table[v]), unclean, top)
 BY <1>1, <1>2, VarGood DEF GoodNow
<1>6. GoodNow'
 BY <1>4, <1>5 DEF GoodNow
<1>7. stack'[1] = stack[1]
 BY <1>1, <1>3, ReleaseSeq
<1>8. FreeListExact' /\ DtorInv'
 BY <1>1, <1>4, <1>7, MovedNow
<1> QED BY <1>6, <1>8 DEF RefsOK

\* Neither the store, the heap, the symbols nor the stack change.
LEMMA SameNow ==
    ASSUME RefsInv,
           UNCHANGED <<bucket, top, free_list, object, settled, symbol_table, stack, unclean>>
    PROVE  RefsOK'
BY DEF RefsInv, RefsOK, GoodNow, FreeListExact, DtorInv, Ended, Phase

\* shutdown_destructors' walk of the symbol table.
LEMMA SymtabRefs ==
    ASSUME RefsInv, SymtabPass \/ \E v \in Vars : SymtabVisit(v)
    PROVE  RefsOK'
<1>1. CASE SymtabPass
 <2>1. /\ Top.fn = "symtab" /\ (EnterPhase("symtab", 0) \/ EnterPhase("call_dtors", 1))
       /\ UNCHANGED <<bucket, top, free_list, object, settled, symbol_table, unclean>>
  BY <1>1 DEF SymtabPass, storeVars, heapVars, symVars
 <2>2. Len(stack) = 1 /\ Phase = "symtab" /\ Phase \notin Halted
  BY <2>1, EngineNow DEF Halted, Phases
 <2>3. GoodFrame(Frame("symtab", 0)) /\ GoodFrame(Frame("call_dtors", 1))
  BY FrameOK, OneOK DEF Phases
 <2>4. ~Ended
  BY <2>2 DEF Ended
 <2>5. CASE EnterPhase("symtab", 0)
  BY <2>1, <2>2, <2>3, <2>4, <2>5, EnterNow DEF Phases
 <2>6. CASE EnterPhase("call_dtors", 1)
  BY <2>1, <2>2, <2>3, <2>4, <2>6, EnterNow DEF Phases
 <2> QED BY <2>1, <2>5, <2>6
<1>2. ASSUME NEW v \in Vars, SymtabVisit(v) PROVE RefsOK'
 <2>1. /\ Top.fn = "symtab"
       /\ UNCHANGED <<bucket, top, free_list, object, settled, unclean>>
       /\ \/ UNCHANGED <<symbol_table, stack>>
          \/ /\ symbol_table' = [symbol_table EXCEPT ![v] = 0]
             /\ stack' = Release(stack, symbol_table[v])
  BY <1>2 DEF SymtabVisit, storeVars, heapVars, Releasing, Release, Push
 <2> QED BY <2>1, UnsetNow, SameNow
<1> QED BY <1>1, <1>2

\* shutdown_executor destroys the symbol table.
LEMMA SymtabDestroyRefs == ASSUME RefsInv, NEW v \in Vars, SymtabDestroy(v) PROVE RefsOK'
<1>1. /\ Top.fn = "symtab_destroy"
      /\ UNCHANGED <<bucket, top, free_list, object, settled, unclean>>
      /\ \/ UNCHANGED <<symbol_table, stack>>
         \/ /\ symbol_table' = [symbol_table EXCEPT ![v] = 0]
            /\ stack' = Release(stack, symbol_table[v])
 BY DEF SymtabDestroy, storeVars, heapVars, Releasing, Release, Push
<1> QED BY <1>1, UnsetNow, SameNow

--------------------
(* The loops of the shutdown. *)

\* A phase alone on the stack is replaced by another.
LEMMA ReplacePhase ==
    ASSUME StackOK(stack), Len(stack) = 1, NEW g
    PROVE  ReplaceTop(g) = <<g>>
<1>1. Callers \in Seq(FrameType) /\ Len(Callers) = 0
 BY PopSeq DEF StackOK, Callers
<1>2. Callers = <<>>
 BY <1>1
<1> QED BY <1>2 DEF ReplaceTop

\* zend_objects_store_call_destructors.
LEMMA CallDtorsLoopRefs == ASSUME RefsInv, CallDtorsLoop PROVE RefsOK'
<1> DEFINE i == Top.h
           f == Frame("call_dtors_dtor", i)
           b == [bucket EXCEPT ![i] = [@ EXCEPT !.destructor_called = TRUE, !.refcount = bucket[i].refcount + 1]]
<1>1. /\ Top.fn = "call_dtors" /\ i < top
      /\ UNCHANGED <<top, free_list, object, symbol_table>>
      /\ IF bucket[i].valid /\ ~bucket[i].destructor_called
         THEN zend_objects_destroy_object(i, f, b)
         ELSE EnterPhase("call_dtors", i + 1) /\ UNCHANGED <<bucket, settled, unclean>>
 BY DEF CallDtorsLoop, symVars
<1>2. /\ Types(bucket, object, symbol_table) /\ StackOK(stack) /\ GoodNow
      /\ bucket \in [Handles -> BucketType] /\ Phase \notin Halted
      /\ Len(stack) = 1 /\ Phase = "call_dtors" /\ Top = stack[1] /\ GoodFrame(Top)
 BY <1>1, EngineNow DEF Phases, Halted
<1>3. i \in Handles /\ i + 1 \in 1 .. MaxCreated + 1
 <2>1. top \in 1 .. MaxCreated + 1 /\ i \in 0 .. MaxCreated + 1 /\ i >= 1
  BY <1>1, <1>2 DEF RefsInv, Inv, StoreOK, GoodFrame, FrameType
 <2> HIDE DEF i
 <2> QED BY <1>1, <2>1, BoundAssumption DEF Handles
<1>4. ~Ended
 BY <1>2 DEF Ended
<1>5. CASE bucket[i].valid /\ ~bucket[i].destructor_called
 <2>1. GoodFrame(f) /\ f.fn = "call_dtors_dtor" /\ f.h = i
  BY <1>3, FrameOK DEF Frame
 <2>2. /\ b \in [Handles -> BucketType]
       /\ b[i].refcount = bucket[i].refcount + 1 /\ b[i].valid = bucket[i].valid
       /\ \A k \in Handles : k # i => b[k] = bucket[k]
  <3>1. \A k \in Handles : bucket[k] \in BucketType
   BY <1>2
  <3> DEFINE n == bucket[i].refcount + 1
  <3>2. b[i] = [bucket[i] EXCEPT !.destructor_called = TRUE, !.refcount = n]
   BY <1>2, <1>3
  <3>3. /\ b[i] \in BucketType
        /\ b[i].refcount = bucket[i].refcount + 1 /\ b[i].valid = bucket[i].valid
   <4> HIDE DEF b, i
   <4>1. bucket[i] \in BucketType
    BY <1>3, <3>1
   <4>2. n \in Int
    BY <4>1 DEF BucketType
   <4> HIDE DEF n
   <4>3. b[i] \in BucketType /\ b[i].refcount = n /\ b[i].valid = bucket[i].valid
    BY <3>2, <4>1, <4>2 DEF BucketType
   <4> QED BY <4>3 DEF n
  <3>4. \A k \in Handles : k # i => b[k] = bucket[k]
   BY <1>2, <1>3
  <3>5. b \in [Handles -> BucketType]
   BY <1>2, <1>3, <3>1, <3>3, <3>4
  <3> QED BY <3>3, <3>4, <3>5
 <2>3. stack[1].fn = "call_dtors"
  BY <1>1, <1>2
 <2>4. zend_objects_destroy_object(i, f, b)
  BY <1>1, <1>5
 <2> HIDE DEF f, b, i
 <2>5. Handed(bucket, b, stack[1], f)
  <3>1. \A k \in Handles : bucket[k].refcount \in Int
   BY <1>2 DEF BucketType
  <3>2. \A k \in Handles : One(Holds(stack[1], k)) = 0 /\ One(Holds(f, k)) = Is(k, i)
   BY <2>1, <2>3 DEF One, Holds, HoldingFrames, TryFrames, Is
  <3>3. \A k \in Handles :
          b[k].valid = bucket[k].valid /\ b[k].refcount = bucket[k].refcount + Is(k, i)
   BY <2>2, <3>1 DEF Is
  <3> QED BY <3>1, <3>2, <3>3 DEF Handed, Is
 <2>6. /\ Good(b, object, symbol_table, <<f>>, unclean, top)
       /\ CanCall(<<f>>)
  BY <1>2, <1>4, <1>5, <2>1, <2>2, <2>5, PhaseNow DEF Phases
 <2>7. ReplaceTop(f) = <<f>> /\ <<f>>[1] = f
  BY <1>2, ReplacePhase
 <2>8. \A m \in 1 .. Len(<<f>>) : <<f>>[m].fn # "del_ref_free"
  BY <2>1
 <2>9. \A k \in Handles :
         /\ b[k].valid = bucket[k].valid
         /\ k # i => b[k].destructor_called = bucket[k].destructor_called
  BY <2>2
 <2>10. f.fn \notin EndPhases
  BY <2>1 DEF EndPhases
 <2> DEFINE r == <<f>>
 <2>11. r = ReplaceTop(f) /\ r[1] = f
  BY <2>7
 <2>12. /\ Good(b, object, symbol_table, r, unclean, top)
        /\ CanCall(r)
        /\ \A m \in 1 .. Len(r) : r[m].h = i => r[m].fn # "del_ref_free"
  BY <2>6, <2>8
 <2> HIDE DEF r
 <2> QED BY <1>1, <1>2, <1>3, <1>4, <1>5, <2>2, <2>4, <2>9, <2>10, <2>11, <2>12, DestroyRefs
<1>6. CASE ~(bucket[i].valid /\ ~bucket[i].destructor_called)
 <2>1. GoodFrame(Frame("call_dtors", i + 1))
  BY <1>3, FrameOK DEF Phases
 <2>2. EnterPhase("call_dtors", i + 1) /\ UNCHANGED <<bucket, settled, unclean>>
  BY <1>1, <1>6
 <2> QED BY <1>1, <1>2, <1>4, <2>1, <2>2, EnterNow DEF Phases
<1> QED BY <1>5, <1>6

\* A destructor that zend_objects_store_call_destructors called has returned.
LEMMA CallDtorsAfterRefs == ASSUME RefsInv, CallDtorsAfterDtor PROVE RefsOK'
<1> DEFINE i == Top.h
           g == Frame("call_dtors", i + 1)
           b == [bucket EXCEPT ![i].refcount = @ - 1]
<1>1. /\ Top.fn = "call_dtors_dtor" /\ bucket' = b /\ stack' = <<g>>
      /\ UNCHANGED <<top, free_list, object, settled, symbol_table, unclean>>
 BY DEF CallDtorsAfterDtor, EnterPhase, heapVars, symVars
<1>2. /\ Types(bucket, object, symbol_table) /\ StackOK(stack) /\ GoodNow
      /\ FreeListExact /\ DtorInv
      /\ bucket \in [Handles -> BucketType] /\ Phase \notin Halted
      /\ Len(stack) = 1 /\ Phase = "call_dtors_dtor" /\ Top = stack[1] /\ GoodFrame(Top)
 BY <1>1, EngineNow DEF Phases, Halted
<1>3. i \in Handles /\ i + 1 \in 1 .. MaxCreated + 1
 <2>1. i \in Handles
  BY <1>1, <1>2 DEF GoodFrame
 <2> HIDE DEF i
 <2> QED BY <2>1, BoundAssumption DEF Handles
<1>4. ~Ended
 BY <1>2 DEF Ended
<1>5. GoodFrame(g) /\ g.fn = "call_dtors"
 BY <1>3, FrameOK DEF Phases
<1>6. /\ b \in [Handles -> BucketType]
      /\ \A k \in Handles :
           /\ b[k].valid = bucket[k].valid
           /\ b[k].destructor_called = bucket[k].destructor_called
           /\ b[k].refcount = bucket[k].refcount - Is(k, i)
 BY <1>2, <1>3, CountedDown
<1>7. stack[1].fn = "call_dtors_dtor" /\ stack[1].h = i
 BY <1>1, <1>2
<1> HIDE DEF g, b, i
<1>8. Handed(bucket, b, stack[1], g)
 <2>1. \A k \in Handles : bucket[k].refcount \in Int
  BY <1>2 DEF BucketType
 <2>2. \A k \in Handles : One(Holds(stack[1], k)) = Is(k, i) /\ One(Holds(g, k)) = 0
  BY <1>5, <1>7 DEF One, Holds, HoldingFrames, TryFrames, UserFrames, Is
 <2> QED BY <1>6, <2>1, <2>2 DEF Handed, Is
<1>9. Good(b, object, symbol_table, <<g>>, unclean, top)
 BY <1>2, <1>4, <1>5, <1>6, <1>8, PhaseNow DEF Phases
<1>10. GoodNow'
 BY <1>1, <1>9 DEF GoodNow
<1>11. FreeListExact'
 BY <1>1, <1>2, <1>4, <1>6, FreeListSame DEF ListSame
<1>12. DtorInv'
 <2>1. DtorSame
  BY <1>1, <1>4, <1>6 DEF DtorSame
 <2> QED BY <1>2, <2>1, DtorInvSame
<1> QED BY <1>10, <1>11, <1>12 DEF RefsOK

\* Every step of that loop.
LEMMA CallDtorsRefs ==
    ASSUME RefsInv, CallDtorsLoop \/ CallDtorsAfterDtor \/ CallDtorsEnd
    PROVE  RefsOK'
<1>1. CASE CallDtorsEnd
 <2>1. /\ Top.fn = "call_dtors" /\ EnterPhase("end_ob_buffers", 1)
       /\ UNCHANGED <<bucket, top, free_list, object, settled, symbol_table, unclean>>
  BY <1>1 DEF CallDtorsEnd, storeVars, heapVars, symVars
 <2>2. Len(stack) = 1 /\ Phase = "call_dtors" /\ Phase \notin Halted
  BY <2>1, EngineNow DEF Halted, Phases
 <2>3. GoodFrame(Frame("end_ob_buffers", 1)) /\ ~Ended
  BY <2>2, FrameOK, OneOK DEF Phases, Ended
 <2> QED BY <2>1, <2>2, <2>3, EnterNow DEF Phases
<1> QED BY <1>1, CallDtorsLoopRefs, CallDtorsAfterRefs

\* shutdown_destructors' zend_catch marks every object.
LEMMA MarkRefs == ASSUME RefsInv, MarkDestructed PROVE RefsOK'
<1> DEFINE g == Frame("end_ob_buffers", 1)
           b == mark_destructed(bucket)
<1>1. /\ Top.fn = "mark" /\ bucket' = b /\ stack' = <<g>>
      /\ UNCHANGED <<top, free_list, object, settled, symbol_table, unclean>>
 BY DEF MarkDestructed, EnterPhase, heapVars, symVars
<1>2. /\ Types(bucket, object, symbol_table) /\ StackOK(stack) /\ GoodNow
      /\ FreeListExact
      /\ bucket \in [Handles -> BucketType] /\ Phase \notin Halted
      /\ Len(stack) = 1 /\ Phase = "mark" /\ stack[1].fn = "mark"
 BY <1>1, EngineNow DEF Phases, Halted
<1>3. ~Ended /\ unclean
 BY <1>2 DEF Ended, GoodNow, Good, PhaseOK
<1>4. GoodFrame(g) /\ g.fn = "end_ob_buffers"
 BY FrameOK, OneOK DEF Phases
<1>5. /\ b \in [Handles -> BucketType]
      /\ \A k \in Handles : b[k].valid = bucket[k].valid /\ b[k].refcount = bucket[k].refcount
 BY <1>2, MarkSame
<1> HIDE DEF g, b
<1>6. Handed(bucket, b, stack[1], g)
 <2>1. \A k \in Handles : bucket[k].refcount \in Int
  BY <1>2 DEF BucketType
 <2>2. \A k \in Handles : One(Holds(stack[1], k)) = 0 /\ One(Holds(g, k)) = 0
  BY <1>2, <1>4 DEF One, Holds, HoldingFrames, TryFrames
 <2> QED BY <1>5, <2>1, <2>2 DEF Handed
<1>7. Good(b, object, symbol_table, <<g>>, unclean, top)
 BY <1>2, <1>3, <1>4, <1>5, <1>6, PhaseNow DEF Phases
<1>8. GoodNow'
 BY <1>1, <1>7 DEF GoodNow
<1>9. FreeListExact'
 BY <1>1, <1>2, <1>3, <1>5, FreeListSame DEF ListSame
<1>10. DtorInv'
 BY <1>1, <1>3 DEF DtorInv
<1> QED BY <1>8, <1>9, <1>10 DEF RefsOK

\* zend_objects_store_free_object_storage, one iteration.
LEMMA FreeAllRefs == ASSUME RefsInv, FreeAllLoop PROVE RefsOK'
<1> DEFINE h == Top.h
           g == Frame("free_all", h + 1)
           f == Frame("free_storage", h)
<1>1. /\ Top.fn = "free_all" /\ h < top
      /\ bucket' = [bucket EXCEPT ![h].valid = FALSE]
      /\ stack' = IF bucket[h].valid THEN Append(ReplaceTop(g), f) ELSE ReplaceTop(g)
      /\ UNCHANGED <<top, object, symbol_table, unclean>>
 BY DEF FreeAllLoop, heapVars, symVars
<1>2. /\ Types(bucket, object, symbol_table) /\ StackOK(stack) /\ GoodNow
      /\ bucket \in [Handles -> BucketType]
      /\ Len(stack) = 1 /\ Top = stack[1] /\ GoodFrame(Top)
 BY <1>1, EngineNow DEF Phases, Halted
<1>3. h \in Handles /\ h + 1 \in 1 .. MaxCreated + 1
 <2>1. top \in 1 .. MaxCreated + 1 /\ h \in 0 .. MaxCreated + 1 /\ h >= 1
  BY <1>1, <1>2 DEF RefsInv, Inv, StoreOK, GoodFrame, FrameType
 <2> HIDE DEF h
 <2> QED BY <1>1, <2>1, BoundAssumption DEF Handles
<1>4. GoodFrame(g) /\ g.fn = "free_all" /\ g.h = h + 1
 BY <1>3, FrameOK DEF Phases, Frame
<1>5. GoodFrame(f) /\ f.fn = "free_storage" /\ f.h = h
 BY <1>3, FrameOK DEF Inner, Frame
<1>6. ~bucket'[h].valid /\ \A k \in Handles : k # h => bucket'[k] = bucket[k]
 BY <1>1, <1>2, <1>3 DEF BucketType
<1>7. stack[1].fn = "free_all" /\ stack[1].h = h
 BY <1>1, <1>2
<1> HIDE DEF h, g, f
<1>8. /\ ~bucket[h].valid => Good(bucket', object, symbol_table, <<g>>, unclean, top)
      /\ bucket[h].valid => Good(bucket', object, symbol_table, Append(<<g>>, f), unclean, top)
 BY <1>2, <1>3, <1>4, <1>5, <1>6, <1>7, FreeAllGood DEF GoodNow
<1>9. ReplaceTop(g) = <<g>>
 BY <1>2, ReplacePhase
<1>10. GoodNow'
 BY <1>1, <1>8, <1>9 DEF GoodNow
<1>11. Ended'
 <2>1. Append(<<g>>, f)[1] = g /\ <<g>>[1] = g
  OBVIOUS
 <2> QED BY <1>1, <1>4, <1>9, <2>1 DEF Ended, Phase
<1> QED BY <1>10, <1>11 DEF RefsOK, FreeListExact, DtorInv

\* Every step of shutdown_executor.
LEMMA ShutdownRefs ==
    ASSUME RefsInv,
           \/ MarkDestructed
           \/ \E v \in Vars : SymtabDestroy(v)
           \/ SymtabDestroyed \/ FreeAllLoop \/ FreeAllEnd \/ StoreDestroy
    PROVE  RefsOK'
<1>1. CASE SymtabDestroyed
 <2>1. /\ Top.fn = "symtab_destroy" /\ EnterPhase("free_all", 1)
       /\ UNCHANGED <<bucket, top, free_list, object, settled, symbol_table, unclean>>
  BY <1>1 DEF SymtabDestroyed, storeVars, heapVars, symVars
 <2>2. Len(stack) = 1 /\ Phase = "symtab_destroy" /\ Phase \notin Halted
  BY <2>1, EngineNow DEF Halted, Phases
 <2>3. GoodFrame(Frame("free_all", 1)) /\ ~Ended
  BY <2>2, FrameOK, OneOK DEF Phases, Ended
 <2> QED BY <2>1, <2>2, <2>3, EnterNow DEF Phases
<1>2. CASE FreeAllEnd
 <2>1. /\ Top.fn = "free_all" /\ Top.h = top /\ EnterPhase("store_destroy", 1)
       /\ UNCHANGED <<bucket, top, free_list, object, settled, symbol_table, unclean>>
  BY <1>2 DEF FreeAllEnd, storeVars, heapVars, symVars
 <2>2. /\ Len(stack) = 1 /\ Phase = "free_all" /\ Phase \notin Halted /\ GoodNow
       /\ Top = stack[1]
  BY <2>1, EngineNow DEF Halted, Phases
 <2>3. ~unclean => AllFreed(object)
  <3> SUFFICES ASSUME ~unclean, NEW k \in Handles, object[k].live PROVE FALSE
   BY DEF AllFreed
  <3>1. k < top /\ (bucket[k].valid \/ \E i \in 1 .. Len(stack) :
                       stack[i].fn = "free_storage" /\ stack[i].h = k)
   BY <2>2 DEF GoodNow, Good, LiveOK
  <3>2. \A i \in 1 .. Len(stack) : stack[i].fn = "free_all"
   BY <2>1, <2>2
  <3>3. ~bucket[k].valid
   BY <2>1, <2>2, <3>1 DEF GoodNow, Good, PhaseOK
  <3> QED BY <3>1, <3>2, <3>3
 <2>4. GoodFrame(Frame("store_destroy", 1))
  BY FrameOK, OneOK DEF Phases
 <2> QED BY <2>1, <2>2, <2>3, <2>4, EnterNow DEF Phases, EndPhases
<1>3. CASE StoreDestroy
 <2>1. /\ Top.fn = "store_destroy" /\ EnterPhase("done", 0)
       /\ UNCHANGED <<bucket, top, free_list, object, settled, symbol_table, unclean>>
  BY <1>3 DEF StoreDestroy, heapVars, symVars
 <2>2. /\ Len(stack) = 1 /\ Phase = "store_destroy" /\ Phase \notin Halted /\ GoodNow
  BY <2>1, EngineNow DEF Halted, Phases
 <2>3. ~unclean => AllFreed(object)
  BY <2>2 DEF GoodNow, Good, PhaseOK, AllFreed, Phase
 <2>4. GoodFrame(Frame("done", 0))
  BY FrameOK DEF Halted
 <2> QED BY <2>1, <2>2, <2>3, <2>4, EnterNow DEF Phases, EndPhases
<1> QED BY <1>1, <1>2, <1>3, MarkRefs, SymtabDestroyRefs, FreeAllRefs

\* Every step of the engine.
LEMMA EngineRefs == ASSUME RefsInv, EngineStep PROVE RefsOK'
BY DelRefRefs, FreePropertyRefs, FreeObjectRefs, SymtabRefs, CallDtorsRefs, ShutdownRefs
   DEF EngineStep

--------------------
(* Theorems. *)

\* No reference, and no object.
LEMMA InitRefs == Init => RefsInv
<1> SUFFICES ASSUME Init PROVE RefsInv
 OBVIOUS
<1> DEFINE f == Frame("main", 0)
<1>1. /\ bucket = [h \in Handles |-> NoBucket] /\ top = 1 /\ free_list = <<>>
      /\ object = [h \in Handles |-> NoObject] /\ symbol_table = [v \in Vars |-> 0]
      /\ stack = <<f>> /\ unclean = FALSE
 BY DEF Init
<1>2. f.fn = "main" /\ f.h = 0
 BY DEF Frame
<1> HIDE DEF f
<1>3. \A h \in Handles : ~bucket[h].valid /\ ~object[h].live /\ h # 0
 BY <1>1 DEF NoBucket, NoObject, Handles
<1>4. /\ Len(stack) = 1 /\ stack[1] = f /\ stack[1].fn = "main" /\ stack[Len(stack)] = f
      /\ \A i \in 1 .. Len(stack) : stack[i].fn = "main"
 BY <1>1, <1>2
<1>5. \A k \in Handles : RefsIn(object, symbol_table, stack, k) = 0
 <2> TAKE k \in Handles
 <2>1. VarsOf(symbol_table, k) = {}
  BY <1>1, <1>3 DEF VarsOf
 <2>2. PropsOf(object, k) = {}
  BY <1>3 DEF PropsOf
 <2>3. HoldersOf(stack, k) = {}
  BY <1>4 DEF HoldersOf, HoldingFrames, TryFrames
 <2>4. VarRefs(symbol_table, k) = 0 /\ PropRefs(object, k) = 0 /\ FrameRefs(stack, k) = 0
  BY <2>1, <2>2, <2>3, FS_EmptySet DEF VarRefs, PropRefs, FrameRefs
 <2> QED BY <2>4 DEF RefsIn
<1>6. CountsOK(bucket, object, symbol_table, stack, unclean)
 BY <1>3, <1>5 DEF CountsOK
<1>7. FramesOK(bucket, object, stack, unclean)
 BY <1>4 DEF FramesOK, TryFrames
<1>8. LiveOK(bucket, object, stack, unclean, top)
 BY <1>3 DEF LiveOK
<1>9. PhaseOK(bucket, object, stack, unclean)
 BY <1>4 DEF PhaseOK, EndPhases
<1>10. GoodNow
 BY <1>6, <1>7, <1>8, <1>9 DEF GoodNow, Good
<1>11. FreeListExact
 <2>1. Len(free_list) = 0
  BY <1>1
 <2>2. {h \in Handles : h < top /\ ~bucket[h].valid} = {}
  BY <1>1 DEF Handles
 <2> QED BY <2>1, <2>2 DEF FreeListExact
<1>12. DtorInv
 BY <1>3 DEF DtorInv
<1> QED BY <1>10, <1>11, <1>12, InitInv DEF RefsInv, RefsOK

\* Every step.
LEMMA StepRefs == RefsInv /\ [Next]_vars => RefsInv'
<1> SUFFICES ASSUME RefsInv, [Next]_vars PROVE RefsInv'
 OBVIOUS
<1>1. Inv'
 BY StepInv DEF RefsInv
<1>2. CASE UserStep
 BY <1>1, <1>2, UserRefs DEF RefsInv
<1>3. CASE EngineStep
 BY <1>1, <1>3, EngineRefs DEF RefsInv
<1>4. CASE UNCHANGED vars
 <2>1. UNCHANGED <<bucket, top, free_list, object, settled, symbol_table, stack, unclean>>
  BY <1>4 DEF vars, storeVars, heapVars, symVars
 <2> QED BY <1>1, <2>1, SameNow DEF RefsInv
<1> QED BY <1>2, <1>3, <1>4 DEF Next, Finished

\* The invariant holds throughout the request.
LEMMA RefsAlways == Spec => []RefsInv
<1> QED BY InitRefs, StepRefs, PTL DEF Spec

\* A phase that is not over has not halted.
LEMMA NotEnded ==
    ASSUME RefsInv, ~Ended
    PROVE  /\ Types(bucket, object, symbol_table) /\ StackOK(stack) /\ GoodNow /\ FreeListExact
           /\ stack[1].fn \notin EndPhases /\ Len(stack) \in Nat
BY Now DEF Ended, Halted, EndPhases, Phase, StackOK

\* Storage that is being freed belongs to one release.
LEMMA RefsFreedOnce == RefsInv => FreedOnce
<1> SUFFICES ASSUME RefsInv, NEW i \in 1 .. Len(stack), NEW j \in 1 .. Len(stack),
                    stack[i].fn = "free_storage", stack[j].fn = "free_storage"
             PROVE  object[stack[i].h].live /\ (stack[i].h = stack[j].h => i = j)
 BY DEF FreedOnce
<1>1. StackOK(stack)
 BY DEF RefsInv, Inv
<1>2. Phase # "crashed"
 <2> SUFFICES ASSUME Phase = "crashed" PROVE FALSE
  OBVIOUS
 <2>1. Len(stack) = 1
  BY <1>1 DEF StackOK, Halted, Phase
 <2> QED BY <2>1 DEF Phase
<1>3. GoodNow /\ Types(bucket, object, symbol_table)
 BY <1>2 DEF RefsInv, RefsOK, Inv, StoreOK, HeapOK, Types, BucketType, ObjectType
<1>4. object[stack[i].h].live
 BY <1>3 DEF GoodNow, Good, FramesOK
<1> QED BY <1>1, <1>3, <1>4, StorageOnce DEF GoodNow

\* zend_objects_store_add_ref and zend_objects_store_del_ref keep a bucket's
\* refcount equal to the references that variables, properties and running
\* calls hold; after a bailout, which loses the references of the calls it
\* abandons, it is never too low.
THEOREM CountsExact == Spec => []RefcountExact
<1>1. RefsInv => RefcountExact
 <2> SUFFICES ASSUME RefsInv, ~Ended, NEW h \in Handles, bucket[h].valid
              PROVE  IF unclean THEN bucket[h].refcount >= Refs(h)
                     ELSE bucket[h].refcount = Refs(h)
  BY DEF RefcountExact
 <2>1. CountsOK(bucket, object, symbol_table, stack, unclean)
  BY NotEnded DEF GoodNow, Good
 <2>2. Refs(h) = RefsIn(object, symbol_table, stack, h)
  BY DEF Refs, RefsIn, VarRefs, PropRefs, FrameRefs, VarsOf, PropsOf, HoldersOf
 <2> QED BY <2>1, <2>2 DEF CountsOK
<1> QED BY <1>1, RefsAlways, PTL

\* No variable, property, running constructor or running destructor refers to a
\* bucket that zend_objects_store_del_ref has recycled or to an object whose
\* storage it has freed, whatever destructors do while they run.
THEOREM NothingDangles == Spec => []NoDanglingReference
<1>1. RefsInv => NoDanglingReference
 <2> SUFFICES ASSUME RefsInv, ~Ended
     PROVE  LET usable(h) == bucket[h].valid /\ object[h].live IN
            /\ \A v \in Vars : symbol_table[v] # 0 => usable(symbol_table[v])
            /\ \A o \in Handles, p \in Props :
                 object[o].live /\ object[o].prop[p] # 0 => usable(object[o].prop[p])
            /\ \A i \in 1 .. Len(stack) :
                 stack[i].fn \in {"__construct", "__destruct"} => usable(stack[i].h)
  BY DEF NoDanglingReference
 <2>1. /\ Types(bucket, object, symbol_table) /\ StackOK(stack) /\ GoodNow
       /\ stack[1].fn \notin EndPhases /\ Len(stack) \in Nat
  BY NotEnded
 <2>2. ASSUME NEW k \in Handles,
              \/ VarRefs(symbol_table, k) >= 1
              \/ PropRefs(object, k) >= 1
              \/ \E i \in HoldersOf(stack, k) : stack[i].fn # "del_ref_free"
       PROVE  bucket[k].valid /\ object[k].live
  <3>1. Usable(bucket, object, stack, k)
   BY <2>1, <2>2, UsedIsUsable DEF GoodNow
  <3> QED BY <3>1 DEF Usable
 <2>3. ASSUME NEW v \in Vars, symbol_table[v] # 0
       PROVE  bucket[symbol_table[v]].valid /\ object[symbol_table[v]].live
  <3>1. symbol_table[v] \in Handles /\ VarRefs(symbol_table, symbol_table[v]) >= 1
   BY <2>1, <2>3, VarCounts DEF Types
  <3> QED BY <2>2, <3>1
 <2>4. ASSUME NEW o \in Handles, NEW p \in Props, object[o].live, object[o].prop[p] # 0
       PROVE  bucket[object[o].prop[p]].valid /\ object[object[o].prop[p]].live
  <3>1. object[o].prop[p] \in Handles
   BY <2>1, <2>4 DEF Types, ObjectType
  <3>2. PropRefs(object, object[o].prop[p]) >= 1
   BY <2>4, PropCounts
  <3> QED BY <2>2, <3>1, <3>2
 <2>5. ASSUME NEW i \in 1 .. Len(stack), stack[i].fn \in {"__construct", "__destruct"}
       PROVE  bucket[stack[i].h].valid /\ object[stack[i].h].live
  <3>1. stack[i].h \in Handles
   BY <2>1, <2>5 DEF StackOK, GoodFrame, Inner
  <3>2. i \in HoldersOf(stack, stack[i].h) /\ stack[i].fn # "del_ref_free"
   BY <2>5 DEF HoldersOf, HoldingFrames
  <3> QED BY <2>2, <3>1, <3>2
 <2> QED BY <2>3, <2>4, <2>5
<1> QED BY <1>1, RefsAlways, PTL

\* The free list zend_objects_store_put takes its handles from holds each
\* unused handle once, and no handle on it has a release still to come.
THEOREM HandlesRecycled == Spec => []HandlesExact
<1>1. RefsInv => HandlesExact
 <2> SUFFICES ASSUME RefsInv PROVE HandlesExact
  OBVIOUS
 <2>1. FreeListExact
  BY NotEnded DEF FreeListExact
 <2> QED BY <2>1, RefsFreedOnce DEF HandlesExact
<1> QED BY <1>1, RefsAlways, PTL

\* The storage of an object is freed by one call, and a request that ends
\* without a bailout leaves none behind.
THEOREM StorageFreed == Spec => []FreedExactlyOnce
<1>1. RefsInv => FreedExactlyOnce
 <2> SUFFICES ASSUME RefsInv PROVE FreedExactlyOnce
  OBVIOUS
 <2>1. AllStorageFreed
  <3> SUFFICES ASSUME Phase = "done", ~unclean, NEW h \in Handles PROVE ~object[h].live
   BY DEF AllStorageFreed
  <3>1. GoodNow
   BY DEF RefsInv, RefsOK
  <3> QED BY <3>1 DEF GoodNow, Good, PhaseOK, Phase
 <2> QED BY <2>1, RefsFreedOnce DEF FreedExactlyOnce
<1> QED BY <1>1, RefsAlways, PTL

\* Only zend_objects_free_object_storage frees an object, the one it was
\* called for.
LEMMA OnlyFreed ==
    ASSUME RefsInv, Next, NEW h \in Handles, object[h].live, ~object'[h].live
    PROVE  FreeObject /\ h = Top.h
<1>1. object \in [Handles -> ObjectType]
 BY DEF RefsInv, Inv, HeapOK, ObjectType
<1>2. CASE object' = object
 BY <1>2
<1>3. ASSUME NEW g, NEW destr, NEW prop, NewObject(g, destr, prop) PROVE FALSE
 BY <1>1, <1>3 DEF NewObject
<1>4. ASSUME NEW o, NEW p \in Props, NEW q, object' = [object EXCEPT ![o].prop[p] = q] PROVE FALSE
 BY <1>1, <1>4 DEF ObjectType
<1>5. CASE UserStep
 <2>1. \A d \in Destructors : ~New(d)
  BY <1>3 DEF New
 <2>2. \A o \in Accessible, v \in Vars : ~zend_objects_clone_obj(o, v)
  BY <1>3 DEF zend_objects_clone_obj
 <2>3. \A o \in Accessible, p \in Props, q \in Accessible \cup {0} : ~AssignProp(o, p, q)
  BY <1>4 DEF AssignProp
 <2> QED BY <1>2, <1>5, <2>1, <2>2, <2>3
   DEF UserStep, NewHitsMemoryLimit, NewOutOfBounds, ConstructorReturns, ConstructorDiscards,
       zend_object_store_ctor_failed, AssignVar, ShareVar, Exit, FatalError, DestructorReturns,
       DestructorFails, UserPhaseEnds, heapVars
<1>6. CASE EngineStep
 <2>1. \A p \in Props : ~FreeProperty(p)
  BY <1>4 DEF FreeProperty
 <2>2. CASE FreeObject
  BY <1>1, <2>2 DEF FreeObject
 <2> QED BY <1>2, <1>6, <2>1, <2>2
   DEF EngineStep, DelRefShared, DelRefLast, DelRefAfterDtor, DelRefAfterFree, SymtabPass,
       SymtabVisit, CallDtorsLoop, CallDtorsAfterDtor, CallDtorsEnd, MarkDestructed,
       SymtabDestroy, SymtabDestroyed, FreeAllLoop, FreeAllEnd, StoreDestroy, heapVars
<1> QED BY <1>2, <1>5, <1>6 DEF Next, Finished, vars, heapVars

\* In a clean request the storage of an object with a destructor is freed only
\* after the destructor ran, or after the object's constructor threw.
THEOREM DestructorsFirst == Spec => DestructedBeforeFreed
<1>1. RefsInv /\ [Next]_vars =>
        [\A h \in Handles :
           object[h].live /\ ~object'[h].live /\ ~unclean
           /\ object[h].destr = "public" /\ ~Ended => settled[h] = 1]_vars
 <2> SUFFICES ASSUME RefsInv, Next, NEW h \in Handles,
                     object[h].live, ~object'[h].live, ~unclean,
                     object[h].destr = "public", ~Ended
              PROVE  settled[h] = 1
  OBVIOUS
 <2>1. Top.fn = "free_storage" /\ h = Top.h
  BY OnlyFreed DEF FreeObject
 <2>2. /\ StackOK(stack) /\ GoodNow /\ Len(stack) \in Nat /\ Len(stack) > 1
       /\ stack[Len(stack)].fn = "free_storage" /\ stack[Len(stack)].h = h
       /\ stack[1].fn # "free_all" /\ DtorInv
  BY <2>1, EngineNow DEF Inner, Halted, Ended, Phase
 <2> DEFINE n == Len(stack)
 <2>3. n \in 1 .. n /\ n - 1 \in 1 .. n
  BY <2>2
 <2> HIDE DEF n
 <2>4. stack[n].fn = "free_storage" /\ stack[n].h = h /\ FramesOK(bucket, object, stack, unclean)
  BY <2>2 DEF n, GoodNow, Good
 <2>5. stack[n - 1].fn = "del_ref_free" /\ stack[n - 1].h = h
  BY <2>2, <2>3, <2>4 DEF FramesOK, n
 <2>6. bucket[h].valid /\ bucket[h].destructor_called
  BY <2>3, <2>4, <2>5 DEF FramesOK, TryFrames, n
 <2> QED BY <2>2, <2>6 DEF DtorInv
<1>2. Spec => [][Next]_vars
 BY PTL DEF Spec
<1> QED BY <1>1, <1>2, RefsAlways, PTL DEF DestructedBeforeFreed
=============================================================================
