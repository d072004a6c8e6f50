---------------------------- MODULE ObjectsStore ----------------------------
(***************************************************************************)
(* The objects store of the Zend engine (Zend/zend_objects_API.c), the     *)
(* standard object's handlers (Zend/zend_objects.c), and the end of a      *)
(* request as far as objects are concerned: shutdown functions,            *)
(* shutdown_destructors, output-buffer callbacks and shutdown_executor.    *)
(*                                                                         *)
(* The engine is single threaded; what makes it hard is re-entrancy.       *)
(* Releasing a reference may call a PHP destructor, which is arbitrary     *)
(* user code and may itself create, copy and release references, exit, or  *)
(* fail.  The C call stack is therefore part of the state: user code runs  *)
(* when a user frame is on top, one statement per step, and an engine      *)
(* function that called out continues when it is on top again.             *)
(*                                                                         *)
(* Variables are PHP references, which they become when a function names   *)
(* them in a `global' statement: assigning copies a value into them before *)
(* the old one is destroyed.  So every variable and every property is its  *)
(* own zval with a counted reference to a handle; `shared' holds the       *)
(* variables whose zval a second symbol refers to.                         *)
(***************************************************************************)
EXTENDS Integers, Sequences, FiniteSets

CONSTANTS
    Vars,           \* names in the global symbol table
    Props,          \* property names of an object
    InitSize,       \* initial number of buckets (1024 in init_executor)
    MaxCreated,     \* bound: objects created in one request
    Destructors,    \* kinds of __destruct the classes have
    Interrupts      \* how user code may be cut short

ASSUME SizeAssumption == InitSize \in Nat /\ InitSize > 1

ASSUME BoundAssumption == MaxCreated \in Nat

ASSUME NamesAssumption == IsFiniteSet(Vars) /\ IsFiniteSet(Props)

ASSUME KindAssumption ==
    /\ Destructors \subseteq {"none", "public", "private"}
    /\ Interrupts \subseteq {"exit", "fatal", "exception", "memory_limit"}

VARIABLES
    bucket,         \* object_buckets[h]: valid, destructor_called, refcount
    top,            \* objects_store.top: next handle never used
    size,           \* objects_store.size: number of buckets believed to exist
    capacity,       \* number of buckets object_buckets points to
    free_list,      \* handles from free_list_head along free_list.next
    table,          \* which allocation object_buckets is; 0 is NULL
    object,         \* the zend_object a bucket points to
    symbol_table,   \* EG(symbol_table): handle held by a variable, 0 if unset
    shared,         \* variables whose zval a second symbol also holds
    stack,          \* the C call stack, bottom first
    pass,           \* shutdown_destructors' locals: count and walk position
    unclean,        \* CG(unclean_shutdown)
    created,        \* objects created so far
    settled         \* history: for the object at a handle, the runs of its
                    \* __destruct; a constructor that threw sets it to one

storeVars == <<bucket, top, size, capacity, free_list, table>>
heapVars  == <<object, created, settled>>
symVars   == <<symbol_table, shared>>
vars == <<storeVars, heapVars, symVars, stack, pass, unclean>>

Handles == 1 .. MaxCreated

NoObject == [live |-> FALSE, destr |-> "none", prop |-> [p \in Props |-> 0]]

NoBucket == [valid |-> FALSE, destructor_called |-> FALSE, refcount |-> 0]

NoPass == [symbols |-> 0, todo |-> {}]

Frame(fn, h) == [fn |-> fn, h |-> h, obj |-> 0, failure |-> FALSE]

-----------------------------------------------------------------------------
(* The call stack. *)

Top == stack[Len(stack)]

Callers == SubSeq(stack, 1, Len(stack) - 1)

Push(f) == Append(stack, f)

ReplaceTop(f) == Append(Callers, f)

\* The request's phase is the engine function at the bottom of the stack.
Phase == stack[1].fn

\* Phases in which user code runs directly.
UserPhases == {"main", "shutdown_functions", "end_ob_buffers"}

UserFrames == UserPhases \cup {"__construct", "__destruct"}

InUserCode == Top.fn \in UserFrames

\* EG(in_execution): set by execute(), restored when it returns, cleared by
\* _zend_bailout.
in_execution(frames) ==
    \E i \in 1 .. Len(frames) :
        /\ frames[i].fn \in UserFrames
        /\ \A j \in i + 1 .. Len(frames) : ~frames[j].failure

\* Frames whose call out is wrapped in zend_try inside del_ref_by_handle.
TryFrames == {"del_ref_dtor", "del_ref_free"}

\* Where php_request_shutdown continues when its current zend_try is left by
\* a bailout.  shutdown_destructors' zend_catch marks all objects first.
AfterBailout ==
    [main               |-> "shutdown_functions",
     shutdown_functions |-> "symtab",
     symtab             |-> "mark",
     call_dtors         |-> "mark",
     call_dtors_dtor    |-> "mark",
     end_ob_buffers     |-> "symtab_destroy",
     mark               |-> "end_ob_buffers",
     symtab_destroy     |-> "free_all",
     free_all           |-> "store_destroy",
     store_destroy      |-> "done"]

\* _zend_bailout: longjmp to the innermost zend_try.  References held by the
\* abandoned frames are never released.
Unwind(frames) ==
    LET tries == {i \in 1 .. Len(frames) : frames[i].fn \in TryFrames}
        catch == CHOOSE i \in tries : \A j \in tries : j <= i
    IN  IF tries = {}
        THEN <<Frame(AfterBailout[frames[1].fn], 1)>>
        ELSE Append(SubSeq(frames, 1, catch - 1),
                    [frames[catch] EXCEPT !.failure = TRUE])

Bailout(frames) ==
    /\ stack' = Unwind(frames)
    /\ unclean' = TRUE

-----------------------------------------------------------------------------
(* The store's functions. *)

\* zend_objects_store_mark_destructed on the bucket array b.
mark_destructed(b) ==
    [h \in Handles |-> [b[h] EXCEPT !.destructor_called = @ \/ b[h].valid]]

\* Handle the next zend_objects_store_put returns.
NextHandle == IF free_list # <<>> THEN Head(free_list) ELSE top

MustGrow == free_list = <<>> /\ top = size

\* The next bucket is past the end of the array: size was doubled but the
\* array was not.
PastTheEnd == free_list = <<>> /\ top # size /\ top >= capacity

\* Faulty: a recycled bucket keeps its destructor_called.
put_KeepsFlag(handle, added) ==
    /\ IF free_list # <<>>
       THEN /\ free_list' = Tail(free_list)
            /\ UNCHANGED <<top, size, capacity, table>>
       ELSE /\ top' = top + 1
            /\ UNCHANGED free_list
            /\ IF top = size
               THEN size' = 2 * size /\ capacity' = 2 * size /\ table' = table + 1
               ELSE UNCHANGED <<size, capacity, table>>
    /\ bucket' = [added EXCEPT ![handle] = [@ EXCEPT !.valid = TRUE, !.refcount = 1]]

\* zend_objects_store_put, on the buckets `added': the array with the
\* references the new object's members add already counted.
zend_objects_store_put(handle, added) ==
    /\ IF free_list # <<>>
       THEN /\ free_list' = Tail(free_list)
            /\ UNCHANGED <<top, size, capacity, table>>
       ELSE /\ top' = top + 1
            /\ UNCHANGED free_list
            /\ IF top = size
               THEN /\ size' = 2 * size
                    /\ capacity' = 2 * size
                    /\ table' = table + 1
               ELSE UNCHANGED <<size, capacity, table>>
    /\ bucket' = [added EXCEPT ![handle] =
                    [valid |-> TRUE, destructor_called |-> FALSE, refcount |-> 1]]

\* Faulty: the copied handle is not counted.
AddRef_Uncounted(b, h) == b

\* zend_objects_store_add_ref on the bucket array b.
AddRef(b, h) == IF h = 0 THEN b ELSE [b EXCEPT ![h].refcount = @ + 1]

\* A release of the reference to h: zval_ptr_dtor calls del_ref.
Releasing(h) == IF h = 0 THEN stack ELSE Push(Frame("del_ref", h))

-----------------------------------------------------------------------------
(* What user code may do: each is one PHP statement. *)

Held == {symbol_table[v] : v \in Vars}
        \cup (IF Top.fn \in {"__construct", "__destruct"} THEN {Top.h} ELSE {})

\* Objects the running function can name.
Accessible == (Held \cup {object[o].prop[p] : o \in Held \ {0}, p \in Props}) \ {0}

NewObject(h, destr, prop) ==
    /\ created < MaxCreated
    /\ created' = created + 1
    /\ object' = [object EXCEPT ![h] = [live |-> TRUE, destr |-> destr, prop |-> prop]]
    /\ settled' = [settled EXCEPT ![h] = 0]

\* new C: zend_objects_new, then the constructor runs.
New(destr) ==
    /\ InUserCode
    /\ ~PastTheEnd
    /\ NewObject(NextHandle, destr, NoObject.prop)
    /\ zend_objects_store_put(NextHandle, bucket)
    /\ stack' = Push(Frame("__construct", NextHandle))
    /\ UNCHANGED <<symVars, pass, unclean>>

\* The memory limit is hit inside put's erealloc: size is already doubled.
\* The error is fatal, so php_error_cb marks the objects and bails out.
NewHitsMemoryLimit ==
    /\ "memory_limit" \in Interrupts
    /\ InUserCode
    /\ MustGrow
    /\ created < MaxCreated
    /\ size' = 2 * size
    /\ bucket' = mark_destructed(bucket)
    /\ Bailout(stack)
    /\ UNCHANGED <<top, capacity, free_list, table, heapVars, symVars, pass>>

\* put writes a bucket past the end of the array; what follows is undefined and
\* the model stops there.
NewOutOfBounds ==
    /\ InUserCode
    /\ PastTheEnd
    /\ created < MaxCreated
    /\ top' = top + 1
    /\ stack' = <<Frame("crashed", 0)>>
    /\ UNCHANGED <<bucket, size, capacity, free_list, table, heapVars, symVars,
                   pass, unclean>>

\* The constructor returns and `$v = new C' completes: $v gets a reference, its
\* old value is released, then the result of the new expression.
ConstructorReturns(v) ==
    /\ Top.fn = "__construct"
    /\ bucket' = AddRef(bucket, Top.h)
    /\ symbol_table' = [symbol_table EXCEPT ![v] = Top.h]
    /\ LET result == ReplaceTop(Frame("del_ref", Top.h))
       IN  stack' = IF symbol_table[v] = 0 THEN result
                    ELSE Append(result, Frame("del_ref", symbol_table[v]))
    /\ UNCHANGED <<top, size, capacity, free_list, table, heapVars, shared, pass,
                   unclean>>

\* The constructor returns and `new C;' is a statement: the result is released.
ConstructorDiscards ==
    /\ Top.fn = "__construct"
    /\ stack' = ReplaceTop(Frame("del_ref", Top.h))
    /\ UNCHANGED <<storeVars, heapVars, symVars, pass, unclean>>

\* The constructor throws: zend_object_store_ctor_failed, then the result of
\* the new expression is released.
zend_object_store_ctor_failed ==
    /\ Top.fn = "__construct"
    /\ bucket' = [bucket EXCEPT ![Top.h].destructor_called = TRUE]
    /\ settled' = [settled EXCEPT ![Top.h] = 1]
    /\ stack' = ReplaceTop(Frame("del_ref", Top.h))
    /\ UNCHANGED <<top, size, capacity, free_list, table, object, created, symVars,
                   pass, unclean>>

\* $v = clone $o, with $v unset, for a class without __clone: members are copied.
zend_objects_clone_obj(o, v) ==
    LET h == NextHandle
        copies(k) == Cardinality({p \in Props : object[o].prop[p] = k})
        withMembers == [k \in Handles |-> [bucket[k] EXCEPT !.refcount = @ + copies(k)]]
    IN  /\ InUserCode
        /\ ~PastTheEnd
        /\ symbol_table[v] = 0
        /\ NewObject(h, object[o].destr, object[o].prop)
        /\ zend_objects_store_put(h, withMembers)
        /\ symbol_table' = [symbol_table EXCEPT ![v] = h]
        /\ UNCHANGED <<shared, stack, pass, unclean>>

\* $v = an object, or unset($v) when h is 0.  An unset symbol leaves the table,
\* so the walk of shutdown_destructors does not come back to it.
AssignVar(v, h) ==
    /\ InUserCode
    /\ h = 0 => v \notin shared
    /\ h # symbol_table[v]
    /\ bucket' = AddRef(bucket, h)
    /\ symbol_table' = [symbol_table EXCEPT ![v] = h]
    /\ pass' = IF h = 0 THEN [pass EXCEPT !.todo = @ \ {v}] ELSE pass
    /\ stack' = Releasing(symbol_table[v])
    /\ UNCHANGED <<top, size, capacity, free_list, table, heapVars, shared, unclean>>

\* $w = &$v makes two symbols share v's zval; unset($w) undoes it.
ShareVar(v) ==
    /\ InUserCode
    /\ symbol_table[v] # 0
    /\ shared' = IF v \in shared THEN shared \ {v} ELSE shared \cup {v}
    /\ UNCHANGED <<storeVars, heapVars, symbol_table, stack, pass, unclean>>

\* $o->p = an object, or unset($o->p) when h is 0.
AssignProp(o, p, h) ==
    /\ InUserCode
    /\ h # object[o].prop[p]
    /\ bucket' = AddRef(bucket, h)
    /\ object' = [object EXCEPT ![o].prop[p] = h]
    /\ stack' = Releasing(object[o].prop[p])
    /\ UNCHANGED <<top, size, capacity, free_list, table, created, settled,
                   symVars, pass, unclean>>

\* exit: ZEND_EXIT bails out.
Exit ==
    /\ "exit" \in Interrupts
    /\ InUserCode
    /\ Bailout(stack)
    /\ UNCHANGED <<storeVars, heapVars, symVars, pass>>

\* A fatal error: php_error_cb marks every object as destructed, then bails out.
FatalError ==
    /\ "fatal" \in Interrupts
    /\ InUserCode
    /\ bucket' = mark_destructed(bucket)
    /\ Bailout(stack)
    /\ UNCHANGED <<top, size, capacity, free_list, table, heapVars, symVars, pass>>

\* A user phase of php_request_shutdown ends.
UserPhaseEnds ==
    /\ Len(stack) = 1
    /\ Phase \in UserPhases
    /\ stack' = <<Frame(AfterBailout[Phase], 1)>>
    /\ UNCHANGED <<storeVars, heapVars, symVars, pass, unclean>>

\* __destruct returns: zend_objects_destroy_object releases its own zval.
DestructorReturns ==
    /\ Top.fn = "__destruct"
    /\ stack' = ReplaceTop(Frame("del_ref", Top.h))
    /\ UNCHANGED <<storeVars, heapVars, symVars, pass, unclean>>

\* __destruct throws while another exception is active: its zval is released
\* and the error is fatal.
DestructorFails ==
    /\ "exception" \in Interrupts
    /\ Top.fn = "__destruct"
    /\ in_execution(Callers)
    /\ bucket' = mark_destructed([bucket EXCEPT ![Top.h].refcount = @ - 1])
    /\ Bailout(stack)
    /\ UNCHANGED <<top, size, capacity, free_list, table, heapVars, symVars, pass>>

UserStep ==
    \/ \E d \in Destructors : New(d)
    \/ NewHitsMemoryLimit
    \/ NewOutOfBounds
    \/ \E v \in Vars : ConstructorReturns(v)
    \/ ConstructorDiscards
    \/ zend_object_store_ctor_failed
    \/ \E o \in Accessible, v \in Vars : zend_objects_clone_obj(o, v)
    \/ \E v \in Vars, h \in Accessible \cup {0} : AssignVar(v, h)
    \/ \E v \in Vars : ShareVar(v)
    \/ \E o \in Accessible, p \in Props, h \in Accessible \cup {0} : AssignProp(o, p, h)
    \/ Exit
    \/ FatalError
    \/ DestructorReturns
    \/ DestructorFails
    \/ UserPhaseEnds

-----------------------------------------------------------------------------
(* zend_objects_destroy_object(h), called by the store's function on top of  *)
(* the stack: f is the frame it leaves there, b the buckets at the call.     *)

\* A private destructor runs only from its own scope: refusing it is fatal
\* while executing, and ignored during shutdown.
DestructorIgnored(h, f, b) ==
    /\ \/ object[h].destr = "none"
       \/ object[h].destr = "private" /\ ~in_execution(stack)
    /\ bucket' = b
    /\ stack' = ReplaceTop(f)
    /\ UNCHANGED <<settled, unclean>>

DestructorRefused(h, f, b) ==
    /\ object[h].destr = "private" /\ in_execution(stack)
    /\ bucket' = mark_destructed(b)
    /\ Bailout(ReplaceTop(f))
    /\ UNCHANGED settled

DestructorCalled(h, f, b) ==
    /\ \/ object[h].destr = "public"
       \/ object[h].destr = "private" /\ in_execution(stack)
    /\ bucket' = AddRef(b, h)
    /\ stack' = Append(ReplaceTop(f), Frame("__destruct", h))
    /\ settled' = [settled EXCEPT ![h] = @ + 1]
    /\ UNCHANGED unclean

\* Once the class table is destroyed object->ce is freed memory: the call may
\* find no destructor there, or crash.
DestructorWithoutClass(h, f, b) ==
    /\ bucket' = b
    /\ \/ stack' = ReplaceTop(f)
       \/ object[h].destr # "none" /\ stack' = <<Frame("crashed", 0)>>
    /\ UNCHANGED <<settled, unclean>>

zend_objects_destroy_object(h, f, b) ==
    IF Phase = "free_all"
    THEN DestructorWithoutClass(h, f, b)
    ELSE \/ DestructorIgnored(h, f, b)
         \/ DestructorRefused(h, f, b)
         \/ DestructorCalled(h, f, b)

-----------------------------------------------------------------------------
(* zend_objects_store_del_ref_by_handle. *)

\* Not the last reference: only the count changes.
DelRefShared ==
    LET h == Top.h IN
    /\ Top.fn = "del_ref"
    /\ ~bucket[h].valid \/ bucket[h].refcount # 1
    /\ bucket' = [bucket EXCEPT ![h].refcount = @ - 1]
    /\ stack' = Callers
    /\ UNCHANGED <<top, size, capacity, free_list, table, heapVars, symVars,
                   pass, unclean>>

\* Faulty: destructor_called is not set before the call.
DelRefLast_Unmarked ==
    LET h == Top.h IN
    /\ Top.fn = "del_ref"
    /\ bucket[h].valid /\ bucket[h].refcount = 1
    /\ IF bucket[h].destructor_called
       THEN /\ stack' = ReplaceTop(Frame("del_ref_dtor", h))
            /\ UNCHANGED <<bucket, settled, unclean>>
       ELSE zend_objects_destroy_object(h, Frame("del_ref_dtor", h), bucket)
    /\ UNCHANGED <<top, size, capacity, free_list, table, object, created,
                   symVars, pass>>

\* The last reference: the destructor runs unless it already has.
DelRefLast ==
    LET h == Top.h IN
    /\ Top.fn = "del_ref"
    /\ bucket[h].valid /\ bucket[h].refcount = 1
    /\ IF bucket[h].destructor_called
       THEN /\ stack' = ReplaceTop(Frame("del_ref_dtor", h))
            /\ UNCHANGED <<bucket, settled, unclean>>
       ELSE zend_objects_destroy_object(h, Frame("del_ref_dtor", h),
                [bucket EXCEPT ![h].destructor_called = TRUE])
    /\ UNCHANGED <<top, size, capacity, free_list, table, object, created,
                   symVars, pass>>

\* Faulty: the count is not tested again after the destructor.
DelRefAfterDtor_Untested ==
    /\ Top.fn = "del_ref_dtor"
    /\ stack' = Append(ReplaceTop([Top EXCEPT !.fn = "del_ref_free", !.obj = table]),
                       Frame("free_storage", Top.h))
    /\ UNCHANGED <<storeVars, heapVars, symVars, pass, unclean>>

\* After the destructor: obj is read again; the storage goes if this is
\* still the only reference.
DelRefAfterDtor ==
    LET h == Top.h IN
    /\ Top.fn = "del_ref_dtor"
    /\ IF bucket[h].refcount = 1
       THEN /\ stack' = Append(ReplaceTop([Top EXCEPT !.fn = "del_ref_free", !.obj = table]),
                               Frame("free_storage", h))
            /\ UNCHANGED <<bucket, unclean>>
       ELSE /\ bucket' = [bucket EXCEPT ![h].refcount = @ - 1]
            /\ IF Top.failure THEN Bailout(Callers)
               ELSE stack' = Callers /\ UNCHANGED unclean
    /\ UNCHANGED <<top, size, capacity, free_list, table, heapVars, symVars, pass>>

\* Faulty: the bucket stays valid when its handle is listed as free.
DelRefAfterFree_StaysValid ==
    LET h == Top.h IN
    /\ Top.fn = "del_ref_free"
    /\ bucket' = [bucket EXCEPT ![h].refcount = IF Top.obj = table THEN @ - 1 ELSE @]
    /\ free_list' = <<h>> \o free_list
    /\ IF Top.failure THEN Bailout(Callers)
       ELSE stack' = Callers /\ UNCHANGED unclean
    /\ UNCHANGED <<top, size, capacity, table, heapVars, symVars, pass>>

\* After free_storage: the handle goes to the free list.  refcount-- is made
\* through obj, which misses the bucket if the table moved meanwhile.
DelRefAfterFree ==
    LET h == Top.h IN
    /\ Top.fn = "del_ref_free"
    /\ bucket' = [bucket EXCEPT ![h] = [@ EXCEPT !.valid = FALSE,
                                                 !.refcount = IF Top.obj = table THEN bucket[h].refcount - 1
                                                              ELSE bucket[h].refcount]]
    /\ free_list' = <<h>> \o free_list
    /\ IF Top.failure THEN Bailout(Callers)
       ELSE stack' = Callers /\ UNCHANGED unclean
    /\ UNCHANGED <<top, size, capacity, table, heapVars, symVars, pass>>

\* zend_objects_free_object_storage: zend_object_std_dtor destroys the
\* properties one by one, then the object itself is freed.
FreeProperty(p) ==
    LET h == Top.h IN
    /\ Top.fn = "free_storage"
    /\ object[h].prop[p] # 0
    /\ object' = [object EXCEPT ![h].prop[p] = 0]
    /\ stack' = Releasing(object[h].prop[p])
    /\ UNCHANGED <<storeVars, created, settled, symVars, pass, unclean>>

FreeObject ==
    LET h == Top.h IN
    /\ Top.fn = "free_storage"
    /\ \A p \in Props : object[h].prop[p] = 0
    /\ object' = [object EXCEPT ![h] = NoObject]
    /\ stack' = Callers
    /\ UNCHANGED <<storeVars, created, settled, symVars, pass, unclean>>

-----------------------------------------------------------------------------
(* shutdown_destructors. *)

\* zend_hash_num_elements(&EG(symbol_table)), counting object symbols.
num_elements == Cardinality({v \in Vars : symbol_table[v] # 0}) + Cardinality(shared)

EnterPhase(fn, i) == stack' = <<Frame(fn, i)>>

\* Faulty: the walk repeats until no symbol is left.
SymtabPass_UntilEmpty ==
    /\ Top.fn = "symtab"
    /\ Top.h = 1 \/ pass.todo = {}
    /\ IF Top.h = 1 \/ num_elements # 0
       THEN /\ pass' = [symbols |-> num_elements,
                        todo |-> {v \in Vars : symbol_table[v] # 0}]
            /\ EnterPhase("symtab", 0)
       ELSE EnterPhase("call_dtors", 1) /\ pass' = NoPass
    /\ UNCHANGED <<storeVars, heapVars, symVars, unclean>>

\* One iteration of the do ... while starts its walk, or the loop ends.
SymtabPass ==
    /\ Top.fn = "symtab"
    /\ Top.h = 1 \/ pass.todo = {}
    /\ IF Top.h = 1 \/ pass.symbols # num_elements
       THEN /\ pass' = [symbols |-> num_elements,
                        todo |-> {v \in Vars : symbol_table[v] # 0}]
            /\ EnterPhase("symtab", 0)
       ELSE EnterPhase("call_dtors", 1) /\ pass' = NoPass
    /\ UNCHANGED <<storeVars, heapVars, symVars, unclean>>

\* zval_call_destructor on one symbol: removed unless its zval is shared.
SymtabVisit(v) ==
    /\ Top.fn = "symtab"
    /\ Top.h = 0
    /\ v \in pass.todo
    /\ pass' = [pass EXCEPT !.todo = @ \ {v}]
    /\ IF v \in shared
       THEN UNCHANGED <<symbol_table, stack>>
       ELSE /\ symbol_table' = [symbol_table EXCEPT ![v] = 0]
            /\ stack' = Releasing(symbol_table[v])
    /\ UNCHANGED <<storeVars, heapVars, shared, unclean>>

\* zend_objects_store_call_destructors, one iteration.
CallDtorsLoop ==
    LET i == Top.h IN
    /\ Top.fn = "call_dtors"
    /\ i < top
    /\ IF bucket[i].valid /\ ~bucket[i].destructor_called
       THEN zend_objects_destroy_object(i, Frame("call_dtors_dtor", i),
                [bucket EXCEPT ![i] = [@ EXCEPT !.destructor_called = TRUE, !.refcount = bucket[i].refcount + 1]])
       ELSE EnterPhase("call_dtors", i + 1) /\ UNCHANGED <<bucket, settled, unclean>>
    /\ UNCHANGED <<top, size, capacity, free_list, table, object, created, symVars, pass>>

CallDtorsAfterDtor ==
    LET i == Top.h IN
    /\ Top.fn = "call_dtors_dtor"
    /\ bucket' = [bucket EXCEPT ![i].refcount = @ - 1]
    /\ EnterPhase("call_dtors", i + 1)
    /\ UNCHANGED <<top, size, capacity, free_list, table, heapVars, symVars, pass, unclean>>

CallDtorsEnd ==
    /\ Top.fn = "call_dtors"
    /\ Top.h = top
    /\ EnterPhase("end_ob_buffers", 1)
    /\ UNCHANGED <<storeVars, heapVars, symVars, pass, unclean>>

\* shutdown_destructors' zend_catch.
MarkDestructed ==
    /\ Top.fn = "mark"
    /\ bucket' = mark_destructed(bucket)
    /\ EnterPhase("end_ob_buffers", 1)
    /\ UNCHANGED <<top, size, capacity, free_list, table, heapVars, symVars, pass, unclean>>

-----------------------------------------------------------------------------
(* shutdown_executor. *)

\* zend_hash_graceful_reverse_destroy(&EG(symbol_table)): one symbol.
SymtabDestroy(v) ==
    /\ Top.fn = "symtab_destroy"
    /\ symbol_table[v] # 0
    /\ IF v \in shared
       THEN shared' = shared \ {v} /\ UNCHANGED <<symbol_table, stack>>
       ELSE /\ symbol_table' = [symbol_table EXCEPT ![v] = 0]
            /\ stack' = Releasing(symbol_table[v])
            /\ UNCHANGED shared
    /\ UNCHANGED <<storeVars, heapVars, pass, unclean>>

\* The table is empty; the class table is destroyed before free_all starts.
SymtabDestroyed ==
    /\ Top.fn = "symtab_destroy"
    /\ \A v \in Vars : symbol_table[v] = 0
    /\ EnterPhase("free_all", 1)
    /\ UNCHANGED <<storeVars, heapVars, symVars, pass, unclean>>

\* Faulty: objects that are still referenced are skipped.
FreeAllLoop_Unreferenced ==
    LET i == Top.h
        next == ReplaceTop(Frame("free_all", i + 1))
    IN  /\ Top.fn = "free_all"
        /\ i < top
        /\ stack' = IF bucket[i].valid /\ bucket[i].refcount = 0
                    THEN Append(next, Frame("free_storage", i)) ELSE next
        /\ UNCHANGED <<storeVars, heapVars, symVars, pass, unclean>>

\* zend_objects_store_free_object_storage, one iteration.
FreeAllLoop ==
    LET i == Top.h IN
    /\ Top.fn = "free_all"
    /\ i < top
    /\ bucket' = [bucket EXCEPT ![i].valid = FALSE]
    /\ stack' = LET next == ReplaceTop(Frame("free_all", i + 1))
                IN  IF bucket[i].valid THEN Append(next, Frame("free_storage", i)) ELSE next
    /\ UNCHANGED <<top, size, capacity, free_list, table, heapVars, symVars, pass, unclean>>

FreeAllEnd ==
    /\ Top.fn = "free_all"
    /\ Top.h = top
    /\ EnterPhase("store_destroy", 1)
    /\ UNCHANGED <<storeVars, heapVars, symVars, pass, unclean>>

\* zend_objects_store_destroy.
StoreDestroy ==
    /\ Top.fn = "store_destroy"
    /\ table' = 0
    /\ capacity' = 0
    /\ EnterPhase("done", 0)
    /\ UNCHANGED <<bucket, top, size, free_list, heapVars, symVars, pass, unclean>>

Finished == Phase \in {"done", "crashed"} /\ UNCHANGED vars

EngineStep ==
    \/ DelRefShared \/ DelRefLast \/ DelRefAfterDtor \/ DelRefAfterFree
    \/ \E p \in Props : FreeProperty(p)
    \/ FreeObject
    \/ SymtabPass
    \/ \E v \in Vars : SymtabVisit(v)
    \/ CallDtorsLoop \/ CallDtorsAfterDtor \/ CallDtorsEnd
    \/ MarkDestructed
    \/ \E v \in Vars : SymtabDestroy(v)
    \/ SymtabDestroyed \/ FreeAllLoop \/ FreeAllEnd \/ StoreDestroy

\* Faulty: handle 0, which is not true, can be given out.
Init_FromZero ==
    /\ bucket = [h \in Handles |-> NoBucket]
    /\ top = 0
    /\ size = InitSize
    /\ capacity = InitSize
    /\ free_list = <<>>
    /\ table = 1
    /\ object = [h \in Handles |-> NoObject]
    /\ symbol_table = [v \in Vars |-> 0]
    /\ shared = {}
    /\ stack = <<Frame("main", 0)>>
    /\ pass = NoPass
    /\ unclean = FALSE
    /\ created = 0
    /\ settled = [h \in Handles |-> 0]

\* init_executor calls zend_objects_store_init; handle 0 is never given out.
Init ==
    /\ bucket = [h \in Handles |-> NoBucket]
    /\ top = 1
    /\ size = InitSize
    /\ capacity = InitSize
    /\ free_list = <<>>
    /\ table = 1
    /\ object = [h \in Handles |-> NoObject]
    /\ symbol_table = [v \in Vars |-> 0]
    /\ shared = {}
    /\ stack = <<Frame("main", 0)>>
    /\ pass = NoPass
    /\ unclean = FALSE
    /\ created = 0
    /\ settled = [h \in Handles |-> 0]

Next == UserStep \/ EngineStep \/ Finished

Spec == Init /\ [][Next]_vars

-----------------------------------------------------------------------------
(* Properties. *)

FrameFns == UserFrames \cup TryFrames \cup
    {"del_ref", "free_storage", "symtab", "call_dtors", "call_dtors_dtor", "mark",
     "symtab_destroy", "free_all", "store_destroy", "done", "crashed"}

TypeOK ==
    /\ bucket \in [Handles -> [valid : BOOLEAN, destructor_called : BOOLEAN, refcount : Int]]
    /\ top \in 1 .. MaxCreated + 1
    /\ size \in Nat /\ capacity \in Nat /\ table \in Nat
    /\ free_list \in Seq(Handles)
    /\ object \in [Handles -> [live : BOOLEAN, destr : {"none", "public", "private"},
                               prop : [Props -> Handles \cup {0}]]]
    /\ symbol_table \in [Vars -> Handles \cup {0}]
    /\ shared \subseteq Vars
    /\ stack \in Seq([fn : FrameFns, h : 0 .. MaxCreated + 1, obj : Nat, failure : BOOLEAN])
    /\ stack # <<>>
    /\ pass \in [symbols : Nat, todo : SUBSET Vars]
    /\ unclean \in BOOLEAN
    /\ created \in 0 .. MaxCreated
    /\ settled \in [Handles -> Nat]

\* Frames that hold a counted reference to their handle: the constructor's
\* result, the destructor's $this, a reference being released, and the one
\* zend_objects_store_call_destructors takes around the destructor.
HoldingFrames == TryFrames \cup {"__construct", "__destruct", "del_ref", "call_dtors_dtor"}

Refs(h) ==
    Cardinality({v \in Vars : symbol_table[v] = h})
  + Cardinality({e \in Handles \X Props : object[e[1]].live /\ object[e[1]].prop[e[2]] = h})
  + Cardinality({i \in 1 .. Len(stack) : stack[i].fn \in HoldingFrames /\ stack[i].h = h})

Ended == Phase \in {"free_all", "store_destroy", "done", "crashed"}

\* The store's count of a valid bucket is the number of references to it; a
\* bailout loses the references of the frames it abandons, so afterwards the
\* count may only be too high, never too low.
RefcountExact ==
    ~Ended => \A h \in Handles : bucket[h].valid =>
        IF unclean THEN bucket[h].refcount >= Refs(h) ELSE bucket[h].refcount = Refs(h)

\* Until the store is torn down the free list holds each unused handle below
\* top exactly once.
FreeListExact ==
    ~Ended =>
        /\ \A i, j \in 1 .. Len(free_list) : i # j => free_list[i] # free_list[j]
        /\ {free_list[i] : i \in 1 .. Len(free_list)}
             = {h \in Handles : h < top /\ ~bucket[h].valid}

\* No variable, no property of a live object and no running constructor or
\* destructor refers to an object whose bucket was recycled or whose storage
\* was freed.
NoDanglingReference ==
    LET usable(h) == bucket[h].valid /\ object[h].live IN
    ~Ended =>
        /\ \A v \in Vars : symbol_table[v] # 0 => usable(symbol_table[v])
        /\ \A o \in Handles, p \in Props :
             object[o].live /\ object[o].prop[p] # 0 => usable(object[o].prop[p])
        /\ \A i \in 1 .. Len(stack) :
             stack[i].fn \in {"__construct", "__destruct"} => usable(stack[i].h)

\* No object has its __destruct run twice, or at all once its constructor has
\* thrown, whatever the destructor does with $this and however the request ends.
DestructorAtMostOnce == \A h \in Handles : settled[h] <= 1

\* Storage is freed once, by one release, and only if it was not freed before.
FreedOnce ==
    \A i, j \in 1 .. Len(stack) :
        stack[i].fn = "free_storage" /\ stack[j].fn = "free_storage" =>
            /\ object[stack[i].h].live
            /\ stack[i].h = stack[j].h => i = j

\* A request that ends without a bailout has freed every object's storage.
AllStorageFreed ==
    Phase = "done" /\ ~unclean => \A h \in Handles : ~object[h].live

\* A handle is in use or can be used again, never both and never twice: no
\* recycled handle has a release of its former object still to come.
HandlesExact == FreeListExact /\ FreedOnce

\* Storage is neither freed twice nor left behind.
FreedExactlyOnce == FreedOnce /\ AllStorageFreed

\* While the request is clean, an object with a destructor is freed only after
\* the destructor ran (or its constructor threw).
DestructedBeforeFreed ==
    [][\A h \in Handles :
         object[h].live /\ ~object'[h].live /\ ~unclean
         /\ object[h].destr = "public" /\ ~Ended => settled[h] = 1]_vars

\* zend_objects_store_del_ref_by_handle's obj, read before free_storage, still
\* points into object_buckets when refcount-- is made through it.
ObjPointerFresh == Top.fn = "del_ref_free" => Top.obj = table

\* No destructor is called once the class table is destroyed.
DestructorsBeforeClassTable ==
    ~(/\ Phase = "free_all"
      /\ Top.fn = "del_ref"
      /\ bucket[Top.h].valid /\ bucket[Top.h].refcount = 1
      /\ ~bucket[Top.h].destructor_called
      /\ object[Top.h].destr # "none")

\* User code that is running returns in the end (max_execution_time makes
\* anything else a fatal error), and the engine never stops between its steps.
UserReturns == ConstructorDiscards \/ DestructorReturns \/ UserPhaseEnds

LiveSpec == Spec /\ WF_vars(EngineStep) /\ SF_vars(UserReturns)

\* php_request_shutdown completes: whatever destructors, shutdown functions and
\* bailouts do, the do ... while of shutdown_destructors and the loops over the
\* store and the symbol table end.
RequestEnds == <>(Phase \in {"done", "crashed"})
=============================================================================
