-------------------------- MODULE RequestShutdown --------------------------
(***************************************************************************)
(* The end of a request: the phases of php_request_shutdown (main.c), the  *)
(* stack of output buffers they flush (output.c) and the list of resources *)
(* they destroy (zend_list.c), with the script that leads there.           *)
(*                                                                         *)
(* All of it is one thread, but user code runs in the middle of it: in an  *)
(* output handler while its buffer is half ended, in a shutdown function,  *)
(* a destructor or a session handler, and in the destructor of a resource  *)
(* (a stream of a user wrapper).  It may print, open buffers, release      *)
(* resources, and exit: a bailout that throws the C stack away up to the   *)
(* zend_try of the phase.  In an output handler it prints, exits, or calls *)
(* ob_start under ob_lock.                                                 *)
(*                                                                         *)
(* `stack' is the C call stack, top first.  The n-th thing the request     *)
(* prints is the number n; a handler returns the text it was given, or     *)
(* FALSE.                                                                  *)
(***************************************************************************)
EXTENDS Naturals, Sequences, SequencesExt, FiniteSets

CONSTANTS
    MaxPrinted,     \* bound: things printed
    MaxLevels,      \* bound: nested buffers
    ChunkSizes,     \* chunk_size of a buffer, 0 for none
    MaxResources,   \* bound: resources opened
    MaxRefs,        \* bound: references of the script to one resource
    MaxFunctions,   \* bound: shutdown functions registered
    MaxCalls,       \* bound: what user code does, all together
    NULL

ASSUME ChunkAssumption == ChunkSizes \subseteq Nat

Ids == 1 .. MaxResources

ASSUME ResourceAssumption ==
    MaxResources \in Nat /\ NULL \notin Ids \cup [refs : Nat, holds : Ids \cup {NULL}]

VARIABLES
    phase,          \* where php_request_shutdown is
    stack,          \* C call stack, top first
    ob,             \* active_ob_buffer last, below it the stack ob_buffers
    writer,         \* php_body_write: "buffer" or "direct"
    ob_lock,
    headers_only,   \* a HEAD request
    headers_sent,
    sent,           \* what the client has received
    printed,        \* how many things have been printed
    dropped,        \* those thrown away on purpose
    echoed,         \* those printed in an output handler
    functions,      \* shutdown functions registered and called
    list,           \* regular_list: [refs, holds] of each resource in it
    next_id,        \* its nNextFreeElement
    script,         \* references to each resource in variables
    destroyed,      \* resources whose destructor has begun, in order
    excused,        \* why output may be left over or repeated, or a held resource gone
    calls           \* bound: how many things user code has done

output == <<ob, writer, ob_lock, headers_sent, sent, printed, dropped, echoed>>
resources == <<list, next_id, script, destroyed>>
vars == <<phase, stack, ob, writer, ob_lock, headers_only, headers_sent, sent, printed,
          dropped, echoed, functions, list, next_id, script, destroyed, excused, calls>>

User(code) == [fn |-> "user", code |-> code]

Init ==
    /\ phase = "script"
    /\ stack = <<User("script")>>
    /\ ob = <<>> /\ writer = "direct" /\ ob_lock = FALSE
    /\ headers_only \in BOOLEAN
    /\ headers_sent = FALSE /\ sent = <<>> /\ printed = 0 /\ dropped = {}
    /\ echoed = {}
    /\ functions = [registered |-> 0, called |-> 0]
    /\ list = [id \in Ids |-> NULL]
    /\ next_id = 1
    /\ script = [id \in Ids |-> 0]
    /\ destroyed = <<>>
    /\ excused = {}
    /\ calls = 0

Running(fn) == stack # <<>> /\ Head(stack).fn = fn
Top == Head(stack)

\* The function on top returns; it goes on as k once f is done.
Return == stack' = Tail(stack)
Call(f, k) == stack' = <<f, k>> \o Tail(stack)

UserCode == Running("user")

\* User code does something more.
MayAct == calls < MaxCalls /\ calls' = calls + 1
Acts == UserCode /\ MayAct

\* An output handler runs, at the top or further down.
InHandler == \E i \in DOMAIN stack : stack[i].fn = "handler"

\* The texts of buffers, bottom first.
Texts(bufs) == FlattenSeq([i \in DOMAIN bufs |-> bufs[i].text])

-----------------------------------------------------------------------------
(* Writing and bailing out.                                                *)

\* zend_bailout: to the zend_try of the phase.  In the third one the buffers that
\* are left stay as they are.
Bailout ==
    /\ stack' = <<>>
    /\ excused' = IF phase = "end_buffers" THEN excused \cup {"output"} ELSE excused

\* php_body_write of text, when the buffers are bufs and the writer is w; then the
\* rest of the stack.  Into a buffer: php_ob_append, which flushes a full chunk.
\* To the client: php_ub_body_write, which sends the headers first.
Write(text, bufs, w, rest) ==
    IF w = "buffer"
    THEN LET top == Last(bufs)
             full == [top EXCEPT !.text = @ \o text]
         IN  /\ ob' = Front(bufs) \o <<full>>
             /\ stack' = IF top.chunk > 0 /\ Len(full.text) >= top.chunk
                         THEN <<[fn |-> "end", send |-> TRUE, flush |-> TRUE]>> \o rest
                         ELSE rest
             /\ writer' = w
             /\ UNCHANGED <<headers_sent, sent, dropped, excused>>
    ELSE /\ ob' = bufs
         /\ writer' = w
         /\ headers_sent' = TRUE
         /\ IF headers_only
            THEN /\ dropped' = dropped \cup ToSet(text)
                 /\ IF headers_sent THEN stack' = rest /\ UNCHANGED excused ELSE Bailout
                 /\ UNCHANGED sent
            ELSE /\ sent' = sent \o text
                 /\ stack' = rest
                 /\ UNCHANGED <<dropped, excused>>

-----------------------------------------------------------------------------
(* What user code does with output.                                        *)

\* In an output handler it is appended to the buffer that is being ended, and may fill
\* the chunk: then the buffer is flushed, with its handler, while the handler runs.
Echo ==
    /\ UserCode \/ Running("handler")
    /\ MayAct /\ printed < MaxPrinted
    /\ printed' = printed + 1
    /\ echoed' = IF UserCode THEN echoed ELSE echoed \cup {printed + 1}
    /\ Write(<<printed + 1>>, ob, writer, stack)
    /\ UNCHANGED <<phase, ob_lock, headers_only, functions, resources>>

\* ob_start, in user code that no output handler runs.  After a handler has bailed
\* out ob_lock is still set: then this is the error below.
ObStart ==
    /\ Acts /\ ~ob_lock /\ Len(ob) < MaxLevels
    /\ \E handler \in BOOLEAN, chunk \in ChunkSizes :
         ob' = Append(ob, [text |-> <<>>, handler |-> handler, chunk |-> chunk])
    /\ writer' = "buffer"
    /\ excused' = IF phase \in {"modules", "symbols"} THEN excused \cup {"output"} ELSE excused
    /\ UNCHANGED <<phase, stack, ob_lock, headers_only, headers_sent, sent, printed, dropped,
                   echoed, functions, resources>>

\* Faulty: the writer still appends to a buffer.
ObStartLocked_Variant ==
    /\ UserCode \/ Running("handler")
    /\ ob_lock
    /\ ob' = <<>>
    /\ dropped' = dropped \cup ToSet(Texts(ob))
    /\ Bailout
    /\ UNCHANGED <<phase, ob_lock, writer, headers_only, headers_sent, sent, printed, echoed,
                   functions, resources, calls>>

\* "Cannot use output buffering in output buffering display handlers": every
\* buffer is forgotten, and E_ERROR bails out.
ObStartLocked ==
    /\ UserCode \/ Running("handler")
    /\ ob_lock
    /\ ob' = <<>>
    /\ writer' = "direct"
    /\ dropped' = dropped \cup ToSet(Texts(ob))
    /\ Bailout
    /\ UNCHANGED <<phase, ob_lock, headers_only, headers_sent, sent, printed, echoed, functions,
                   resources, calls>>

\* ob_flush, ob_clean, ob_end_flush and ob_end_clean.
ObEnd ==
    /\ Acts /\ ob # <<>>
    /\ \E send, flush \in BOOLEAN :
         stack' = <<[fn |-> "end", send |-> send, flush |-> flush]>> \o stack
    /\ UNCHANGED <<phase, headers_only, functions, output, resources, excused>>

-----------------------------------------------------------------------------
(* php_end_ob_buffer.                                                      *)

\* Its beginning: the user's handler runs under ob_lock.
EndBuffer ==
    /\ Running("end")
    /\ excused' = IF InHandler THEN excused \cup {"repeated"} ELSE excused
    /\ IF ob = <<>>
       THEN Return /\ UNCHANGED ob_lock
       ELSE LET text == Last(ob).text
                ended == [fn |-> "ended", send |-> Top.send, flush |-> Top.flush, text |-> text]
            IN  IF Last(ob).handler
                THEN Call([fn |-> "handler", text |-> text], ended) /\ ob_lock' = TRUE
                ELSE stack' = <<ended>> \o Tail(stack) /\ UNCHANGED ob_lock
    /\ UNCHANGED <<phase, headers_only, headers_sent, functions, ob, writer, sent, printed, dropped,
                   echoed, resources, calls>>

\* What it returns replaces the buffer, with all that was printed meanwhile; after
\* FALSE the buffer goes on as it is.
HandlerReturns ==
    /\ Running("handler")
    /\ ob_lock' = FALSE
    /\ \E text \in {Top.text, Last(ob).text} :
         stack' = <<[stack[2] EXCEPT !.text = text]>> \o Tail(Tail(stack))
    /\ UNCHANGED <<phase, headers_only, headers_sent, functions, ob, writer, sent, printed, dropped,
                   echoed, resources, excused, calls>>

\* Faulty: after a flush the text is still in the buffer.
Ended_Variant ==
    /\ Running("ended")
    /\ LET buf == Last(ob)
           below == Front(ob)
           w == IF below = <<>> THEN "direct" ELSE writer
           rest == (IF Top.flush THEN <<[fn |-> "restore", buf |-> buf]>> ELSE <<>>) \o Tail(stack)
       IN  IF Top.send
           THEN Write(Top.text, below, w, rest)
           ELSE /\ ob' = below
                /\ writer' = w
                /\ dropped' = dropped \cup ToSet(buf.text)
                /\ stack' = rest
                /\ UNCHANGED <<headers_sent, sent, excused>>
    /\ UNCHANGED <<phase, headers_only, ob_lock, functions, printed, echoed, resources, calls>>

\* The rest: the level goes down while the text is written, and up again after a
\* flush.
Ended ==
    /\ Running("ended")
    /\ LET buf == Last(ob)
           below == Front(ob)
           w == IF below = <<>> THEN "direct" ELSE writer
           rest == (IF Top.flush THEN <<[fn |-> "restore", buf |-> [buf EXCEPT !.text = <<>>]]>>
                    ELSE <<>>) \o Tail(stack)
       IN  IF Top.send
           THEN Write(Top.text, below, w, rest)
           ELSE /\ ob' = below
                /\ writer' = w
                /\ dropped' = dropped \cup ToSet(buf.text)
                /\ stack' = rest
                /\ UNCHANGED <<headers_sent, sent, excused>>
    /\ UNCHANGED <<phase, headers_only, ob_lock, functions, printed, echoed, resources, calls>>

Restore ==
    /\ Running("restore")
    /\ ob' = Append(ob, Top.buf)
    /\ writer' = "buffer"
    /\ Return
    /\ UNCHANGED <<phase, headers_only, headers_sent, functions, ob_lock, sent, printed, dropped,
                   echoed, resources, excused, calls>>

\* Faulty: one level only.
EndBuffers_Variant ==
    /\ Running("end_buffers")
    /\ stack' = <<[fn |-> "end", send |-> ~headers_only, flush |-> FALSE]>> \o Tail(stack)
    /\ UNCHANGED <<phase, headers_only, functions, output, resources, excused, calls>>

\* php_end_ob_buffers.
EndBuffers ==
    /\ Running("end_buffers")
    /\ stack' = IF ob = <<>> THEN Tail(stack)
                ELSE <<[fn |-> "end", send |-> ~headers_only, flush |-> FALSE]>> \o stack
    /\ UNCHANGED <<phase, headers_only, functions, output, resources, excused, calls>>

-----------------------------------------------------------------------------
(* Resources.                                                              *)

Live == {id \in Ids : list[id] # NULL}

\* zend_list_delete in list l, and what is to be called for it.
Unreferenced(l, id) ==
    IF id = NULL \/ l[id] = NULL THEN l
    ELSE IF l[id].refs > 1 THEN [l EXCEPT ![id].refs = @ - 1]
    ELSE [l EXCEPT ![id] = NULL]

Dies(id) == id # NULL /\ list[id] # NULL /\ list[id].refs <= 1

\* A resource leaves the list, then its destructor runs.
Delete(id, rest) ==
    /\ list' = Unreferenced(list, id)
    /\ stack' = IF Dies(id) THEN <<[fn |-> "dtor", holds |-> list[id].holds]>> \o rest ELSE rest
    /\ destroyed' = IF Dies(id) THEN Append(destroyed, id) ELSE destroyed

\* zend_register_resource, for a variable, or for C code that keeps the id, as the
\* default context and the default link; the resource may refer to another one, as
\* a stream does to its context.
Open ==
    /\ Acts /\ next_id \in Ids
    /\ \E h \in Live \cup {NULL} :
         list' = [id \in Ids |->
                    IF id = next_id THEN [refs |-> 1, holds |-> h]
                    ELSE IF id = h THEN [list[id] EXCEPT !.refs = @ + 1] ELSE list[id]]
    /\ \E refs \in {0, 1} : script' = [script EXCEPT ![next_id] = refs]
    /\ next_id' = next_id + 1
    /\ UNCHANGED <<phase, stack, headers_only, functions, output, destroyed, excused>>

\* zval_copy_ctor: another variable refers to the resource.
CopyRef ==
    /\ Acts
    /\ \E id \in Live :
         /\ script[id] \in 1 .. MaxRefs - 1
         /\ list' = [list EXCEPT ![id].refs = @ + 1]
         /\ script' = [script EXCEPT ![id] = @ + 1]
    /\ UNCHANGED <<phase, stack, headers_only, functions, output, next_id, destroyed, excused>>

\* zval_dtor of a variable: by the script, and by shutdown_executor for the rest.
Release(id, rest) ==
    /\ script[id] > 0
    /\ script' = [script EXCEPT ![id] = @ - 1]
    /\ Delete(id, rest)
    /\ UNCHANGED <<phase, headers_only, functions, output, next_id, excused>>

Unset == Acts /\ \E id \in Ids : Release(id, stack)

\* A function like mysql_close: zend_list_delete, and the variable stays.
CloseResource ==
    /\ Acts
    /\ \E id \in Live : script[id] > 0 /\ Delete(id, stack)
    /\ excused' = excused \cup {"held"}
    /\ UNCHANGED <<phase, headers_only, functions, output, next_id, script>>

\* The destructor may run user code, while there is an executor, and releases what
\* the resource holds.
Dtor ==
    /\ Running("dtor")
    /\ LET rest == <<[fn |-> "dtor_end", holds |-> Top.holds]>> \o Tail(stack) IN
       \/ phase # "deactivate" /\ stack' = <<User("close")>> \o rest
       \/ stack' = rest
    /\ UNCHANGED <<phase, headers_only, functions, output, resources, excused, calls>>

DtorEnd ==
    /\ Running("dtor_end")
    /\ Delete(Top.holds, Tail(stack))
    /\ UNCHANGED <<phase, headers_only, functions, output, next_id, script, excused, calls>>

\* shutdown_executor destroys the variables.
DestroySymbols ==
    /\ Running("symbols")
    /\ IF \A id \in Ids : script[id] = 0
       THEN /\ Return
            /\ UNCHANGED <<phase, headers_only, functions, output, resources, excused>>
       ELSE \E id \in Ids : Release(id, stack)
    /\ UNCHANGED calls

\* Faulty: the first one first.
DestroyList_Variant ==
    /\ Running("destroy_list")
    /\ IF Live = {}
       THEN Return /\ UNCHANGED <<list, destroyed>>
       ELSE LET id == CHOOSE i \in Live : \A j \in Live : i <= j IN
            /\ list' = [list EXCEPT ![id] = NULL]
            /\ destroyed' = Append(destroyed, id)
            /\ stack' = <<[fn |-> "dtor", holds |-> list[id].holds]>> \o stack
    /\ UNCHANGED <<phase, headers_only, functions, output, next_id, script, excused, calls>>

\* zend_hash_graceful_reverse_destroy of the list: the last one first, whatever its
\* refcount; the list may change with each.
DestroyList ==
    /\ Running("destroy_list")
    /\ IF Live = {}
       THEN Return /\ UNCHANGED <<list, destroyed>>
       ELSE LET id == CHOOSE i \in Live : \A j \in Live : j <= i IN
            /\ list' = [list EXCEPT ![id] = NULL]
            /\ destroyed' = Append(destroyed, id)
            /\ stack' = <<[fn |-> "dtor", holds |-> list[id].holds]>> \o stack
    /\ UNCHANGED <<phase, headers_only, functions, output, next_id, script, excused, calls>>

-----------------------------------------------------------------------------
(* User code ends, and the phases.                                         *)

RegisterFunction ==
    /\ Acts /\ phase \in {"script", "functions"} /\ functions.registered < MaxFunctions
    /\ functions' = [functions EXCEPT !.registered = @ + 1]
    /\ UNCHANGED <<phase, stack, headers_only, output, resources, excused>>

UserReturns ==
    /\ UserCode
    /\ Return
    /\ UNCHANGED <<phase, headers_only, functions, output, resources, excused, calls>>

\* exit, an uncaught exception, a fatal error, the memory limit.
Exit ==
    /\ UserCode \/ Running("handler")
    /\ Bailout
    /\ UNCHANGED <<phase, headers_only, functions, output, resources, calls>>

\* user_shutdown_function_call for each, those registered meanwhile included.
CallFunctions ==
    /\ Running("functions")
    /\ IF functions.called = functions.registered
       THEN Return /\ UNCHANGED functions
       ELSE /\ stack' = <<User("function")>> \o stack
            /\ functions' = [functions EXCEPT !.called = @ + 1]
    /\ UNCHANGED <<phase, headers_only, output, resources, excused, calls>>

Order == <<"script", "functions", "destructors", "end_buffers", "headers", "modules",
           "symbols", "deactivate", "done">>

After(ph) == Order[(CHOOSE i \in DOMAIN Order : Order[i] = ph) + 1]

\* What a phase begins with: user code may run for destructors and for modules.
Begins(ph) ==
    CASE ph \in {"destructors", "modules"} -> {<<>>, <<User(ph)>>}
      [] ph \in {"functions", "end_buffers", "symbols"} -> {<<[fn |-> ph]>>}
      [] ph = "deactivate" -> {<<[fn |-> "destroy_list"]>>}
      [] ph \in {"headers", "done"} -> {<<>>}

\* php_request_shutdown goes on when the zend_try before is over; the fourth phase
\* is sapi_send_headers.
NextPhase ==
    /\ stack = <<>> /\ phase # "done"
    /\ phase' = After(phase)
    /\ stack' \in Begins(phase')
    /\ headers_sent' = (headers_sent \/ phase' = "headers")
    /\ UNCHANGED <<headers_only, ob, writer, ob_lock, sent, printed, dropped, echoed,
                   functions, resources, excused, calls>>

Done == phase = "done" /\ UNCHANGED vars

Output == Echo \/ ObStart \/ ObStartLocked \/ ObEnd \/ EndBuffer \/ HandlerReturns \/ Ended
          \/ Restore \/ EndBuffers

Resources == Open \/ CopyRef \/ Unset \/ CloseResource \/ Dtor \/ DtorEnd \/ DestroySymbols
             \/ DestroyList

Next == \/ Output \/ Resources \/ RegisterFunction \/ UserReturns \/ Exit \/ CallFunctions
        \/ NextPhase \/ Done

Spec == Init /\ [][Next]_vars

-----------------------------------------------------------------------------
(* Properties.                                                             *)

\* The writer goes with the level: output is appended to a buffer exactly when
\* there is one, whatever bailed out of which handler or flush.
WriterMatchesLevel == (writer = "buffer") <=> ob # <<>>

\* What is printed reaches the client in the order it was printed, once, or waits
\* in a buffer, or was thrown away on purpose.  What an output handler prints may be
\* lost, but takes nothing else with it; and when it fills the chunk of its buffer,
\* so that the buffer is flushed under the handler, text may be sent twice.
OutputExact ==
    LET out == sent \o Texts(ob) IN
    /\ ToSet(out) \cup dropped \cup echoed = 1 .. printed
    /\ "repeated" \notin excused =>
         /\ \A i, j \in DOMAIN out : i < j => out[i] < out[j]
         /\ ToSet(out) \cap dropped = {}

\* main.c:1466-1471: all output buffers are flushed, then the headers sent, unless a
\* handler bailed out of the flush or user code opened a buffer after it.
AllSent ==
    /\ sent # <<>> => headers_sent
    /\ phase = "done" => /\ headers_sent
                         /\ ob # <<>> => "output" \in excused

\* Every resource is destroyed once, and not before one that holds it, unless it
\* was closed over the head of its holder.
ResourcesExact ==
    /\ \A i, j \in DOMAIN destroyed : i # j => destroyed[i] # destroyed[j]
    /\ Live \cup ToSet(destroyed) = 1 .. next_id - 1
    /\ Live \cap ToSet(destroyed) = {}
    /\ \A id \in Live : list[id].holds \in Live \cup {NULL} \/ "held" \in excused
    /\ phase = "done" => Live = {}
=============================================================================
