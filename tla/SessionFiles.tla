---------------------------- MODULE SessionFiles ----------------------------
(***************************************************************************)
(* Sessions kept in files: session.c with the save handler mod_files.c.    *)
(*                                                                         *)
(* Several worker processes serve requests of one client.  A request opens *)
(* the file of a session id, locks it, reads it, and keeps the lock until  *)
(* it writes the file or ends.  Opening and locking are two system calls,  *)
(* so are truncating and writing, releasing and unlinking, and the stat    *)
(* and unlink of the garbage collector: other processes run in between,    *)
(* and a process may be killed there.                                      *)
(*                                                                         *)
(* Encoding and decoding a session run methods of its objects, which may   *)
(* exit.  The bailout leaves the session function half done: the status is *)
(* none, the file is open and locked, and a session_start that follows in  *)
(* the request forgets the descriptor, and with it the lock.               *)
(*                                                                         *)
(* A value is a sequence of cells, each naming the write it comes from:    *)
(* enough to tell a whole value from a mixture of two.                     *)
(***************************************************************************)
EXTENDS Naturals, Sequences, SequencesExt, FiniteSets

CONSTANTS
    Procs,          \* worker processes
    Cookies,        \* session ids the client has to begin with
    NewIds,         \* ids s_create_sid makes up
    Sizes,          \* lengths of an encoded session
    MaxRequests,    \* bound: requests
    MaxCalls,       \* bound: session functions a script calls
    MaxFaults,      \* bound: processes killed, failures of open
    MaxBailouts,    \* bound: bailouts out of session functions of a script
    NULL

ASSUME IdsAssumption == NULL \notin Cookies \cup NewIds /\ Cookies \cap NewIds = {}

ASSUME SizesAssumption == IsFiniteSet(Sizes) /\ Sizes \subseteq Nat

Keys == Cookies \cup NewIds

ASSUME ProcsAssumption == IsFiniteSet(Procs) /\ IsFiniteSet(Keys)

ASSUME BailoutsAssumption == MaxBailouts \in Nat

\* As many as can be linked or open at once.
Inodes == 1 .. Cardinality(Keys) + Cardinality(Procs) + MaxBailouts

ASSUME NullAssumption == NULL \notin Procs \cup Inodes

VARIABLES
    path,           \* directory: the inode of each session file
    data,           \* content of each inode
    old,            \* inodes whose mtime is gc_maxlifetime ago
    owner,          \* process that has the inode locked with flock
    leaked,         \* inodes locked through a descriptor that no ps_files has
    ps,             \* the session globals of each process, and where it is
    issued,         \* ids s_create_sid has made up
    used            \* bounds: requests, calls, faults, bailouts

vars == <<path, data, old, owner, leaked, ps, issued, used>>

(***************************************************************************)
(* mod is PS(mod_data) # NULL; fd, lastkey and st_size are the ps_files    *)
(* behind it.  op is the session function that runs, pc the system call it *)
(* is about to make.  val is the encoded session; name is the file the     *)
(* garbage collector has found expired, or the id session_regenerate_id    *)
(* will set.  seen is what the open file held when the session read it.    *)
(***************************************************************************)
Idle == [pc |-> "idle", op |-> "none", active |-> FALSE, id |-> NULL,
         mod |-> FALSE, fd |-> NULL, lastkey |-> NULL, st_size |-> 0,
         val |-> NULL, name |-> NULL, seen |-> NULL]

Init ==
    /\ path = [k \in Keys |-> NULL]
    /\ data = [i \in Inodes |-> <<>>]
    /\ old = {}
    /\ owner = [i \in Inodes |-> NULL]
    /\ leaked = {}
    /\ ps = [p \in Procs |-> Idle]
    /\ issued = {}
    /\ used = [requests |-> 0, calls |-> 0, faults |-> 0, bailouts |-> 0]

-----------------------------------------------------------------------------
(* Helpers.                                                                *)

At(p, pc) == ps[p].pc = pc

\* The session ids a client may send and a script may set.
Known == Cookies \cup issued

\* PS(id) for session_start: what it is, what the client sends, or a new one.
IdsFor(id) == IF id # NULL THEN {id} ELSE Known \cup NewIds

\* ps_files_close: closing the descriptor releases the lock.
ReleasedBy(p) == IF ps[p].fd = NULL \/ owner[ps[p].fd] # p THEN owner
                 ELSE [owner EXCEPT ![ps[p].fd] = NULL]

\* An inode no directory entry and no open file keeps.
FreeInode == CHOOSE i \in Inodes : /\ owner[i] = NULL /\ \A k \in Keys : path[k] # i
                                  /\ \A p \in Procs : ps[p].fd # i

\* The value of length n that p writes.
Value(p, n) == [j \in 1 .. n |-> <<p, n>>]

\* Faulty: the position is not reset before the write.
Written_Variant(d, val) == d \o val

\* pwrite(fd, val, vallen, 0) over a file that holds d.
Written(d, val) == val \o SubSeq(d, Len(val) + 1, Len(d))

Count(what) == used' = [used EXCEPT ![what] = @ + 1]

\* A script may still call a session function.
MayCall(p) == At(p, "script") /\ used.calls < MaxCalls

-----------------------------------------------------------------------------
(* Requests and the session functions of a script.                         *)

\* PHP_RINIT_FUNCTION(session), without session.auto_start.
BeginRequest(p) ==
    /\ At(p, "idle") /\ used.requests < MaxRequests
    /\ ps' = [ps EXCEPT ![p].pc = "script"]
    /\ Count("requests")
    /\ UNCHANGED <<path, data, old, owner, leaked, issued>>

\* php_session_start up to s_read: s_open makes a new ps_files and forgets one
\* that is still there, whose descriptor stays open and locked.
SessionStart(p) ==
    /\ MayCall(p) /\ ~ps[p].active
    /\ \E k \in IdsFor(ps[p].id) :
         /\ ps' = [ps EXCEPT ![p] = [Idle EXCEPT !.pc = "open", !.op = "start",
                                                 !.id = k, !.mod = TRUE]]
         /\ issued' = issued \cup ({k} \cap NewIds)
    /\ leaked' = leaked \cup ({ps[p].fd} \cap Inodes)
    /\ Count("calls")
    /\ UNCHANGED <<path, data, old, owner>>

\* session_id(k): the id changes, the file that is open does not.
SessionId(p) ==
    /\ MayCall(p)
    /\ \E k \in Known \ {ps[p].id} : ps' = [ps EXCEPT ![p].id = k]
    /\ Count("calls")
    /\ UNCHANGED <<path, data, old, owner, leaked, issued>>

\* php_session_flush: the status changes first, then the session is encoded.
Flush(p, op) ==
    /\ ps[p].active
    /\ \E n \in Sizes :
         ps' = [ps EXCEPT ![p] = [@ EXCEPT !.active = FALSE, !.op = op, !.pc = "open",
                                           !.val = Value(p, n)]]
    /\ UNCHANGED <<path, data, old, owner, leaked, issued>>

SessionWriteClose(p) == MayCall(p) /\ Flush(p, "flush") /\ Count("calls")

\* A __sleep method exits: php_session_flush ends the bailout, and its caller goes on
\* with the file open, the script or the end of the request.
EncodeBailsOut(p) ==
    /\ ps[p].active
    /\ \/ /\ MayCall(p) /\ used.bailouts < MaxBailouts
          /\ ps' = [ps EXCEPT ![p].active = FALSE]
          /\ used' = [used EXCEPT !.calls = @ + 1, !.bailouts = @ + 1]
       \/ /\ At(p, "script")
          /\ ps' = [ps EXCEPT ![p] = [@ EXCEPT !.active = FALSE, !.op = "shutdown", !.pc = "close"]]
          /\ UNCHANGED used
    /\ UNCHANGED <<path, data, old, owner, leaked, issued>>

\* PHP_RSHUTDOWN_FUNCTION(session).
EndRequest(p) ==
    /\ At(p, "script")
    /\ IF ps[p].active THEN Flush(p, "shutdown")
       ELSE /\ ps' = [ps EXCEPT ![p] = [@ EXCEPT !.op = "shutdown", !.pc = "close"]]
            /\ UNCHANGED <<path, data, old, owner, leaked, issued>>
    /\ UNCHANGED used

\* s_destroy gives the lock up before it unlinks the file, and does not unlink
\* when no file is open.
Destroy(p, op, new) ==
    /\ ps[p].active
    /\ ps' = [ps EXCEPT ![p] = [@ EXCEPT !.op = op, !.fd = NULL, !.seen = NULL, !.name = new,
                                         !.pc = IF ps[p].fd = NULL THEN "close" ELSE "unlink"]]
    /\ owner' = ReleasedBy(p)
    /\ Count("calls")
    /\ UNCHANGED <<path, data, old, leaked>>

\* php_session_destroy; session_regenerate_id(TRUE).
SessionDestroy(p) == MayCall(p) /\ Destroy(p, "destroy", NULL) /\ UNCHANGED issued

RegenerateDelete(p) ==
    \E k \in NewIds \ issued :
        /\ MayCall(p) /\ Destroy(p, "regenerate", k)
        /\ issued' = issued \cup {k}

\* session_regenerate_id(): the id is new, the old file stays open and locked.
SessionRegenerateId(p) ==
    /\ MayCall(p) /\ ps[p].active
    /\ \E k \in NewIds \ issued :
         /\ ps' = [ps EXCEPT ![p].id = k]
         /\ issued' = issued \cup {k}
    /\ Count("calls")
    /\ UNCHANGED <<path, data, old, owner, leaked>>

-----------------------------------------------------------------------------
(* The save handler, one system call at a time.                            *)

\* The end of ps_files_open: what the caller goes on with.
Opened(p) == IF ps[p].op = "start" THEN "read" ELSE "write"

\* Faulty: another file is not closed.
Open_Variant(p) ==
    /\ At(p, "open")
    /\ LET keep == ps[p].fd # NULL /\ ps[p].lastkey = ps[p].id
           k == ps[p].id
           i == IF path[k] = NULL THEN FreeInode ELSE path[k]
       IN  \/ /\ keep
              /\ ps' = [ps EXCEPT ![p].pc = Opened(p)]
              /\ UNCHANGED <<path, data, old, used>>
           \/ /\ ~keep
              /\ path' = [path EXCEPT ![k] = i]
              /\ data' = IF path[k] = NULL THEN [data EXCEPT ![i] = <<>>] ELSE data
              /\ old' = IF path[k] = NULL THEN old \ {i} ELSE old
              /\ ps' = [ps EXCEPT ![p] = [@ EXCEPT !.lastkey = k, !.fd = i, !.pc = "lock", !.seen = NULL]]
              /\ UNCHANGED used
    /\ UNCHANGED <<owner, leaked, issued>>

\* ps_files_open: the file that is open under this id is kept; another one is
\* closed before the new one is opened, created if need be.
Open(p) ==
    /\ At(p, "open")
    /\ LET keep == ps[p].fd # NULL /\ ps[p].lastkey = ps[p].id
           k == ps[p].id
           i == IF path[k] = NULL THEN FreeInode ELSE path[k]
       IN  \/ /\ keep
              /\ ps' = [ps EXCEPT ![p].pc = Opened(p)]
              /\ UNCHANGED <<path, data, old, owner, used>>
           \/ /\ ~keep
              /\ owner' = ReleasedBy(p)
              /\ path' = [path EXCEPT ![k] = i]
              /\ data' = IF path[k] = NULL THEN [data EXCEPT ![i] = <<>>] ELSE data
              /\ old' = IF path[k] = NULL THEN old \ {i} ELSE old
              /\ ps' = [ps EXCEPT ![p] = [@ EXCEPT !.lastkey = k, !.fd = i, !.pc = "lock", !.seen = NULL]]
              /\ UNCHANGED used
           \/ /\ ~keep /\ used.faults < MaxFaults
              /\ owner' = ReleasedBy(p)
              /\ ps' = [ps EXCEPT ![p] = [@ EXCEPT !.lastkey = k, !.fd = NULL, !.pc = Opened(p), !.seen = NULL]]
              /\ Count("faults")
              /\ UNCHANGED <<path, data, old>>
    /\ UNCHANGED <<leaked, issued>>

\* Faulty: a shared lock.
Lock_Variant(p) ==
    /\ At(p, "lock")
    /\ owner' = [owner EXCEPT ![ps[p].fd] = p]
    /\ ps' = [ps EXCEPT ![p].pc = Opened(p)]
    /\ UNCHANGED <<path, data, old, leaked, issued, used>>

\* flock(fd, LOCK_EX) blocks; the file may have been unlinked meanwhile.
Lock(p) ==
    /\ At(p, "lock") /\ owner[ps[p].fd] = NULL
    /\ owner' = [owner EXCEPT ![ps[p].fd] = p]
    /\ ps' = [ps EXCEPT ![p].pc = Opened(p)]
    /\ UNCHANGED <<path, data, old, leaked, issued, used>>

\* PS_READ_FUNC(files).
HasRead(p) ==
    [ps[p] EXCEPT !.op = "none", !.pc = "script",
                  !.st_size = IF ps[p].fd = NULL THEN @ ELSE Len(data[ps[p].fd]),
                  !.seen = IF ps[p].fd = NULL THEN NULL
                           ELSE [key |-> ps[p].id, data |-> data[ps[p].fd]]]

\* Reading, decoding, and the end of php_session_start: the session is active even
\* when nothing was read or decoded; now and then it collects garbage.
Read(p) ==
    /\ At(p, "read")
    /\ \E next \in {"script", "gc"} :
         ps' = [ps EXCEPT ![p] = [HasRead(p) EXCEPT !.active = TRUE, !.pc = next]]
    /\ UNCHANGED <<path, data, old, owner, leaked, issued, used>>

\* A __wakeup method exits while the session is decoded, and the script ends in its
\* shutdown functions and destructors, with the file open and the status none.
DecodeBailsOut(p) ==
    /\ At(p, "read") /\ used.bailouts < MaxBailouts
    /\ ps[p].fd # NULL /\ data[ps[p].fd] # <<>>
    /\ ps' = [ps EXCEPT ![p] = HasRead(p)]
    /\ Count("bailouts")
    /\ UNCHANGED <<path, data, old, owner, leaked, issued>>

\* Faulty: the comparison is the other way round.
Truncate_Variant(p) ==
    /\ At(p, "write")
    /\ LET i == ps[p].fd  cut == i # NULL /\ ps[p].st_size < Len(ps[p].val) IN
       /\ data' = IF cut THEN [data EXCEPT ![i] = <<>>] ELSE data
       /\ old' = IF cut THEN old \ {i} ELSE old
       /\ ps' = [ps EXCEPT ![p].pc = IF i = NULL THEN "close" ELSE "pwrite"]
    /\ UNCHANGED <<path, owner, leaked, issued, used>>

\* PS_WRITE_FUNC(files): ftruncate, when the new value is shorter than the one
\* that was read, and then pwrite.
Truncate(p) ==
    /\ At(p, "write")
    /\ LET i == ps[p].fd  cut == i # NULL /\ Len(ps[p].val) < ps[p].st_size IN
       /\ data' = IF cut THEN [data EXCEPT ![i] = <<>>] ELSE data
       /\ old' = IF cut THEN old \ {i} ELSE old
       /\ ps' = [ps EXCEPT ![p].pc = IF i = NULL THEN "close" ELSE "pwrite"]
    /\ UNCHANGED <<path, owner, leaked, issued, used>>

Write(p) ==
    /\ At(p, "pwrite")
    /\ data' = [data EXCEPT ![ps[p].fd] = Written(@, ps[p].val)]
    /\ old' = old \ {ps[p].fd}
    /\ ps' = [ps EXCEPT ![p].pc = "close"]
    /\ UNCHANGED <<path, owner, leaked, issued, used>>

\* PS_DESTROY_FUNC(files) after ps_files_close: unlink, by name.
Unlink(p) ==
    /\ At(p, "unlink")
    /\ path' = [path EXCEPT ![ps[p].id] = NULL]
    /\ ps' = [ps EXCEPT ![p].pc = "close"]
    /\ UNCHANGED <<data, old, owner, leaked, issued, used>>

\* Faulty: session_write_close frees the ps_files and does not close the file.
Close_Variant(p) ==
    /\ At(p, "close") /\ ps[p].op # "regenerate"
    /\ owner' = IF ps[p].op = "flush" THEN owner ELSE ReleasedBy(p)
    /\ ps' = [ps EXCEPT ![p] = CASE ps[p].op = "flush" -> [Idle EXCEPT !.pc = "script", !.id = ps[p].id]
                                 [] ps[p].op = "destroy" -> [Idle EXCEPT !.pc = "script"]
                                 [] ps[p].op = "shutdown" -> Idle]
    /\ UNCHANGED <<path, data, old, leaked, issued, used>>

\* PS_CLOSE_FUNC(files) and the end of the function that called it: the id
\* survives session_write_close, nothing survives session_destroy or the request.
Close(p) ==
    /\ At(p, "close") /\ ps[p].op # "regenerate"
    /\ owner' = ReleasedBy(p)
    /\ ps' = [ps EXCEPT ![p] = CASE ps[p].op = "flush" -> [Idle EXCEPT !.pc = "script", !.id = ps[p].id]
                                 [] ps[p].op = "destroy" -> [Idle EXCEPT !.pc = "script"]
                                 [] ps[p].op = "shutdown" -> Idle]
    /\ UNCHANGED <<path, data, old, leaked, issued, used>>

\* session_regenerate_id(TRUE) after s_destroy.
Regenerated(p) ==
    /\ At(p, "close") /\ ps[p].op = "regenerate"
    /\ ps' = [ps EXCEPT ![p] = [@ EXCEPT !.id = ps[p].name, !.name = NULL,
                                         !.op = "none", !.pc = "script"]]
    /\ UNCHANGED <<path, data, old, owner, leaked, issued, used>>

\* PS_GC_FUNC(files): stat, then unlink, for the files the directory lists.
GcStat(p) ==
    /\ At(p, "gc")
    /\ \E k \in Keys :
         /\ path[k] \in old
         /\ ps' = [ps EXCEPT ![p] = [@ EXCEPT !.name = k, !.pc = "gc_unlink"]]
    /\ UNCHANGED <<path, data, old, owner, leaked, issued, used>>

GcUnlink(p) ==
    /\ At(p, "gc_unlink")
    /\ path' = [path EXCEPT ![ps[p].name] = NULL]
    /\ ps' = [ps EXCEPT ![p] = [@ EXCEPT !.name = NULL, !.pc = "gc"]]
    /\ UNCHANGED <<data, old, owner, leaked, issued, used>>

GcEnd(p) ==
    /\ At(p, "gc")
    /\ ps' = [ps EXCEPT ![p].pc = "script"]
    /\ UNCHANGED <<path, data, old, owner, leaked, issued, used>>

-----------------------------------------------------------------------------
(* The environment.                                                        *)

\* gc_maxlifetime passes after the last write of a file.
Expire ==
    /\ \E k \in Keys : path[k] \notin old \cup {NULL} /\ old' = old \cup {path[k]}
    /\ UNCHANGED <<path, data, owner, ps, leaked, issued, used>>

\* A process is killed; the system closes its descriptors.
Killed(p) ==
    /\ ~At(p, "idle") /\ used.faults < MaxFaults
    /\ ps' = [ps EXCEPT ![p] = Idle]
    /\ owner' = [i \in Inodes |-> IF owner[i] = p THEN NULL ELSE owner[i]]
    /\ leaked' = {i \in leaked : owner[i] # p}
    /\ Count("faults")
    /\ UNCHANGED <<path, data, old, issued>>

\* A process that waits for a lock nobody will give up.
Stuck(p) == At(p, "lock") /\ ps[p].fd \in leaked

\* Every request has been served, or is stuck.
Finished ==
    /\ \A p \in Procs : Stuck(p) \/ (At(p, "idle") /\ used.requests = MaxRequests)
    /\ UNCHANGED vars

Script(p) == \/ SessionStart(p) \/ SessionId(p) \/ SessionWriteClose(p) \/ EncodeBailsOut(p)
             \/ SessionDestroy(p) \/ RegenerateDelete(p) \/ SessionRegenerateId(p)

Handler(p) == \/ Open(p) \/ Read(p) \/ Truncate(p) \/ Write(p) \/ Unlink(p)
              \/ Close(p) \/ Regenerated(p) \/ GcUnlink(p)

Gc(p) == GcStat(p) \/ GcEnd(p)

Next ==
    \/ \E p \in Procs : \/ BeginRequest(p) \/ Script(p) \/ EndRequest(p)
                        \/ Handler(p) \/ DecodeBailsOut(p) \/ Lock(p) \/ Gc(p)
                        \/ Killed(p)
    \/ Expire
    \/ Finished

Spec == Init /\ [][Next]_vars

(***************************************************************************)
(* A process goes on with what it has begun, and scripts end: PHP stops    *)
(* them after max_execution_time.  A lock that is released again and again *)
(* is granted in the end.                                                  *)
(***************************************************************************)
Fairness == \A p \in Procs : /\ WF_vars(Handler(p)) /\ WF_vars(EndRequest(p))
                             /\ WF_vars(GcEnd(p)) /\ SF_vars(Lock(p))

LiveSpec == Spec /\ Fairness

-----------------------------------------------------------------------------
(* Properties.                                                             *)

Contents == {s \in Seq(Procs \X Sizes) : \E n \in Sizes \cup {0} : Len(s) <= n}

Record == [pc : {"idle", "script", "open", "lock", "read", "write", "pwrite", "close",
                 "unlink", "gc", "gc_unlink"},
           op : {"none", "start", "flush", "shutdown", "destroy", "regenerate"},
           active : BOOLEAN, id : Keys \cup {NULL}, mod : BOOLEAN,
           fd : Inodes \cup {NULL}, lastkey : Keys \cup {NULL}, st_size : Nat,
           val : Contents \cup {NULL}, name : Keys \cup {NULL},
           seen : [key : Keys, data : Contents] \cup {NULL}]

\* The variables have their types.
TypeOK ==
    /\ path \in [Keys -> Inodes \cup {NULL}]
    /\ data \in [Inodes -> Contents]
    /\ old \subseteq Inodes
    /\ owner \in [Inodes -> Procs \cup {NULL}]
    /\ leaked \subseteq Inodes
    /\ ps \in [Procs -> Record]
    /\ issued \subseteq NewIds

\* A locked file is the open file of the process that locked it, and that process
\* still has the ps_files that will close it, or else a session_start has forgotten
\* it, once for each time that a session was encoded or decoded and bailed out.  No
\* other way out of a session function leaks a lock: destroying, regenerating, an
\* open that fails, and a bailout at the end of the request.
LocksHeld ==
    /\ \A i \in Inodes : owner[i] # NULL => \/ ps[owner[i]].fd = i /\ ps[owner[i]].mod
                                            \/ i \in leaked
    /\ Cardinality(leaked) <= used.bailouts

\* The same without an exception: false, when __sleep or __wakeup exits.
LocksNeverLeaked ==
    \A i \in Inodes : owner[i] # NULL => ps[owner[i]].fd = i /\ ps[owner[i]].mod

\* From reading a session until it writes it, a request has the file to itself and
\* unchanged, whatever other requests, destroyed sessions and the garbage collector
\* do.  (The file may lose its name meanwhile, and what is written then goes with it.)
ReadsAreCurrent ==
    \A p \in Procs :
        ps[p].seen # NULL /\ ps[p].pc \in {"script", "gc", "gc_unlink", "open", "write"}
            => owner[ps[p].fd] = p /\ data[ps[p].fd] = ps[p].seen.data

\* The file of process p holds what it has just written, the whole of it and
\* nothing of what was there before.
WroteWhole(p) == ps[p].pc = "close" /\ ps[p].val # NULL /\ ps[p].fd # NULL
                     => data[ps[p].fd] = ps[p].val

\* A session that is written to the file it was read from is written whole.
WritesAreWhole == \A p \in Procs : ps[p].seen # NULL => WroteWhole(p)

\* mod_files.c:401: "Truncate file if the amount of new data is smaller than the
\* existing data set."
NothingOldIsLeft == \A p \in Procs : WroteWhole(p)

\* Every request ends, or waits for a lock that was leaked: no two processes wait
\* for each other's sessions, and no session stays locked in another way.
RequestEnds ==
    \A p \in Procs : ~At(p, "idle") ~> At(p, "idle") \/ Stuck(p)
=============================================================================
