# TLA+ specifications of the PHP 5.2.17 package

This directory holds specifications of the parts of the repository whose
correctness depends on the order in which things happen: the engine's object
store and hash table, the end of a request with its output buffers and
resources, sessions kept in files, the shared memory allocator and caches of
APC, and the connection pool of the memcache extension. Each is a TLA+ module
translated from the C source, checked by TLC on small instances;
for each of them theorems proved with TLAPS hold for every value of the
constants (section 11).

1. [The system](#1-the-system)
2. [Modules](#2-modules)
3. [The objects store](#3-the-objects-store)
4. [The hash table](#4-the-hash-table)
5. [APC's allocator](#5-apcs-allocator)
6. [APC's caches](#6-apcs-caches)
7. [Sessions in files](#7-sessions-in-files)
8. [The end of a request](#8-the-end-of-a-request)
9. [The memcache pool](#9-the-memcache-pool)
10. [Fairness](#10-fairness)
11. [Proofs](#11-proofs)
12. [Where code and comments disagree](#12-where-code-and-comments-disagree)
13. [What is not modelled](#13-what-is-not-modelled)
14. [Plan](#14-plan)

How to run: `tlc -config ObjectsStoreClean.cfg MCObjectsStore`, and likewise for
the other configurations; `tlapm ObjectsStoreProofs.tla` for the proofs, and likewise for the other modules named in section 11. Several
definitions have a "Faulty" variant beside them, named after the one they
corrupt (`put_KeepsFlag`, or `Lock_Variant`): no specification uses them. Each stands for a
plausible bug, and with it in place of the original the property that
`PROJECT.json` pairs it with fails.

## 1. The system

`src/` is a distribution's source package: PHP 5.2.17 with the extensions it
ships. The interesting state is in these components.

| Component | State | Operations | What is hard |
| --- | --- | --- | --- |
| Objects store (`Zend/zend_objects_API.c`, `zend_objects.c`) | `object_buckets`, a growable array of buckets with a reference count and two flags; the free list threaded through them; `top`, `size` | put, add_ref, del_ref, clone, mark_destructed, call_destructors, free_object_storage, destroy | releasing a reference runs user code, which uses the store; the array moves meanwhile; `exit` and errors leave through `longjmp` |
| Request shutdown (`main/main.c`, `Zend/zend_execute_API.c`) | phase, the symbol table, class tables, `CG(unclean_shutdown)` | shutdown functions, destructors, output handlers, shutdown_executor, each in its own `zend_try` | each phase may run user code and bail out; later phases rely on what earlier ones left |
| Hash table (`Zend/zend_hash.c`) | buckets on a chain and on the list of elements, internal pointer, next index, size | add, update, del, next_index_insert, apply, reverse_apply, sort, copy, rename current, clean, graceful destroy, get/set pointer | a deleted element's destructor uses the same table under the caller's feet |
| Resource list (`Zend/zend_list.c`) | a hash table of reference-counted resources | insert, addref, delete, find, close | destructors release further resources |
| Output buffering (`main/output.c`) | stack of buffers, `ob_lock` | start, end, flush, clean, discard | handlers run user code while locked; a bailout in one |
| Memory manager (`Zend/zend_alloc.c`) | segments, free lists, cache, limit | alloc, free, realloc, shutdown | sequential, but one limit that bails out from anywhere |
| Compiler, VM, classes | op_arrays, frames, class entries | compile, execute, inherit | the language itself |
| APC allocator (`apc_sma.c`) | segments: headers, blocks, free list, `avail` | malloc, free, expunge and retry | several processes; the lock is given up around an expunge |
| APC caches (`apc_cache.c`, `apc_main.c`, `php_apc.c`) | slots, chains, deleted list, `busy`, `lastkey`; per process the stack of scripts in use | find, insert, add, delete, clear, expunge, release, pending removals | processes share entries, die holding references, and allocate under a lock in memory that may be full |
| XCache (`xcache.c`, `mem.c`) | caches with holds and a compiling mark | find, store, gc | the same problem, solved differently |
| Memcache pool (`memcache_pool.c`) | servers, send and read queues, failed state, retry time | schedule, select, failover, deactivate | non-blocking I/O, failures inside a walk, late answers |
| FastCGI (`sapi/cgi/fastcgi.c`) | connection, keep flag, `in_shutdown`, children | accept, read, finish, restart children | signals, timeouts |
| Sessions (`ext/session`) | session file and its lock | read, write, destroy, regenerate, gc | requests that share one session |
| TSRM | per-thread resource tables | allocate, fetch, free | threads (not built here) |
| Streams, SAPI, standard functions, library bindings, Xdebug | buffers, headers, wrappers | - | data, or the business of a library |

How they interact. The VM copies and releases references to objects; a release
ends in the store, which calls a destructor through the VM. Object properties,
symbol tables, class tables and the resource list are hash tables, whose element
destructors release references. `php_request_shutdown` takes all this down in a
fixed order. APC replaces the compiler's entry point: a script is looked for in
the file cache, else compiled and copied into memory from APC's allocator, which,
when full, calls back into both caches to expunge them.

What makes each component correct, and where it could go wrong, is listed line
by line under `hazards` in `PROJECT.json`. In short:

* store: reference counts equal references, a destructor runs at most once, nothing
  reachable is freed, everything is freed in the end, a handle is reused only
  when free, and shutdown terminates;
* hash table: the two linked structures agree, look-up finds what is there,
  buckets and values are neither leaked nor used after release, and a user
  of the table sees an ordered map;
* allocator: blocks tile the segment, free ones are listed and merged, the
  count of available words is right, and a call returns;
* caches: reference counts equal references, memory is neither lost nor used
  after release, one entry per key, mutual exclusion;
* sessions: no lock is leaked except by a bailout out of encoding or decoding,
  no two requests wait for each other, what is read stays current until it is
  written, what is written is written whole;
* end of a request: what was printed outside output handlers reaches the client
  once and in order whatever bails out, and a resource is destroyed once, after
  those that hold it;
* memcache pool: an answer goes to the request it answers, and every request
  is answered, or fails, exactly once.

## 2. Modules

| Module | Models | Checked by |
| --- | --- | --- |
| `ObjectsStore` | objects store, standard objects, user code that uses them, request shutdown as objects see it | `MCObjectsStore`, runs `objects_clean` and `objects_bailouts` |
| `ObjectsStoreProofs` | theorems about it: types, destructors at most once; then about references: exact counts, nothing dangles, storage and handles released once | tlapm |
| `ZendHash` | the hash table on buckets and pointers | `MCZendHash`, runs `hash_operations` and `hash_reentrant` |
| `ZendHashLemmas` | what its operators do to one table: linked lists, chains, re-hashing, the functions under way | tlapm |
| `ZendHashProofs` | theorems about it: lists and chains, internal pointer, types, look-up, memory, ordered map, copy | tlapm |
| `OrderedMap` | abstract: what a hash table promises | the property `IsOrderedMap` of `ZendHash` |
| `ApcSma` | APC's allocator on offsets and sizes | `MCApcSma`, runs `sma_blocks` and `sma_live` |
| `ApcSmaProofs` | theorems about it: types, exact segments, coalescing | tlapm |
| `ApcCache` | both APC caches and the processes that use them | `MCApcCache`, runs `apc_cache` and `apc_inserted` |
| `ApcCacheProofs` | theorems about it: locks, memory, reference counts, chains; the lemmas on removing, collecting, expunging and linking come first | tlapm |
| `SessionFiles` | session functions and the files save handler, several processes | `MCSessionFiles`, run `session_files` |
| `SessionFilesProofs` | theorems about it: locks, what is read and written, no circle of waiting | tlapm |
| `RequestShutdown` | composes the phases of `php_request_shutdown`, output buffers and the resource list | run `request_shutdown` |
| `RequestShutdownProofs` | theorems about it: output and resources | tlapm |
| `MemcachePool` | the pool, its servers, and the calls that use it | `MCMemcachePool`, runs `memcache_pool` and `memcache_persistent` |
| `MemcachePoolProofs` | theorems about it: answers and requests, lists, completion | tlapm |

Five more configurations (`ObjectsStoreMoved`, `ObjectsStoreLateDtor`, `ZendHashDeleter`,
`SessionFilesLeaked`, `SessionFilesSwitched`) each have a counterexample; they go with the observations of section 12.

Conventions. A definition has the name of the C function it models where that
name is a TLA+ identifier not otherwise taken, and `PROJECT.json` maps every
definition to its lines. One action is one handler, or the part of one between
two calls out of it. Where a C function calls user code, its activation record
becomes a frame on a variable `stack`, and the rest of it is an action that is
enabled when that frame is on top again. Where processes share memory, a
critical section is one step unless something else can happen inside it.

## 3. The objects store

**State.** `bucket[h]` is `object_buckets[h]`; `top`, `size` and `free_list` are
fields of `zend_objects_store`. `capacity` is the number of buckets the array
really has: the code doubles `size` before `erealloc`, and the two differ if the
allocation bails out in between. `table` names the allocation, so that a pointer
into the array (`obj` in `zend_objects_store_del_ref_by_handle`) can be compared
with the present one. `object` is the heap, `symbol_table` the global variables,
`stack` the C stack from the phase of `php_request_shutdown` at its bottom.
`settled` is a history variable that counts runs of `__destruct`.

**Actions.** `UserStep` is one PHP statement of the function on top: `new`,
assignment to a variable or property, `unset`, `clone`, a reference between two
symbols, `exit`, a fatal error, a constructor or destructor that returns or throws. User code is any
program over these statements. A constructor or destructor may name `$this`, a
global, or a property of either. `EngineStep` is the engine: the pieces of
`del_ref_by_handle` before the destructor, after it, and after `free_storage`;
`zend_objects_free_object_storage`, which destroys one property at a time and may
recurse; the loops of `shutdown_destructors`,
`zend_objects_store_call_destructors`, `shutdown_executor` and
`zend_objects_store_free_object_storage`. `Bailout` is `longjmp`: it drops the frames
above the innermost `zend_try`, which is either the one in `del_ref_by_handle` (it
goes on with `failure` set, and bails out again at its end) or that of the present
phase.

**Abstractions.** Globals are modelled as PHP references (variables bound by
`global`), so an assignment stores the new value before the old one is destroyed; the
other order, in which a plain assignment destroys first, is not modelled. Symbols are
visited in any order where the code goes backwards through the table. Proxies,
`__clone` and memory-limit errors other than the one in `put` are left out. So is one danger of the walk over the
symbol table: `zend_hash_reverse_apply` reads `pListLast` before it calls the deleter (`zend_hash.c:754-765`), so a
destructor that unsets just that symbol makes the walk go on with a freed bucket; in the model it goes on with
a symbol that is there. When
`put` writes past the array or a destructor is called on a freed class, what follows is
undefined: the model goes to the phase `crashed` and stops.

**Runs.**

| Run | Instance | Shows |
| --- | --- | --- |
| `objects_clean` | one variable, one property, three objects with public destructors, table for two, no interruption | types, exact counts, destructors at most once and before the storage goes, storage freed once and, at the end, all of it |
| `objects_bailouts` | one variable, one property, two objects with public, private or no destructors, `exit`, fatal error, exception in a destructor, memory limit | where frames are abandoned: counts may then be too high, never too low; handles on the free list exactly when free and freed once; no dangling reference; and every request ends |

**Bounds.** `MaxCreated` bounds the objects a request creates; destructors that
create objects would otherwise go on for ever. Three are enough for a
destructor that creates a second object and releases a third, for a cycle with an object
hanging from it, and for a handle that is recycled while its previous owner's frame is
still on the stack. `InitSize` is 1024 in the source; 3 (two usable handles, as 0 is
never given out) or 2 make the array grow at the third or second object, also from
inside a destructor and inside `free_storage`.

## 4. The hash table

**State.** `ht` is the `HashTable` with the fields of its buckets as functions from
addresses: key, value, the two pointers of the chain and the two of the list of
elements. `allocated` says which buckets exist, and a freed bucket's fields are cleared,
so nothing can be read out of it unnoticed. `stack` has the functions that
wait for a callback. `saved` is `foreach`'s `HashPointer`. `owned` is a history of the
values handed to the table and not destroyed; `broken` is set by a function that goes on
with a bucket that is gone, after which the model stops.

**Actions.** Every function that changes a table. Those that call `pDestructor` or an
`apply_func` in the middle are two actions, and the constant `Reentrant` says which
of them wait for code that uses the same table. Bucket addresses come from a
small set and are used again after `pefree`, since an allocator gives back the
same address: this is what makes `zend_hash_set_pointer`, which recognises a bucket
by its address, interesting. `zend_hash_sort` takes any order, as the comparison
is the caller's. `Copy` is `zend_hash_copy` with its callers' initialisation; it keeps
the addresses of the source, which nothing compares.

**Refinement.** `OrderedMap` is a sequence of key-value pairs with a cursor and the
next integer key. `IsOrderedMap` says that under the mapping *list of elements,
index of the internal pointer, nNextFreeElement* every step of the table is one
operation of the map or none: in particular growing and rehashing are
invisible, and a renamed element keeps its place and the cursor.

**Runs.**

| Run | Instance | Shows |
| --- | --- | --- |
| `hash_operations` | all functions, callbacks that leave the table alone | lists and chains (`StructureExact`), look-up, memory exact; copies faithful; refinement |
| `hash_reentrant` | destructors called by `zend_hash_del` and by a graceful reverse destroy use the table, two deep | lists and chains stay exact; the internal pointer stays on an element; neither function touches a bucket that is gone |

**Bounds.** Three buckets in a table of initially two slots: a chain of three, a
resize with elements that separate and elements that stay together, first, middle
and last elements. Keys share hashes: -1 and `LongMax` fall into one slot as do two strings of
the same hash that differ by content or length. `LongMax` is 3, or 1 where it is not the
question; the next index is bounded by it as in C. `Cardinality(Addr) <= LongMax` in
`hash_operations`, as a table never has more elements than `LONG_MAX`. Values are
distinct, so that a lost or doubled one shows. `MaxDepth` is 2: a destructor inside a
destructor, the least at which one deletion changes the neighbours of another that is
still under way. The smallest real table has 8 slots; the code does not depend on it.

**Assumptions on callers.** `zend_hash_clean` and the graceful destructions are called
when no other function is active on the table: their callers own it. The
other re-entrant combinations (`zend_hash_update`, whose destructor could delete the
very element that is replaced; `zend_hash_apply`) are enabled by `Reentrant` but promise
nothing; see the findings.

## 5. APC's allocator

**State.** `seg[s]` is a segment: `avail` and, by offset in words, the fields `size`,
`prev_size`, `fnext`, `fprev` of the block there. `call` is where each process is in
`apc_sma_malloc_ex`; `sma_lastseg` its most recently used segment; `given` a history of
the blocks handed out and the size asked for.

**Actions.** `sma_allocate` and `sma_deallocate` run under the segment's lock and are one
step each. `apc_sma_malloc_ex` is broken up where it gives the lock up: a failed
try, the current cache's `expunge_cb`, the retry, the other segments, the expunge of both
caches, the restart, and giving up. What an expunge frees is any number of
blocks, and another process may take them first.

**Runs.**

| Run | Instance | Shows |
| --- | --- | --- |
| `sma_blocks` | one process, one segment of 17 words with one-word headers, requests of 1, 2 and 4 words | blocks tile the segment, the free list is exact in both directions and `avail` follows (`SegmentExact`); no two free neighbours |
| `sma_live` | two processes, two segments with room for one block each | `apc_sma_malloc` returns |

**Bounds.** A header of one word stands for `block_t`; what matters is that a rest is
too small to split at some sizes and not at others, and with requests of 1, 2 and 4
both happen next to free and used neighbours on either side. Up to five blocks in use
give every pattern of coalescing: with the one before, the one after, both, none. Since each
allocation and release holds the lock throughout, more processes add no interleavings to
`sma_blocks`; they do to the retry loop, which `sma_live` has two of.

`AvailCounts`, a part of `SegmentExact`, records what the code does: `avail` exceeds the free words by the
one header that `apc_sma_init` subtracts once too often from the first free block. It does
no harm: `avail` only serves as a first test and for statistics.

## 6. APC's caches

**State.** `shm` is the shared memory: blocks in use, a `slot_t` per block, and for both
caches the chain, the deleted list, `num_entries`, `busy` and `lastkey`. `lock` and
`wrlock` are the process locks; `cache_stack` is each process's `APCG(cache_stack)`; `pc`
is where it is. `leaked` counts references lost with a request that died; `damage` is set when freed
memory is relied on, after which the model stops.

**Actions.** `my_compile_file` (`FileFind`, `Compile`, `PoolCreated`, `Insert`), `_apc_store`
and `apc_add` (`StoreBegins`, `PoolCreated`, `StoreChecks`, `Insert`), `apc_fetch` (`UserFind`,
`CopyDone`, `CopyBailsOut`), delete, clear (`ClearBegins`, `ClearEnds`: the cache is `busy` in
between, which other processes see without the lock), and the end of a request (`Deactivate`).
`MallocScript` is the sequence of tries and expunges of `apc_sma_malloc_ex` with one segment, with
`apc_cache_expunge` in two steps. It runs in two places: before any lock is taken, for the
pool, and under the cache's lock, for the `slot_t`, when the pool has no room left for it
(`Insert`'s third disjunct, `SlotAllocated`, `SlotFails`). In the second place the
process holds one cache's lock and may want the other's.

**Abstractions.** The keys of a cache collide: a cache is one chain, as one slot of the real
one is. Walks over a list that remove some of its entries are recursive functions (`Only`, `RemovedAll`, `Collected`); `References(b)` is every
place of a process that counts in `ref_count` of `b`. An entry, its pool and its slot are one block; a `slot_t` that did not fit into the
pool takes another. Time is a small counter, and `apc.use_request_time` is off.
Left out: the early return of `my_compile_file` when `ctxt.pool` cannot be created (`apc_main.c:541-543`), which loses
the reference of the entry found; `user_exists` and `user_update`, which change no list; `apc.stat=0`;
`apc.force_file_update`; the reset of `lastkey` on delete; read locks; threads.

**Runs.**

| Run | Instance | Shows |
| --- | --- | --- |
| `apc_cache` | two processes, three blocks, one script in two versions, two user keys, four calls | reference counts exact, every block owned once, one entry per key, mutual exclusion, an entry in use outlives `gc_ttl` |
| `apc_inserted` | the same | finding: an insertion that is lost |

**Bounds.** Three blocks fill up with two entries and one slot, or one entry of each cache
and one on a deleted list. The clock goes to 2, one more than `GcTtl` and the ttls, so each
may have passed or not; `CacheTtl` is 0 for files (a full cache is wiped) and 1 for user
entries (stale ones go first). Four calls let one process use an entry while the other
replaces it, fills the memory, and collects it. `MaxStack` is one script per request, `MaxLeaks` one lost
reference. Processes, blocks and user keys are interchangeable.

Deadlock is not checked in these runs, for two reasons: after `damage` the model stops on
purpose, and the program really can stop, when each of two processes holds one cache's
lock in an insertion and expunges the other (the hazard at `apc_sma.c:500`). No document
promises the contrary, so it is recorded as a hazard and not as a finding.

## 7. Sessions in files

**State.** `path` is the directory, `data` the content of each inode, `old` the inodes whose
mtime has passed `gc_maxlifetime`, `owner` who has an inode locked. `ps[p]` is the session
globals of process `p` with the `ps_files` behind them (`fd`, `lastkey`, `st_size`), the session function it
is in (`op`) and the system call it is about to make (`pc`). `seen` is history: what the file held
when the session read it.

**Actions.** One action per system call of `mod_files.c`, since any other process may run between two: open
(with the test that keeps a file already open under this id), `flock`, read, `ftruncate`, `pwrite`, unlink, close, and
the garbage collector's stat and unlink. The functions of `session.c` choose among them: `SessionStart` makes a new
`ps_files` over one that may still be there, whose descriptor is then `leaked`; `Flush` sets the status first and then encodes. Encoding and decoding run `__sleep`,
`__wakeup` and `unserialize` callbacks, which may exit: `EncodeBailsOut`, whose bailout `php_session_flush` swallows, so that the script or the end of the
request goes on with the file open; `DecodeBailsOut`, which leaves `session_start` with the file open, the status none and the script in its shutdown functions. `Destroy` gives the lock up before it unlinks, by name; `SessionRegenerateId` changes the id and leaves the old file
open, so that the next write closes one file and opens another. The environment ages files and kills processes.

**Abstractions.** A value is a sequence of cells that name the write they come from, so that a mixture of two
values is neither. Creating a file and opening it are one call, as with `O_CREAT`. Left out: ids the handler refuses, short
reads and writes, a session that cannot be decoded (it is destroyed), session functions that those methods or a user's error handler call in the middle of another, `$_SESSION` that is not an array, `dirdepth` (no collection is done then), user
handlers, cookies.

**Run.** `session_files`: two processes, one id the client has and one that is made up, values of one and two cells, two
requests, three session calls, one fault (a process killed, or an open that fails) and one bailout out of encoding or decoding. No lock is leaked
but by a `session_start` after such a bailout, one each; from
reading to writing a request sees the file unchanged; a session written to the file it was read from is written whole; every
request ends, or waits for a lock that was leaked so.

**Bounds.** Two requests at once are what a lock is about; the second can open a file the first unlinks, wait for its lock, and
go on with an inode that has no name. Three calls allow start, regenerate with deletion, and write in one script while the other
starts. The made-up id lets a destroyed session be created again under a file still open elsewhere. Two lengths make a new value
shorter than the old one, longer, and equal.

The mutants are a writer that does not reset its position, a lock that is shared, an `ftruncate` under the opposite test, a `session_write_close` that frees the `ps_files` without closing
the file, and an `ps_files_open` that does not close the file that was open: with the last a request waits for a lock for ever without a bailout.

## 8. The end of a request

**State.** `phase` is where `php_request_shutdown` is, `stack` the C call stack inside the `zend_try` of that phase. `ob` is the
stack of output buffers, the active one last, each with its text, whether it has a user handler, and its `chunk_size`; `writer`
is `OG(php_body_write)`, a function pointer that must follow the nesting level; `ob_lock` is set while a handler runs. `list` is
`EG(regular_list)` with reference counts and what each resource holds. The n-th thing a request prints is the number n: `sent`
and `dropped` say where it went.

**Actions.** What user code does: print (also inside an output handler, where the text is appended to the buffer that is being ended, and may fill its chunk: the buffer is then
flushed, handler and all, while the handler runs), start a buffer, flush, clean and end one, open, copy, unset and close a resource, register
a shutdown function, return, or exit. `php_end_ob_buffer` is broken where it calls out: `EndBuffer` up to the handler,
`HandlerReturns`, `Ended`, which lowers the level and writes the text below, where a full chunk makes the buffer below end in turn,
and `Restore` after a flush. A resource leaves the list before its destructor runs (`Delete`, `Dtor`, `DtorEnd`), and the destructor may
run user code while there is an executor: a stream of a user wrapper. `DestroyList` takes what is left, the last first. `NextPhase` goes on
when the `zend_try` of a phase is over, whether it ended or bailed out.

**Abstractions.** Handlers return the text they are given, or FALSE, for which the code takes the buffer as it then is. They call no `ob_*` function but `ob_start` under `ob_lock`, which is the error the code tests for; after a
flush of the handler's own buffer `ob_lock` is off, and what `ob_start` does then is left out. Headers are
the fact that they were sent. Destructors and session or module shutdown are user code that may act (`Begins`). Left out: internal handlers, buffers that may
not be erased, `PHP_OUTPUT_HANDLER` flags, disabled output.

**Run.** `request_shutdown`: three things printed, two nested buffers with and without handler and with chunks of two, two resources of which one may hold the
other, one shutdown function, six actions of user code. The writer matches the level; what is printed outside handlers is sent once, in order, or waits, or was thrown
away on purpose; what a handler prints may be lost, but nothing else with it (`echoed`); after a flush under a running handler text may be sent twice (`"repeated"`); all of it is sent at the end unless a handler bailed out of the last flush or a later phase opened a buffer; resources are destroyed once,
after their holders.

**Bounds.** Two levels are the least at which a flush writes into another buffer and restores; a chunk of two fills with the second thing printed, or with the text of
the buffer above. Six actions of user code reach an exit inside the handler of an inner buffer with an outer one full, a resource closed inside the destructor of its holder, and
a shutdown function that opens buffers after the script's have failed. Two resources: the lists are sequential, and a chain of three adds no new case.

## 9. The memcache pool

**State.** `mmc[s]` is the `mmc_t` of a server: its connection's status, the request in the send slot and the queue behind it, the request in the read slot and the queue behind it.
`pool` has the two pairs of lists (those `mmc_pool_select` walks, and those it fills meanwhile), `in_select`, and the free requests. `request` is every `mmc_request_t` made, with the servers it
failed on. `asked[s]` is the environment: what the server has received on this connection and has still to answer. `stack` is the C stack. `mixed` is history: requests given the answer of another.

**Actions.** Scheduling (`Schedule`, `SlotNext`, `AfterRefusal`), failing (`Deactivate`, `Failovers`, `Failover`, `ServerFailure`, `Retry` and its two halves), `mmc_pool_select` with its time-out
walks (`SendTimeout`, `ReadTimeout`), the walk over those to send to (`SendWalk`, `Sent`, `SendsMore`, `SendFails`) and over those to read from (`ReadWalk`, `ReadDone`, `ReadEarly`, `ReadValue`, `ReadFails`, `ReadEof`), and
the calls of `memcache.c`: `memcache_get`, `memcache_set` of one key and of an array. A value may be an object whose `__wakeup` calls the pool: the walk waits on `stack`, and the inner `mmc_pool_select` helps it along. `ScriptEnds` is
`mmc_pool_free` and what `mmc_find_persistent` makes of a connection in the next script.

**Abstractions.** A connection is its server. The hash is the constants `Home` and `Order`. `MaxAttempts` is `memcache.max_failover_attempts`. Requests are numbered and not reused. A refused connection is found out at once. Left out: `memcache_get` of
several keys (the pending requests built per server), UDP, redundancy, the binary protocol, delete, increment, flush, stats, `memcache.allow_failover=0`, errors of `select`, and the user's failure callback, which may enter the pool from a time-out walk.

**Assumption of the properties.** `astray` is set at four places where the pool does not recover from a failure: a connection that fails between two requests of a queue (`SlotNext`), a retry with more than one request in the line (`Retry`), a connection in unknown state that is
closed (`ReadEof`), and answers left on a persistent connection (`ScriptEnds`). `PipelineExact`, `ListsExact` and `RunsToCompletion` say what holds until then; the third of them is the finding of section 12, the others are observations.

**Runs.**

| Run | Instance | Shows |
| --- | --- | --- |
| `memcache_pool` | two servers, one persistent; one key; three requests; `__wakeup`; errors before a request is wholly sent | the read line is what was sent and then what is to be sent; the lists have exactly the servers with work; every request is answered or failed once |
| `memcache_persistent` | the same without `__wakeup`, and scripts that go on | finding: the value of another key |

**Bounds.** Two servers: one that fails over to another, and back (`Order` is `<<a, b, a>>`). Three requests on one server fill the slot and the queue of either line and leave one to be made from `__wakeup`. One retry interval lets a failed server come back within a script. The number of scripts is not bounded.
A key stands for those that hash alike; an instance with two keys of different homes was run once (4.8 million states) and showed nothing else.

## 10. Fairness

`ObjectsStore!LiveSpec` is weak fairness of `EngineStep` and strong fairness of
`UserReturns`. The engine is one thread and never waits between its steps. User code returns in
the end, or else `max_execution_time` makes its overrun a fatal error, which is a bailout. It is *strong*
because a destructor that runs statements disables and enables its own return over and over.
`RequestEnds` (run `objects_bailouts`) then has to follow from the code: the `do ... while` in `shutdown_destructors` repeats only
while the number of symbols changes, and the loop over the store sees new objects
only while destructors can create them (`MaxCreated`).

`ApcSma!LiveSpec` is weak fairness of `EngineStep(p)` for each process: one that is inside the
allocator is scheduled, and the `expunge_cb` it calls returns. Nothing is assumed of what
other processes allocate and free, nor that an expunge frees anything. `MallocReturns` holds because the
segments are tried in order and the restart is made once.

No liveness is stated of `ApcCache`: it does not hold (see the deadlock above).

`SessionFiles!Fairness` is weak fairness of each step a process makes by itself inside a session
function, and of the end of a script (`max_execution_time` again). A directory is
finite, so a walk of the garbage collector ends: weak fairness of `GcEnd`. Waiting in `flock` has strong
fairness: a lock that is released again and again is granted in the end, which Linux does by waking its waiters in
turn. That a lock *is* released is not assumed: `RequestEnds` has to follow from `LocksHeld` and from
the fact that a process never waits with another lock in hand.

`RequestShutdown` and `MemcachePool` are checked for safety only: what ends them is the user's
code, in the first, and in the second a server that answers or a time-out, so a liveness property would restate an assumption.

## 11. Proofs

| Module | Theorems |
| --- | --- |
| `ObjectsStoreProofs` | `TypeCorrect`, `AtMostOnce`, `CountsExact`, `NothingDangles`, `HandlesRecycled`, `StorageFreed`, `DestructorsFirst` |
| `SessionFilesProofs` | `TypeCorrect`, `LocksAccounted`, `NoLostUpdate`, `NoMixedSession`, `NoHoldAndWait` |
| `ZendHashProofs` (lemmas in `ZendHashLemmas`) | `StructureCorrect`, `PointerCorrect`, `TypeCorrect`, `LookupCorrect`, `MemoryCorrect`, `NeverBrokenCorrect`, `MapCorrect`, `CopyCorrect` |
| `ApcCacheProofs` | `LocksCorrect`, `MutualExclusion`, `TypeCorrect`, `RefCountsCorrect`, `ChainsCorrect`, `BlocksCorrect`, `UsersOutliveGcTtl` |
| `ApcSmaProofs` | `TypeCorrect`, `SegmentCorrect`, `CoalescedCorrect` |
| `RequestShutdownProofs` | `WriterFollowsLevel`, `NothingLost`, `AllFlushed`, `ReleasedOnce` |
| `MemcachePoolProofs` | `PipelineCorrect`, `ListsCorrect`, `RunsCorrect` |

Each says `Spec => []P` (`DestructorsFirst` and `UsersOutliveGcTtl` are action properties) for every value of the constants that meets the named
assumptions of its module. In each the argument is an inductive invariant: one lemma per action, or per group of actions with the same
effect, shows that a step keeps it, one joins them over `Next`, and temporal logic does the rest.

**Objects store** (any finite sets of variables and properties, any bound on objects, any `InitSize > 1`, any kinds of destructors
and interrupts). `TypeOK` does not say that an engine frame names a handle and
not 0, that the bottom frame is a phase and those above it are calls, or that `top` exceeds the
number of objects created by at most one; without them a step could index the store outside its domain or
`Unwind` find no phase to go on with. `DestructorAtMostOnce` needs to know that a
valid bucket whose `destructor_called` is not set belongs to an object whose destructor has not
run. Hence

    Inv == StackOK(stack) /\ StoreOK /\ HeapOK /\ SettledOK

The argument for `SettledOK` is that of the code: both callers of a destructor
(`zend_objects_store_del_ref_by_handle`, `zend_objects_store_call_destructors`) test the flag and set it before
the call, no other function clears it, a constructor that throws sets it, and `put`, which
resets it, does so for a new object. Lemmas on the stack (`PushOK`, `PopOK`, `UnwindOK`, `StackStep`) carry the bailouts: the
innermost `zend_try` is found by well-founded induction (`InnermostTry`, the least
element of a set of naturals).

The reference counts need more, and it is proved on top of `Inv`: unless the model has stopped in `crashed`,

    RefsOK == Good(bucket, object, symbol_table, stack, unclean, top) /\ FreeListExact /\ DtorInv

`Good` has four parts. `CountsOK`: a valid bucket's count is the number of variables, properties and frames that name it, or after a
bailout at least that, and nothing names an invalid one before the end of the request. `FramesOK`: a release in `free_storage` found a
count of one, its storage is freed by the frame above it and by no other. `LiveOK`: a valid bucket has its storage until that moment; without a
bailout, storage without a valid bucket belongs to a call that is freeing it. `PhaseOK`: in the last phases no user code is left, and those
behind `free_all`'s loop are invalid. The central lemma is `LastReference`: a release that finds a count of one *is* the one
reference there is, so nothing else can name the object while its properties are destroyed, whatever the destructors of those do. `UnwindRefs` shows that
a bailout only removes references, which is why counts may then be too high and never too low. `DtorInv` (a set flag means that the destructor ran) holds
only while the request is clean, as `shutdown_destructors` marks the rest after a bailout.

**Hash table** (any finite set of buckets, any keys and values, any initial size, any depth of functions under way). The central fact is `StructureInv`, which
is proved with no hypothesis about callbacks: `State(ht, List(ht), stack)` says that the buckets of `List(ht)` are linked in that order in both directions, that each is on the
chain of its slot and on no other (`Table`), that the buckets allocated are those listed and those that a function under way has taken off the
lists and has still to free, each of one function (`StackOK`), and that `nNumOfElements` counts the list and the deletions. `StackOK` is what the properties do
not say and the proof needs: a function that waits with its bucket off the lists is the only one that has it, and no function *inside* it goes on with that bucket.
`StructureCorrect` and `PointerCorrect` are its corollaries. A list is a sequence of buckets that two fields link (`Links`); `LinksAppend`, `LinksRemove`, `LinksReplace` and
`LinksReverse` are used for the list of elements and for each chain alike. What the recursive functions `Walk` and `zend_hash_rehash` compute is proved by induction over a set of
numbers (`WalkIs`, `Rehashed`, `CopyIs`).

The rest is proved from what each step does to the elements (`Unlinked`, `Released`, `Moved`, `Ordered`, `Taken`), and mostly holds only where certain callbacks leave the table alone.
The hypotheses name those callbacks; each is met by the run that checks the property, and without each the property is false, which are the hazards of the code:

* `TypeCorrect` assumes `Cardinality(Addr) <= LongMax`: a renumbering sort of more than `LONG_MAX` elements would give indices beyond it. No memory holds that many.
* `LookupCorrect` assumes that zend_hash_del is not re-entered, or no element is renamed: `zend_hash_update_current_key_ex` deletes the element that has the key and then goes on; a destructor that
  inserts that key again gives the table two. `KeysInv` says that the key a waiting rename will set is nobody's.
* `MemoryCorrect` assumes that neither `update` nor `graceful_destroy` is re-entered. A destructor of a replaced value could delete that element, which destroys the value a second time;
  one called by `zend_hash_graceful_destroy` could delete the next element, so the loop ends with elements left. `MemoryInv` adds that a value on its way in is no element's.
* `NeverBrokenCorrect` assumes that only destructors called by `zend_hash_del` and `zend_hash_graceful_reverse_destroy` use the table, and no sort or rename in the former. This is the case in which the code is
  written to be re-entered: `del` needs nothing from the table after the call, and the reverse destroy starts over from `pListTail`. A sort inside a deletion reads `arTmp[0]` of a table whose count is one too high.
* `MapCorrect` is the refinement of `OrderedMap`, which composes them: `MapInv` is `KeysInv`, `TypeInv`, and for each function that waits to change an element that it is
  still the right one (`ChangersOK`): for `zend_hash_update` the one with its key, for `zend_hash_update_current_key_ex` the current one. It has the hypotheses of `TypeCorrect` and `LookupCorrect`, and that
  `update` is not re-entered: its destructor could give the element another key, and the next index would then be raised for a key that the table does not have.
  `MapOrderIs` reads the abstract sequence off the list; `MapUnlink`, `MapInsert`, `MapStore`, `MapRename`, `MapPoint`, `MapSort` and `MapEmpty` say what each operation on
  buckets does to that sequence and to the place of the internal pointer in it, `MapFree` and `MapCount` that the second half of a deletion does nothing to either, and `MapStepIs` that these are the actions of `OrderedMap`.
  TLC finds `IsOrderedMap` violated when any one of the three hypotheses is dropped.
* `CopyCorrect` has the hypothesis of `LookupCorrect`, whose invariant it uses: `Lookup` in the copy finds the right bucket only if no key is twice in the table. `PartGrows` says what is copied after each
  element, with the internal pointer where `zend_hash_copy` leaves it: at the first, until the source's is reached.

**Sessions** (any processes, any finite set of ids, any sizes). `OwnersOK` says that a lock belongs to the process that has the file open,
`GlobalsOK` what the state within a session function implies for the globals, `HoldsOK` that the file a process has open is locked by
it except while it waits, and `FileOK` how the file goes from the value read to the value written, one system call at a time.
`LocksHeld` is `OwnersOK` with its converse, which is not inductive without `GlobalsOK`: a `ps_files` could be replaced with its file open. It counts the locks that are `leaked`: never more than there were bailouts out of encoding or decoding. The number of inodes
in the model is no restriction: `FreeInodeOK` proves that `open` always finds one that no process has and no name refers to. `NoHoldAndWait`
is the reason why requests do not wait for each other in a circle.

**APC's caches** (any finite sets of processes and blocks, any keys, ttl's, bounds). `LInv` ties the locks to the place each process is at: it has a cache's lock if and only if it is
in one of its critical sections, where `Inside` follows `MallocScript` through the expunges of either cache and through the insertion that
started the allocation. `MutualExclusion` follows: two processes are not inside the same cache. On it rests

    IInv == LInv /\ Types /\ (damage = "none" => HeapInv)

which TLC checked on the instance of `apc_cache` before it was proved. `Heap` says that the memory is in order: every entry is at one place of one list, its block and
that of its `slot_t` are in use and are no other's, a free block is on no list. `Distinct` gives each pool not yet inserted to one process. `RefsOK` is `RefCountsExact`
with what keeps it true: a block that is no entry has no references and lost none, so one that is allocated again begins with a count of 0.
`PlaceKept` is about the window in which an insertion allocates its `slot_t` with its cache locked: the chain then is the one its walk left, with
the new key in it nowhere, and others can only take entries out by an expunge; if the place itself was taken out, that is `damage`, the
finding of section 12, and nothing is claimed from there on. Without it an insertion could link a second entry of its key.

The operators are recursive functions on lists, whose facts are proved by induction over sets (`NatSet`, `SeqSet`: a set of lists that has
the empty one and each longer one has all): `Reduced` says of any of them, in whatever order they are composed, that the memory is still in order, that entries only leave
chains or lists, that no count changes, and that an entry freed was removed more than `GcTtl` ago or had no references. `LinkedHeap` is the converse for the
one operation that adds an entry. `GoneOK` is the same of a whole step, and gives the action property `UsersOutliveGcTtl`.

**APC's allocator** (any processes, segments and sizes with room for three block headers). `SegInv` says that each segment is `Whole`: there are a list and a set of free
blocks such that `Exact` holds. `Exact` has the parts that the code keeps up in separate fields. `Layout`: the blocks cover the segment, each ends where
another begins. `IsList`: the free list, as a function from places to offsets, agrees with `fnext` and `fprev`, and has no block twice. `Tags`: `prev_size` of the block after a free one is
its size, and 0 after one in use. `Apart`: no free block follows a free one. The count: `avail` is the number of free words, and one block header.
`SegmentExact` alone is not inductive: `sma_deallocate` finds the block before by `prev_size` and decides on the one after by `fnext`, so without `Tags`, and without `fnext` being 0 in
every block in use, it could take in a block that is not free; without `Apart` it would leave free neighbours.
Inside `sma_deallocate` one block is neither free nor in use, and its neighbours may be free: `Loose` is the state of the segment then. `CoalescePrev`
and `CoalesceNext` are two instances of one lemma, `Merge`, in which a free block leaves the list and one of two neighbours takes in the other; `CoalescePrevIs` and `CoalesceNextIs` show
that no free neighbour is left on that side, and `Link` then puts the block on the list. `sma_allocate` takes the block whole (`TakeWhole`) or cuts it (`TakeSplit`).
Lemmas on lists (`ListUnlink`, `ListReplace`, `ListPush`) know nothing of sizes, those on layouts (`LayoutSplit`, `LayoutMerge`, `WordsAdd`) nothing of links.
What `FreeList` and `Blocks` compute is proved by induction over a set of numbers (`NatSet`, `FreeListIs`, `BlocksIs`).

**End of a request** (any numbers of prints, levels, resources and functions, any chunk sizes). The invariant has five parts. `StackInv`: which frames may stand above
which: over a handler only flushes, each half-ended buffer under its handler. `OutputInv`: `OutputExact` with types and the writer, for which the proof unfolds
`FlattenSeq` (`FlattenSeqIs`) and shows that writing into a full chunk moves text and loses none. `TextInv`: the text a handler was given accounts for what its buffer holds but for what handlers
printed, and until a buffer is flushed under a handler the buffer goes on from that text (`Owed`), so that replacing the one by the other keeps order. `FlushedInv`: after the flush of the
third phase no buffer is left or the loop was cut short. `ResourcesInv`: each resource's count covers the script's references and the holders', a holder whose destructor is on the
stack included; a resource only holds older ones (`list[id].holds < id`), so `DestroyList`, which takes the last first, meets each before what it holds.

**Memcache pool** (any finite set of servers, any keys, homes, orders and number of attempts, any number of requests and of scripts, `__wakeup` and early errors or not). The properties say what
the lines and lists are where no function is between two changes. A proof has to say what they are everywhere, hence

    Inv == astray \/ GoodAt(stack, mmc, asked, pool, request, ret)

which TLC checked, with a witness given for each of its quantifiers, on the instance of `memcache_pool` before it was proved. `GoodAt` says that there are a stack `B` of calls and walks that wait, a set `H` of requests that only the frames above `B` hold, and a set `X` of servers
whose slots are between two changes, such that:

* `Shape`: the frames above `B` are one of nine kinds, such as a request on its way from server to server (`ShChain`), over what is left of a dead server's line (`Over`), or a retry (`ShRetry`), and what `H` and `X` then are;
  for a server outside `X` the line of answers is what was asked and then what is to be sent (`Quiet`);
* `Placed`: every request made is in one server's line, or free, or in `H`, and only there. The proof that a dead server's requests are rescheduled once each is that `Failovers` moves them from the line to `H` and `Schedule` from `H` to a line;
* `Walked`: every server with a request to send or an answer to read is in the lists that are being filled or still to be walked, and there once (`Core`); how much is still to be walked follows from the function on top, or from the topmost walk if
  `__wakeup` has come in between (`Now`). This is why the inner `mmc_pool_select` may empty and fill the lists its caller walks;
* `CallsOK`: a request belongs to a call that waits, or is free. `mmc_pool_run` returns when nothing is left to walk, and by `Walked` no server then has a request.

A lemma per place of the stack says what makes it good (`GoodIs`, `RestIs`, `WalkIs`), one per action that its step leads to one of them; an action that sets `astray` ends the argument (`AstrayStays`). `mmc_queue_remove` is a recursive function, whose result is proved by induction over a set of numbers.
The assumptions are those of `MemcachePool`: the servers are finite, the hash gives servers, and `NULL` is not the number of a request. `GetsItsOwn` is false, and is the finding.

**A pitfall.** tlapm 1.4.5 gives the SMT solver a contradiction for two updates of the same function value in one `EXCEPT` (`[f EXCEPT ![p].a = x, ![p].b = y]`), and misreads an `@` inside `[@ EXCEPT ...]`. The modules write
`[f EXCEPT ![p] = [@ EXCEPT !.a = x, !.b = y]]` with no `@` within. Its axioms of sequences also give every function a domain `1 .. n`, so that a function on `0 .. n` next to a tuple is a contradiction: the leaves about such functions are Zenon's. The obligations were searched for contradictory hypotheses.

**Only model-checked**, on the instances given: liveness (`RequestEnds` of two modules, `MallocReturns`). The prover has no rule for fairness and `ENABLED`. Every invariant and every action property that a passing run checks is
stated by a theorem.

## 12. Where code and comments disagree

Findings, each a run that ends in a counterexample:

1. `apc_inserted`. "Returns non-zero if the file was successfully inserted" (`apc_cache.h:191-192`). `*slot = make_slot(...)` allocates while `slot`
   points into the chain. If that allocation expunges the cache, `slot` points into a removed entry: the
   new one is counted and reported as inserted, and no look-up finds it.
2. `memcache_persistent`. `memcache_get` "Returns value of existing item or false" (`memcache.c:1594-1595`). If the server closes a persistent connection that
   this script has not yet verified, `mmc_server_failure` answers `MMC_REQUEST_RETRY`, `memcache_pool.c:1627-1632` tests only for failure, and the
   request stays in the read slot. `result` is no longer `MMC_REQUEST_MORE`, so the server is not listed for reading, and `mmc_pool_run` returns with the
   request unanswered, which its comment ("runs all scheduled requests to completion", `memcache_pool.c:1660`) excludes. The server is not read from again, so the answer to a request the script makes of it later is never read either; the script ends
   with an answer unread on a connection that persists, and the next script's `memcache_get` is given it: `mmc_value_handler_single` does not look at the key.

Observations: properties stated beside the model of which a configuration, not a run, has a counterexample.

3. `ObjectsStoreMoved.cfg`, `ObjPointerFresh`. `zend_objects_store_del_ref_by_handle` re-reads `obj` after the destructor because "the store
   might have been reallocated in the dtor" (`zend_objects_API.c:205`). `free_storage` a few
   lines later also runs destructors, those of the properties, and `obj` is not read again: `obj->refcount--` is made through the old
   array.
4. `ObjectsStoreLateDtor.cfg`, `DestructorsBeforeClassTable`. The comment in `shutdown_executor` says that data is cleaned up before the class tables because
   a destructor called later would fail. An object that survives (created by an output
   callback after the destructor phase and held by an object nothing else refers to) is released in
   `zend_objects_store_free_object_storage`, after the classes are gone, and its destructor is called.
5. `ZendHashDeleter.cfg`, `DeleterResultValid`. "The hash *may* be altered during that time, the returned value will still be valid"
   (`zend_hash.c:569-573`). `zend_hash_apply_deleter` returns `p->pListNext`, read after the destructor; `p` is then off
   the list, so deleting the next element does not update that field, and the loop goes on with a freed bucket.
6. `SessionFilesSwitched.cfg`, `NothingOldIsLeft`. "Truncate file if the amount of new data is smaller than the existing data set" (`mod_files.c:401`).
   `st_size` is that of the file that was read; after `session_id()` another one is written, and what it held beyond the new data stays.
7. `SessionFilesLeaked.cfg`, `LocksNeverLeaked`. A bailout in `__sleep` during `session_write_close` is swallowed by the `zend_try` of `php_session_flush` (`session.c:1410`); one in `__wakeup` leaves
   `php_session_decode` (`session.c:475`) with the status none. Either way the descriptor stays open and locked, the next `session_start` of the request makes a new `ps_files` over it, and the process waits for the lock it has itself.

Seen while modelling:

* Sessions. A process killed between truncating and writing loses the content; `s_destroy` gives the lock up before it unlinks, so a request that waited
  goes on with a file without a name; the garbage collector may unlink a file written after its `stat`.
* End of a request. What an output handler prints is lost when it returns a text, since that replaces its buffer (`output.c:238-251`). If it fills the chunk, `php_end_ob_buffer` is entered again for the same buffer: the handler runs within itself,
  the inner end resets `ob_lock`, and the outer one then writes its text after the inner has written what contains it. After a handler has bailed out `ob_lock` stays set, and a later `ob_start` throws what is buffered away with an error about display handlers.
  A handler that bails out of the flush of the third phase leaves the buffers below unsent, and buffers opened by session handlers after it are lost.
* Memcache pool. A connection refused inside `mmc_pool_slot_send` between two requests of a queue fails a request over that `mmc_server_deactivate` has already failed over.
  `mmc_select_retry` moves one request and leaves the others of the line before it. The failure callback may enter the pool from a time-out
  walk, where `in_select` is 0, and the inner select resets the lists being walked.

## 13. What is not modelled

`PROJECT.json` lists every component with the reason. FastCGI keeps one connection per process and shares nothing; XCache solves APC's problem with other means. Not modelled because a
model would show nothing: the compiler and virtual machine (their specification is the language), the memory manager
(bit tries over addresses), containers without re-entrancy, streams, the SAPI layer, APC's copying of
op_arrays (pure data), lock wrappers (the caches' model assumes what they promise), bindings
to external libraries, Xdebug, other server interfaces. TSRM is not built in this package. The share of `src/` that is mapped is small
for this reason: most of its lines are library code, generated tables and parsers, and bindings.

Within the modelled components: proxies and `__clone`; `zend_hash_merge`, `_compare`, `_minmax`, the nesting limit of `zend_hash_apply`
and failing allocations in the hash table; what sections 6 to 9 name for theirs.

## 14. Plan

| # | Module | Abstract specification, composition | Theorems worth proving |
| --- | --- | --- | --- |
| 1 | `ObjectsStore` | - | done: types, destructors, counts, references, handles, storage |
| 2 | `ZendHash` | `OrderedMap` | done: lists, chains, internal pointer, types, look-up, memory, refinement, copy |
| 3 | `ApcSma` | - | done: types, layout, free list, `avail`, coalescing |
| 4 | `ApcCache` | allocator seen as a set of blocks | done: mutual exclusion, types, counts, chains, ownership of blocks, `gc_ttl` |
| 5 | `SessionFiles` | - | done |
| 6 | `RequestShutdown` | composes phases, output buffers and resources | done |
| 7 | `MemcachePool` | - | done: lines of requests and answers, lists, completion |

The modules are written and the theorems of the plan are proved.
