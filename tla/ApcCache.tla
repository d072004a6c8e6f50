------------------------------- MODULE ApcCache -------------------------------
(***************************************************************************)
(* The caches of APC (apc_cache.c), as the processes of a server use them: *)
(* my_compile_file finds, or compiles and inserts, a script in the file    *)
(* cache and keeps a reference until the request ends; apc_store, apc_add, *)
(* apc_fetch, apc_delete and apc_clear_cache use the user cache.  Both are *)
(* in one shared memory, and an allocation that finds it full expunges     *)
(* them.                                                                   *)
(*                                                                         *)
(* Keys of one cache all hash into one of its slots: a cache is a chain.   *)
(* An entry, its pool and its slot_t are one block of the memory; a slot_t *)
(* that did not fit takes another.  What is done under a cache's lock is   *)
(* one step, up to an allocation: that may wait for the other cache's lock.*)
(* apc_time() is read as time(), as with apc.use_request_time off.         *)
(***************************************************************************)
EXTENDS Integers, Sequences, FiniteSets, SequencesExt, FiniteSetsExt

CONSTANTS
    Procs,          \* processes of the server
    Blocks,         \* blocks of shared memory
    FileKeys,       \* scripts
    UserKeys,       \* names of user entries
    Mtimes,         \* modification times a script is seen with
    UserTtls,       \* ttl's given to apc_store; 0 is none
    CacheTtl,       \* each cache's ttl: apc.ttl, apc.user_ttl; 0 wipes a full cache
    GcTtl,          \* apc.gc_ttl
    MaxTime,        \* bound on the clock
    MaxStack,       \* bound on the cached scripts of one request
    MaxLeaks,       \* bound on the requests that die while they fetch
    MaxCalls,       \* bound on the calls all processes make together
    NULL

ASSUME CacheAssumption ==
    /\ {GcTtl, MaxTime, MaxStack, MaxLeaks, MaxCalls} \subseteq Nat
    /\ UserTtls \subseteq Nat /\ CacheTtl \in [{"file", "user"} -> Nat]
    /\ FileKeys \cap UserKeys = {}
    /\ IsFiniteSet(Procs) /\ IsFiniteSet(Blocks)
    /\ NULL \notin Procs \cup Blocks \cup FileKeys \cup UserKeys

VARIABLES
    shm,            \* the shared memory: blocks in use, slots, both caches
    lock,           \* who holds each cache's lock
    wrlock,         \* who may insert into the file cache (apc.write_lock)
    now,            \* apc_time
    cache_stack,    \* scripts each process executes from the file cache
    pc,             \* where each process is
    calls,          \* calls made so far
    leaked,         \* history: references of requests that died
    damage          \* history: "gc" or "slot" once freed memory was relied on

vars == <<shm, lock, wrlock, now, cache_stack, pc, calls, leaked, damage>>

Caches == {"file", "user"}

Keys(c) == IF c = "file" THEN FileKeys ELSE UserKeys

\* The members of s that are in S, in order.
Only(s, S) ==
    LET only[i \in 0 .. Len(s)] ==
            IF i = 0 THEN <<>>
            ELSE IF s[i] \in S THEN Append(only[i - 1], s[i]) ELSE only[i - 1]
    IN  only[Len(s)]

\* Where s has b.
IndexOf(s, b) == CHOOSE i \in DOMAIN s : s[i] = b

-----------------------------------------------------------------------------
(* The shared memory.  Operators take it and return it changed. *)

BlankSlot == [key |-> NULL, mtime |-> 0, ttl |-> 0, ref_count |-> 0,
              creation_time |-> 0, access_time |-> 0, deletion_time |-> 0,
              block |-> NULL]

\* What block b holds for its pool: itself, and the one of its slot_t if any.
PoolOf(m, b) == {b} \cup ({m.slot[b].block} \ {NULL})

\* apc_pool_destroy
Freed(m, b) == [m EXCEPT !.used = @ \ PoolOf(m, b), !.slot[b] = BlankSlot]

\* remove_slot: out of the chain, and freed or, in use, on the deleted list.
Removed(m, c, b, t) ==
    LET u == [m EXCEPT !.cache[c] = [@ EXCEPT !.chain = Only(m.cache[c].chain, Blocks \ {b}),
                                              !.num_entries = m.cache[c].num_entries - 1]]
    IN  IF m.slot[b].ref_count <= 0 THEN Freed(u, b)
        ELSE [u EXCEPT !.cache[c].deleted_list = <<b>> \o @,
                       !.slot[b].deletion_time = t]

\* The blocks of sequence s, removed in turn.
RemovedAll(m, c, s, t) ==
    LET after[i \in 0 .. Len(s)] ==
            IF i = 0 THEN m ELSE Removed(after[i - 1], c, s[i], t)
    IN  after[Len(s)]

\* Faulty: the age is compared the wrong way.
Collectable_Young(m, b) ==
    \/ m.slot[b].ref_count <= 0
    \/ GcTtl > 0 /\ now - m.slot[b].deletion_time >= GcTtl

\* Entry b is on the deleted list for too long, or no longer used.
Collectable(m, b) ==
    \/ m.slot[b].ref_count <= 0
    \/ GcTtl > 0 /\ now - m.slot[b].deletion_time > GcTtl

\* Faulty: the entry stays on the list.
Unlinked_StaysListed(m, c, b) == Freed(m, b)

\* Off the deleted list, and freed.
Unlinked(m, c, b) ==
    Freed([m EXCEPT !.cache[c].deleted_list = Only(@, Blocks \ {b})], b)

\* process_pending_removals
Collected(m, c) ==
    LET dead == Only(m.cache[c].deleted_list, {b \in Blocks : Collectable(m, b)})
        after[i \in 0 .. Len(dead)] ==
            IF i = 0 THEN m ELSE Unlinked(after[i - 1], c, dead[i])
    IN  after[Len(dead)]

\* Past its own ttl (user cache only).
Expired(m, b, t) ==
    /\ m.slot[b].ttl > 0
    /\ m.slot[b].creation_time + m.slot[b].ttl < t

\* Not used for the cache's ttl.
Idle(m, c, b, t) == CacheTtl[c] > 0 /\ m.slot[b].access_time < t - CacheTtl[c]

\* What apc_cache_expunge removes of a cache with a ttl.
Stale(m, c, b, t) ==
    IF c = "file" THEN Idle(m, c, b, t)
    ELSE IF m.slot[b].ttl > 0 THEN Expired(m, b, t)
    ELSE m.slot[b].creation_time + CacheTtl[c] < t

\* The sweep of apc_cache_expunge: stale entries, or, if the cache has no ttl
\* or nothing became free, all of them.
Expunged(m, c) ==
    LET chain == m.cache[c].chain
        u == IF CacheTtl[c] = 0 THEN m
             ELSE RemovedAll(m, c, Only(chain, {b \in Blocks : Stale(m, c, b, now)}), now)
        v == IF CacheTtl[c] = 0 \/ u.used = Blocks
             THEN RemovedAll(u, c, u.cache[c].chain, now) ELSE u
    IN  [v EXCEPT !.cache[c] = [@ EXCEPT !.lastkey = NULL, !.busy = FALSE]]

\* More than half of the memory is available.
HalfFree(m) == 2 * Cardinality(Blocks \ m.used) > Cardinality(Blocks)

-----------------------------------------------------------------------------
(* Processes. *)

AtRest == [at |-> "idle", c |-> NULL, key |-> NULL, mtime |-> 0, ttl |-> 0,
           t |-> 0, e |-> NULL, prev |-> NULL,
           next |-> NULL, i |-> 0, sweep |-> FALSE]

Init ==
    /\ shm = [used  |-> {},
              slot  |-> [b \in Blocks |-> BlankSlot],
              cache |-> [c \in Caches |->
                            [chain |-> <<>>, deleted_list |-> <<>>,
                             num_entries |-> 0, busy |-> FALSE, lastkey |-> NULL]]]
    /\ lock = [c \in Caches |-> NULL]
    /\ wrlock = NULL
    /\ now = 0
    /\ cache_stack = [p \in Procs |-> <<>>]
    /\ pc = [p \in Procs |-> AtRest]
    /\ calls = 0
    /\ leaked = [b \in Blocks |-> 0]
    /\ damage = "none"

\* Process p waits for cache c's lock no longer; it may hold it already.
SafeLock(p, c) == lock[c] \in {NULL, p}

\* The references processes hold to block b, each a process and a place on its
\* cache_stack, or 0 for the entry it copies.
References(b) ==
    {r \in Procs \X (0 .. MaxStack) :
        IF r[2] = 0 THEN pc[r[1]].at = "copy" /\ pc[r[1]].e = b
        ELSE r[2] \in DOMAIN cache_stack[r[1]] /\ cache_stack[r[1]][r[2]] = b}

\* Process p, which is not in APC, calls one of its functions.
Calls(p) ==
    /\ pc[p].at = "idle"
    /\ calls < MaxCalls
    /\ calls' = calls + 1

\* The memory becomes m.  A freed block no longer has references to lose; if a
\* process still has one, it reads freed memory from now on.
Becomes(m) ==
    /\ shm' = m
    /\ leaked' = [b \in Blocks |-> IF b \in m.used THEN leaked[b] ELSE 0]
    /\ damage' = IF \E b \in shm.used \ m.used : References(b) # {}
                 THEN "gc" ELSE damage

\* Position of key k in cache c's chain, 0 if there is none.
Position(m, c, k) ==
    LET at == {i \in DOMAIN m.cache[c].chain : m.slot[m.cache[c].chain[i]].key = k}
    IN  IF at = {} THEN 0 ELSE Min(at)

\* Faulty: the reference is not counted.
Referenced_Uncounted(m, b) == [m EXCEPT !.slot[b].access_time = now]

\* An entry is found: counted as used, and returned.
Referenced(m, b) ==
    [m EXCEPT !.slot[b] = [@ EXCEPT !.ref_count = m.slot[b].ref_count + 1, !.access_time = now]]

-----------------------------------------------------------------------------
(* Allocation: apc_sma_malloc_ex, seen from the caches. *)

\* What it does in turn, `cur' being APCG(current_cache): tries the memory and
\* expunges caches; after the last try it gives up.
MallocScript(cur) == <<"try", cur, "try", "file", "user", "try", cur, "try">>

InMalloc(p) == pc[p].at \in {"pool", "slot"}

Does(p) == MallocScript(pc[p].c)[pc[p].i]

GaveUp(p) == InMalloc(p) /\ pc[p].i > Len(MallocScript(pc[p].c))

\* No block is free: the next thing is tried.
TryFails(p) ==
    /\ InMalloc(p) /\ ~GaveUp(p)
    /\ Does(p) = "try" /\ shm.used = Blocks
    /\ pc' = [pc EXCEPT ![p].i = @ + 1]
    /\ UNCHANGED <<calls, shm, lock, wrlock, now, cache_stack, leaked, damage>>

\* apc_cache_expunge takes the lock, unless this process has it, and collects
\* the deleted list; that may be enough.
ExpungeBegins(p) ==
    /\ InMalloc(p) /\ ~GaveUp(p) /\ ~pc[p].sweep
    /\ LET c == Does(p)
           m == Collected(shm, c)
       IN  /\ c \in Caches
           /\ SafeLock(p, c)
           /\ IF HalfFree(m)
              THEN /\ Becomes(m)
                   /\ pc' = [pc EXCEPT ![p].i = @ + 1]
                   /\ UNCHANGED lock
              ELSE /\ Becomes([m EXCEPT !.cache[c].busy = TRUE])
                   /\ pc' = [pc EXCEPT ![p].sweep = TRUE]
                   /\ lock' = [lock EXCEPT ![c] = p]
    /\ UNCHANGED <<calls, wrlock, now, cache_stack>>

\* Faulty: the lock is released, though the insertion needs it.
ExpungeSweeps_Unlocks(p) ==
    /\ pc[p].sweep
    /\ LET c == Does(p)
       IN  /\ Becomes(Expunged(shm, c))
           /\ lock' = [lock EXCEPT ![c] = NULL]
    /\ pc' = [pc EXCEPT ![p] = [@ EXCEPT !.i = pc[p].i + 1, !.sweep = FALSE]]
    /\ UNCHANGED <<calls, wrlock, now, cache_stack>>

\* It sweeps the cache; a lock it found taken by its own process stays taken.
ExpungeSweeps(p) ==
    /\ pc[p].sweep
    /\ LET c == Does(p)
       IN  /\ Becomes(Expunged(shm, c))
           /\ lock' = [lock EXCEPT ![c] =
                          IF pc[p].at = "slot" /\ c = pc[p].c THEN p ELSE NULL]
    /\ pc' = [pc EXCEPT ![p] = [@ EXCEPT !.i = pc[p].i + 1, !.sweep = FALSE]]
    /\ UNCHANGED <<calls, wrlock, now, cache_stack>>

-----------------------------------------------------------------------------
(* Inserting. *)

\* apc_store or apc_add is called.
StoreBegins(p, k, entry_ttl) ==
    /\ Calls(p)
    /\ pc' = [pc EXCEPT ![p] =
                 [AtRest EXCEPT !.at = "pool", !.c = "user", !.key = k,
                                !.ttl = entry_ttl, !.t = now,
                                !.i = 1]]
    /\ UNCHANGED <<shm, lock, wrlock, now, cache_stack, leaked, damage>>

\* my_compile_file finds script k, modified at mtime, in the cache; an older
\* version is removed.  (While the cache is busy it does not look.)
FileFind(p, k, mtime) ==
    LET i == Position(shm, "file", k)
        b == shm.cache["file"].chain[i]
        hit == i > 0 /\ shm.slot[b].mtime = mtime
    IN  /\ Calls(p)
        /\ Len(cache_stack[p]) < MaxStack
        /\ lock["file"] = NULL
        /\ Becomes(IF i = 0 THEN shm
                   ELSE IF hit THEN Referenced(shm, b)
                   ELSE Removed(shm, "file", b, now))
        /\ cache_stack' = IF hit THEN [cache_stack EXCEPT ![p] = Append(@, b)]
                          ELSE cache_stack
        /\ pc' = IF hit THEN pc
                 ELSE [pc EXCEPT ![p] =
                         [AtRest EXCEPT !.at = "miss", !.c = "file", !.key = k,
                                        !.mtime = mtime, !.t = now]]
        /\ UNCHANGED <<lock, wrlock, now>>

\* It compiles the script, and caches it if no one else caches one.
Compile(p) ==
    /\ pc[p].at = "miss"
    /\ IF wrlock = NULL
       THEN wrlock' = p /\ pc' = [pc EXCEPT ![p] = [@ EXCEPT !.at = "pool", !.i = 1]]
       ELSE UNCHANGED wrlock /\ pc' = [pc EXCEPT ![p] = AtRest]
    /\ UNCHANGED <<calls, shm, lock, now, cache_stack, leaked, damage>>

\* Compiling hits a fatal error: the bailout is caught, wrlock released, and
\* the request ends.
CompileBailsOut(p) ==
    /\ pc[p].at = "pool" /\ pc[p].c = "file" /\ pc[p].i = 1
    /\ wrlock' = NULL
    /\ pc' = [pc EXCEPT ![p] = [AtRest EXCEPT !.at = "deactivate"]]
    /\ UNCHANGED <<calls, shm, lock, now, cache_stack, leaked, damage>>

\* The call returns.
Returns(p) ==
    /\ pc' = [pc EXCEPT ![p] = AtRest]
    /\ wrlock' = IF wrlock = p THEN NULL ELSE wrlock

\* apc_cache_is_last_key: another process stored the key in this second.
IsLastKey(p) ==
    LET last == shm.cache["user"].lastkey
    IN  /\ last # NULL
        /\ last.key = pc[p].key /\ last.mtime = pc[p].t /\ last.pid # p

\* There is memory for the pool; _apc_store gives it back if the key is the
\* last one stored.
PoolCreated(p, b) ==
    /\ pc[p].at = "pool" /\ ~GaveUp(p)
    /\ Does(p) = "try"
    /\ b \in Blocks \ shm.used
    /\ IF pc[p].c = "user" /\ IsLastKey(p)
       THEN UNCHANGED shm /\ Returns(p)
       ELSE /\ shm' = [shm EXCEPT !.used = @ \cup {b}]
            /\ pc' = [pc EXCEPT ![p] = [@ EXCEPT !.e = b, !.i = 0,
                                                 !.at = IF pc[p].c = "user" THEN "checks" ELSE "insert"]]
            /\ UNCHANGED wrlock
    /\ UNCHANGED <<calls, lock, now, cache_stack, leaked, damage>>

\* There is none: nothing is cached.
PoolFails(p) ==
    /\ pc[p].at = "pool" /\ GaveUp(p)
    /\ Returns(p)
    /\ UNCHANGED <<calls, shm, lock, now, cache_stack, leaked, damage>>

\* The unlocked tests of apc_cache_user_insert: a cache being cleared and a
\* key stored in this second are given up.
StoreChecks(p) ==
    /\ pc[p].at = "checks"
    /\ IF IsLastKey(p) \/ shm.cache["user"].busy
       THEN /\ Becomes(Freed(shm, pc[p].e))
            /\ Returns(p)
       ELSE /\ pc' = [pc EXCEPT ![p].at = "insert"]
            /\ UNCHANGED <<shm, wrlock, leaked, damage>>
    /\ UNCHANGED <<calls, lock, now, cache_stack>>

\* Entries the walk along cache c's chain removes on its way to place j: those
\* idle for longer than the cache's ttl or, in the user cache, expired.
Passed(m, c, j, t) ==
    LET chain == m.cache[c].chain
        upto  == IF j = 0 THEN Len(chain) ELSE j - 1
    IN  Only(SubSeq(chain, 1, upto),
             {b \in Blocks : Idle(m, c, b, t) \/ (c = "user" /\ Expired(m, b, t))})

\* The entry found at j stays: it is the same version of the script, or
\* apc_add may not replace it.
Kept(m, r, j, exclusive) ==
    /\ j > 0
    /\ LET b == m.cache[r.c].chain[j]
       IN  IF r.c = "file" THEN m.slot[b].mtime = r.mtime
           ELSE exclusive /\ (m.slot[b].ttl = 0
                                \/ m.slot[b].creation_time + m.slot[b].ttl >= r.t)

\* Faulty: the older entry with the key is not removed.
Walked_KeepsOlder(m, r, exclusive) ==
    RemovedAll(m, r.c, Passed(m, r.c, Position(m, r.c, r.key), r.t), now)

\* The chain after the walk of _apc_cache_insert or apc_cache_user_insert:
\* what it passed and was stale is gone, and what it found unless it is kept.
Walked(m, r, exclusive) ==
    LET j == Position(m, r.c, r.key)
        u == RemovedAll(m, r.c, Passed(m, r.c, j, r.t), now)
    IN  IF j = 0 \/ Kept(m, r, j, exclusive) THEN u
        ELSE Removed(u, r.c, m.cache[r.c].chain[j], now)

\* The walk begins with the deleted list and, in the user cache, lastkey.
Prepared(m, p, r) ==
    LET u == Collected(m, r.c)
    IN  IF r.c = "file" THEN u
        ELSE [u EXCEPT !.cache["user"].lastkey =
                          [key |-> r.key, mtime |-> r.t, pid |-> p]]

\* The elements of chain s before and after the place where the walk stopped:
\* where its key was (s0, at j) or the end.
Rest(s0, s, j) ==
    IF j = 0 THEN <<>> ELSE Only(SubSeq(s0, j + 1, Len(s0)), ToSet(s))

\* make_slot's fields for r's entry.
SlotFor(r, block) ==
    [key |-> r.key, mtime |-> r.mtime, ttl |-> r.ttl, ref_count |-> 0,
     creation_time |-> r.t, access_time |-> r.t, deletion_time |-> 0,
     block |-> block]

\* `*slot = make_slot(..., *slot, ...)': the entry follows prev, whether that
\* is still in the chain or not, and is followed by next.
Linked(m, r, block) ==
    LET chain == m.cache[r.c].chain
        i     == IF r.prev = NULL THEN 0 ELSE IndexOf(chain, r.prev)
        after == IF r.next = NULL THEN <<>>
                 ELSE IF Contains(chain, r.next)
                 THEN SubSeq(chain, IndexOf(chain, r.next), Len(chain))
                 ELSE <<r.next>>
    IN  [m EXCEPT !.slot[r.e] = SlotFor(r, block),
                  !.used = @ \cup ({block} \ {NULL}),
                  !.cache[r.c] = [m.cache[r.c] EXCEPT
                                      !.num_entries = m.cache[r.c].num_entries + 1,
                                      !.chain =
                                          IF r.prev # NULL /\ ~Contains(chain, r.prev) THEN chain
                                          ELSE SubSeq(chain, 1, i) \o <<r.e>> \o after]]

\* prev and next are still in the chain.
PlaceIntact(m, r) ==
    {r.prev, r.next} \ {NULL} \subseteq ToSet(m.cache[r.c].chain)

\* The insertion under the lock, for apc_add `exclusive': the entry is not
\* inserted, or it is, or its slot_t needs memory of its own.
Insert(p, exclusive) ==
    LET r    == pc[p]
        m    == Prepared(shm, p, r)
        j    == Position(m, r.c, r.key)
        u    == Walked(m, r, exclusive)
        rest == Rest(m.cache[r.c].chain, u.cache[r.c].chain, j)
        pre  == SubSeq(u.cache[r.c].chain, 1, Len(u.cache[r.c].chain) - Len(rest))
        s    == [r EXCEPT !.prev = IF pre = <<>> THEN NULL ELSE Last(pre),
                          !.next = IF rest = <<>> THEN NULL ELSE Head(rest)]
    IN  /\ r.at = "insert"
        /\ lock[r.c] = NULL
        /\ \/ /\ Kept(m, r, j, exclusive)
              /\ Becomes(Freed(u, r.e))
              /\ Returns(p)
              /\ UNCHANGED lock
           \/ /\ ~Kept(m, r, j, exclusive)
              /\ Becomes(Linked(u, s, NULL))
              /\ Returns(p)
              /\ UNCHANGED lock
           \/ /\ ~Kept(m, r, j, exclusive)
              /\ Becomes(u)
              /\ pc' = [pc EXCEPT ![p] = [s EXCEPT !.at = "slot", !.i = 1]]
              /\ lock' = [lock EXCEPT ![r.c] = p]
              /\ UNCHANGED wrlock
        /\ UNCHANGED <<calls, now, cache_stack>>

\* The slot_t has its memory; what was expunged meanwhile is not looked at.
SlotAllocated(p, b) ==
    /\ pc[p].at = "slot" /\ ~GaveUp(p)
    /\ Does(p) = "try"
    /\ b \in Blocks \ shm.used
    /\ shm' = Linked(shm, pc[p], b)
    /\ damage' = IF PlaceIntact(shm, pc[p]) THEN damage ELSE "slot"
    /\ lock' = [lock EXCEPT ![pc[p].c] = NULL]
    /\ Returns(p)
    /\ UNCHANGED <<calls, now, cache_stack, leaked>>

\* make_slot fails: `*slot = NULL' ends the chain here.
SlotFails(p) ==
    LET r     == pc[p]
        chain == shm.cache[r.c].chain
        i     == IF r.prev = NULL THEN 0 ELSE IndexOf(chain, r.prev)
        cut   == r.prev = NULL \/ Contains(chain, r.prev)
    IN  /\ r.at = "slot" /\ GaveUp(p)
        /\ shm' = IF cut THEN [Freed(shm, r.e) EXCEPT !.cache[r.c].chain = SubSeq(@, 1, i)]
                  ELSE Freed(shm, r.e)
        /\ damage' = IF cut /\ i = Len(chain) THEN damage ELSE "slot"
        /\ lock' = [lock EXCEPT ![r.c] = NULL]
        /\ Returns(p)
        /\ UNCHANGED <<calls, now, cache_stack, leaked>>

-----------------------------------------------------------------------------
(* Reading, releasing, removing. *)

\* apc_fetch: an expired entry is removed, another one is copied.
UserFind(p, k) ==
    LET i == Position(shm, "user", k)
        b == shm.cache["user"].chain[i]
    IN  /\ Calls(p)
        /\ lock["user"] = NULL
        /\ i > 0
        /\ IF Expired(shm, b, now)
           THEN Becomes(Removed(shm, "user", b, now)) /\ UNCHANGED pc
           ELSE /\ Becomes(Referenced(shm, b))
                /\ pc' = [pc EXCEPT ![p] = [AtRest EXCEPT !.at = "copy", !.e = b]]
        /\ UNCHANGED <<lock, wrlock, now, cache_stack>>

\* apc_cache_release
Released(m, b) == [m EXCEPT !.slot[b].ref_count = @ - 1]

\* The copy is made.
CopyDone(p) ==
    /\ pc[p].at = "copy"
    /\ lock["user"] = NULL
    /\ shm' = Released(shm, pc[p].e)
    /\ pc' = [pc EXCEPT ![p] = AtRest]
    /\ UNCHANGED <<calls, lock, wrlock, now, cache_stack, leaked, damage>>

\* The copy exceeds memory_limit, or time runs out: the reference is lost.
CopyBailsOut(p) ==
    /\ pc[p].at = "copy"
    /\ MapThenSumSet(LAMBDA b : leaked[b], Blocks) < MaxLeaks
    /\ leaked' = [leaked EXCEPT ![pc[p].e] = @ + 1]
    /\ pc' = [pc EXCEPT ![p] = [AtRest EXCEPT !.at = "deactivate"]]
    /\ UNCHANGED <<calls, shm, lock, wrlock, now, cache_stack, damage>>

\* The request ends, and has executed scripts from the cache.
RequestEnds(p) ==
    /\ pc[p].at = "idle" /\ cache_stack[p] # <<>>
    /\ pc' = [pc EXCEPT ![p] = [AtRest EXCEPT !.at = "deactivate"]]
    /\ UNCHANGED <<calls, shm, lock, wrlock, now, cache_stack, leaked, damage>>

\* apc_deactivate releases the scripts, the last one first.
Deactivate(p) ==
    /\ pc[p].at = "deactivate"
    /\ IF cache_stack[p] = <<>>
       THEN /\ pc' = [pc EXCEPT ![p] = AtRest]
            /\ UNCHANGED <<shm, cache_stack>>
       ELSE /\ lock["file"] = NULL
            /\ shm' = Released(shm, Last(cache_stack[p]))
            /\ cache_stack' = [cache_stack EXCEPT ![p] = Front(@)]
            /\ UNCHANGED pc
    /\ UNCHANGED <<calls, lock, wrlock, now, leaked, damage>>

\* apc_cache_delete and apc_cache_user_delete, when they find the key.
Delete(p, c, k) ==
    /\ Calls(p)
    /\ lock[c] = NULL
    /\ Position(shm, c, k) > 0
    /\ Becomes(Removed(shm, c, shm.cache[c].chain[Position(shm, c, k)], now))
    /\ UNCHANGED <<lock, wrlock, now, cache_stack, pc>>

\* apc_cache_clear: the cache is busy while its chain is removed.
ClearBegins(p, c) ==
    /\ Calls(p)
    /\ lock[c] = NULL
    /\ lock' = [lock EXCEPT ![c] = p]
    /\ shm' = [shm EXCEPT !.cache[c].busy = TRUE]
    /\ pc' = [pc EXCEPT ![p] = [AtRest EXCEPT !.at = "clear", !.c = c]]
    /\ UNCHANGED <<wrlock, now, cache_stack, leaked, damage>>

ClearEnds(p) ==
    LET c == pc[p].c
        m == RemovedAll(shm, c, shm.cache[c].chain, now)
    IN  /\ pc[p].at = "clear"
        /\ Becomes([m EXCEPT !.cache[c] = [@ EXCEPT !.lastkey = NULL, !.busy = FALSE]])
        /\ lock' = [lock EXCEPT ![c] = NULL]
        /\ pc' = [pc EXCEPT ![p] = AtRest]
        /\ UNCHANGED <<calls, wrlock, now, cache_stack>>

Tick ==
    /\ now < MaxTime
    /\ now' = now + 1
    /\ UNCHANGED <<calls, shm, lock, wrlock, cache_stack, pc, leaked, damage>>

-----------------------------------------------------------------------------
(* Steps. *)

Step(p) ==
    \/ \E k \in UserKeys, t \in UserTtls : StoreBegins(p, k, t)
    \/ \E k \in FileKeys, mtime \in Mtimes : FileFind(p, k, mtime)
    \/ Compile(p)
    \/ CompileBailsOut(p)
    \/ TryFails(p)
    \/ ExpungeBegins(p)
    \/ ExpungeSweeps(p)
    \/ \E b \in Blocks : PoolCreated(p, b) \/ SlotAllocated(p, b)
    \/ PoolFails(p)
    \/ StoreChecks(p)
    \/ \E exclusive \in BOOLEAN : Insert(p, exclusive)
    \/ SlotFails(p)
    \/ \E k \in UserKeys : UserFind(p, k)
    \/ CopyDone(p)
    \/ CopyBailsOut(p)
    \/ RequestEnds(p)
    \/ Deactivate(p)
    \/ \E c \in Caches : ClearBegins(p, c) \/ \E k \in Keys(c) : Delete(p, c, k)
    \/ ClearEnds(p)

\* After freed memory was relied on anything may happen, and nothing does.
Next == damage = "none" /\ (Tick \/ \E p \in Procs : Step(p))

Spec == Init /\ [][Next]_vars

-----------------------------------------------------------------------------
(* Properties. *)

Listed(c) == ToSet(shm.cache[c].chain) \cup ToSet(shm.cache[c].deleted_list)

\* Memory, slots, locks and processes have the values of their C types.
TypeOK ==
    /\ shm.used \subseteq Blocks
    /\ \A b \in Blocks : /\ shm.slot[b].key \in FileKeys \cup UserKeys \cup {NULL}
                          /\ shm.slot[b].ref_count \in Nat
                          /\ shm.slot[b].block \in Blocks \cup {NULL}
    /\ \A c \in Caches : Listed(c) \subseteq Blocks
    /\ lock \in [Caches -> Procs \cup {NULL}]
    /\ wrlock \in Procs \cup {NULL}
    /\ cache_stack \in [Procs -> Seq(Blocks)]
    /\ damage \in {"none", "gc", "slot"}

\* The reference count of an entry is the number of references that processes
\* hold and have lost: no interleaving of find, release, bailout, removal and
\* the reuse of its memory loses or invents one.
RefCountsExact ==
    damage = "none" =>
        \A c \in Caches : \A b \in Listed(c) :
            shm.slot[b].ref_count =
                Cardinality(References(b)) + leaked[b]

\* A pool of a process, not yet inserted.
Private(p) ==
    IF pc[p].at \in {"checks", "insert", "slot"}
    THEN {pc[p].e} ELSE {}

\* Every block in use belongs to exactly one pool, and every pool to one
\* process or to one place in one chain or deleted list: nothing is leaked,
\* listed twice, or listed and free.
BlocksAccounted ==
    LET owners == [p \in Procs |-> Private(p)]
        places == {x \in Caches \X {"chain", "deleted_list"}
                                \X (1 .. Cardinality(Blocks)) :
                      x[3] \in DOMAIN shm.cache[x[1]][x[2]]}
        Uses(b) ==
            Cardinality({p \in Procs : b \in owners[p]})
            + Cardinality({x \in places : b \in PoolOf(shm, shm.cache[x[1]][x[2]][x[3]])})
    IN  damage = "none" =>
            \A b \in Blocks : Uses(b) = IF b \in shm.used THEN 1 ELSE 0

\* A chain has one entry per key, and its header counts them.
ChainsExact ==
    damage = "none" =>
        \A c \in Caches :
            LET chain == shm.cache[c].chain
            IN  /\ shm.cache[c].num_entries = Len(chain)
                /\ \A i, j \in DOMAIN chain :
                      shm.slot[chain[i]].key = shm.slot[chain[j]].key => i = j
                /\ \A i \in DOMAIN chain : shm.slot[chain[i]].key \in Keys(c)

\* A cache is locked exactly by the process that is inside one of its critical
\* sections, so two are never inside one; the same goes for wrlock.
LocksExact ==
    damage = "none" =>
        /\ \A c \in Caches, p \in Procs :
              lock[c] = p <=>
                  \/ pc[p].at \in {"slot", "clear"} /\ pc[p].c = c
                  \/ pc[p].sweep /\ Does(p) = c
        /\ \A p \in Procs :
              wrlock = p <=>
                  pc[p].c = "file" /\ pc[p].at \in {"pool", "insert", "slot"}

\* While a process executes or copies an entry, its memory is freed only if it
\* was removed from its cache more than gc_ttl seconds ago, whichever cache's
\* insertion or expunge collects it, and whoever removed it.
InUseOutlivesGcTtl ==
    [][\A b \in shm.used \ shm'.used :
          References(b) # {} =>
              \E c \in Caches :
                  /\ Contains(shm.cache[c].deleted_list, b)
                  /\ now - shm.slot[b].deletion_time > GcTtl]_vars

\* apc_cache.h:191-192 says of apc_cache_insert: "Returns non-zero if the file
\* was successfully inserted".
InsertedIsCached ==
    [][\A c \in Caches, p \in Procs :
          shm'.cache[c].num_entries > shm.cache[c].num_entries /\ pc[p] # pc'[p]
          => Contains(shm'.cache[c].chain, pc[p].e)]_vars
=============================================================================
