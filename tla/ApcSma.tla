-------------------------------- MODULE ApcSma --------------------------------
(***************************************************************************)
(* APC's shared memory allocator (apc_sma.c).  A segment is a header, a    *)
(* zero-sized first block, blocks that fill it, and a zero-sized last      *)
(* block.  Free blocks are on a doubly linked list that starts at the      *)
(* first block and ends at the last one; the block after a free one knows  *)
(* its size.  Sizes and offsets are in words; a segment's lock is held     *)
(* for the whole of sma_allocate and sma_deallocate, so each is one step,  *)
(* but it is given up around the call of a cache's expunge_cb.             *)
(***************************************************************************)
EXTENDS Integers, Sequences, FiniteSets, FiniteSetsExt

CONSTANTS
    Procs,          \* processes that share the memory
    NumSeg,         \* sma_numseg
    SegSize,        \* sma_segsize, in words
    HeaderSize,     \* words of sma_header_t
    BlockSize,      \* words of block_t
    Requests        \* sizes asked for, in words

ASSUME SizeAssumption ==
    /\ NumSeg \in Nat \ {0}
    /\ {SegSize, HeaderSize, BlockSize} \subseteq Nat \ {0}
    /\ SegSize > HeaderSize + 3 * BlockSize
    /\ Requests \subseteq Nat \ {0}

VARIABLES
    seg,            \* the segments: avail and the blocks' fields by offset
    sma_lastseg,    \* each process's MRU segment
    call,           \* where each process is in apc_sma_malloc_ex
    given           \* history: blocks handed out: <<segment, offset>> -> size

vars == <<seg, sma_lastseg, call, given>>

Segs == 1 .. NumSeg

Offsets == 0 .. SegSize - 1

MINBLOCKSIZE == 1 + BlockSize

FirstBlock == HeaderSize

LastBlock == SegSize - 2 * BlockSize

-----------------------------------------------------------------------------
(* One segment. *)

\* Free blocks in list order, the last block included.
FreeList(g) ==
    LET at[i \in 0 .. SegSize] == IF i = 0 THEN FirstBlock ELSE g.fnext[at[i - 1]]
    IN  [i \in {j \in 1 .. SegSize : at[j] # 0} |-> at[i]]

\* NEXT_SBLOCK
NextSBlock(g, o) == o + g.size[o]

RealSize(n) == n + BlockSize

\* The blocks sma_allocate would take, by place in the list.
Fits(g, n) ==
    LET list == FreeList(g) IN {i \in DOMAIN list : g.size[list[i]] >= RealSize(n)}

\* The block found: the first that is large enough, 0 if there is none.
Found(g, n) ==
    LET fits == Fits(g, n) IN
    IF g.avail < RealSize(n) \/ fits = {} THEN 0 ELSE FreeList(g)[Min(fits)]

\* The rest of cur would be too small for a block.
TooSmallToSplit(g, cur, n, fragment) ==
    g.size[cur] < RealSize(n) + MINBLOCKSIZE + fragment

\* cur leaves the free list whole.
UnlinkBlock(g, cur) ==
    [g EXCEPT !.fnext[g.fprev[cur]] = g.fnext[cur],
              !.fprev[g.fnext[cur]] = g.fprev[cur]]

\* Faulty: the block after the rest does not learn its size.
Split_NoPrevSize(g, cur, n) ==
    LET nxt == cur + RealSize(n)
        u   == [g EXCEPT !.size[cur] = RealSize(n),
                         !.size[nxt] = g.size[cur] - RealSize(n),
                         !.prev_size[nxt] = 0,
                         !.fnext[nxt] = g.fnext[cur],
                         !.fprev[nxt] = g.fprev[cur]]
    IN  [u EXCEPT !.fprev[g.fnext[cur]] = nxt,
                  !.fnext[g.fprev[cur]] = nxt]

\* cur is cut to size; the rest takes its place in the free list.
Split(g, cur, n) ==
    LET nxt == cur + RealSize(n)
        u   == [g EXCEPT !.size[cur] = RealSize(n),
                         !.size[nxt] = g.size[cur] - RealSize(n),
                         !.prev_size[nxt] = 0,
                         !.fnext[nxt] = g.fnext[cur],
                         !.fprev[nxt] = g.fprev[cur]]
        v   == [u EXCEPT !.prev_size[NextSBlock(u, nxt)] = u.size[nxt]]
    IN  [v EXCEPT !.fprev[g.fnext[cur]] = nxt,
                  !.fnext[g.fprev[cur]] = nxt]

\* Faulty: what was asked for is taken off avail, not what was given.
sma_allocate_CountsRequest(g, cur, n, fragment) ==
    LET u == IF TooSmallToSplit(g, cur, n, fragment)
             THEN LET w == UnlinkBlock(g, cur)
                  IN  [w EXCEPT !.prev_size[NextSBlock(g, cur)] = 0]
             ELSE Split(g, cur, n)
    IN  [u EXCEPT !.fnext[cur] = 0, !.avail = @ - RealSize(n)]

\* The segment after cur was found for a request of n words.
sma_allocate(g, cur, n, fragment) ==
    LET u == IF TooSmallToSplit(g, cur, n, fragment)
             THEN LET w == UnlinkBlock(g, cur)
                  IN  [w EXCEPT !.prev_size[NextSBlock(g, cur)] = 0]
             ELSE Split(g, cur, n)
    IN  [u EXCEPT !.fnext[cur] = 0, !.avail = @ - u.size[cur]]

\* A header inside a larger block is free or user memory: no code reads its
\* fields before it writes them, and what it holds is not modelled.
Absorbed(g, o) ==
    [g EXCEPT !.size[o] = 0, !.prev_size[o] = 0, !.fnext[o] = 0, !.fprev[o] = 0]

\* Faulty: the free block before cur stays on the list.
CoalescePrev_StaysListed(g, cur) ==
    IF g.prev_size[cur] = 0 THEN g
    ELSE [g EXCEPT !.size[cur - g.prev_size[cur]] = @ + g.size[cur]]

\* A free block before cur takes cur in, off the list.
CoalescePrev(g, cur) ==
    IF g.prev_size[cur] = 0 THEN g
    ELSE LET prv == cur - g.prev_size[cur]
         IN  [Absorbed(UnlinkBlock(g, prv), cur)
                 EXCEPT !.size[prv] = @ + g.size[cur]]

\* A free block after cur is taken in.
CoalesceNext(g, cur) ==
    LET nxt == NextSBlock(g, cur)
    IN  IF g.fnext[nxt] = 0 THEN g
        ELSE [Absorbed(UnlinkBlock(g, nxt), nxt)
                 EXCEPT !.size[cur] = @ + g.size[nxt]]

sma_deallocate(g, offset) ==
    LET cur == IF g.prev_size[offset] = 0 THEN offset
               ELSE offset - g.prev_size[offset]
        u   == CoalesceNext(
                   CoalescePrev([g EXCEPT !.avail = @ + g.size[offset]], offset),
                   cur)
        v   == [u EXCEPT !.prev_size[NextSBlock(u, cur)] = u.size[cur],
                         !.fnext[cur] = u.fnext[FirstBlock],
                         !.fnext[FirstBlock] = cur,
                         !.fprev[cur] = FirstBlock]
    IN  [v EXCEPT !.fprev[v.fnext[cur]] = cur]

\* A segment as apc_sma_init leaves it.
NewSegment ==
    LET avail == SegSize - HeaderSize - 2 * BlockSize
        empty == FirstBlock + BlockSize
        last  == empty + avail - BlockSize
        At(o, a, b, c) == CASE o = FirstBlock -> a
                            [] o = empty      -> b
                            [] o = last       -> c
                            [] OTHER          -> 0
    IN  [avail     |-> avail,
         size      |-> [o \in Offsets |-> At(o, 0, avail - BlockSize, 0)],
         prev_size |-> [o \in Offsets |-> At(o, 0, 0, avail - BlockSize)],
         fnext     |-> [o \in Offsets |-> At(o, empty, last, 0)],
         fprev     |-> [o \in Offsets |-> At(o, 0, FirstBlock, empty)]]

-----------------------------------------------------------------------------
(* apc_sma_malloc_ex and apc_sma_free. *)

Idle == [at |-> "idle", n |-> 0, i |-> 0, cache |-> FALSE, nuked |-> FALSE]

Init ==
    /\ seg = [s \in Segs |-> NewSegment]
    /\ sma_lastseg = [p \in Procs |-> 1]
    /\ call = [p \in Procs |-> Idle]
    /\ given = <<>>

Give(s, off, n) ==
    given' = [b \in DOMAIN given \cup {<<s, off>>} |->
                 IF b = <<s, off>> THEN n ELSE given[b]]

\* Process p calls; `cache' says that APCG(current_cache) is set.
apc_sma_malloc(p, n, cache) ==
    /\ call[p].at = "idle"
    /\ call' = [call EXCEPT ![p] = [at |-> "try", n |-> n, i |-> 0,
                                    cache |-> cache, nuked |-> FALSE]]
    /\ UNCHANGED <<seg, sma_lastseg, given>>

\* The segment p tries: first the one used last, then all others in turn.
Tried(p) == IF call[p].i = 0 THEN sma_lastseg[p] ELSE call[p].i

\* The next segment after the i-th, NumSeg + 1 if none is left.
NextSeg(p) ==
    LET later == {s \in Segs : s > call[p].i /\ s # sma_lastseg[p]}
    IN  IF later = {} THEN NumSeg + 1 ELSE Min(later)

\* There is room: the block is taken, and its segment remembered.
Allocated(p) ==
    LET s   == Tried(p)
        n   == call[p].n
        cur == Found(seg[s], n)
    IN  /\ call[p].at \in {"try", "retry"}
        /\ cur # 0
        /\ seg' = [seg EXCEPT ![s] = sma_allocate(@, cur, n, MINBLOCKSIZE)]
        /\ Give(s, cur, n)
        /\ sma_lastseg' = [sma_lastseg EXCEPT ![p] = s]
        /\ call' = [call EXCEPT ![p] = Idle]

\* There is none, and a current cache to expunge: the lock is given up.
GoExpunge(p) ==
    /\ call[p].at = "try"
    /\ Found(seg[Tried(p)], call[p].n) = 0
    /\ call[p].cache
    /\ call' = [call EXCEPT ![p].at = "expunge"]
    /\ UNCHANGED <<seg, sma_lastseg, given>>

\* The next segment, or, after the last one, the expunge of both caches.
GoOn(p) ==
    /\ \/ call[p].at = "retry"
       \/ call[p].at = "try" /\ ~call[p].cache
    /\ Found(seg[Tried(p)], call[p].n) = 0
    /\ call' = [call EXCEPT ![p] = [@ EXCEPT !.at = IF NextSeg(p) \in Segs THEN "try"
                                                     ELSE IF call[p].nuked THEN "fail"
                                                     ELSE "nuke",
                                             !.i = IF NextSeg(p) \in Segs THEN NextSeg(p)
                                                   ELSE 0]]
    /\ UNCHANGED <<seg, sma_lastseg, given>>

\* An expunge_cb frees entries of the cache.
ExpungeFrees(p, b) ==
    /\ call[p].at \in {"expunge", "nuke"}
    /\ b \in DOMAIN given
    /\ seg' = [seg EXCEPT ![b[1]] = sma_deallocate(@, b[2])]
    /\ given' = [c \in DOMAIN given \ {b} |-> given[c]]
    /\ UNCHANGED <<sma_lastseg, call>>

\* Faulty: a second failure nukes the caches again.
Expunged_Again(p) ==
    /\ call[p].at \in {"expunge", "nuke"}
    /\ call' = [call EXCEPT
                   ![p].at = IF call[p].at = "expunge" THEN "retry" ELSE "try"]
    /\ UNCHANGED <<seg, sma_lastseg, given>>

\* It returns: the same segment again, or a restart.
Expunged(p) ==
    /\ call[p].at \in {"expunge", "nuke"}
    /\ call' = [call EXCEPT
                   ![p] = [@ EXCEPT !.at = IF call[p].at = "expunge" THEN "retry" ELSE "try",
                                    !.nuked = call[p].nuked \/ call[p].at = "nuke"]]
    /\ UNCHANGED <<seg, sma_lastseg, given>>

\* "now, I've truly and well given up"
ReturnNull(p) ==
    /\ call[p].at = "fail"
    /\ call' = [call EXCEPT ![p] = Idle]
    /\ UNCHANGED <<seg, sma_lastseg, given>>

\* Any process frees any block: they are shared.
apc_sma_free(p, b) ==
    /\ call[p].at = "idle"
    /\ b \in DOMAIN given
    /\ seg' = [seg EXCEPT ![b[1]] = sma_deallocate(@, b[2])]
    /\ given' = [c \in DOMAIN given \ {b} |-> given[c]]
    /\ UNCHANGED <<sma_lastseg, call>>

EngineStep(p) ==
    Allocated(p) \/ GoExpunge(p) \/ GoOn(p) \/ Expunged(p) \/ ReturnNull(p)

Next ==
    \E p \in Procs :
        \/ \E n \in Requests, cache \in BOOLEAN : apc_sma_malloc(p, n, cache)
        \/ Allocated(p)
        \/ GoExpunge(p)
        \/ GoOn(p)
        \/ Expunged(p)
        \/ ReturnNull(p)
        \/ \E b \in DOMAIN given : ExpungeFrees(p, b) \/ apc_sma_free(p, b)

Spec == Init /\ [][Next]_vars

\* A process in the allocator is scheduled, and an expunge_cb returns.
LiveSpec == Spec /\ \A p \in Procs : WF_vars(EngineStep(p))

-----------------------------------------------------------------------------
(* Properties. *)

\* The block after o; a broken one has none.
BlockAfter(g, o) == IF NextSBlock(g, o) \in Offsets THEN NextSBlock(g, o) ELSE o

\* The blocks, reached from the one after the first, each from the one before.
Blocks(g) ==
    LET at[i \in 0 .. SegSize] ==
            IF i = 0 THEN FirstBlock + BlockSize ELSE BlockAfter(g, at[i - 1])
    IN  {at[i] : i \in 0 .. SegSize}

Elements(s) == {s[i] : i \in DOMAIN s}

FreeBlocks(g) == Elements(FreeList(g)) \ {LastBlock}

Segment == [avail : 0 .. SegSize, size : [Offsets -> 0 .. SegSize],
            prev_size : [Offsets -> 0 .. SegSize],
            fnext : [Offsets -> Offsets], fprev : [Offsets -> Offsets]]

Call == [at : {"idle", "try", "retry", "expunge", "nuke", "fail"}, n : Nat,
         i : {0} \cup Segs, cache : BOOLEAN, nuked : BOOLEAN]

\* Segments have a header and the four fields of a block at every offset.
TypeOK ==
    /\ seg \in [Segs -> Segment]
    /\ sma_lastseg \in [Procs -> Segs]
    /\ call \in [Procs -> Call]
    /\ DOMAIN given \subseteq Segs \X Offsets

\* Each block ends where the next begins, the last one is reached, and every
\* other one is either on the free list or given out, with room for what was asked.
BlocksExact ==
    \A s \in Segs :
        LET g      == seg[s]
            free   == FreeBlocks(g)
            used   == {b[2] : b \in {c \in DOMAIN given : c[1] = s}}
            blocks == Blocks(g)
        IN  /\ LastBlock \in blocks
            /\ free \cap used = {}
            /\ blocks = {LastBlock} \cup free \cup used
            /\ \A b \in DOMAIN given :
                  b[1] = s => g.size[b[2]] >= RealSize(given[b])

\* The free list reads the same backwards, ends at the last block and visits
\* no block twice.
FreeListExact ==
    \A s \in Segs :
        LET g    == seg[s]
            list == FreeList(g)
        IN  /\ list # <<>> /\ list[Len(list)] = LastBlock
            /\ \A i \in DOMAIN list :
                  g.fprev[list[i]] = IF i = 1 THEN FirstBlock ELSE list[i - 1]
            /\ Cardinality(Elements(list)) = Len(list)

\* The words of a set of blocks.
Words(size, blocks) == UNION {o .. o + size[o] - 1 : o \in blocks}

FreeWords(g) == Cardinality(Words(g.size, FreeBlocks(g)))

\* avail follows the free list through every allocation and coalescing: it
\* exceeds what is free by the words apc_sma_init leaves after the last block.
AvailCounts == \A s \in Segs : seg[s].avail = FreeWords(seg[s]) + BlockSize

\* A segment survives every order of allocations and releases, splitting and
\* coalescing: its blocks fill it, none is lost, free twice or both free and in
\* use, the free list holds together and avail counts it.
SegmentExact == BlocksExact /\ FreeListExact /\ AvailCounts

\* A block knows the size of the one before it exactly while that is free, and
\* no two free blocks are neighbours (TECHNOTES.txt: "you never have 2 free
\* blocks next to each other").
Coalesced ==
    \A s \in Segs :
        LET g    == seg[s]
            free == FreeBlocks(g)
        IN  \A o \in Blocks(g) \ {LastBlock} :
                /\ g.prev_size[NextSBlock(g, o)] = IF o \in free THEN g.size[o] ELSE 0
                /\ ~({o, NextSBlock(g, o)} \subseteq free)

\* A call of apc_sma_malloc comes to an end, whatever other processes
\* allocate and free meanwhile.
MallocReturns == \A p \in Procs : []<>(call[p].at = "idle")
=============================================================================
