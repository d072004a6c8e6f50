---------------------------- MODULE MemcachePool ----------------------------
(***************************************************************************)
(* The connection pool of the memcache extension (memcache_pool.c) and the *)
(* calls of memcache.c that use it, over TCP and the text protocol: get of *)
(* one key, store of one or of several.                                    *)
(*                                                                         *)
(* One PHP thread runs many requests at once over non-blocking sockets.  A *)
(* server has a request being sent and one whose answer is read, each with *)
(* a queue behind it; answers come in the order of the requests.  When a   *)
(* server fails, the requests it had are handed to the failover handler,   *)
(* from inside the walk that met the failure, and that connects to others, *)
(* which may fail in turn.  A value that is read may be an object, whose   *)
(* __wakeup method may use the pool while the walk waits.                  *)
(*                                                                         *)
(* `stack' is the C call stack, top first; a frame is a function about to  *)
(* be called, or the rest of one that waits for a callee.  Connections and *)
(* servers are the environment: a connect may fail, a server may close the *)
(* connection, answer with an error, or not at all.                        *)
(***************************************************************************)
EXTENDS Naturals, Sequences, SequencesExt, FiniteSets

CONSTANTS
    Servers,        \* pool->servers
    Persistent,     \* those added as persistent, which outlive the PHP request
    Keys,           \* each stands for the keys that hash alike
    Home,           \* hash->find_server of a key
    Order,          \* hash->find_server of "key-0", "key-1", ...
    MaxAttempts,    \* memcache.max_failover_attempts
    Wakeup,         \* values may have a __wakeup method that uses the pool
    EarlyErrors,    \* a server may refuse a request it has only part of
    MaxRequests,    \* bound: mmc_request_t made in a script
    MaxElapses,     \* bound: retry intervals that pass in a script
    GoesOn,         \* bound: a script calls the pool again when it is astray
    NULL

ASSUME ServersAssumption == IsFiniteSet(Servers) /\ Persistent \subseteq Servers

\* Requests are numbered.
ASSUME NullAssumption == NULL \notin Nat

ASSUME HashAssumption ==
    /\ MaxAttempts \in Nat \ {0}
    /\ Home \in [Keys -> Servers]
    /\ Order \in [Keys -> [1 .. MaxAttempts -> Servers]]

VARIABLES
    mmc,            \* the mmc_t of each server
    asked,          \* requests each server has still to answer on its connection
    pool,           \* the mmc_pool_t
    request,        \* the mmc_request_t, in the order they are made
    mixed,          \* requests that were given the answer of another
    stack,          \* C call stack, top first
    ret,            \* what mmc_pool_schedule has returned
    astray,         \* the pool has met a failure it does not recover from
    elapses         \* bound: retry intervals that have passed in this script

vars == <<mmc, asked, pool, request, mixed, stack, ret, astray, elapses>>

Lists == {1, 2}

Disconnected == [status |-> "disconnected", elapsed |-> FALSE,
                 sendreq |-> NULL, part |-> FALSE, sendqueue |-> <<>>, readreq |-> NULL, readqueue |-> <<>>]

\* mmc_pool_new: two pairs of lists, one being filled, one being walked.
NewPool == [sending |-> [n \in Lists |-> <<>>], reading |-> [n \in Lists |-> <<>>], cur |-> 1,
            in_select |-> FALSE, wfds |-> {}, rfds |-> {}, free |-> {}]

User(where) == [fn |-> "user", where |-> where]

Init ==
    /\ mmc = [s \in Servers |-> Disconnected]
    /\ asked = [s \in Servers |-> <<>>]
    /\ pool = NewPool
    /\ request = <<>>
    /\ mixed = {}
    /\ stack = <<User("script")>>
    /\ ret = "ok"
    /\ astray = FALSE
    /\ elapses = 0

-----------------------------------------------------------------------------
(* The stack, queues, and the server a key belongs to.                     *)

Running(fn) == stack # <<>> /\ Head(stack).fn = fn
Top == Head(stack)

\* The function on top goes on as f; it calls f and goes on as k; it returns.
Goto(f) == stack' = <<f>> \o Tail(stack)
Call(f, k) == stack' = <<f, k>> \o Tail(stack)
Return == stack' = Tail(stack)

\* A NULL slot is followed.
Crash == stack' = <<[fn |-> "crashed"]>>

Unfailed(q) == [q EXCEPT !.failed_servers = <<>>, !.failed_index = 0]

\* Faulty: pushed in front of the others.
mmc_queue_push_Variant(q, x) == IF Contains(q, x) THEN q ELSE <<x>> \o q

mmc_queue_push(q, x) == IF Contains(q, x) THEN q ELSE Append(q, x)

\* Each of the queue is popped, and pushed again unless it is x.
mmc_queue_remove(q, x) ==
    LET kept[i \in 0 .. Len(q)] ==
            IF i = 0 THEN <<>>
            ELSE IF q[i] = x THEN kept[i - 1] ELSE mmc_queue_push(kept[i - 1], q[i])
    IN  kept[Len(q)]

First(q) == IF q = <<>> THEN NULL ELSE Head(q)
Rest(q) == IF q = <<>> THEN <<>> ELSE Tail(q)

\* Requests whose answer is read from s, in that order; those being sent to it.
ReadLine(s) == (IF mmc[s].readreq = NULL THEN <<>> ELSE <<mmc[s].readreq>>) \o mmc[s].readqueue
SendLine(s) == (IF mmc[s].sendreq = NULL THEN <<>> ELSE <<mmc[s].sendreq>>) \o mmc[s].sendqueue

mmc_server_valid(s) == mmc[s].status # "failed" \/ mmc[s].elapsed

\* mmc_pool_find_next: the next server of the sequence that is not in skip, or
\* the last one, and how many have been tried.
mmc_pool_find_next(key, skip, index) ==
    LET fits == {i \in index + 1 .. MaxAttempts : ~Contains(skip, Order[key][i])}
        i == IF fits = {} THEN MaxAttempts ELSE CHOOSE j \in fits : \A n \in fits : j <= n
    IN  [server |-> Order[key][i], index |-> i]

mmc_pool_find(key) ==
    LET valid == {i \in 1 .. MaxAttempts : mmc_server_valid(Order[key][i])}
        i == IF valid = {} THEN MaxAttempts ELSE CHOOSE j \in valid : \A n \in valid : j <= n
    IN  IF mmc_server_valid(Home[key]) THEN Home[key] ELSE Order[key][i]

\* mmc_pool_release.  reset_request clears what a request holds when its place is
\* taken by the next; here it is cleared at once.
mmc_pool_release(p, rs) ==
    /\ pool' = [p EXCEPT !.free = @ \cup rs]
    /\ request' = [r \in DOMAIN request |-> IF r \in rs THEN Unfailed(request[r]) ELSE request[r]]

-----------------------------------------------------------------------------
(* Scheduling, connecting, failing.                                        *)

\* mmc_pool_open: with no request nothing is opened.
Opens(s, r) == IF r = NULL \/ mmc[s].status \in {"connected", "unknown"} THEN {"open"}
               ELSE {"connected", "refused"}

\* The end of mmc_pool_slot_send, over the connection there is or a new one.
Slotted(s, r, how) ==
    [mmc EXCEPT ![s] = [@ EXCEPT !.sendreq = r, !.part = FALSE,
                                 !.status = IF how = "connected" THEN "connected"
                                            ELSE mmc[s].status]]

\* mmc_server_connect deactivates a server that refuses; mmc_pool_slot_send
\* then clears the slot, and the request fails over.
Refused(s, r, k) ==
    stack' = <<[fn |-> "deactivate", s |-> s], [fn |-> "refused", s |-> s, r |-> r]>> \o k

NewConnection(s, how) == asked' = IF how = "connected" THEN [asked EXCEPT ![s] = <<>>] ELSE asked

\* mmc_pool_schedule
Schedule ==
    /\ Running("schedule")
    /\ LET s == Top.s  r == Top.r IN
       IF ~mmc_server_valid(s)
       THEN /\ Goto([fn |-> "failover", s |-> s, r |-> r])
            /\ UNCHANGED <<mmc, asked, pool, ret>>
       ELSE \E how \in IF mmc[s].sendreq = NULL THEN Opens(s, r) ELSE {"queue"} :
              IF how = "refused"
              THEN Refused(s, r, Tail(stack)) /\ UNCHANGED <<mmc, asked, pool, ret>>
              ELSE LET m == IF how = "queue"
                            THEN [mmc EXCEPT ![s].sendqueue = mmc_queue_push(@, r)]
                            ELSE Slotted(s, r, how)
                       reads == m[s].readreq = NULL
                   IN  /\ mmc' = IF reads THEN [m EXCEPT ![s].readreq = r]
                                 ELSE [m EXCEPT ![s].readqueue = mmc_queue_push(@, r)]
                       /\ pool' = [pool EXCEPT
                             !.sending[pool.cur] = IF how = "queue" THEN @ ELSE mmc_queue_push(@, s),
                             !.reading[pool.cur] = IF reads THEN mmc_queue_push(@, s) ELSE @]
                       /\ NewConnection(s, how)
                       /\ ret' = "ok"
                       /\ Return
    /\ UNCHANGED <<request, mixed, astray, elapses>>

\* mmc_pool_slot_send(mmc_queue_pop(&mmc->sendqueue)) with handle_failover.
SlotNext ==
    /\ Running("slot")
    /\ LET s == Top.s  r == First(mmc[s].sendqueue) IN
       \E how \in Opens(s, r) :
         IF how = "refused"
         THEN /\ Refused(s, r, Tail(stack))
              /\ mmc' = [mmc EXCEPT ![s].sendqueue = Rest(@)]
              /\ astray' = TRUE
              /\ UNCHANGED asked
         ELSE /\ mmc' = [Slotted(s, r, how) EXCEPT ![s].sendqueue = Rest(@)]
              /\ NewConnection(s, how)
              /\ Return
              /\ UNCHANGED astray
    /\ UNCHANGED <<pool, request, mixed, ret, elapses>>

\* Faulty: the request of a refused connection is not handed on.
AfterRefusal_Variant ==
    /\ Running("refused")
    /\ mmc' = [mmc EXCEPT ![Top.s].sendreq = NULL]
    /\ Return
    /\ UNCHANGED <<asked, pool, request, mixed, ret, astray, elapses>>

AfterRefusal ==
    /\ Running("refused")
    /\ mmc' = [mmc EXCEPT ![Top.s].sendreq = NULL]
    /\ Goto([fn |-> "failover", s |-> Top.s, r |-> Top.r])
    /\ UNCHANGED <<asked, pool, request, mixed, ret, astray, elapses>>

\* Its loop over failover handlers; the failure callback after it tells the user.
FailOver(s, line) ==
    IF line = <<>> THEN <<>>
    ELSE <<[fn |-> "failover", s |-> s, r |-> Head(line)]>>
         \o (IF Len(line) = 1 THEN <<>> ELSE <<[fn |-> "failovers", s |-> s, line |-> Tail(line)]>>)

\* mmc_server_deactivate: the read line becomes a list of its own, the request in
\* the slot last.
Deactivate ==
    /\ Running("deactivate")
    /\ LET s == Top.s
           line == mmc[s].readqueue \o (IF mmc[s].readreq = NULL THEN <<>> ELSE <<mmc[s].readreq>>)
       IN  /\ mmc' = [mmc EXCEPT ![s] = [Disconnected EXCEPT !.status = "failed"]]
           /\ asked' = [asked EXCEPT ![s] = <<>>]
           /\ pool' = [pool EXCEPT !.sending[pool.cur] = mmc_queue_remove(@, s),
                                   !.reading[pool.cur] = mmc_queue_remove(@, s)]
           /\ stack' = FailOver(s, line) \o Tail(stack)
    /\ UNCHANGED <<request, mixed, ret, astray, elapses>>

Failovers ==
    /\ Running("failovers")
    /\ stack' = FailOver(Top.s, Top.line) \o Tail(stack)
    /\ UNCHANGED <<mmc, asked, pool, request, mixed, ret, astray, elapses>>

\* mmc_pool_failover_handler; its loop comes back to the test it begins with.
Failover ==
    /\ Running("failover")
    /\ LET r == Top.r
           q == request[r]
           failed == mmc_queue_push(q.failed_servers, Top.s)
           next == mmc_pool_find_next(q.key, failed, q.failed_index)
       IN  IF q.failed_index < MaxAttempts /\ Len(q.failed_servers) < Cardinality(Servers)
           THEN /\ request' = [request EXCEPT ![r] = [@ EXCEPT !.failed_servers = failed,
                                                               !.failed_index = next.index]]
                /\ Goto([fn |-> IF /\ ~mmc_server_valid(next.server)
                                   /\ next.index < MaxAttempts
                                   /\ Len(failed) < Cardinality(Servers)
                                THEN "failover" ELSE "schedule", s |-> next.server, r |-> r])
                /\ UNCHANGED <<pool, ret>>
           ELSE /\ mmc_pool_release(pool, {r})
                /\ ret' = "failure"
                /\ Return
    /\ UNCHANGED <<mmc, asked, mixed, astray, elapses>>

\* mmc_server_failure and what its caller does with the result: `failed' when the
\* connection was good, `retried' when it was not.
ServerFailure(s, failed, retried) ==
    IF mmc[s].status \in {"disconnected", "unknown"}
    THEN mmc' = [mmc EXCEPT ![s].status = "disconnected"] /\ retried
    ELSE UNCHANGED mmc /\ failed

\* mmc_select_retry
Retry ==
    /\ Running("retry")
    /\ LET s == Top.s  r == Top.r IN
       /\ astray' = (astray \/ Len(ReadLine(s)) > 1)
       /\ mmc' = [mmc EXCEPT ![s] = [@ EXCEPT !.sendqueue = mmc_queue_remove(mmc[s].sendqueue, r),
                                              !.readqueue = mmc_queue_remove(mmc[s].readqueue, r)]]
       /\ IF mmc[s].sendreq = r
          THEN Call([fn |-> "slot", s |-> s], [Top EXCEPT !.fn = "retry_send"])
          ELSE Goto([Top EXCEPT !.fn = "retry_read"])
    /\ UNCHANGED <<asked, pool, request, mixed, ret, elapses>>

RetrySend ==
    /\ Running("retry_send")
    /\ pool' = IF mmc[Top.s].sendreq # NULL THEN pool
               ELSE [pool EXCEPT !.sending[pool.cur] = mmc_queue_remove(@, Top.s)]
    /\ Goto([Top EXCEPT !.fn = "retry_read"])
    /\ UNCHANGED <<mmc, asked, request, mixed, ret, astray, elapses>>

RetryRead ==
    /\ Running("retry_read")
    /\ LET s == Top.s  slot == mmc[s].readreq = Top.r IN
       /\ mmc' = IF slot THEN [mmc EXCEPT ![s] = [@ EXCEPT !.readreq = First(mmc[s].readqueue),
                                                           !.readqueue = Rest(mmc[s].readqueue)]]
                 ELSE mmc
       /\ pool' = IF slot /\ mmc[s].readqueue = <<>>
                  THEN [pool EXCEPT !.reading[pool.cur] = mmc_queue_remove(@, s)]
                  ELSE pool
    /\ Goto([fn |-> "failover", s |-> Top.s, r |-> Top.r])
    /\ UNCHANGED <<asked, request, mixed, ret, astray, elapses>>

-----------------------------------------------------------------------------
(* mmc_pool_run and mmc_pool_select.                                       *)

Walk(fn, n, i) == [fn |-> fn, n |-> n, i |-> i]

\* The beginning of mmc_pool_select, which k called: help a walk that waits, or
\* switch the lists and select().
mmc_pool_select(k) ==
    LET n == pool.cur  m == 3 - pool.cur IN
    IF pool.in_select
    THEN stack' = <<Walk("sends", m, 1)>> \o k /\ UNCHANGED pool
    ELSE IF \/ \E s \in ToSet(pool.sending[n]) : mmc[s].sendreq = NULL
            \/ \E s \in ToSet(pool.reading[n]) : mmc[s].readreq = NULL
    THEN Crash /\ UNCHANGED pool
    ELSE \E w \in SUBSET ToSet(pool.sending[n]), r \in SUBSET ToSet(pool.reading[n]) :
           /\ pool' = [pool EXCEPT !.cur = m, !.sending[m] = <<>>, !.reading[m] = <<>>,
                                   !.wfds = w, !.rfds = r, !.in_select = w \cup r # {}]
           /\ stack' = <<Walk(IF w \cup r = {} THEN "timeouts" ELSE "sends", n, 1)>> \o k

HasWork == pool.reading[pool.cur] # <<>> \/ pool.sending[pool.cur] # <<>>

Run ==
    /\ Running("run")
    /\ IF HasWork THEN mmc_pool_select(stack) ELSE Return /\ UNCHANGED pool
    /\ UNCHANGED <<mmc, asked, request, mixed, ret, astray, elapses>>

\* The walks after a timeout: what is in either list has timed out and leaves both.
Timeout(list, slot) ==
    LET n == Top.n  s == Head(list)  r == mmc[s][slot] IN
    /\ pool' = [pool EXCEPT !.sending[n] = mmc_queue_remove(@, s),
                            !.reading[n] = mmc_queue_remove(@, s)]
    /\ IF r = NULL THEN Crash /\ UNCHANGED mmc
       ELSE ServerFailure(s, Call([fn |-> "deactivate", s |-> s], Top),
                             Call([fn |-> "retry", s |-> s, r |-> r], Top))
    /\ UNCHANGED <<asked, request, mixed, ret, astray, elapses>>

SendTimeout ==
    /\ Running("timeouts") /\ pool.sending[Top.n] # <<>>
    /\ Timeout(pool.sending[Top.n], "sendreq")

ReadTimeout ==
    /\ Running("timeouts") /\ pool.sending[Top.n] = <<>> /\ pool.reading[Top.n] # <<>>
    /\ Timeout(pool.reading[Top.n], "readreq")

TimeoutsEnd ==
    /\ Running("timeouts") /\ pool.sending[Top.n] = <<>> /\ pool.reading[Top.n] = <<>>
    /\ pool' = [pool EXCEPT !.in_select = TRUE]
    /\ Goto(Walk("sends", Top.n, 1))
    /\ UNCHANGED <<mmc, asked, request, mixed, ret, astray, elapses>>

\* The rest of a walk's body: the next server of the list.
NextOf(fn) == Goto(Walk(fn, Top.n, Top.i + 1))

\* The walk over the servers to send to.
SendWalk ==
    /\ Running("sends") /\ Top.i <= Len(pool.sending[Top.n])
    /\ LET s == pool.sending[Top.n][Top.i] IN
       IF mmc[s].sendreq = NULL THEN NextOf("sends") /\ UNCHANGED pool
       ELSE IF s \in pool.wfds
       THEN /\ pool' = [pool EXCEPT !.wfds = @ \ {s}]
            /\ Goto([fn |-> "send", s |-> s, n |-> Top.n, i |-> Top.i])
       ELSE /\ pool' = [pool EXCEPT !.sending[pool.cur] = mmc_queue_push(@, s)]
            /\ NextOf("sends")
    /\ UNCHANGED <<mmc, asked, request, mixed, ret, astray, elapses>>

\* mmc_request_send sends the whole of a request; the loop goes on with the next.
Sent ==
    /\ Running("send") /\ mmc[Top.s].sendreq # NULL /\ mmc[Top.s].status # "disconnected"
    /\ asked' = [asked EXCEPT ![Top.s] = Append(@, [req |-> mmc[Top.s].sendreq, value |-> FALSE,
                                                kind |-> request[mmc[Top.s].sendreq].kind])]
    /\ Call([fn |-> "slot", s |-> Top.s], Top)
    /\ UNCHANGED <<mmc, pool, request, mixed, ret, astray, elapses>>

\* It sends a part, or nothing.
SendsMore ==
    /\ Running("send") /\ mmc[Top.s].sendreq # NULL
    /\ \E part \in IF EarlyErrors THEN BOOLEAN ELSE {FALSE} :
          mmc' = [mmc EXCEPT ![Top.s].part = @ \/ part]
    /\ pool' = [pool EXCEPT !.sending[pool.cur] = mmc_queue_push(@, Top.s)]
    /\ NextOf("sends")
    /\ UNCHANGED <<asked, request, mixed, ret, astray, elapses>>

\* send() fails.
SendFails ==
    /\ Running("send") /\ mmc[Top.s].sendreq # NULL
    /\ LET s == Top.s IN
       ServerFailure(s, Call([fn |-> "deactivate", s |-> s], [Top EXCEPT !.fn = "send_failed"]),
                        Call([fn |-> "retry", s |-> s, r |-> mmc[s].sendreq],
                             Walk("sends", Top.n, Top.i + 1)))
    /\ UNCHANGED <<asked, pool, request, mixed, ret, astray, elapses>>

SendFailed ==
    /\ Running("send_failed")
    /\ pool' = [pool EXCEPT !.reading[Top.n] = mmc_queue_remove(@, Top.s)]
    /\ NextOf("sends")
    /\ UNCHANGED <<mmc, asked, request, mixed, ret, astray, elapses>>

SendEnds ==
    /\ Running("send") /\ mmc[Top.s].sendreq = NULL
    /\ NextOf("sends")
    /\ UNCHANGED <<mmc, asked, pool, request, mixed, ret, astray, elapses>>

\* The walk over the servers to read from, which follows it: its place in the list.
AtRead == IF Running("reads") THEN Top.i
          ELSE IF Running("sends") /\ Top.i > Len(pool.sending[Top.n]) THEN 1 ELSE 0

ReadWalk ==
    /\ AtRead # 0 /\ AtRead <= Len(pool.reading[Top.n])
    /\ LET s == pool.reading[Top.n][AtRead]
           next == Goto(Walk("reads", Top.n, AtRead + 1))
       IN  IF mmc[s].readreq = NULL THEN next /\ UNCHANGED pool
           ELSE IF s \in pool.rfds
           THEN /\ pool' = [pool EXCEPT !.rfds = @ \ {s}]
                /\ Goto([fn |-> "read", s |-> s, n |-> Top.n, i |-> AtRead])
           ELSE /\ pool' = [pool EXCEPT !.reading[pool.cur] = mmc_queue_push(@, s)]
                /\ next
    /\ UNCHANGED <<mmc, asked, request, mixed, ret, astray, elapses>>

ReadWalkEnds ==
    /\ AtRead # 0 /\ AtRead > Len(pool.reading[Top.n])
    /\ pool' = [pool EXCEPT !.in_select = FALSE]
    /\ Return
    /\ UNCHANGED <<mmc, asked, request, mixed, ret, astray, elapses>>

Reading == Running("read") /\ mmc[Top.s].readreq # NULL

Given(s, r) == mixed' = mixed \cup (IF Head(asked[s]).req = r THEN {} ELSE {r})

\* mmc_request_parse_response and mmc_request_parse_value: the last line of an
\* answer.  The request is released and the next one is read.
ReadDone ==
    /\ Reading /\ mmc[Top.s].sendreq # mmc[Top.s].readreq
    /\ LET s == Top.s  r == mmc[s].readreq IN
       /\ asked[s] # <<>> /\ Head(asked[s]).kind = request[r].kind
       /\ asked' = [asked EXCEPT ![s] = Tail(@)]
       /\ Given(s, r)
       /\ mmc_pool_release(pool, {r})
       /\ mmc' = [mmc EXCEPT ![s] = [@ EXCEPT !.readreq = First(mmc[s].readqueue), !.readqueue = Rest(mmc[s].readqueue)]]
    /\ UNCHANGED <<stack, ret, astray, elapses>>

\* An error for a request that is still being sent: "object too large".
ReadEarly ==
    /\ Reading /\ mmc[Top.s].sendreq = mmc[Top.s].readreq /\ mmc[Top.s].part /\ asked[Top.s] = <<>>
    /\ LET s == Top.s IN
       /\ mmc' = [mmc EXCEPT ![s].status = "disconnected"]
       /\ Call([fn |-> "slot", s |-> s], [Top EXCEPT !.fn = "read_early"])
    /\ UNCHANGED <<asked, pool, request, mixed, ret, astray, elapses>>

\* Faulty: the server stays in the list of those to send to.
AfterEarly_Variant ==
    /\ Running("read_early")
    /\ LET s == Top.s IN
       /\ mmc_pool_release(pool, {mmc[s].readreq} \ {NULL})
       /\ mmc' = [mmc EXCEPT ![s] = [@ EXCEPT !.readreq = First(mmc[s].readqueue), !.readqueue = Rest(mmc[s].readqueue)]]
       /\ Goto([Top EXCEPT !.fn = "read"])
    /\ UNCHANGED <<asked, mixed, ret, astray, elapses>>

AfterEarly ==
    /\ Running("read_early")
    /\ LET s == Top.s IN
       /\ mmc_pool_release(IF mmc[s].sendreq # NULL THEN pool
                           ELSE [pool EXCEPT !.sending[pool.cur] = mmc_queue_remove(@, s)],
                           {mmc[s].readreq} \ {NULL})
       /\ mmc' = [mmc EXCEPT ![s] = [@ EXCEPT !.readreq = First(mmc[s].readqueue), !.readqueue = Rest(mmc[s].readqueue)]]
       /\ Goto([Top EXCEPT !.fn = "read"])
    /\ UNCHANGED <<asked, mixed, ret, astray, elapses>>

\* A value: mmc_unpack_value may run __wakeup.
ReadValue ==
    /\ Reading
    /\ LET s == Top.s  r == mmc[s].readreq IN
       /\ asked[s] # <<>> /\ ~Head(asked[s]).value
       /\ Head(asked[s]).kind = "get" /\ request[r].kind = "get"
       /\ asked' = [asked EXCEPT ![s][1].value = TRUE]
       /\ Given(s, r)
       /\ IF Wakeup THEN Call(User("wakeup"), [Top EXCEPT !.fn = "unpacked"])
          ELSE UNCHANGED stack
    /\ UNCHANGED <<mmc, pool, request, ret, astray, elapses>>

\* mmc_pool_select after parse: someone may have helped complete the run.
Unpacked ==
    /\ Running("unpacked")
    /\ IF pool.in_select THEN Goto([Top EXCEPT !.fn = "read"]) ELSE Return
    /\ UNCHANGED <<mmc, asked, pool, request, mixed, ret, astray, elapses>>

\* No whole line yet.
ReadsMore ==
    /\ Reading
    /\ pool' = [pool EXCEPT !.reading[pool.cur] = mmc_queue_push(@, Top.s)]
    /\ NextOf("reads")
    /\ UNCHANGED <<mmc, asked, request, mixed, ret, astray, elapses>>

\* An answer that is an error of the server, or of another kind.
ReadFails ==
    /\ Reading /\ asked[Top.s] # <<>>
    /\ LET s == Top.s  k == Walk("reads", Top.n, Top.i + 1) IN
       ServerFailure(s, Call([fn |-> "deactivate", s |-> s], k),
                        Call([fn |-> "retry", s |-> s, r |-> mmc[s].readreq], k))
    /\ asked' = [asked EXCEPT ![Top.s] = Tail(@)]
    /\ UNCHANGED <<pool, request, mixed, ret, astray, elapses>>

\* The server has closed the connection.
ReadEof ==
    /\ Reading
    /\ LET s == Top.s  k == Walk("reads", Top.n, Top.i + 1) IN
       /\ ServerFailure(s, Call([fn |-> "deactivate", s |-> s], k), Goto(k))
       /\ astray' = (astray \/ mmc[s].status # "connected")
    /\ asked' = [asked EXCEPT ![Top.s] = <<>>]
    /\ UNCHANGED <<pool, request, mixed, ret, elapses>>

ReadEnds ==
    /\ Running("read") /\ mmc[Top.s].readreq = NULL
    /\ NextOf("reads")
    /\ UNCHANGED <<mmc, asked, pool, request, mixed, ret, astray, elapses>>

-----------------------------------------------------------------------------
(* memcache.c: what user code calls.                                       *)

\* mmc_pool_request for a key, scheduled by mmc_pool_schedule_key; then k.
NewRequest(call, kind, key, k) ==
    /\ Len(request) < MaxRequests
    /\ request' = Append(request, [call |-> call, kind |-> kind, key |-> key,
                                   failed_servers |-> <<>>, failed_index |-> 0])
    /\ stack' = <<[fn |-> "schedule", s |-> mmc_pool_find(key), r |-> Len(request) + 1]>> \o k

\* A call is known by its first request.
ThisCall == Len(request) + 1

\* memcache_get of one key, memcache_set of one key.
Single(kind) ==
    /\ Running("user")
    /\ \E key \in Keys :
         NewRequest(ThisCall, kind, key, <<[fn |-> "single", call |-> ThisCall]>> \o stack)
    /\ astray => GoesOn
    /\ UNCHANGED <<mmc, asked, pool, mixed, ret, astray, elapses>>

memcache_get == Single("get")
memcache_set == Single("store")

SingleScheduled ==
    /\ Running("single")
    /\ IF ret = "ok" THEN Goto([Top EXCEPT !.fn = "run"]) ELSE Return
    /\ ret' = "ok"
    /\ UNCHANGED <<mmc, asked, pool, request, mixed, astray, elapses>>

\* php_mmc_store of several keys: each is scheduled, and sending begins at once.
StoreArray ==
    /\ Running("user")
    /\ \E key \in Keys :
         NewRequest(ThisCall, "store", key,
                    <<[fn |-> "array", call |-> ThisCall]>> \o stack)
    /\ astray => GoesOn
    /\ UNCHANGED <<mmc, asked, pool, mixed, ret, astray, elapses>>

ArrayScheduled ==
    /\ Running("array")
    /\ LET k == <<[Top EXCEPT !.fn = "array_next"]>> \o Tail(stack) IN
       IF ret = "ok" THEN mmc_pool_select(k) ELSE stack' = k /\ UNCHANGED pool
    /\ ret' = "ok"
    /\ UNCHANGED <<mmc, asked, request, mixed, astray, elapses>>

ArrayNext ==
    /\ Running("array_next")
    /\ \/ /\ \E key \in Keys : NewRequest(Top.call, "store", key,
                                              <<[Top EXCEPT !.fn = "array"]>> \o Tail(stack))
       \/ /\ Goto([fn |-> "run", call |-> Top.call])
          /\ UNCHANGED request
    /\ UNCHANGED <<mmc, asked, pool, mixed, ret, astray, elapses>>

WakeupReturns ==
    /\ Running("user") /\ Top.where = "wakeup"
    /\ Return
    /\ UNCHANGED <<mmc, asked, pool, request, mixed, ret, astray, elapses>>

\* The script ends, or user code exits: mmc_pool_free.  Persistent servers keep
\* their connection, which is not to be trusted by the next script
\* (mmc_find_persistent) unless it finds it closed (addServer); the others close it.
ScriptEnds ==
    /\ Running("user")
    /\ \E closed \in SUBSET Persistent :
         LET kept == {s \in Persistent : mmc[s].status \in {"connected", "unknown"}} \ closed
             status(s) == IF s \in kept THEN "unknown"
                          ELSE IF s \in Persistent /\ mmc[s].status = "failed" THEN "failed"
                          ELSE "disconnected"
         IN  /\ mmc' = [s \in Servers |->
                          [Disconnected EXCEPT !.status = status(s),
                                               !.elapsed = s \in Persistent /\ mmc[s].elapsed]]
             /\ asked' = [s \in Servers |-> [i \in IF s \in kept THEN DOMAIN asked[s] ELSE {} |->
                                              [asked[s][i] EXCEPT !.req = NULL]]]
             /\ astray' = (astray \/ \E s \in kept : asked[s] # <<>>)
    /\ pool' = NewPool
    /\ request' = <<>>
    /\ mixed' = {}
    /\ stack' = <<User("script")>>
    /\ ret' = "ok"
    /\ elapses' = 0

\* The retry interval of a server passes, between the calls of a script.
Elapse ==
    /\ Running("user") /\ Len(stack) = 1 /\ elapses < MaxElapses
    /\ \E s \in Servers :
         /\ mmc[s].status = "failed" /\ ~mmc[s].elapsed
         /\ mmc' = [mmc EXCEPT ![s].elapsed = TRUE]
    /\ elapses' = elapses + 1
    /\ UNCHANGED <<asked, pool, request, mixed, stack, ret, astray>>

Crashed == Running("crashed") /\ UNCHANGED vars

Scheduling == \/ Schedule \/ SlotNext \/ AfterRefusal \/ Deactivate \/ Failovers \/ Failover
              \/ Retry \/ RetrySend \/ RetryRead

Sending == SendWalk \/ Sent \/ SendsMore \/ SendFails \/ SendFailed \/ SendEnds

Receiving == \/ ReadWalk \/ ReadWalkEnds \/ ReadDone \/ ReadEarly \/ AfterEarly \/ ReadValue
             \/ Unpacked \/ ReadsMore \/ ReadFails \/ ReadEof \/ ReadEnds

Calls == \/ memcache_get \/ memcache_set \/ SingleScheduled \/ StoreArray \/ ArrayScheduled
         \/ ArrayNext \/ WakeupReturns

Next == \/ Scheduling \/ Run \/ SendTimeout \/ ReadTimeout \/ TimeoutsEnd
        \/ Sending \/ Receiving \/ Calls \/ ScriptEnds \/ Elapse \/ Crashed

Spec == Init /\ [][Next]_vars

-----------------------------------------------------------------------------
(* Properties.                                                             *)

\* Calls that have not returned.
Open == {stack[i].call : i \in {j \in DOMAIN stack : "call" \in DOMAIN stack[j]}}

\* Requests in the hands of a function that is about to schedule them.
Held == {stack[i].r : i \in {j \in DOMAIN stack : "r" \in DOMAIN stack[j]}}
        \cup UNION {ToSet(stack[i].line) : i \in {j \in DOMAIN stack : "line" \in DOMAIN stack[j]}}

\* No function is between two changes of a server's slots.
Settled(s) ==
    /\ mmc[s].status \in {"connected", "unknown"}
    /\ Top.fn \in {"slot", "deactivate", "retry", "retry_send", "retry_read", "refused", "read_early"}
           => Top.s # s

\* The text protocol has no request numbers: an answer is taken for that of the
\* request in the read slot.  So the requests whose answer is read are those the
\* server has been sent, in that order, and then those still to be sent, whatever
\* failed over, timed out or was sent from inside __wakeup, until the pool is astray:
\* until a failure that it does not recover from.
PipelineExact ==
    ~astray => \A s \in Servers : Settled(s) =>
        ReadLine(s) = [i \in DOMAIN asked[s] |-> asked[s][i].req] \o SendLine(s)

\* mmc_pool_select follows the slot of every server in its lists without a test,
\* and waits only for those: when it is entered, the lists are the servers with a
\* request to send and those with an answer to read.
ListsExact ==
    ~astray =>
        /\ ~Running("crashed")
        /\ Top.fn \in {"run", "array"} /\ ~pool.in_select =>
              /\ ToSet(pool.sending[pool.cur]) = {s \in Servers : mmc[s].sendreq # NULL}
              /\ ToSet(pool.reading[pool.cur]) = {s \in Servers : mmc[s].readreq # NULL}

\* mmc_pool_run "runs all scheduled requests to completion": a request that has
\* failed over any number of times is with one server, or free, or about to be
\* scheduled, never twice; and when its call returns it is free.
RunsToCompletion ==
    ~astray => \A r \in DOMAIN request :
        /\ request[r].call \in Open \/ r \in pool.free
        /\ \/ r \in Held
           \/ Cardinality({s \in Servers : Contains(ReadLine(s), r)})
              + (IF r \in pool.free THEN 1 ELSE 0) = 1

\* memcache_get "Returns value of existing item or false": of the item that was
\* asked for.
GetsItsOwn == mixed = {}
=============================================================================
