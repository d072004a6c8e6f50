------------------------- MODULE MemcachePoolProofs -------------------------
(***************************************************************************)
(* Theorems about the memcache pool, for any number of servers, keys and   *)
(* requests: answers go to the requests they answer, the lists that        *)
(* mmc_pool_select walks have exactly the servers with work, and every     *)
(* request is with one server and free when its call returns.              *)
(*                                                                         *)
(* The invariant says where the stack can be (Shape: which functions are   *)
(* in progress over the calls and walks that wait), and for each place     *)
(* which servers are between two changes and which requests only the stack *)
(* holds.  With it go the lines of the servers (Quiet), the places of the  *)
(* requests (Placed), the lists filled and still walked (Walked), and the  *)
(* calls that wait (CallsOK).  The lemmas are about sequences and lines    *)
(* first, then one per place of the stack, then one per action.            *)
(***************************************************************************)
EXTENDS MemcachePool, TLAPS, FiniteSetTheorems

--------------------
(* Frames and the stack. *)

\* Frames: of a request with a server, of a server, of what is left of a line, of
\* a place in a list, of a call.
RF(fn, s, r) == [fn |-> fn, s |-> s, r |-> r]
SF(fn, s) == [fn |-> fn, s |-> s]
LF(s, line) == [fn |-> "failovers", s |-> s, line |-> line]
AF(fn, s, n, i) == [fn |-> fn, s |-> s, n |-> n, i |-> i]
CF(fn, c) == [fn |-> fn, call |-> c]

CallFns == {"single", "array", "array_next", "run"}
WalkFns == {"timeouts", "sends", "reads"}
AtFns == {"send", "send_failed", "read", "read_early", "unpacked"}
ReqFns == {"schedule", "failover", "refused", "retry", "retry_send", "retry_read"}

BaseFrame ==
    [fn : {"user"}, where : {"script", "wakeup"}] \cup [fn : CallFns, call : Nat]
    \cup [fn : WalkFns, n : Lists, i : Nat \ {0}]
    \cup [fn : AtFns, s : Servers, n : Lists, i : Nat \ {0}]
Frame ==
    BaseFrame \cup [fn : ReqFns, s : Servers, r : Nat] \cup [fn : {"deactivate", "slot"}, s : Servers]
    \cup [fn : {"failovers"}, s : Servers, line : Seq(Nat)]

Push(f, k) == <<f>> \o k

\* Functions that wait for what they called: user code for its calls, a call for
\* the walk it began, a walk for __wakeup.
Fits(f, g) ==
    \/ f = User("wakeup") /\ g.fn = "unpacked"
    \/ f.fn \in CallFns /\ g.fn = "user"
    \/ f.fn \in WalkFns \cup AtFns /\ g.fn \in {"run", "array_next"}

IsBase(B) ==
    /\ B \in Seq(BaseFrame) /\ B # <<>> /\ B[Len(B)] = User("script")
    /\ \A j \in 1 .. Len(B) - 1 : Fits(B[j], B[j + 1])

WalkCalm == {"timeouts", "sends", "reads", "send_failed"}
Calm == WalkCalm \cup {"single", "array"}

--------------------
(* The lines of a server. *)

\* The slot and then the queue; the requests of a line are distinct, and those to
\* send are among those whose answer is to be read.
Line(x, q) == (IF x = NULL THEN <<>> ELSE <<x>>) \o q
RL(m) == Line(m.readreq, m.readqueue)
SL(m) == Line(m.sendreq, m.sendqueue)
Reqs(a) == [i \in DOMAIN a |-> a[i].req]
Inj(q) == \A i, j \in 1 .. Len(q) : q[i] = q[j] => i = j

Up(m) == m.status \in {"connected", "unknown"}
Empty(m) == m.sendreq = NULL /\ m.sendqueue = <<>> /\ m.readreq = NULL /\ m.readqueue = <<>>
Linked(m) ==
    /\ m.sendreq = NULL => m.sendqueue = <<>>
    /\ m.readreq = NULL => m.readqueue = <<>>
    /\ Inj(RL(m))
Quiet(m, a) == Linked(m) /\ IF Up(m) THEN RL(m) = Reqs(a) \o SL(m) ELSE Empty(m)
AllQuiet(mm, aa, X) == \A t \in Servers \ X : Quiet(mm[t], aa[t])

\* It has one request, and no connection.
Stuck(m, r) == /\ m.status = "disconnected" /\ m.sendqueue = <<>>
               /\ m.readreq = r /\ m.readqueue = <<>>

MaybeReq == Nat \cup {NULL}
Mmc == [status : {"disconnected", "connected", "unknown", "failed"}, elapsed : BOOLEAN,
        sendreq : MaybeReq, part : BOOLEAN, sendqueue : Seq(Nat), readreq : MaybeReq, readqueue : Seq(Nat)]
Kinds == {"get", "store"}
Answer == [req : MaybeReq, value : BOOLEAN, kind : Kinds]
Pool == [sending : [Lists -> Seq(Servers)], reading : [Lists -> Seq(Servers)], cur : Lists,
         in_select : BOOLEAN, wfds : SUBSET Servers, rfds : SUBSET Servers, free : SUBSET Nat]
Request == [call : Nat, kind : Kinds, key : Keys, failed_servers : Seq(Servers), failed_index : Nat]

Types(mm, aa, po, rq) ==
    /\ mm \in [Servers -> Mmc] /\ aa \in [Servers -> Seq(Answer)]
    /\ po \in Pool /\ rq \in Seq(Request)

--------------------
(* Where the stack is. *)

\* B is what waits, H the requests that only the stack holds, X the servers whose
\* slots are between two changes.  R is B, or the fail-over of a line over B.
Over(R, B, HR) ==
    \/ R = B /\ HR = {}
    \/ \E s \in Servers, line \in Seq(Nat) :
          /\ line # <<>> /\ Inj(line) /\ R = Push(LF(s, line), B) /\ HR = ToSet(line)
          /\ Head(B).fn \in WalkCalm

\* No server is between two changes.
ShRest(st, mm, aa, B, H, X) ==
    Over(st, B, H) /\ X = {} /\ AllQuiet(mm, aa, {}) /\ Head(B).fn # "read_early"

\* r goes from server to server.
ShChain(fn, s, r, R, HR, st, mm, aa, B, H, X) ==
    /\ s \in Servers /\ r \in Nat
    /\ fn \in {"schedule", "failover", "refused"} /\ st = Push(RF(fn, s, r), R)
    /\ Over(R, B, HR) /\ H = HR \cup {r} /\ r \notin HR /\ X = {} /\ AllQuiet(mm, aa, {})
    /\ Head(B).fn \in Calm /\ (fn = "refused" => Empty(mm[s]))

\* s refused r and is being deactivated.
ShRefDeact(s, r, R, HR, st, mm, aa, B, H, X) ==
    /\ s \in Servers /\ r \in Nat
    /\ st = Push(SF("deactivate", s), Push(RF("refused", s, r), R))
    /\ Over(R, B, HR) /\ H = HR \cup {r} /\ r \notin HR /\ X = {} /\ AllQuiet(mm, aa, {})
    /\ Head(B).fn \in Calm /\ Empty(mm[s])

\* s failed in a walk and its requests are still in its line.
ShDeact(s, st, mm, aa, B, H, X) ==
    /\ s \in Servers /\ st = Push(SF("deactivate", s), B)
    /\ H = {} /\ X = {s} /\ AllQuiet(mm, aa, {s}) /\ Linked(mm[s]) /\ Head(B).fn \in WalkCalm

\* The next request is moved to the slot: after one was sent,
ShSlotSend(s, st, mm, aa, B, H, X) ==
    /\ s \in Servers /\ st = Push(SF("slot", s), B) /\ Head(B).fn = "send" /\ Head(B).s = s
    /\ H = {} /\ X = {} /\ AllQuiet(mm, aa, {s})
    /\ Linked(mm[s]) /\ Up(mm[s]) /\ mm[s].sendreq # NULL /\ RL(mm[s]) = Reqs(aa[s]) \o mm[s].sendqueue

\* after an answer came to one that is not wholly sent,
ShSlotEarly(s, st, mm, aa, B, H, X) ==
    /\ s \in Servers /\ st = Push(SF("slot", s), B) /\ Head(B).fn = "read_early" /\ Head(B).s = s
    /\ H = {} /\ X = {s} /\ AllQuiet(mm, aa, {s})
    /\ Linked(mm[s]) /\ mm[s].status = "disconnected" /\ mm[s].sendreq # NULL /\ RL(mm[s]) = SL(mm[s])

\* whose slots are emptied together,
ShEarly(s, st, mm, aa, B, H, X) ==
    /\ s \in Servers /\ st = B /\ Head(B).fn = "read_early" /\ Head(B).s = s
    /\ H = {} /\ X = {s} /\ AllQuiet(mm, aa, {s})
    /\ Linked(mm[s]) /\ mm[s].readreq # NULL /\ mm[s].readqueue = SL(mm[s])
    /\ IF Up(mm[s]) THEN aa[s] = <<>> ELSE mm[s].sendreq = NULL

\* or after a request left over was failed.
ShSlotRetry(s, r, st, mm, aa, B, H, X) ==
    /\ s \in Servers /\ r \in Nat
    /\ st = Push(SF("slot", s), Push(RF("retry_send", s, r), B)) /\ Head(B).fn \in WalkCalm
    /\ H = {} /\ X = {s} /\ AllQuiet(mm, aa, {s}) /\ Stuck(mm[s], r) /\ mm[s].sendreq = r

\* S are the servers of the list that is being filled.
ShRetry(fn, s, r, S, st, mm, aa, B, H, X) ==
    /\ s \in Servers /\ r \in Nat
    /\ fn \in {"retry", "retry_send", "retry_read"} /\ st = Push(RF(fn, s, r), B)
    /\ Head(B).fn \in WalkCalm
    /\ H = {} /\ X = {s} /\ AllQuiet(mm, aa, {s})
    /\ \/ fn = "retry" /\ Len(RL(mm[s])) > 1
       \/ Stuck(mm[s], r) /\ \/ mm[s].sendreq = r /\ fn = "retry"
                             \/ mm[s].sendreq = NULL /\ (fn # "retry_send" => s \notin S)

Shape(S, st, mm, aa, B, H, X) ==
    \/ ShRest(st, mm, aa, B, H, X)
    \/ \E fn, s, r, R, HR : ShChain(fn, s, r, R, HR, st, mm, aa, B, H, X)
    \/ \E s, r, R, HR : ShRefDeact(s, r, R, HR, st, mm, aa, B, H, X)
    \/ \E s : \/ ShDeact(s, st, mm, aa, B, H, X)
              \/ ShSlotSend(s, st, mm, aa, B, H, X)
              \/ ShSlotEarly(s, st, mm, aa, B, H, X)
              \/ ShEarly(s, st, mm, aa, B, H, X)
    \/ \E s, r : ShSlotRetry(s, r, st, mm, aa, B, H, X)
    \/ \E fn, s, r : ShRetry(fn, s, r, S, st, mm, aa, B, H, X)

--------------------
(* Requests, lists, calls. *)

InLine(mm, s) == ToSet(RL(mm[s]))
\* Every request of D is in one line, or free, or held by the stack, and only there.
Placed(mm, H, F, D) ==
    /\ \A r : r \in D <=> r \in H \/ r \in F \/ \E s \in Servers : r \in InLine(mm, s)
    /\ \A r : ~(r \in H /\ r \in F)
    /\ \A s \in Servers : \A r \in InLine(mm, s) :
          r \notin H /\ r \notin F /\ \A t \in Servers : r \in InLine(mm, t) => s = t

SC(po) == ToSet(po.sending[po.cur])
RC(po) == ToSet(po.reading[po.cur])
Sends(mm) == {s \in Servers : mm[s].sendreq # NULL}
Reads(mm) == {s \in Servers : mm[s].readreq # NULL}
Fresh(mm, aa) == {s \in Servers : aa[s] = <<>> /\ ~mm[s].part}
From(q, i) == {q[j] : j \in i .. Len(q)}

\* Of the servers but X, those with a request are in the lists that are filled or
\* still to be walked: P to send to, Q to read from.
Core(S, R, rf, Sd, Rd, Fr, X, P, Q, Y, Z) ==
    \A t \in Servers :
        /\ t \notin X =>
              /\ t \in S => t \in Sd
              /\ t \in Sd => t \in S \/ t \in P
              /\ t \in R => t \in Rd
              /\ t \in Rd => t \in R \/ t \in Q
              /\ t \in rf /\ t \in R => t \in Fr
        /\ t \in Y => t \notin X /\ t \notin S /\ t \in Sd /\ ~(t \in rf /\ t \in R)
        /\ t \in Z => t \notin X /\ t \notin R /\ t \in Rd /\ t \notin rf

\* What a function knows of the server it is at.
Special(f, S, R, rf, Fr) ==
    /\ f.fn = "send" => f.s \notin S /\ ~(f.s \in rf /\ f.s \in R)
    /\ f.fn = "read" => f.s \notin rf /\ (f.s \in R => f.s \in Fr)
    /\ f.fn = "read_early" => f.s \in S /\ f.s \notin R /\ f.s \notin rf

\* What is not being filled.
Other(po) == [cur |-> po.cur, in_select |-> po.in_select, wfds |-> po.wfds, rfds |-> po.rfds,
              sending |-> po.sending[3 - po.cur], reading |-> po.reading[3 - po.cur]]

Walking(f) == f.fn \in WalkFns \cup AtFns

\* The topmost walk.
At(B, g) == \E j \in 1 .. Len(B) : B[j] = g /\ Walking(g) /\ \A k \in 1 .. j - 1 : ~Walking(B[k])

IdleFns == {"user", "unpacked"} \cup CallFns

NowIdle(f, o, P, Q, Y, Z) == f.fn \in IdleFns /\ ~o.in_select /\ P = {} /\ Q = {} /\ Y = {} /\ Z = {}

\* g waits for __wakeup.
NowWaits(f, g, o, P, Q, Y, Z) ==
    /\ f.fn \in IdleFns /\ o.in_select /\ g.fn = "unpacked" /\ g.n = 3 - o.cur
    /\ o.wfds = {} /\ P = {} /\ Y = {}
    /\ g.i \in 1 .. Len(o.reading) /\ g.s = o.reading[g.i]
    /\ Q = From(o.reading, g.i) /\ Z = {g.s}

NowTimeouts(f, o, P, Q, Y, Z) ==
    /\ f.fn = "timeouts" /\ ~o.in_select /\ f.n = 3 - o.cur
    /\ o.wfds = {} /\ o.rfds = {}
    /\ P = ToSet(o.sending) /\ Y = P /\ Q = ToSet(o.reading) /\ Z = Q

NowSends(f, o, P, Q, Y, Z) ==
    /\ f.fn \in {"sends", "send", "send_failed"} /\ o.in_select /\ f.n = 3 - o.cur
    /\ Y = o.wfds /\ Z = {}
    /\ Q = IF f.fn = "send_failed" THEN ToSet(o.reading) \ {f.s} ELSE ToSet(o.reading)
    /\ P = From(o.sending, IF f.fn = "send_failed" THEN f.i + 1 ELSE f.i)
    /\ o.wfds \subseteq From(o.sending, IF f.fn = "sends" THEN f.i ELSE f.i + 1)
    /\ f.fn = "send" => f.i \in 1 .. Len(o.sending) /\ f.s = o.sending[f.i] /\ f.s \notin o.wfds

NowReads(f, o, P, Q, Y, Z) ==
    /\ f.fn \in {"reads", "read", "read_early"} /\ o.in_select /\ f.n = 3 - o.cur
    /\ o.wfds = {} /\ P = {} /\ Y = {} /\ Z = {} /\ Q = From(o.reading, f.i)
    /\ f.fn # "reads" => f.i \in 1 .. Len(o.reading) /\ f.s = o.reading[f.i]

\* What is still to be walked.
Now(o, B, P, Q, Y, Z) ==
    \/ NowIdle(Head(B), o, P, Q, Y, Z)
    \/ \E g : At(B, g) /\ NowWaits(Head(B), g, o, P, Q, Y, Z)
    \/ NowTimeouts(Head(B), o, P, Q, Y, Z)
    \/ NowSends(Head(B), o, P, Q, Y, Z)
    \/ NowReads(Head(B), o, P, Q, Y, Z)

Walked(po, mm, aa, B, X) ==
    /\ Special(Head(B), SC(po), RC(po), po.rfds, Fresh(mm, aa))
    /\ \E P, Q, Y, Z :
          /\ Core(SC(po), RC(po), po.rfds, Sends(mm), Reads(mm), Fresh(mm, aa), X, P, Q, Y, Z)
          /\ Now(Other(po), B, P, Q, Y, Z)

InSend(mm, r) == \E s \in Servers : r \in ToSet(SL(mm[s]))
OpenIn(B, c) == \E j \in 1 .. Len(B) : B[j].fn \in CallFns /\ B[j].call = c

\* The requests of a call that waits are its own, and free when it is done.
CallsOK(sel, F, mm, rq, B, H, rt) ==
    /\ \A c : OpenIn(B, c) => c \in 1 .. Len(rq)
    /\ \A r \in 1 .. Len(rq) : rq[r].call \in 1 .. Len(rq) /\ (OpenIn(B, rq[r].call) \/ r \in F)
    /\ Head(B).fn \in CallFns => \A r \in 1 .. Len(rq) : rq[r].call = Head(B).call =>
          /\ Head(B).fn = "single" => r = Head(B).call
          /\ sel => r \in F \/ r \in H \/ InSend(mm, r)
    /\ Head(B).fn = "single" => \/ H = {Head(B).call}
                                \/ H = {} /\ (rt = "ok" \/ Head(B).call \in F)

\* All of it.
GoodAt(st, mm, aa, po, rq, rt) ==
    /\ Types(mm, aa, po, rq)
    /\ \E B, H, X :
          /\ IsBase(B) /\ Shape(SC(po), st, mm, aa, B, H, X)
          /\ Placed(mm, H, po.free, 1 .. Len(rq))
          /\ Walked(po, mm, aa, B, X)
          /\ CallsOK(po.in_select, po.free, mm, rq, B, H, rt)

\* The invariant.  Nothing is said of a pool that has met a failure it does not
\* recover from.
Inv == astray \/ GoodAt(stack, mmc, asked, pool, request, ret)

--------------------
(* Sequences. *)

\* A set of natural numbers with 0 and each successor has them all.
LEMMA NatSet ==
    ASSUME NEW G, 0 \in G, \A n \in Nat : n \in G => n + 1 \in G
    PROVE  Nat \subseteq G
<1> DEFINE Bad == {n \in Nat : n \notin G}
<1>1. SUFFICES ASSUME Bad # {} PROVE FALSE
 BY <1>1
<1>2. PICK m \in Bad : \A n \in Bad : ~(<<n, m>> \in OpToRel(<, Nat))
 <2>1. Bad \in SUBSET Nat
  OBVIOUS
 <2> HIDE DEF Bad
 <2> QED BY <1>1, <2>1, WFMin, NatLessThanWellFounded, Zenon
<1>3. m # 0 /\ m \in Nat /\ m \notin G
 BY <1>2, Zenon
<1>4. m - 1 \in Nat /\ (m - 1) + 1 = m /\ m - 1 < m
 BY <1>3
<1>5. m - 1 \in Bad
 BY <1>3, <1>4
<1>6. <<m - 1, m>> \in OpToRel(<, Nat)
 BY <1>3, <1>4 DEF OpToRel
<1> QED BY <1>2, <1>5, <1>6, Zenon

\* What the type of a sequence says of its places and members.
LEMMA SeqFacts ==
    ASSUME NEW T, NEW q \in Seq(T)
    PROVE  /\ Len(q) \in Nat /\ DOMAIN q = 1 .. Len(q)
           /\ \A i \in 1 .. Len(q) : q[i] \in T /\ q[i] \in ToSet(q)
           /\ ToSet(q) = {q[i] : i \in 1 .. Len(q)}
           /\ ToSet(q) \subseteq T
           /\ q = <<>> <=> Len(q) = 0
           /\ q = <<>> <=> ToSet(q) = {}
           /\ \A e : Contains(q, e) <=> e \in ToSet(q)
<1>1. Len(q) \in Nat /\ DOMAIN q = 1 .. Len(q) /\ (\A i \in 1 .. Len(q) : q[i] \in T)
      /\ (q = <<>> <=> Len(q) = 0)
 OBVIOUS
<1>2. ToSet(q) = {q[i] : i \in 1 .. Len(q)}
 BY <1>1 DEF ToSet
<1>3. q # <<>> => q[1] \in ToSet(q)
 BY <1>1, <1>2
<1>4. \A i \in 1 .. Len(q) : q[i] \in ToSet(q)
 BY <1>2
<1>5. ToSet(q) \subseteq T /\ (q = <<>> => ToSet(q) = {})
 BY <1>1, <1>2
<1>6. \A e : Contains(q, e) <=> e \in ToSet(q)
 BY <1>2 DEF Contains
<1> QED BY <1>1, <1>2, <1>3, <1>4, <1>5, <1>6

LEMMA EmptyFacts == \A T : <<>> \in Seq(T) /\ ToSet(<<>>) = {} /\ Len(<<>>) = 0
BY DEF ToSet

\* A member is at some place.
LEMMA PlaceOf ==
    ASSUME NEW T, NEW q \in Seq(T), NEW e
    PROVE  e \in ToSet(q) <=> \E i \in 1 .. Len(q) : q[i] = e
BY SeqFacts

\* One in front.
FrontIs(T, f, q, u) ==
    /\ u \in Seq(T) /\ Len(q) \in Nat /\ Len(u) = Len(q) + 1 /\ u # <<>>
    /\ Head(u) = f /\ Tail(u) = q /\ u[1] = f
    /\ \A i \in 1 .. Len(q) : u[i + 1] = q[i]
    /\ \A i \in 1 .. Len(u) : i = 1 \/ (i - 1 \in 1 .. Len(q) /\ u[i] = q[i - 1])
    /\ ToSet(u) = {f} \cup ToSet(q)

LEMMA FrontFacts ==
    ASSUME NEW T, NEW f \in T, NEW q \in Seq(T), NEW u, u = Push(f, q)
    PROVE  FrontIs(T, f, q, u)
<1>1. /\ u \in Seq(T) /\ Len(q) \in Nat /\ Len(u) = Len(q) + 1 /\ u # <<>> /\ u[1] = f
      /\ \A i \in 1 .. Len(q) : u[i + 1] = q[i]
 BY DEF Push
<1>2. \A i \in 1 .. Len(u) : i = 1 \/ (i - 1 \in 1 .. Len(q) /\ u[i] = q[i - 1])
 BY <1>1
<1>3. Head(u) = f
 BY <1>1
<1>4. Tail(u) = q
 <2>1. Tail(u) \in Seq(T) /\ Len(Tail(u)) = Len(q) /\ \A i \in 1 .. Len(q) : Tail(u)[i] = u[i + 1]
  BY <1>1
 <2> QED BY <2>1, <1>1
<1>5. ToSet(u) = {f} \cup ToSet(q)
 <2>0. u \in Seq(T)
  BY <1>1
 <2>1. \A e : e \in ToSet(u) <=> \E i \in 1 .. Len(u) : u[i] = e
  BY ONLY <2>0, PlaceOf
 <2>2. \A e : e \in ToSet(q) <=> \E i \in 1 .. Len(q) : q[i] = e
  BY PlaceOf
 <2>3. 1 \in 1 .. Len(u) /\ \A i \in 1 .. Len(q) : i + 1 \in 1 .. Len(u)
  BY <1>1
 <2> QED BY <1>1, <1>2, <2>1, <2>2, <2>3
<1> QED BY <1>1, <1>2, <1>3, <1>4, <1>5 DEF FrontIs

\* A sequence that is not empty has a first.
LEMMA HeadTail ==
    ASSUME NEW T, NEW q \in Seq(T), q # <<>>
    PROVE  /\ Head(q) \in T /\ Tail(q) \in Seq(T) /\ q = Push(Head(q), Tail(q))
           /\ Head(q) = q[1] /\ Len(Tail(q)) = Len(q) - 1 /\ Len(q) \in Nat /\ Len(q) > 0
           /\ ToSet(q) = {Head(q)} \cup ToSet(Tail(q))
<1>1. /\ Head(q) \in T /\ Tail(q) \in Seq(T) /\ Head(q) = q[1] /\ Len(q) \in Nat /\ Len(q) > 0
      /\ Len(Tail(q)) = Len(q) - 1
      /\ \A i \in 1 .. Len(q) - 1 : Tail(q)[i] = q[i + 1]
 OBVIOUS
<1>2. PICK t : t = Tail(q)
 OBVIOUS
<1>3. PICK u : u = Push(Head(q), t)
 OBVIOUS
<1>4. /\ u \in Seq(T) /\ Len(u) = Len(t) + 1 /\ u[1] = Head(q)
      /\ \A i \in 1 .. Len(u) : i = 1 \/ (i - 1 \in 1 .. Len(t) /\ u[i] = t[i - 1])
      /\ ToSet(u) = {Head(q)} \cup ToSet(t)
 <2>1. PICK f : f = Head(q)
  OBVIOUS
 <2>2. f \in T /\ t \in Seq(T) /\ u = Push(f, t)
  BY <1>1, <1>2, <1>3, <2>1
 <2>3. FrontIs(T, f, t, u)
  BY <2>2, FrontFacts
 <2> QED BY <2>1, <2>3 DEF FrontIs
<1>5. u = q
 <2>1. Len(u) = Len(q)
  BY <1>1, <1>2, <1>4
 <2>2. \A i \in 1 .. Len(q) : u[i] = q[i]
  BY <1>1, <1>2, <1>4, <2>1
 <2> QED BY <1>4, <2>1, <2>2
<1> QED BY <1>1, <1>2, <1>3, <1>4, <1>5

\* One at the end.
AppendIs(T, f, q, u) ==
    /\ u \in Seq(T) /\ Len(q) \in Nat /\ Len(u) = Len(q) + 1 /\ u # <<>>
    /\ u[Len(q) + 1] = f
    /\ \A i \in 1 .. Len(q) : u[i] = q[i]
    /\ \A i \in 1 .. Len(u) : i = Len(q) + 1 \/ (i \in 1 .. Len(q) /\ u[i] = q[i])
    /\ ToSet(u) = ToSet(q) \cup {f}

LEMMA AppendFacts ==
    ASSUME NEW T, NEW f \in T, NEW q \in Seq(T), NEW u, u = Append(q, f)
    PROVE  AppendIs(T, f, q, u)
<1>1. /\ u \in Seq(T) /\ Len(q) \in Nat /\ Len(u) = Len(q) + 1 /\ u # <<>> /\ u[Len(q) + 1] = f
      /\ \A i \in 1 .. Len(q) : u[i] = q[i]
 OBVIOUS
<1>2. \A i \in 1 .. Len(u) : i = Len(q) + 1 \/ (i \in 1 .. Len(q) /\ u[i] = q[i])
 BY <1>1
<1>3. ToSet(u) = ToSet(q) \cup {f}
 <2>0. u \in Seq(T)
  BY <1>1
 <2>1. \A e : e \in ToSet(u) <=> \E i \in 1 .. Len(u) : u[i] = e
  BY ONLY <2>0, PlaceOf
 <2>2. \A e : e \in ToSet(q) <=> \E i \in 1 .. Len(q) : q[i] = e
  BY PlaceOf
 <2>3. Len(q) + 1 \in 1 .. Len(u) /\ \A i \in 1 .. Len(q) : i \in 1 .. Len(u)
  BY <1>1
 <2> QED BY <1>1, <1>2, <2>1, <2>2, <2>3
<1> QED BY <1>1, <1>2, <1>3 DEF AppendIs

\* The rest of such a sequence does not have the first.
LEMMA InjTail ==
    ASSUME NEW T, NEW q \in Seq(T), q # <<>>, Inj(q)
    PROVE  Inj(Tail(q)) /\ Head(q) \notin ToSet(Tail(q))
<1>1. PICK t : t = Tail(q)
 OBVIOUS
<1>2. /\ t \in Seq(T) /\ Head(q) = q[1] /\ Len(t) = Len(q) - 1 /\ Len(q) \in Nat /\ Len(q) > 0
      /\ \A i \in 1 .. Len(t) : t[i] = q[i + 1] /\ i + 1 \in 1 .. Len(q) /\ i + 1 # 1
 BY <1>1
<1>3. \A i, j \in 1 .. Len(t) : t[i] = t[j] => i = j
 BY <1>2 DEF Inj
<1>4. \A i \in 1 .. Len(t) : t[i] # Head(q)
 BY <1>2 DEF Inj
<1>5. Head(q) \notin ToSet(t)
 BY <1>2, <1>4, PlaceOf
<1> QED BY <1>1, <1>3, <1>5 DEF Inj

\* One that is new at the end.
LEMMA InjAppend ==
    ASSUME NEW T, NEW q \in Seq(T), NEW f \in T, f \notin ToSet(q), Inj(q)
    PROVE  Inj(Append(q, f))
<1>1. PICK u : u = Append(q, f)
 OBVIOUS
<1>2. /\ u[Len(q) + 1] = f /\ Len(u) = Len(q) + 1
      /\ \A i \in 1 .. Len(u) : i = Len(q) + 1 \/ (i \in 1 .. Len(q) /\ u[i] = q[i])
 BY <1>1, AppendFacts DEF AppendIs
<1>3. \A i \in 1 .. Len(q) : q[i] # f
 BY PlaceOf
<1> QED BY <1>1, <1>2, <1>3 DEF Inj

--------------------
(* Queues. *)

LEMMA NullIs == NULL \notin Nat
BY NullAssumption

\* What is pushed is in the queue, once.
LEMMA PushIs ==
    ASSUME NEW T, NEW q \in Seq(T), NEW x \in T
    PROVE  /\ mmc_queue_push(q, x) \in Seq(T)
           /\ ToSet(mmc_queue_push(q, x)) = ToSet(q) \cup {x}
           /\ x \notin ToSet(q) => mmc_queue_push(q, x) = Append(q, x)
<1>1. Contains(q, x) <=> x \in ToSet(q)
 BY SeqFacts
<1>2. CASE x \in ToSet(q)
 BY <1>1, <1>2 DEF mmc_queue_push
<1>3. CASE x \notin ToSet(q)
 <2>1. PICK u : u = Append(q, x)
  OBVIOUS
 <2>2. mmc_queue_push(q, x) = u
  BY <1>1, <1>3, <2>1 DEF mmc_queue_push
 <2>4. AppendIs(T, x, q, u)
  BY <2>1, AppendFacts
 <2>3. u \in Seq(T) /\ ToSet(u) = ToSet(q) \cup {x}
  BY <2>4 DEF AppendIs
 <2> QED BY <2>1, <2>2, <2>3
<1> QED BY <1>2, <1>3

\* f[i] is what is left of the first i.
Removes(f, q, x, n) ==
    f = [i \in 0 .. n |->
            IF i = 0 THEN <<>>
            ELSE IF q[i] = x THEN f[i - 1] ELSE mmc_queue_push(f[i - 1], q[i])]

\* The function that mmc_queue_remove takes its value from exists.
LEMMA RemovesExists ==
    ASSUME NEW q, NEW x, NEW n \in Nat
    PROVE  \E f : Removes(f, q, x, n)
<1> DEFINE G == {k \in Nat : \E f : Removes(f, q, x, k)}
<1>1. 0 \in G
 <2>1. Removes([i \in 0 .. 0 |-> <<>>], q, x, 0)
  BY DEF Removes
 <2>2. 0 \in Nat
  OBVIOUS
 <2> QED BY <2>1, <2>2, Zenon
<1>2. ASSUME NEW k \in Nat, k \in G PROVE k + 1 \in G
 <2>1. PICK f : Removes(f, q, x, k)
  BY <1>2
 <2> DEFINE g == [i \in 0 .. k + 1 |->
                    IF i = k + 1 THEN IF q[i] = x THEN f[k] ELSE mmc_queue_push(f[k], q[i])
                    ELSE f[i]]
 <2>2. ASSUME NEW i \in 0 .. k + 1
       PROVE  g[i] = IF i = 0 THEN <<>> ELSE IF q[i] = x THEN g[i - 1] ELSE mmc_queue_push(g[i - 1], q[i])
  <3>1. CASE i = k + 1
   <4>1. k \in 0 .. k + 1 /\ i # 0 /\ i - 1 = k /\ k # k + 1
    BY <3>1
   <4>2. g[k] = f[k]
    BY <4>1
   <4>3. g[i] = IF q[i] = x THEN f[k] ELSE mmc_queue_push(f[k], q[i])
    BY <3>1
   <4> HIDE DEF g
   <4> QED BY <4>1, <4>2, <4>3
  <3>2. CASE i # k + 1
   <4>1. i \in 0 .. k /\ g[i] = f[i]
    BY <3>2
   <4>2. f[i] = IF i = 0 THEN <<>> ELSE IF q[i] = x THEN f[i - 1] ELSE mmc_queue_push(f[i - 1], q[i])
    BY <2>1, <4>1, Zenon DEF Removes
   <4>3. CASE i = 0
    BY <4>1, <4>2, <4>3
   <4>4. CASE i # 0
    <5>1. i - 1 \in 0 .. k + 1 /\ i - 1 # k + 1
     BY <4>4, <4>1
    <5>2. g[i - 1] = f[i - 1]
     BY <5>1
    <5> HIDE DEF g
    <5> QED BY <4>1, <4>2, <4>4, <5>2
   <4> QED BY <4>3, <4>4
  <3> QED BY <3>1, <3>2
 <2>3. Removes(g, q, x, k + 1)
  <3> g = [i \in 0 .. k + 1 |-> g[i]]
   OBVIOUS
  <3> HIDE DEF g
  <3> QED BY <2>2, Zenon DEF Removes
 <2> HIDE DEF g
 <2> QED BY <2>3
<1>3. Nat \subseteq G
 <2> HIDE DEF G
 <2> QED BY <1>1, <1>2, NatSet
<1> QED BY <1>3

\* All but x is left.
LEMMA RemoveIs ==
    ASSUME NEW T, NEW q \in Seq(T), NEW x
    PROVE  /\ mmc_queue_remove(q, x) \in Seq(T)
           /\ ToSet(mmc_queue_remove(q, x)) = ToSet(q) \ {x}
<1> DEFINE c == CHOOSE f : Removes(f, q, x, Len(q))
           n == Len(q)
<1>0. n \in Nat /\ \A i \in 1 .. n : q[i] \in T
 BY SeqFacts
<1>1. Removes(c, q, x, n)
 BY <1>0, RemovesExists
<1>2. mmc_queue_remove(q, x) = c[n]
 BY DEF mmc_queue_remove, Removes
<1> HIDE DEF c
<1>3. \A i \in 0 .. n : c[i] = IF i = 0 THEN <<>> ELSE IF q[i] = x THEN c[i - 1] ELSE mmc_queue_push(c[i - 1], q[i])
 BY <1>1, Zenon DEF Removes
<1> HIDE DEF n
<1> DEFINE K(k) == {q[i] : i \in 1 .. k} \ {x}
           G == {k \in Nat : k <= n => c[k] \in Seq(T) /\ ToSet(c[k]) = K(k)}
<1>4. 0 \in G
 <2>1. 0 \in 0 .. n
  BY <1>0
 <2>2. c[0] = <<>>
  BY <2>1, <1>3
 <2>3. K(0) = {}
  OBVIOUS
 <2>4. <<>> \in Seq(T) /\ ToSet(<<>>) = {}
  BY EmptyFacts
 <2> QED BY <2>2, <2>3, <2>4
<1>5. ASSUME NEW k \in Nat, k \in G PROVE k + 1 \in G
 <2> SUFFICES ASSUME k + 1 <= n PROVE c[k + 1] \in Seq(T) /\ ToSet(c[k + 1]) = K(k + 1)
  OBVIOUS
 <2>1. k + 1 \in 0 .. n /\ k + 1 # 0 /\ (k + 1) - 1 = k /\ k <= n /\ k + 1 \in 1 .. n
  BY <1>0
 <2>2. c[k] \in Seq(T) /\ ToSet(c[k]) = K(k)
  BY <2>1, <1>5
 <2>3. c[k + 1] = IF q[k + 1] = x THEN c[k] ELSE mmc_queue_push(c[k], q[k + 1])
  BY <2>1, <1>3
 <2>4. \A i \in 1 .. k + 1 : i \in 1 .. k \/ i = k + 1
  OBVIOUS
 <2>5. CASE q[k + 1] = x
  <3>1. K(k + 1) = K(k)
   BY <2>4, <2>5
  <3> QED BY <2>2, <2>3, <2>5, <3>1
 <2>6. CASE q[k + 1] # x
  <3>1. K(k + 1) = K(k) \cup {q[k + 1]}
   BY <2>4, <2>6
  <3>2. PICK e : e = q[k + 1]
   OBVIOUS
  <3>3. PICK d : d = c[k]
   OBVIOUS
  <3>4. e \in T /\ d \in Seq(T)
   BY <2>1, <2>2, <1>0, <3>2, <3>3
  <3>5. mmc_queue_push(d, e) \in Seq(T) /\ ToSet(mmc_queue_push(d, e)) = ToSet(d) \cup {e}
   BY <3>4, PushIs
  <3> HIDE DEF K
  <3> QED BY <2>2, <2>3, <2>6, <3>1, <3>2, <3>3, <3>5
 <2> QED BY <2>5, <2>6
<1>6. n \in G
 <2> HIDE DEF G
 <2> QED BY <1>4, <1>5, NatSet, <1>0
<1>7. c[n] \in Seq(T) /\ ToSet(c[n]) = K(n)
 BY <1>6, <1>0
<1>8. K(n) = ToSet(q) \ {x}
 <2>1. ToSet(q) = {q[i] : i \in 1 .. n}
  BY SeqFacts DEF n
 <2> QED BY <2>1
<1> QED BY <1>2, <1>7, <1>8

\* The first of a queue, and the rest.
LEMMA PopIs ==
    ASSUME NEW q \in Seq(Nat)
    PROVE  /\ First(q) \in MaybeReq /\ Rest(q) \in Seq(Nat)
           /\ First(q) = NULL <=> q = <<>>
           /\ First(q) = NULL => Rest(q) = <<>>
           /\ Line(First(q), Rest(q)) = q
<1>1. CASE q = <<>>
 <2>1. First(q) = NULL /\ Rest(q) = <<>>
  BY <1>1 DEF First, Rest
 <2>2. Line(NULL, <<>>) = <<>>
  BY DEF Line
 <2> QED BY <1>1, <2>1, <2>2 DEF MaybeReq
<1>2. CASE q # <<>>
 <2>1. First(q) = Head(q) /\ Rest(q) = Tail(q)
  BY <1>2 DEF First, Rest
 <2>2. Head(q) \in Nat /\ Tail(q) \in Seq(Nat) /\ q = Push(Head(q), Tail(q))
  BY <1>2, HeadTail
 <2>3. Head(q) # NULL
  BY <2>2, NullIs
 <2>4. Line(Head(q), Tail(q)) = Push(Head(q), Tail(q))
  BY <2>3 DEF Line, Push
 <2> QED BY <1>2, <2>1, <2>2, <2>3, <2>4 DEF MaybeReq
<1> QED BY <1>1, <1>2

--------------------
(* A slot and the queue behind it. *)

LEMMA LineIs ==
    ASSUME NEW x \in MaybeReq, NEW q \in Seq(Nat)
    PROVE  /\ Line(x, q) \in Seq(Nat)
           /\ x = NULL => Line(x, q) = q
           /\ x # NULL => x \in Nat /\ Line(x, q) = Push(x, q) /\ FrontIs(Nat, x, q, Line(x, q))
<1>1. CASE x = NULL
 <2>1. Line(x, q) = q
  BY <1>1 DEF Line
 <2> QED BY <1>1, <2>1
<1>2. CASE x # NULL
 <2>1. x \in Nat /\ Line(x, q) = Push(x, q)
  BY <1>2 DEF Line, MaybeReq, Push
 <2>2. PICK u : u = Push(x, q)
  OBVIOUS
 <2>3. FrontIs(Nat, x, q, u)
  BY <2>1, <2>2, FrontFacts
 <2>4. u \in Seq(Nat)
  BY <2>3 DEF FrontIs
 <2> QED BY <1>2, <2>1, <2>2, <2>3, <2>4
<1> QED BY <1>1, <1>2

\* What is in a line.
LEMMA LineHas ==
    ASSUME NEW x \in MaybeReq, NEW q \in Seq(Nat), x = NULL => q = <<>>
    PROVE  /\ ToSet(Line(x, q)) = IF x = NULL THEN {} ELSE {x} \cup ToSet(q)
           /\ Line(x, q) = <<>> <=> x = NULL
           /\ x # NULL => Head(Line(x, q)) = x /\ Tail(Line(x, q)) = q /\ Len(Line(x, q)) = Len(q) + 1
<1>1. CASE x = NULL
 <2>1. Line(x, q) = <<>> /\ ToSet(<<>>) = {}
  BY <1>1, LineIs, EmptyFacts
 <2> QED BY <1>1, <2>1
<1>2. CASE x # NULL
 <2>1. FrontIs(Nat, x, q, Line(x, q))
  BY <1>2, LineIs
 <2> QED BY <1>2, <2>1 DEF FrontIs
<1> QED BY <1>1, <1>2

\* A request joins a line.
LEMMA LineAppend ==
    ASSUME NEW x \in MaybeReq, NEW q \in Seq(Nat), NEW r \in Nat, x = NULL => q = <<>>,
           r \notin ToSet(Line(x, q))
    PROVE  /\ x = NULL => Line(r, q) = Append(Line(x, q), r)
           /\ x # NULL => Line(x, mmc_queue_push(q, r)) = Append(Line(x, q), r)
<1>0. r # NULL
 BY NullIs
<1>1. CASE x = NULL
 <2>1. Line(x, q) = <<>> /\ Line(r, q) = <<r>>
  BY <1>0, <1>1 DEF Line
 <2> QED BY <1>1, <2>1
<1>2. CASE x # NULL
 <2>1. r \notin ToSet(q)
  BY <1>2, LineHas
 <2>2. mmc_queue_push(q, r) = Append(q, r)
  BY <2>1, PushIs
 <2>3. Line(x, Append(q, r)) = <<x>> \o Append(q, r) /\ Line(x, q) = <<x>> \o q
  BY <1>2 DEF Line
 <2>4. x \in Nat
  BY <1>2 DEF MaybeReq
 <2>5. <<x>> \o Append(q, r) = Append(<<x>> \o q, r)
  BY <2>4
 <2> QED BY <1>2, <2>2, <2>3, <2>5
<1> QED BY <1>1, <1>2

--------------------
(* Sequences one after the other. *)

LEMMA ConcatIs ==
    ASSUME NEW T, NEW p \in Seq(T), NEW q \in Seq(T)
    PROVE  /\ p \o q \in Seq(T) /\ Len(p \o q) = Len(p) + Len(q) /\ Len(p) \in Nat /\ Len(q) \in Nat
           /\ \A i \in 1 .. Len(p) : (p \o q)[i] = p[i]
           /\ \A i \in 1 .. Len(q) : (p \o q)[Len(p) + i] = q[i]
           /\ \A i \in 1 .. Len(p) + Len(q) : i \in 1 .. Len(p) \/ (i - Len(p) \in 1 .. Len(q))
OBVIOUS

LEMMA ConcatHas ==
    ASSUME NEW T, NEW p \in Seq(T), NEW q \in Seq(T)
    PROVE  ToSet(p \o q) = ToSet(p) \cup ToSet(q)
<1>1. PICK u : u = p \o q
 OBVIOUS
<1>2. /\ u \in Seq(T) /\ Len(u) = Len(p) + Len(q) /\ Len(p) \in Nat /\ Len(q) \in Nat
      /\ \A i \in 1 .. Len(p) : u[i] = p[i]
      /\ \A i \in 1 .. Len(q) : u[Len(p) + i] = q[i]
      /\ \A i \in 1 .. Len(p) + Len(q) : i \in 1 .. Len(p) \/ (i - Len(p) \in 1 .. Len(q))
 BY <1>1, ConcatIs
<1>3. \A e : e \in ToSet(u) <=> \E i \in 1 .. Len(u) : u[i] = e
 BY <1>2, PlaceOf
<1>4. \A e : e \in ToSet(p) <=> \E i \in 1 .. Len(p) : p[i] = e
 BY PlaceOf
<1>5. \A e : e \in ToSet(q) <=> \E i \in 1 .. Len(q) : q[i] = e
 BY PlaceOf
<1>6. ASSUME NEW e \in ToSet(u) PROVE e \in ToSet(p) \cup ToSet(q)
 <2>1. PICK i \in 1 .. Len(u) : u[i] = e
  BY <1>3
 <2>2. CASE i \in 1 .. Len(p)
  BY <2>1, <2>2, <1>2, <1>4
 <2>3. CASE i - Len(p) \in 1 .. Len(q)
  <3>1. PICK k \in 1 .. Len(q) : k = i - Len(p)
   BY <2>3
  <3>2. Len(p) + k = i
   BY <3>1, <1>2
  <3> QED BY <2>1, <3>1, <3>2, <1>2, <1>5
 <2> QED BY <2>2, <2>3, <1>2
<1>7. ASSUME NEW e \in ToSet(p) \cup ToSet(q) PROVE e \in ToSet(u)
 <2>1. CASE e \in ToSet(p)
  <3>1. PICK i \in 1 .. Len(p) : p[i] = e
   BY <2>1, <1>4
  <3>2. i \in 1 .. Len(u)
   BY <1>2
  <3> QED BY <3>1, <3>2, <1>2, <1>3
 <2>2. CASE e \in ToSet(q)
  <3>1. PICK i \in 1 .. Len(q) : q[i] = e
   BY <2>2, <1>5
  <3>2. Len(p) + i \in 1 .. Len(u)
   BY <1>2
  <3> QED BY <3>1, <3>2, <1>2, <1>3
 <2> QED BY <2>1, <2>2
<1> QED BY <1>1, <1>6, <1>7

LEMMA ConcatEmpty ==
    ASSUME NEW T, NEW p \in Seq(T)
    PROVE  <<>> \o p = p /\ p \o <<>> = p
OBVIOUS

\* One more after the second is one more after both.
LEMMA ConcatAppend ==
    ASSUME NEW T, NEW p \in Seq(T), NEW q \in Seq(T), NEW f \in T
    PROVE  p \o Append(q, f) = Append(p \o q, f)
OBVIOUS

\* One in front of the first is one in front of both.
LEMMA ConcatPush ==
    ASSUME NEW T, NEW p \in Seq(T), NEW q \in Seq(T), NEW f \in T
    PROVE  Push(f, p) \o q = Push(f, p \o q)
BY DEF Push

\* One goes from the second to the first.
LEMMA ConcatShift ==
    ASSUME NEW T, NEW p \in Seq(T), NEW q \in Seq(T), NEW f \in T
    PROVE  Append(p, f) \o q = p \o Push(f, q)
<1>1. PICK u : u = Push(f, q)
 OBVIOUS
<1>2. FrontIs(T, f, q, u)
 BY <1>1, FrontFacts
<1>3. PICK v : v = Append(p, f)
 OBVIOUS
<1>4. AppendIs(T, f, p, v)
 BY <1>3, AppendFacts
<1>5. PICK x : x = v \o q
 OBVIOUS
<1>6. PICK y : y = p \o u
 OBVIOUS
<1>7. v \in Seq(T) /\ u \in Seq(T)
 BY <1>2, <1>4 DEF FrontIs, AppendIs
<1>8. /\ x \in Seq(T) /\ Len(x) = Len(v) + Len(q) /\ Len(v) \in Nat /\ Len(q) \in Nat
      /\ \A i \in 1 .. Len(v) : x[i] = v[i]
      /\ \A i \in 1 .. Len(q) : x[Len(v) + i] = q[i]
      /\ \A i \in 1 .. Len(v) + Len(q) : i \in 1 .. Len(v) \/ (i - Len(v) \in 1 .. Len(q))
 BY <1>5, <1>7, ConcatIs
<1>9. /\ y \in Seq(T) /\ Len(y) = Len(p) + Len(u) /\ Len(p) \in Nat /\ Len(u) \in Nat
      /\ \A i \in 1 .. Len(p) : y[i] = p[i]
      /\ \A i \in 1 .. Len(u) : y[Len(p) + i] = u[i]
      /\ \A i \in 1 .. Len(p) + Len(u) : i \in 1 .. Len(p) \/ (i - Len(p) \in 1 .. Len(u))
 BY <1>6, <1>7, ConcatIs
<1>10. Len(v) = Len(p) + 1 /\ Len(u) = Len(q) + 1
 BY <1>2, <1>4 DEF FrontIs, AppendIs
<1>11. Len(x) = Len(y)
 BY <1>8, <1>9, <1>10
<1>12. ASSUME NEW i \in 1 .. Len(x) PROVE x[i] = y[i]
 <2>1. CASE i \in 1 .. Len(p)
  <3>1. i \in 1 .. Len(v)
   BY <2>1, <1>9, <1>10
  <3>2. v[i] = p[i]
   BY <2>1, <1>4 DEF AppendIs
  <3> QED BY <3>1, <3>2, <1>8, <1>9, <2>1
 <2>2. CASE i = Len(p) + 1
  <3>1. i \in 1 .. Len(v) /\ 1 \in 1 .. Len(u)
   BY <2>2, <1>8, <1>9, <1>10
  <3>2. v[i] = f /\ u[1] = f
   BY <2>2, <1>2, <1>4 DEF AppendIs, FrontIs
  <3> QED BY <3>1, <3>2, <1>8, <1>9, <2>2
 <2>3. CASE i > Len(p) + 1
  <3>1. PICK k \in 1 .. Len(q) : i = Len(v) + k
   <4>1. i - Len(v) \in 1 .. Len(q)
    BY <2>3, <1>8, <1>9, <1>10
   <4>2. i = Len(v) + (i - Len(v))
    BY <1>8
   <4> QED BY <4>1, <4>2
  <3>2. k + 1 \in 1 .. Len(u) /\ i = Len(p) + (k + 1)
   BY <3>1, <1>9, <1>10, <1>8
  <3>3. x[i] = q[k]
   BY <3>1, <1>8
  <3>4. u[k + 1] = q[k]
   BY <1>2 DEF FrontIs
  <3> QED BY <3>2, <3>3, <3>4, <1>9
 <2> QED BY <2>1, <2>2, <2>3, <1>9
<1>13. x = y
 BY <1>8, <1>9, <1>11, <1>12
<1> QED BY <1>1, <1>3, <1>5, <1>6, <1>13

LEMMA SeqMono ==
    ASSUME NEW T, NEW V, T \subseteq V
    PROVE  Seq(T) \subseteq Seq(V)
OBVIOUS

--------------------
(* The requests a server has been asked. *)

LEMMA ReqsAt ==
    ASSUME NEW a \in Seq(Answer)
    PROVE  /\ Reqs(a) \in Seq(MaybeReq) /\ Len(Reqs(a)) = Len(a) /\ Len(a) \in Nat
           /\ \A i \in 1 .. Len(a) : Reqs(a)[i] = a[i].req /\ a[i].req \in MaybeReq
<1>1. \A x \in Answer : x.req \in MaybeReq
 BY DEF Answer
<1>2. Len(a) \in Nat /\ DOMAIN a = 1 .. Len(a) /\ \A i \in 1 .. Len(a) : a[i].req \in MaybeReq
 BY <1>1, SeqFacts
<1>3. Reqs(a) = [i \in 1 .. Len(a) |-> a[i].req]
 BY <1>2 DEF Reqs
<1> QED BY <1>2, <1>3

LEMMA ReqsEmpty == Reqs(<<>>) = <<>> /\ <<>> \in Seq(Answer)
<1>1. <<>> \in Seq(Answer) /\ Len(<<>>) = 0
 OBVIOUS
<1>2. Reqs(<<>>) \in Seq(MaybeReq) /\ Len(Reqs(<<>>)) = 0
 BY <1>1, ReqsAt
<1> QED BY <1>1, <1>2

LEMMA ReqsAppend ==
    ASSUME NEW a \in Seq(Answer), NEW x \in Answer
    PROVE  Reqs(Append(a, x)) = Append(Reqs(a), x.req)
<1>1. PICK b : b = Append(a, x)
 OBVIOUS
<1>2. AppendIs(Answer, x, a, b)
 BY <1>1, AppendFacts
<1>3. PICK p : p = Reqs(a)
 OBVIOUS
<1>4. p \in Seq(MaybeReq) /\ Len(p) = Len(a) /\ Len(a) \in Nat /\ \A i \in 1 .. Len(a) : p[i] = a[i].req
 BY <1>3, ReqsAt
<1>5. PICK e : e = x.req
 OBVIOUS
<1>6. e \in MaybeReq
 BY <1>5 DEF Answer
<1>7. PICK c : c = Append(p, e)
 OBVIOUS
<1>8. AppendIs(MaybeReq, e, p, c)
 BY <1>4, <1>6, <1>7, AppendFacts
<1>9. PICK d : d = Reqs(b)
 OBVIOUS
<1>10. b \in Seq(Answer)
 BY <1>2 DEF AppendIs
<1>11. d \in Seq(MaybeReq) /\ Len(d) = Len(b) /\ Len(b) \in Nat /\ \A i \in 1 .. Len(b) : d[i] = b[i].req
 BY <1>9, <1>10, ReqsAt
<1>12. Len(b) = Len(a) + 1 /\ Len(c) = Len(a) + 1 /\ c \in Seq(MaybeReq)
 BY <1>2, <1>4, <1>8 DEF AppendIs
<1>13. ASSUME NEW i \in 1 .. Len(a) + 1 PROVE d[i] = c[i]
 <2>1. CASE i = Len(a) + 1
  <3>1. b[i] = x /\ c[i] = e
   BY <2>1, <1>2, <1>4, <1>8 DEF AppendIs
  <3> QED BY <3>1, <1>5, <1>11, <1>12
 <2>2. CASE i # Len(a) + 1
  <3>1. i \in 1 .. Len(a)
   BY <2>2, <1>4
  <3>2. b[i] = a[i] /\ c[i] = p[i]
   BY <3>1, <1>2, <1>4, <1>8 DEF AppendIs
  <3> QED BY <3>1, <3>2, <1>4, <1>11, <1>12
 <2> QED BY <2>1, <2>2
<1>14. d = c
 BY <1>11, <1>12, <1>13
<1> QED BY <1>1, <1>3, <1>5, <1>7, <1>9, <1>14

LEMMA ReqsHead ==
    ASSUME NEW a \in Seq(Answer), a # <<>>
    PROVE  /\ Head(a) \in Answer /\ Tail(a) \in Seq(Answer)
           /\ Head(a).req \in MaybeReq /\ Reqs(Tail(a)) \in Seq(MaybeReq)
           /\ Reqs(a) = Push(Head(a).req, Reqs(Tail(a)))
<1>1. PICK h : h = Head(a)
 OBVIOUS
<1>2. PICK b : b = Tail(a)
 OBVIOUS
<1>3. h \in Answer /\ b \in Seq(Answer) /\ a = Push(h, b)
 BY <1>1, <1>2, HeadTail
<1>4. FrontIs(Answer, h, b, a)
 BY <1>3, FrontFacts
<1>5. PICK p : p = Reqs(b)
 OBVIOUS
<1>6. p \in Seq(MaybeReq) /\ Len(p) = Len(b) /\ Len(b) \in Nat /\ \A i \in 1 .. Len(b) : p[i] = b[i].req
 BY <1>3, <1>5, ReqsAt
<1>7. PICK e : e = h.req
 OBVIOUS
<1>8. e \in MaybeReq
 BY <1>3, <1>7 DEF Answer
<1>9. PICK c : c = Push(e, p)
 OBVIOUS
<1>10. FrontIs(MaybeReq, e, p, c)
 BY <1>6, <1>8, <1>9, FrontFacts
<1>11. PICK d : d = Reqs(a)
 OBVIOUS
<1>12. d \in Seq(MaybeReq) /\ Len(d) = Len(a) /\ \A i \in 1 .. Len(a) : d[i] = a[i].req
 BY <1>11, ReqsAt
<1>13. Len(a) = Len(b) + 1 /\ Len(c) = Len(b) + 1 /\ c \in Seq(MaybeReq)
 BY <1>4, <1>6, <1>10 DEF FrontIs
<1>14. ASSUME NEW i \in 1 .. Len(b) + 1 PROVE d[i] = c[i]
 <2>1. CASE i = 1
  <3>1. a[i] = h /\ c[i] = e
   BY <2>1, <1>4, <1>10 DEF FrontIs
  <3> QED BY <3>1, <1>7, <1>12, <1>13
 <2>2. CASE i # 1
  <3>1. i - 1 \in 1 .. Len(b)
   BY <2>2, <1>6
  <3>2. a[i] = b[i - 1] /\ c[i] = p[i - 1]
   BY <2>2, <1>4, <1>10, <1>13 DEF FrontIs
  <3> QED BY <3>1, <3>2, <1>6, <1>12, <1>13
 <2> QED BY <2>1, <2>2
<1>15. d = c
 BY <1>12, <1>13, <1>14
<1> QED BY <1>1, <1>2, <1>3, <1>5, <1>6, <1>7, <1>8, <1>9, <1>11, <1>15

\* A value of the first is marked as read.
LEMMA ReqsMarked ==
    ASSUME NEW a \in Seq(Answer), a # <<>>
    PROVE  /\ [a EXCEPT ![1].value = TRUE] \in Seq(Answer)
           /\ [a EXCEPT ![1].value = TRUE] # <<>>
           /\ Reqs([a EXCEPT ![1].value = TRUE]) = Reqs(a)
<1>1. PICK b : b = [a EXCEPT ![1].value = TRUE]
 OBVIOUS
<1>2. Len(a) \in Nat /\ DOMAIN a = 1 .. Len(a) /\ (\A i \in 1 .. Len(a) : a[i] \in Answer) /\ Len(a) # 0
 BY SeqFacts
<1>3. 1 \in 1 .. Len(a)
 BY <1>2
<1>4. DOMAIN b = 1 .. Len(a)
 BY <1>1, <1>2
<1>5. ASSUME NEW i \in 1 .. Len(a) PROVE b[i] \in Answer /\ b[i].req = a[i].req
 <2>1. CASE i = 1
  <3>1. PICK x \in Answer : x = a[1]
   BY <1>2, <1>3
  <3>2. b[1] = [x EXCEPT !.value = TRUE]
   BY <1>1, <1>2, <1>3, <3>1
  <3>3. [x EXCEPT !.value = TRUE] \in Answer /\ [x EXCEPT !.value = TRUE].req = x.req
   BY DEF Answer
  <3> QED BY <2>1, <3>1, <3>2, <3>3
 <2>2. CASE i # 1
  <3>1. b[i] = a[i]
   BY <1>1, <1>2, <2>2
  <3> QED BY <3>1, <1>2
 <2> QED BY <2>1, <2>2
<1>6. b = [i \in 1 .. Len(a) |-> b[i]]
 BY <1>1, <1>2
<1>7. b \in Seq(Answer) /\ Len(b) = Len(a)
 BY <1>2, <1>5, <1>6
<1>8. Reqs(b) = Reqs(a)
 BY <1>2, <1>4, <1>5 DEF Reqs
<1>9. b # <<>>
 BY <1>2, <1>7
<1> QED BY <1>1, <1>7, <1>8, <1>9

--------------------
(* What happens to the lines of a server. *)

LEMMA MmcIs ==
    ASSUME NEW m \in Mmc
    PROVE  /\ m.sendreq \in MaybeReq /\ m.readreq \in MaybeReq
           /\ m.sendqueue \in Seq(Nat) /\ m.readqueue \in Seq(Nat)
           /\ RL(m) \in Seq(Nat) /\ SL(m) \in Seq(Nat)
           /\ RL(m) \in Seq(MaybeReq) /\ SL(m) \in Seq(MaybeReq)
           /\ m.sendqueue \in Seq(MaybeReq)
           /\ m.status \in {"disconnected", "connected", "unknown", "failed"}
<1>1. /\ m.sendreq \in MaybeReq /\ m.readreq \in MaybeReq
      /\ m.sendqueue \in Seq(Nat) /\ m.readqueue \in Seq(Nat)
      /\ m.status \in {"disconnected", "connected", "unknown", "failed"}
 BY DEF Mmc
<1>2. RL(m) \in Seq(Nat) /\ SL(m) \in Seq(Nat)
 BY <1>1, LineIs DEF RL, SL
<1>3. Nat \subseteq MaybeReq
 BY DEF MaybeReq
<1>4. Seq(Nat) \subseteq Seq(MaybeReq)
 BY <1>3, SeqMono
<1> QED BY <1>1, <1>2, <1>4

\* What the lines of a quiet server have to do with each other.
QuietIs(m, a) ==
    /\ m.sendreq = NULL => m.sendqueue = <<>>
    /\ m.readreq = NULL => m.readqueue = <<>>
    /\ Inj(RL(m))
    /\ RL(m) = <<>> <=> m.readreq = NULL
    /\ SL(m) = <<>> <=> m.sendreq = NULL
    /\ m.readreq # NULL => Up(m) /\ m.readreq \in ToSet(RL(m)) /\ m.readreq \in Nat
    /\ m.sendreq # NULL => Up(m) /\ m.readreq # NULL /\ m.sendreq \in ToSet(SL(m)) /\ m.sendreq \in Nat
    /\ Up(m) => RL(m) = Reqs(a) \o SL(m) /\ ToSet(RL(m)) = ToSet(Reqs(a)) \cup ToSet(SL(m))
    /\ Up(m) /\ a = <<>> => RL(m) = SL(m)
    /\ Up(m) /\ m.readreq = NULL => a = <<>>
    /\ ToSet(SL(m)) \subseteq ToSet(RL(m))
    /\ ToSet(RL(m)) \subseteq Nat
    /\ ~Up(m) => Empty(m)

LEMMA QuietFacts ==
    ASSUME NEW m \in Mmc, NEW a \in Seq(Answer), Quiet(m, a)
    PROVE  QuietIs(m, a)
<1>0. /\ m.sendreq \in MaybeReq /\ m.readreq \in MaybeReq
      /\ m.sendqueue \in Seq(Nat) /\ m.readqueue \in Seq(Nat)
      /\ RL(m) \in Seq(Nat) /\ SL(m) \in Seq(Nat) /\ SL(m) \in Seq(MaybeReq)
 BY MmcIs
<1>1. /\ m.sendreq = NULL => m.sendqueue = <<>>
      /\ m.readreq = NULL => m.readqueue = <<>>
      /\ Inj(RL(m))
 BY DEF Quiet, Linked
<1>2. /\ ToSet(RL(m)) = IF m.readreq = NULL THEN {} ELSE {m.readreq} \cup ToSet(m.readqueue)
      /\ RL(m) = <<>> <=> m.readreq = NULL
 BY <1>0, <1>1, LineHas DEF RL
<1>3. /\ ToSet(SL(m)) = IF m.sendreq = NULL THEN {} ELSE {m.sendreq} \cup ToSet(m.sendqueue)
      /\ SL(m) = <<>> <=> m.sendreq = NULL
 BY <1>0, <1>1, LineHas DEF SL
<1>4. Reqs(a) \in Seq(MaybeReq) /\ Len(Reqs(a)) = Len(a) /\ Len(a) \in Nat
 BY ReqsAt
<1>5. ToSet(RL(m)) \subseteq Nat
 BY <1>0, SeqFacts
<1>6. CASE Up(m)
 <2>1. RL(m) = Reqs(a) \o SL(m)
  BY <1>6 DEF Quiet
 <2>2. ToSet(RL(m)) = ToSet(Reqs(a)) \cup ToSet(SL(m))
  BY <2>1, <1>0, <1>4, ConcatHas
 <2>3. a = <<>> => RL(m) = SL(m)
  BY <2>1, <1>0, ReqsEmpty, ConcatEmpty
 <2>4. m.readreq = NULL => a = <<>>
  <3> SUFFICES ASSUME m.readreq = NULL PROVE a = <<>>
   OBVIOUS
  <3>1. ToSet(Reqs(a)) = {}
   BY <1>2, <2>2
  <3>2. Len(Reqs(a)) = 0
   BY <3>1, <1>4, SeqFacts
  <3> QED BY <3>2, <1>4
 <2>5. m.sendreq # NULL => m.readreq # NULL
  BY <1>2, <1>3, <2>2
 <2>6. /\ m.readreq # NULL => m.readreq \in ToSet(RL(m)) /\ m.readreq \in Nat
       /\ m.sendreq # NULL => m.sendreq \in ToSet(SL(m)) /\ m.sendreq \in Nat
  BY <1>2, <1>3, <1>0 DEF MaybeReq
 <2> QED BY <1>1, <1>2, <1>3, <1>5, <1>6, <2>1, <2>2, <2>3, <2>4, <2>5, <2>6 DEF QuietIs
<1>7. CASE ~Up(m)
 <2>1. Empty(m)
  BY <1>7 DEF Quiet
 <2>2. m.sendreq = NULL /\ m.readreq = NULL
  BY <2>1 DEF Empty
 <2> QED BY <1>1, <1>2, <1>3, <1>5, <1>7, <2>1, <2>2 DEF QuietIs
<1> QED BY <1>6, <1>7

\* A server with nothing and no connection is quiet.
LEMMA EmptyQuiet ==
    ASSUME NEW m \in Mmc, NEW a, Empty(m)
    PROVE  /\ RL(m) = <<>> /\ SL(m) = <<>> /\ ToSet(RL(m)) = {} /\ ToSet(SL(m)) = {}
           /\ Linked(m) /\ (~Up(m) => Quiet(m, a)) /\ (a = <<>> => Quiet(m, a))
<1>1. RL(m) = <<>> /\ SL(m) = <<>>
 BY DEF Empty, RL, SL, Line
<1>2. ToSet(RL(m)) = {} /\ ToSet(SL(m)) = {}
 BY <1>1, EmptyFacts
<1>3. Linked(m)
 BY <1>1 DEF Linked, Inj, Empty
<1>4. a = <<>> => RL(m) = Reqs(a) \o SL(m)
 BY <1>1, ReqsEmpty
<1> QED BY <1>1, <1>2, <1>3, <1>4 DEF Quiet

\* A request that joins the line to read.
ReadJoined(m, n, r) ==
    \/ m.readreq = NULL /\ n.readreq = r /\ n.readqueue = m.readqueue
    \/ m.readreq # NULL /\ n.readreq = m.readreq /\ n.readqueue = mmc_queue_push(m.readqueue, r)

LEMMA ReadJoin ==
    ASSUME NEW m \in Mmc, NEW n \in Mmc, NEW r \in Nat, Linked(m), r \notin ToSet(RL(m)),
           ReadJoined(m, n, r)
    PROVE  /\ RL(n) = Append(RL(m), r) /\ Inj(RL(n)) /\ ToSet(RL(n)) = ToSet(RL(m)) \cup {r}
           /\ n.readreq # NULL
<1>0. /\ m.readreq \in MaybeReq /\ m.readqueue \in Seq(Nat) /\ RL(m) \in Seq(Nat)
      /\ m.readreq = NULL => m.readqueue = <<>>
      /\ Inj(RL(m))
 BY MmcIs DEF Linked
<1>1. RL(n) = Append(RL(m), r) /\ n.readreq # NULL
 <2>1. /\ m.readreq = NULL => Line(r, m.readqueue) = Append(Line(m.readreq, m.readqueue), r)
       /\ m.readreq # NULL => Line(m.readreq, mmc_queue_push(m.readqueue, r)) = Append(Line(m.readreq, m.readqueue), r)
  BY <1>0, LineAppend DEF RL
 <2>2. CASE m.readreq = NULL
  BY <2>1, <2>2, NullIs DEF ReadJoined, RL
 <2>3. CASE m.readreq # NULL
  BY <2>1, <2>3 DEF ReadJoined, RL
 <2> QED BY <2>2, <2>3
<1>2. PICK p : p = RL(m)
 OBVIOUS
<1>3. PICK u : u = Append(p, r)
 OBVIOUS
<1>4. AppendIs(Nat, r, p, u)
 BY <1>0, <1>2, <1>3, AppendFacts
<1>5. Inj(u)
 BY <1>0, <1>2, <1>3, InjAppend
<1> QED BY <1>1, <1>2, <1>3, <1>4, <1>5 DEF AppendIs

\* It is queued behind others that are to be sent.
LEMMA QueueJoin ==
    ASSUME NEW m \in Mmc, NEW n \in Mmc, NEW a \in Seq(Answer), NEW r \in Nat,
           Quiet(m, a), m.sendreq # NULL, r \notin ToSet(RL(m)), ReadJoined(m, n, r),
           n.status = m.status, n.sendreq = m.sendreq, n.sendqueue = mmc_queue_push(m.sendqueue, r)
    PROVE  /\ Quiet(n, a)
           /\ ToSet(RL(n)) = ToSet(RL(m)) \cup {r} /\ ToSet(SL(n)) = ToSet(SL(m)) \cup {r}
           /\ m.readreq # NULL /\ n.readreq # NULL
<1>1. QuietIs(m, a)
 BY QuietFacts
<1>2. /\ Up(m) /\ m.readreq # NULL /\ RL(m) = Reqs(a) \o SL(m) /\ r \notin ToSet(SL(m)) /\ Up(n)
      /\ Linked(m)
 BY <1>1 DEF QuietIs, Up, Linked
<1>3. /\ RL(n) = Append(RL(m), r) /\ Inj(RL(n)) /\ ToSet(RL(n)) = ToSet(RL(m)) \cup {r} /\ n.readreq # NULL
 BY <1>2, ReadJoin
<1>4. /\ m.sendreq \in MaybeReq /\ m.sendqueue \in Seq(Nat) /\ SL(m) \in Seq(Nat) /\ SL(m) \in Seq(MaybeReq)
      /\ Reqs(a) \in Seq(MaybeReq) /\ r \in MaybeReq
 BY MmcIs, ReqsAt DEF MaybeReq
<1>5. SL(n) = Append(SL(m), r)
 <2>1. Line(m.sendreq, mmc_queue_push(m.sendqueue, r)) = Append(Line(m.sendreq, m.sendqueue), r)
  BY <1>2, <1>4, LineAppend DEF SL
 <2> QED BY <2>1 DEF SL
<1>6. ToSet(SL(n)) = ToSet(SL(m)) \cup {r}
 <2>1. PICK p : p = SL(m)
  OBVIOUS
 <2>2. PICK u : u = Append(p, r)
  OBVIOUS
 <2>3. AppendIs(Nat, r, p, u)
  BY <1>4, <2>1, <2>2, AppendFacts
 <2> QED BY <1>5, <2>1, <2>2, <2>3 DEF AppendIs
<1>7. RL(n) = Reqs(a) \o SL(n)
 <2>1. Reqs(a) \o Append(SL(m), r) = Append(Reqs(a) \o SL(m), r)
  BY <1>4, ConcatAppend
 <2> QED BY <1>2, <1>3, <1>5, <2>1
<1>8. Linked(n)
 BY <1>3 DEF Linked
<1> QED BY <1>2, <1>3, <1>6, <1>7, <1>8 DEF Quiet

\* It is the first to be sent, over the connection there is or a new one.
LEMMA SlotJoin ==
    ASSUME NEW m \in Mmc, NEW n \in Mmc, NEW a \in Seq(Answer), NEW b \in Seq(Answer), NEW r \in Nat,
           Quiet(m, a), m.sendreq = NULL, r \notin ToSet(RL(m)), ReadJoined(m, n, r),
           n.sendreq = r, n.sendqueue = m.sendqueue,
           \/ Up(m) /\ n.status = m.status /\ b = a
           \/ ~Up(m) /\ n.status = "connected" /\ b = <<>>
    PROVE  /\ Quiet(n, b)
           /\ ToSet(RL(n)) = ToSet(RL(m)) \cup {r}
           /\ ToSet(SL(m)) = {} /\ ToSet(SL(n)) = {r} /\ n.sendreq # NULL /\ n.readreq # NULL
           /\ m.readreq = NULL => b = <<>>
           /\ a = <<>> => m.readreq = NULL
<1>1. QuietIs(m, a)
 BY QuietFacts
<1>2. Linked(m) /\ m.sendqueue = <<>> /\ SL(m) = <<>> /\ Up(n)
 BY <1>1 DEF QuietIs, Up, Linked
<1>3. /\ RL(n) = Append(RL(m), r) /\ Inj(RL(n)) /\ ToSet(RL(n)) = ToSet(RL(m)) \cup {r} /\ n.readreq # NULL
 BY <1>2, ReadJoin
<1>4. n.sendreq # NULL /\ SL(n) = <<r>>
 BY <1>2, NullIs DEF SL, Line
<1>5. ToSet(SL(m)) = {} /\ ToSet(SL(n)) = {r}
 <2>1. ToSet(<<r>>) = {r}
  BY DEF ToSet
 <2> QED BY <1>2, <1>4, <2>1, EmptyFacts
<1>6. RL(m) = Reqs(b) /\ (m.readreq = NULL => b = <<>>) /\ (a = <<>> => m.readreq = NULL)
 <2>1. CASE Up(m) /\ b = a
  <3>1. RL(m) = Reqs(a) \o <<>>
   BY <1>1, <1>2, <2>1 DEF QuietIs
  <3>2. Reqs(a) \o <<>> = Reqs(a)
   BY ReqsAt, ConcatEmpty
  <3>3. a = <<>> => m.readreq = NULL
   BY <1>1, <1>2, <2>1 DEF QuietIs
  <3> QED BY <3>1, <3>2, <3>3, <2>1, <1>1 DEF QuietIs
 <2>2. CASE ~Up(m) /\ b = <<>>
  <3>1. RL(m) = <<>> /\ m.readreq = NULL
   BY <1>1, <2>2 DEF QuietIs, Empty
  <3> QED BY <3>1, <2>2, ReqsEmpty
 <2> QED BY <2>1, <2>2
<1>7. RL(n) = Reqs(b) \o SL(n)
 <2>1. Append(Reqs(b), r) = Reqs(b) \o <<r>>
  BY ReqsAt DEF MaybeReq
 <2> QED BY <1>3, <1>4, <1>6, <2>1
<1>8. Linked(n)
 BY <1>3, <1>4 DEF Linked
<1> QED BY <1>2, <1>3, <1>4, <1>5, <1>6, <1>7, <1>8 DEF Quiet

\* A request is sent: its answer is still to be read, in its turn.
LEMMA LineSent ==
    ASSUME NEW m \in Mmc, NEW a \in Seq(Answer), NEW x \in Answer, Quiet(m, a), m.sendreq # NULL,
           x.req = m.sendreq
    PROVE  /\ Up(m) /\ Linked(m)
           /\ RL(m) = Reqs(Append(a, x)) \o m.sendqueue
<1>1. QuietIs(m, a)
 BY QuietFacts
<1>2. Up(m) /\ RL(m) = Reqs(a) \o SL(m) /\ Linked(m) /\ m.sendreq \in Nat
 BY <1>1 DEF QuietIs, Linked
<1>3. /\ m.sendreq \in MaybeReq /\ m.sendqueue \in Seq(MaybeReq) /\ Reqs(a) \in Seq(MaybeReq)
      /\ m.sendqueue \in Seq(Nat)
 BY MmcIs, ReqsAt
<1>4. SL(m) = Push(m.sendreq, m.sendqueue)
 BY <1>2, <1>3, LineIs DEF SL
<1>5. Append(Reqs(a), m.sendreq) \o m.sendqueue = Reqs(a) \o Push(m.sendreq, m.sendqueue)
 BY <1>3, ConcatShift
<1>6. Reqs(Append(a, x)) = Append(Reqs(a), m.sendreq)
 BY ReqsAppend
<1> QED BY <1>2, <1>4, <1>5, <1>6

\* The next comes from the queue into the slot.
Slots(m, n) ==
    /\ n.sendreq = First(m.sendqueue) /\ n.sendqueue = Rest(m.sendqueue)
    /\ n.readreq = m.readreq /\ n.readqueue = m.readqueue

LEMMA SlotsIs ==
    ASSUME NEW m \in Mmc, NEW n \in Mmc, Linked(m), Slots(m, n)
    PROVE  /\ Linked(n) /\ RL(n) = RL(m) /\ SL(n) = m.sendqueue
           /\ n.sendreq = NULL <=> m.sendqueue = <<>>
           /\ n.readreq = m.readreq
<1>1. m.sendqueue \in Seq(Nat)
 BY MmcIs
<1>2. /\ First(m.sendqueue) = NULL <=> m.sendqueue = <<>>
      /\ First(m.sendqueue) = NULL => Rest(m.sendqueue) = <<>>
      /\ Line(First(m.sendqueue), Rest(m.sendqueue)) = m.sendqueue
 BY <1>1, PopIs
<1>3. RL(n) = RL(m) /\ SL(n) = m.sendqueue
 BY <1>2 DEF RL, SL, Slots
<1>4. Linked(n)
 BY <1>2, <1>3 DEF Linked, Slots
<1> QED BY <1>2, <1>3, <1>4 DEF Slots

LEMMA SlotAfterSend ==
    ASSUME NEW m \in Mmc, NEW n \in Mmc, NEW b, Linked(m), Up(m),
           RL(m) = Reqs(b) \o m.sendqueue, Slots(m, n), n.status = m.status
    PROVE  /\ Quiet(n, b) /\ RL(n) = RL(m) /\ SL(n) = m.sendqueue /\ n.readreq = m.readreq
<1>1. Linked(n) /\ RL(n) = RL(m) /\ SL(n) = m.sendqueue /\ n.readreq = m.readreq
 BY SlotsIs
<1>2. Up(n)
 BY DEF Up
<1> QED BY <1>1, <1>2 DEF Quiet

\* The next comes into the slot to read.
Reads1(m, n) ==
    /\ n.readreq = First(m.readqueue) /\ n.readqueue = Rest(m.readqueue)
    /\ n.sendreq = m.sendreq /\ n.sendqueue = m.sendqueue /\ n.status = m.status

LEMMA Reads1Is ==
    ASSUME NEW m \in Mmc, NEW n \in Mmc, Linked(m), m.readreq # NULL, Reads1(m, n)
    PROVE  /\ Linked(n) /\ RL(n) = m.readqueue /\ SL(n) = SL(m) /\ (Up(n) <=> Up(m))
           /\ RL(m) = Push(m.readreq, m.readqueue)
           /\ ToSet(RL(n)) = ToSet(RL(m)) \ {m.readreq} /\ m.readreq \in ToSet(RL(m)) /\ m.readreq \in Nat
           /\ n.sendreq = m.sendreq
<1>0. m.readqueue \in Seq(Nat) /\ m.readreq \in MaybeReq /\ RL(m) \in Seq(Nat)
 BY MmcIs
<1>1. /\ First(m.readqueue) = NULL <=> m.readqueue = <<>>
      /\ First(m.readqueue) = NULL => Rest(m.readqueue) = <<>>
      /\ Line(First(m.readqueue), Rest(m.readqueue)) = m.readqueue
 BY <1>0, PopIs
<1>2. RL(n) = m.readqueue /\ SL(n) = SL(m) /\ (Up(n) <=> Up(m))
 BY <1>1 DEF RL, SL, Reads1, Up
<1>3. /\ m.readreq \in Nat /\ RL(m) = Push(m.readreq, m.readqueue)
      /\ FrontIs(Nat, m.readreq, m.readqueue, RL(m))
 BY <1>0, LineIs DEF RL
<1>4. RL(m) # <<>> /\ Head(RL(m)) = m.readreq /\ Tail(RL(m)) = m.readqueue
      /\ ToSet(RL(m)) = {m.readreq} \cup ToSet(m.readqueue)
 BY <1>3 DEF FrontIs
<1>5. Inj(RL(m))
 BY DEF Linked
<1>6. Inj(m.readqueue) /\ m.readreq \notin ToSet(m.readqueue)
 BY <1>0, <1>4, <1>5, InjTail
<1>7. Linked(n)
 BY <1>1, <1>2, <1>6 DEF Linked, Reads1
<1> QED BY <1>2, <1>3, <1>4, <1>6, <1>7 DEF Reads1

\* The answer is that of the request in the slot.
LEMMA LineRead ==
    ASSUME NEW m \in Mmc, NEW n \in Mmc, NEW a \in Seq(Answer), Quiet(m, a), m.readreq # NULL, a # <<>>,
           Reads1(m, n)
    PROVE  /\ Quiet(n, Tail(a)) /\ Head(a).req = m.readreq
           /\ ToSet(RL(n)) = ToSet(RL(m)) \ {m.readreq} /\ m.readreq \in ToSet(RL(m)) /\ m.readreq \in Nat
           /\ SL(n) = SL(m) /\ n.sendreq = m.sendreq
<1>1. QuietIs(m, a)
 BY QuietFacts
<1>2. Up(m) /\ RL(m) = Reqs(a) \o SL(m) /\ Linked(m)
 BY <1>1 DEF QuietIs, Linked
<1>3. /\ Linked(n) /\ RL(n) = m.readqueue /\ SL(n) = SL(m) /\ (Up(n) <=> Up(m))
      /\ RL(m) = Push(m.readreq, m.readqueue)
      /\ ToSet(RL(n)) = ToSet(RL(m)) \ {m.readreq} /\ m.readreq \in ToSet(RL(m)) /\ m.readreq \in Nat
      /\ n.sendreq = m.sendreq
 BY <1>2, Reads1Is
<1>4. PICK h : h = Head(a).req
 OBVIOUS
<1>5. PICK t : t = Reqs(Tail(a))
 OBVIOUS
<1>6. Reqs(a) = Push(h, t) /\ h \in MaybeReq /\ t \in Seq(MaybeReq)
 BY <1>4, <1>5, ReqsHead
<1>7. PICK q : q = SL(m)
 OBVIOUS
<1>8. q \in Seq(MaybeReq)
 BY <1>7, MmcIs
<1>9. Push(h, t) \o q = Push(h, t \o q)
 BY <1>6, <1>8, ConcatPush
<1>10. PICK v : v = t \o q
 OBVIOUS
<1>11. v \in Seq(MaybeReq)
 BY <1>6, <1>8, <1>10
<1>12. RL(m) = Push(h, v)
 BY <1>2, <1>6, <1>7, <1>9, <1>10
<1>13. FrontIs(MaybeReq, h, v, RL(m))
 BY <1>6, <1>11, <1>12, FrontFacts
<1>14. FrontIs(Nat, m.readreq, m.readqueue, RL(m))
 BY <1>3, MmcIs, FrontFacts
<1>15. h = m.readreq /\ v = m.readqueue
 BY <1>13, <1>14 DEF FrontIs
<1>16. RL(n) = Reqs(Tail(a)) \o SL(n)
 BY <1>3, <1>5, <1>7, <1>10, <1>15
<1> QED BY <1>2, <1>3, <1>4, <1>15, <1>16 DEF Quiet

\* The request that was refused early is released; the next is being sent or there is none.
LEMMA LineEarly ==
    ASSUME NEW m \in Mmc, NEW n \in Mmc, NEW a, Linked(m), m.readreq # NULL, m.readqueue = SL(m),
           IF Up(m) THEN a = <<>> ELSE m.sendreq = NULL, Reads1(m, n)
    PROVE  /\ Quiet(n, a) /\ SL(n) = SL(m) /\ n.sendreq = m.sendreq
           /\ ToSet(RL(n)) = ToSet(RL(m)) \ {m.readreq} /\ m.readreq \in ToSet(RL(m)) /\ m.readreq \in Nat
<1>1. /\ Linked(n) /\ RL(n) = m.readqueue /\ SL(n) = SL(m) /\ (Up(n) <=> Up(m))
      /\ RL(m) = Push(m.readreq, m.readqueue)
      /\ ToSet(RL(n)) = ToSet(RL(m)) \ {m.readreq} /\ m.readreq \in ToSet(RL(m)) /\ m.readreq \in Nat
      /\ n.sendreq = m.sendreq
 BY Reads1Is
<1>2. CASE Up(m)
 <2>1. RL(n) = Reqs(a) \o SL(n)
  <3>1. <<>> \o SL(n) = SL(n)
   BY MmcIs, ConcatEmpty
  <3> QED BY <1>1, <1>2, <3>1, ReqsEmpty
 <2> QED BY <1>1, <1>2, <2>1 DEF Quiet
<1>3. CASE ~Up(m)
 <2>1. m.sendreq = NULL /\ m.sendqueue = <<>> /\ SL(m) = <<>>
  BY <1>3 DEF Linked, SL, Line
 <2>2. First(m.readqueue) = NULL /\ Rest(m.readqueue) = <<>>
  BY <2>1 DEF First, Rest
 <2>3. Empty(n)
  BY <2>1, <2>2 DEF Empty, Reads1
 <2> QED BY <1>1, <1>3, <2>3 DEF Quiet
<1> QED BY <1>2, <1>3

\* A server with an error before its first request is sent.
LEMMA LineRefused ==
    ASSUME NEW m \in Mmc, NEW n \in Mmc, NEW a \in Seq(Answer), Quiet(m, a), m.sendreq # NULL, a = <<>>,
           n.sendreq = m.sendreq, n.sendqueue = m.sendqueue, n.readreq = m.readreq, n.readqueue = m.readqueue
    PROVE  Linked(n) /\ RL(n) = SL(n) /\ RL(n) = RL(m) /\ SL(n) = SL(m)
<1>1. QuietIs(m, a)
 BY QuietFacts
<1>2. RL(n) = RL(m) /\ SL(n) = SL(m)
 BY DEF RL, SL
<1>3. RL(m) = SL(m)
 BY <1>1 DEF QuietIs
<1>4. Linked(n)
 BY <1>2 DEF Quiet, Linked
<1> QED BY <1>2, <1>3, <1>4

\* Its first request leaves the slot to be sent, not yet the slot to be read.
LEMMA SlotEarly ==
    ASSUME NEW m \in Mmc, NEW n \in Mmc, Linked(m), m.sendreq # NULL, RL(m) = SL(m), Slots(m, n)
    PROVE  /\ Linked(n) /\ RL(n) = RL(m) /\ n.readreq # NULL /\ n.readqueue = SL(n)
           /\ n.sendreq = NULL <=> m.sendqueue = <<>>
           /\ SL(n) = m.sendqueue
<1>1. /\ Linked(n) /\ RL(n) = RL(m) /\ SL(n) = m.sendqueue
      /\ n.sendreq = NULL <=> m.sendqueue = <<>>
 BY SlotsIs
<1>2. /\ m.sendreq \in MaybeReq /\ m.sendqueue \in Seq(Nat)
      /\ m.readreq \in MaybeReq /\ m.readqueue \in Seq(Nat)
      /\ (m.readreq = NULL => m.readqueue = <<>>) /\ (m.sendreq = NULL => m.sendqueue = <<>>)
 BY MmcIs DEF Linked
<1>3. m.readreq # NULL
 <2>1. SL(m) # <<>>
  BY <1>2, LineHas DEF SL
 <2>2. RL(m) = <<>> <=> m.readreq = NULL
  BY <1>2, LineHas DEF RL
 <2> QED BY <2>1, <2>2
<1>4. Tail(SL(m)) = m.sendqueue /\ Tail(RL(m)) = m.readqueue
 BY <1>2, <1>3, LineHas DEF RL, SL
<1> QED BY <1>1, <1>3, <1>4 DEF Slots

\* A server that fails has a connection; when it has one request only, that is
\* in its slots and the queues are empty.
LEMMA LineFails ==
    ASSUME NEW m \in Mmc, NEW a \in Seq(Answer), Quiet(m, a), m.sendreq # NULL \/ m.readreq # NULL
    PROVE  /\ Up(m) /\ Linked(m) /\ m.readreq # NULL /\ m.readreq \in Nat
           /\ m.sendreq # NULL => m.sendreq \in Nat
           /\ Len(RL(m)) > 1 \/ (/\ m.readqueue = <<>> /\ m.sendqueue = <<>>
                                 /\ m.sendreq = NULL \/ m.sendreq = m.readreq)
<1>1. QuietIs(m, a)
 BY QuietFacts
<1>2. Up(m) /\ Linked(m) /\ m.readreq # NULL /\ m.readreq \in Nat /\ (m.sendreq # NULL => m.sendreq \in Nat)
      /\ RL(m) = Reqs(a) \o SL(m) /\ ToSet(SL(m)) \subseteq ToSet(RL(m))
 BY <1>1 DEF QuietIs, Linked
<1>3. /\ m.sendreq \in MaybeReq /\ m.sendqueue \in Seq(Nat)
      /\ m.readreq \in MaybeReq /\ m.readqueue \in Seq(Nat) /\ Reqs(a) \in Seq(MaybeReq)
      /\ SL(m) \in Seq(MaybeReq) /\ SL(m) \in Seq(Nat)
      /\ m.sendreq = NULL => m.sendqueue = <<>>
 BY <1>2, MmcIs, ReqsAt DEF Linked
<1>4. /\ Len(RL(m)) = Len(m.readqueue) + 1 /\ ToSet(RL(m)) = {m.readreq} \cup ToSet(m.readqueue)
 BY <1>2, <1>3, LineHas DEF RL
<1>5. SUFFICES ASSUME ~(Len(RL(m)) > 1)
               PROVE  m.readqueue = <<>> /\ m.sendqueue = <<>> /\ (m.sendreq = NULL \/ m.sendreq = m.readreq)
 BY <1>2
<1>6. m.readqueue = <<>>
 BY <1>3, <1>4, <1>5
<1>7. ToSet(RL(m)) = {m.readreq}
 BY <1>4, <1>6, EmptyFacts
<1>8. CASE m.sendreq = NULL
 BY <1>3, <1>6, <1>8
<1>9. CASE m.sendreq # NULL
 <2>1. m.sendreq \in ToSet(SL(m)) /\ Len(SL(m)) = Len(m.sendqueue) + 1
  BY <1>3, <1>9, LineHas DEF SL
 <2>2. Len(RL(m)) = Len(Reqs(a)) + Len(SL(m)) /\ Len(Reqs(a)) \in Nat /\ Len(SL(m)) \in Nat
  BY <1>2, <1>3
 <2>3. Len(m.sendqueue) = 0
  BY <2>1, <2>2, <1>3, <1>5
 <2>4. m.sendqueue = <<>>
  BY <2>3, <1>3
 <2> QED BY <1>2, <1>6, <1>7, <2>1, <2>4
<1> QED BY <1>8, <1>9

\* The list of those that a failed server had.
Drained(m) == m.readqueue \o (IF m.readreq = NULL THEN <<>> ELSE <<m.readreq>>)

LEMMA DrainedIs ==
    ASSUME NEW m \in Mmc, Linked(m)
    PROVE  Drained(m) \in Seq(Nat) /\ Inj(Drained(m)) /\ ToSet(Drained(m)) = ToSet(RL(m))
<1>0. /\ m.readqueue \in Seq(Nat) /\ m.readreq \in MaybeReq /\ RL(m) \in Seq(Nat) /\ Inj(RL(m))
      /\ m.readreq = NULL => m.readqueue = <<>>
 BY MmcIs DEF Linked
<1>1. CASE m.readreq = NULL
 <2>1. Drained(m) = <<>> /\ RL(m) = <<>>
  BY <1>0, <1>1 DEF Drained, RL, Line
 <2> QED BY <2>1, <1>0
<1>2. CASE m.readreq # NULL
 <2>1. m.readreq \in Nat /\ FrontIs(Nat, m.readreq, m.readqueue, RL(m))
  BY <1>0, <1>2, LineIs DEF RL
 <2>2. RL(m) # <<>> /\ Head(RL(m)) = m.readreq /\ Tail(RL(m)) = m.readqueue
       /\ ToSet(RL(m)) = {m.readreq} \cup ToSet(m.readqueue)
  BY <2>1 DEF FrontIs
 <2>3. Inj(m.readqueue) /\ m.readreq \notin ToSet(m.readqueue)
  BY <1>0, <2>2, InjTail
 <2>4. Drained(m) = Append(m.readqueue, m.readreq)
  BY <1>0, <1>2, <2>1 DEF Drained
 <2>5. Inj(Append(m.readqueue, m.readreq))
  BY <1>0, <2>1, <2>3, InjAppend
 <2>6. PICK u : u = Append(m.readqueue, m.readreq)
  OBVIOUS
 <2>7. AppendIs(Nat, m.readreq, m.readqueue, u)
  BY <1>0, <2>1, <2>6, AppendFacts
 <2>8. u \in Seq(Nat) /\ ToSet(u) = ToSet(m.readqueue) \cup {m.readreq}
  BY <2>7 DEF AppendIs
 <2> QED BY <2>2, <2>4, <2>5, <2>6, <2>8
<1> QED BY <1>1, <1>2

--------------------
(* Frames and the base of the stack. *)

\* What a frame has, by its function.
LEMMA FrameHas ==
    ASSUME NEW f \in BaseFrame
    PROVE  /\ f.fn \in {"user"} \cup CallFns \cup WalkFns \cup AtFns
           /\ f.fn = "user" => f = User("script") \/ f = User("wakeup")
           /\ f.fn \in CallFns => f.call \in Nat /\ f = CF(f.fn, f.call)
           /\ f.fn \in WalkFns => f.n \in Lists /\ f.i \in Nat \ {0} /\ f = Walk(f.fn, f.n, f.i)
           /\ f.fn \in AtFns => f.s \in Servers /\ f.n \in Lists /\ f.i \in Nat \ {0} /\ f = AF(f.fn, f.s, f.n, f.i)
<1>1. CASE f \in [fn : {"user"}, where : {"script", "wakeup"}]
 BY <1>1 DEF User, CallFns, WalkFns, AtFns
<1>2. CASE f \in [fn : CallFns, call : Nat]
 BY <1>2 DEF CF, CallFns, WalkFns, AtFns
<1>3. CASE f \in [fn : WalkFns, n : Lists, i : Nat \ {0}]
 BY <1>3 DEF Walk, CallFns, WalkFns, AtFns
<1>4. CASE f \in [fn : AtFns, s : Servers, n : Lists, i : Nat \ {0}]
 BY <1>4 DEF AF, CallFns, WalkFns, AtFns
<1> QED BY <1>1, <1>2, <1>3, <1>4 DEF BaseFrame

\* Frames.
LEMMA FrameMade ==
    /\ User("script") \in BaseFrame /\ User("wakeup") \in BaseFrame
    /\ User("script").fn = "user" /\ User("wakeup").fn = "user"
    /\ User("script").where = "script" /\ User("wakeup").where = "wakeup"
    /\ \A fn \in CallFns, c \in Nat : CF(fn, c) \in BaseFrame /\ CF(fn, c).fn = fn /\ CF(fn, c).call = c
    /\ \A fn \in WalkFns, n \in Lists, i \in Nat \ {0} :
          /\ Walk(fn, n, i) \in BaseFrame /\ Walk(fn, n, i).fn = fn /\ Walk(fn, n, i).n = n /\ Walk(fn, n, i).i = i
    /\ \A fn \in AtFns, s \in Servers, n \in Lists, i \in Nat \ {0} :
          /\ AF(fn, s, n, i) \in BaseFrame /\ AF(fn, s, n, i).fn = fn /\ AF(fn, s, n, i).s = s
          /\ AF(fn, s, n, i).n = n /\ AF(fn, s, n, i).i = i
BY DEF BaseFrame, User, CF, Walk, AF

LEMMA UpperMade ==
    /\ \A fn \in ReqFns, s \in Servers, r \in Nat :
          RF(fn, s, r) \in Frame /\ RF(fn, s, r).fn = fn /\ RF(fn, s, r).s = s /\ RF(fn, s, r).r = r
    /\ \A fn \in {"deactivate", "slot"}, s \in Servers :
          SF(fn, s) \in Frame /\ SF(fn, s).fn = fn /\ SF(fn, s).s = s
    /\ \A s \in Servers, line \in Seq(Nat) :
          LF(s, line) \in Frame /\ LF(s, line).fn = "failovers" /\ LF(s, line).s = s /\ LF(s, line).line = line
<1>1. ASSUME NEW fn \in ReqFns, NEW s \in Servers, NEW r \in Nat
      PROVE  RF(fn, s, r) \in Frame /\ RF(fn, s, r).fn = fn /\ RF(fn, s, r).s = s /\ RF(fn, s, r).r = r
 BY DEF Frame, RF
<1>2. ASSUME NEW fn \in {"deactivate", "slot"}, NEW s \in Servers
      PROVE  SF(fn, s) \in Frame /\ SF(fn, s).fn = fn /\ SF(fn, s).s = s
 BY DEF Frame, SF
<1>3. ASSUME NEW s \in Servers, NEW line \in Seq(Nat)
      PROVE  LF(s, line) \in Frame /\ LF(s, line).fn = "failovers" /\ LF(s, line).s = s /\ LF(s, line).line = line
 BY DEF Frame, LF
<1> QED BY <1>1, <1>2, <1>3

\* A function on top of others.
LEMMA PushTop ==
    ASSUME NEW f \in Frame, NEW k \in Seq(Frame)
    PROVE  /\ Push(f, k) \in Seq(Frame) /\ Push(f, k) # <<>>
           /\ Head(Push(f, k)) = f /\ Tail(Push(f, k)) = k
<1>1. FrontIs(Frame, f, k, Push(f, k))
 BY FrontFacts
<1> QED BY <1>1 DEF FrontIs

LEMMA PushTwo ==
    ASSUME NEW T, NEW f \in T, NEW g \in T, NEW k \in Seq(T)
    PROVE  <<f, g>> \o k = Push(f, Push(g, k))
<1>1. PICK p : p = <<f, g>> \o k
 OBVIOUS
<1>2. p \in Seq(T) /\ Len(p) = Len(k) + 2 /\ p[1] = f /\ p[2] = g /\ \A i \in 1 .. Len(k) : p[i + 2] = k[i]
 BY <1>1
<1>3. PICK u : u = Push(g, k)
 OBVIOUS
<1>4. u \in Seq(T) /\ Len(u) = Len(k) + 1 /\ u[1] = g /\ Len(k) \in Nat
      /\ \A i \in 1 .. Len(u) : i = 1 \/ (i - 1 \in 1 .. Len(k) /\ u[i] = k[i - 1])
 <2>1. FrontIs(T, g, k, u)
  BY <1>3, FrontFacts
 <2> QED BY <2>1 DEF FrontIs
<1>5. PICK v : v = Push(f, u)
 OBVIOUS
<1>6. v \in Seq(T) /\ Len(v) = Len(u) + 1 /\ v[1] = f
      /\ \A i \in 1 .. Len(v) : i = 1 \/ (i - 1 \in 1 .. Len(u) /\ v[i] = u[i - 1])
 <2>1. FrontIs(T, f, u, v)
  BY <1>4, <1>5, FrontFacts
 <2> QED BY <2>1 DEF FrontIs
<1>7. ASSUME NEW i \in 1 .. Len(p) PROVE p[i] = v[i]
 <2>1. i \in 1 .. Len(v) /\ Len(p) = Len(k) + 2
  BY <1>2, <1>4, <1>6
 <2>2. CASE i = 1
  BY <2>2, <1>2, <1>6
 <2>3. CASE i = 2
  <3>1. 2 - 1 = 1 /\ 1 \in 1 .. Len(u)
   BY <1>4
  <3> QED BY <2>1, <2>3, <3>1, <1>2, <1>4, <1>6
 <2>4. CASE i > 2
  <3>1. PICK n \in 1 .. Len(k) : i = n + 2
   <4>1. i - 2 \in 1 .. Len(k) /\ i = (i - 2) + 2
    BY <2>1, <2>4, <1>4
   <4> QED BY <4>1
  <3>2. v[i] = u[n + 1]
   <4>1. i # 1 /\ i - 1 = n + 1
    BY <3>1
   <4> QED BY <2>1, <4>1, <1>6
  <3>3. u[n + 1] = k[n]
   <4>1. n + 1 \in 1 .. Len(u) /\ n + 1 # 1 /\ (n + 1) - 1 = n
    BY <1>4
   <4> QED BY <4>1, <1>4
  <3> QED BY <3>1, <3>2, <3>3, <1>2
 <2> QED BY <2>2, <2>3, <2>4
<1>8. p = v
 BY <1>2, <1>4, <1>6, <1>7
<1> QED BY <1>1, <1>3, <1>5, <1>8

LEMMA BaseSeq ==
    ASSUME NEW B, IsBase(B)
    PROVE  /\ B \in Seq(BaseFrame) /\ B \in Seq(Frame) /\ B # <<>>
           /\ Head(B) \in BaseFrame /\ Head(B) \in Frame /\ Head(B) = B[1]
           /\ Tail(B) \in Seq(BaseFrame) /\ Tail(B) \in Seq(Frame) /\ B = Push(Head(B), Tail(B))
<1>1. B \in Seq(BaseFrame) /\ B # <<>>
 BY DEF IsBase
<1>2. BaseFrame \subseteq Frame
 BY DEF Frame
<1>3. Seq(BaseFrame) \subseteq Seq(Frame)
 BY <1>2, SeqMono
<1>4. Head(B) \in BaseFrame /\ Tail(B) \in Seq(BaseFrame) /\ Head(B) = B[1] /\ B = Push(Head(B), Tail(B))
 BY <1>1, HeadTail
<1> QED BY <1>1, <1>2, <1>3, <1>4

\* What a function that returns came from.
LEMMA BasePop ==
    ASSUME NEW B, IsBase(B), Head(B) # User("script")
    PROVE  IsBase(Tail(B)) /\ Fits(Head(B), Head(Tail(B)))
<1>1. /\ B \in Seq(BaseFrame) /\ B # <<>> /\ B[Len(B)] = User("script")
      /\ \A j \in 1 .. Len(B) - 1 : Fits(B[j], B[j + 1])
 BY DEF IsBase
<1>2. PICK t : t = Tail(B)
 OBVIOUS
<1>3. PICK h : h = Head(B)
 OBVIOUS
<1>4. h \in BaseFrame /\ t \in Seq(BaseFrame) /\ B = Push(h, t) /\ h = B[1]
 BY <1>2, <1>3, BaseSeq
<1>5. FrontIs(BaseFrame, h, t, B)
 BY <1>4, FrontFacts
<1>6. /\ Len(t) \in Nat /\ Len(B) = Len(t) + 1
      /\ \A i \in 1 .. Len(t) : B[i + 1] = t[i]
 BY <1>5 DEF FrontIs
<1>7. Len(t) # 0
 BY <1>1, <1>3, <1>4, <1>6
<1>8. t # <<>>
 BY <1>7, EmptyFacts
<1>9. t[Len(t)] = User("script")
 <2>1. Len(t) \in 1 .. Len(t)
  BY <1>6, <1>7
 <2> QED BY <2>1, <1>1, <1>6
<1>10. ASSUME NEW j \in 1 .. Len(t) - 1 PROVE Fits(t[j], t[j + 1])
 <2>1. j \in 1 .. Len(t) /\ j + 1 \in 1 .. Len(t) /\ j + 1 \in 1 .. Len(B) - 1
  BY <1>6
 <2>2. t[j] = B[j + 1] /\ t[j + 1] = B[(j + 1) + 1]
  BY <2>1, <1>6
 <2> QED BY <2>1, <2>2, <1>1
<1>11. IsBase(t)
 BY <1>4, <1>8, <1>9, <1>10 DEF IsBase
<1>12. Fits(h, Head(t))
 <2>1. 1 \in 1 .. Len(B) - 1 /\ 1 \in 1 .. Len(t)
  BY <1>6, <1>7
 <2>2. Fits(B[1], B[1 + 1]) /\ B[1 + 1] = t[1]
  BY <2>1, <1>1, <1>6
 <2>3. Head(t) = t[1]
  BY <1>4, <1>8, HeadTail
 <2> QED BY <2>2, <2>3, <1>4
<1> QED BY <1>2, <1>3, <1>11, <1>12

\* A function is called.
LEMMA BasePush ==
    ASSUME NEW B, IsBase(B), NEW f \in BaseFrame, Fits(f, Head(B))
    PROVE  IsBase(Push(f, B)) /\ Head(Push(f, B)) = f /\ Tail(Push(f, B)) = B
<1>1. /\ B \in Seq(BaseFrame) /\ B # <<>> /\ B[Len(B)] = User("script")
      /\ \A j \in 1 .. Len(B) - 1 : Fits(B[j], B[j + 1])
 BY DEF IsBase
<1>2. PICK u : u = Push(f, B)
 OBVIOUS
<1>3. FrontIs(BaseFrame, f, B, u)
 BY <1>1, <1>2, FrontFacts
<1>4. /\ u \in Seq(BaseFrame) /\ u # <<>> /\ Len(B) \in Nat /\ Len(u) = Len(B) + 1
      /\ Head(u) = f /\ Tail(u) = B /\ u[1] = f
      /\ \A i \in 1 .. Len(B) : u[i + 1] = B[i]
 BY <1>3 DEF FrontIs
<1>5. Len(B) # 0
 BY <1>1
<1>6. u[Len(u)] = User("script")
 <2>1. Len(B) \in 1 .. Len(B)
  BY <1>4, <1>5
 <2> QED BY <2>1, <1>1, <1>4
<1>7. ASSUME NEW j \in 1 .. Len(u) - 1 PROVE Fits(u[j], u[j + 1])
 <2>1. j \in 1 .. Len(B) /\ u[j + 1] = B[j]
  BY <1>4
 <2>2. CASE j = 1
  <3>1. B[1] = Head(B)
   BY <1>1, HeadTail
  <3> QED BY <2>1, <2>2, <3>1, <1>4
 <2>3. CASE j # 1
  <3>1. PICK i \in 1 .. Len(B) - 1 : j = i + 1
   <4>1. j - 1 \in 1 .. Len(B) - 1 /\ j = (j - 1) + 1
    BY <2>1, <2>3, <1>4
   <4> QED BY <4>1
  <3>2. i \in 1 .. Len(B)
   BY <1>4
  <3>3. u[j] = B[i]
   BY <3>1, <3>2, <1>4
  <3> QED BY <2>1, <3>1, <3>3, <1>1
 <2> QED BY <2>2, <2>3
<1>8. IsBase(u)
 BY <1>4, <1>6, <1>7 DEF IsBase
<1> QED BY <1>2, <1>4, <1>8

\* A function goes on as another.
LEMMA BaseSwap ==
    ASSUME NEW B, IsBase(B), Head(B) # User("script"), NEW f \in BaseFrame, Fits(f, Head(Tail(B)))
    PROVE  IsBase(Push(f, Tail(B))) /\ Head(Push(f, Tail(B))) = f /\ Tail(Push(f, Tail(B))) = Tail(B)
<1>1. PICK t : t = Tail(B)
 OBVIOUS
<1>2. IsBase(t) /\ Fits(f, Head(t))
 BY <1>1, BasePop
<1>3. IsBase(Push(f, t)) /\ Head(Push(f, t)) = f /\ Tail(Push(f, t)) = t
 BY <1>2, BasePush
<1> QED BY <1>1, <1>3

\* Calls that have not returned.
LEMMA OpenPush ==
    ASSUME NEW B, IsBase(B), NEW f \in BaseFrame, NEW c
    PROVE  OpenIn(Push(f, B), c) <=> (f.fn \in CallFns /\ f.call = c) \/ OpenIn(B, c)
<1>1. B \in Seq(BaseFrame)
 BY DEF IsBase
<1>2. PICK u : u = Push(f, B)
 OBVIOUS
<1>3. FrontIs(BaseFrame, f, B, u)
 BY <1>1, <1>2, FrontFacts
<1>4. /\ Len(B) \in Nat /\ Len(u) = Len(B) + 1 /\ u[1] = f
      /\ \A i \in 1 .. Len(B) : u[i + 1] = B[i]
      /\ \A i \in 1 .. Len(u) : i = 1 \/ (i - 1 \in 1 .. Len(B) /\ u[i] = B[i - 1])
 BY <1>3 DEF FrontIs
<1>5. 1 \in 1 .. Len(u) /\ \A i \in 1 .. Len(B) : i + 1 \in 1 .. Len(u)
 BY <1>4
<1>6. OpenIn(u, c) <=> (f.fn \in CallFns /\ f.call = c) \/ OpenIn(B, c)
 BY <1>4, <1>5 DEF OpenIn
<1> QED BY <1>2, <1>6

\* The topmost walk.
LEMMA AtPush ==
    ASSUME NEW B, IsBase(B), NEW f \in BaseFrame, NEW g, ~Walking(f)
    PROVE  At(Push(f, B), g) <=> At(B, g)
<1>1. B \in Seq(BaseFrame)
 BY DEF IsBase
<1>2. PICK u : u = Push(f, B)
 OBVIOUS
<1>3. FrontIs(BaseFrame, f, B, u)
 BY <1>1, <1>2, FrontFacts
<1>4. /\ Len(B) \in Nat /\ Len(u) = Len(B) + 1 /\ u[1] = f
      /\ \A i \in 1 .. Len(B) : u[i + 1] = B[i]
      /\ \A i \in 1 .. Len(u) : i = 1 \/ (i - 1 \in 1 .. Len(B) /\ u[i] = B[i - 1])
 BY <1>3 DEF FrontIs
<1>5. ASSUME At(u, g) PROVE At(B, g)
 <2>1. PICK j \in 1 .. Len(u) : u[j] = g /\ Walking(g) /\ \A k \in 1 .. j - 1 : ~Walking(u[k])
  BY <1>5 DEF At
 <2>2. j # 1
  BY <2>1, <1>4
 <2>3. j - 1 \in 1 .. Len(B) /\ B[j - 1] = g
  BY <2>1, <2>2, <1>4
 <2>4. ASSUME NEW k \in 1 .. (j - 1) - 1 PROVE ~Walking(B[k])
  <3>1. k + 1 \in 1 .. j - 1 /\ k \in 1 .. Len(B)
   BY <2>3, <1>4
  <3> QED BY <3>1, <2>1, <1>4
 <2> QED BY <2>1, <2>3, <2>4 DEF At
<1>6. ASSUME At(B, g) PROVE At(u, g)
 <2>1. PICK j \in 1 .. Len(B) : B[j] = g /\ Walking(g) /\ \A k \in 1 .. j - 1 : ~Walking(B[k])
  BY <1>6 DEF At
 <2>2. j + 1 \in 1 .. Len(u) /\ u[j + 1] = g
  BY <2>1, <1>4
 <2>3. ASSUME NEW k \in 1 .. (j + 1) - 1 PROVE ~Walking(u[k])
  <3>1. CASE k = 1
   BY <3>1, <1>4
  <3>2. CASE k # 1
   <4>1. k - 1 \in 1 .. j - 1 /\ k \in 1 .. Len(u)
    BY <3>2, <1>4
   <4> QED BY <4>1, <3>2, <2>1, <1>4
  <3> QED BY <3>1, <3>2
 <2> QED BY <2>1, <2>2, <2>3 DEF At
<1> QED BY <1>2, <1>5, <1>6

LEMMA AtTop ==
    ASSUME NEW B, IsBase(B), NEW g, Walking(Head(B))
    PROVE  At(B, g) <=> g = Head(B)
<1>1. B \in Seq(BaseFrame) /\ B # <<>> /\ Head(B) = B[1] /\ Len(B) \in Nat /\ Len(B) # 0
 BY BaseSeq
<1>2. 1 \in 1 .. Len(B)
 BY <1>1
<1>3. ASSUME At(B, g) PROVE g = B[1]
 <2>1. PICK j \in 1 .. Len(B) : B[j] = g /\ Walking(g) /\ \A k \in 1 .. j - 1 : ~Walking(B[k])
  BY <1>3 DEF At
 <2>2. j = 1
  <3> SUFFICES ASSUME j # 1 PROVE FALSE
   OBVIOUS
  <3>1. 1 \in 1 .. j - 1
   BY <1>1
  <3> QED BY <3>1, <2>1, <1>1
 <2> QED BY <2>1, <2>2
<1>4. At(B, B[1])
 <2>1. \A k \in 1 .. 1 - 1 : FALSE
  OBVIOUS
 <2> QED BY <1>1, <1>2, <2>1 DEF At
<1> QED BY <1>1, <1>3, <1>4

--------------------
(* Where requests are. *)

But(mm, nn, s) == \A t \in Servers : t # s => nn[t] = mm[t]

LEMMA LineBut ==
    ASSUME NEW mm, NEW nn, NEW s \in Servers, But(mm, nn, s), NEW t \in Servers, t # s
    PROVE  InLine(nn, t) = InLine(mm, t) /\ nn[t] = mm[t]
BY DEF InLine, But

\* A request that is scheduled.
LEMMA PlacedJoin ==
    ASSUME NEW mm, NEW nn, NEW s \in Servers, But(mm, nn, s), NEW r, NEW H, NEW K, NEW F, NEW D,
           Placed(mm, K, F, D), K = H \cup {r}, r \notin H, InLine(nn, s) = InLine(mm, s) \cup {r}
    PROVE  Placed(nn, H, F, D)
<1>1. \A t \in Servers : t # s => InLine(nn, t) = InLine(mm, t)
 BY LineBut
<1> QED BY <1>1 DEF Placed

\* One that is released.
LEMMA PlacedFree ==
    ASSUME NEW mm, NEW r, NEW H, NEW K, NEW F, NEW D, Placed(mm, K, F, D), K = H \cup {r}, r \notin H
    PROVE  Placed(mm, H, F \cup {r}, D)
BY DEF Placed

\* A server's lines change, its requests do not.
LEMMA PlacedSame ==
    ASSUME NEW mm, NEW nn, NEW s \in Servers, But(mm, nn, s), NEW H, NEW F, NEW D,
           Placed(mm, H, F, D), InLine(nn, s) = InLine(mm, s)
    PROVE  Placed(nn, H, F, D)
<1>1. \A t \in Servers : InLine(nn, t) = InLine(mm, t)
 BY LineBut
<1> QED BY <1>1 DEF Placed

\* A server loses what it has.
LEMMA PlacedDrain ==
    ASSUME NEW mm, NEW nn, NEW s \in Servers, But(mm, nn, s), NEW F, NEW D,
           Placed(mm, {}, F, D), InLine(nn, s) = {}
    PROVE  Placed(nn, InLine(mm, s), F, D)
<1>1. \A t \in Servers : t # s => InLine(nn, t) = InLine(mm, t)
 BY LineBut
<1> QED BY <1>1 DEF Placed

\* An answer was read.
LEMMA PlacedDone ==
    ASSUME NEW mm, NEW nn, NEW s \in Servers, But(mm, nn, s), NEW r, NEW H, NEW F, NEW D,
           Placed(mm, H, F, D), r \in InLine(mm, s), InLine(nn, s) = InLine(mm, s) \ {r}
    PROVE  Placed(nn, H, F \cup {r}, D)
<1>1. \A t \in Servers : t # s => InLine(nn, t) = InLine(mm, t)
 BY LineBut
<1> QED BY <1>1 DEF Placed

\* A new request.
LEMMA PlacedNew ==
    ASSUME NEW mm, NEW F, NEW n \in Nat, Placed(mm, {}, F, 1 .. n)
    PROVE  Placed(mm, {n + 1}, F, 1 .. n + 1)
<1>1. /\ \A r : r \in 1 .. n + 1 <=> r \in 1 .. n \/ r = n + 1
      /\ n + 1 \notin 1 .. n
 OBVIOUS
<1>2. \A r : r \in {n + 1} <=> r = n + 1
 OBVIOUS
<1> QED BY <1>1, <1>2 DEF Placed

--------------------
(* Calls. *)

SameCalls(rq, rr) == Len(rr) = Len(rq) /\ \A r \in 1 .. Len(rq) : rr[r].call = rq[r].call

\* A walk is on top: nothing is said of the call that began it.
LEMMA CallsWalk ==
    ASSUME NEW sel, NEW F, NEW mm, NEW rq, NEW B, NEW H, NEW rt, CallsOK(sel, F, mm, rq, B, H, rt),
           NEW sel2, NEW F2, NEW nn, NEW rr, NEW B2, NEW H2, NEW rt2,
           F \subseteq F2, SameCalls(rq, rr), \A c : OpenIn(B2, c) <=> OpenIn(B, c),
           Head(B2).fn \notin CallFns
    PROVE  CallsOK(sel2, F2, nn, rr, B2, H2, rt2)
<1>1. "single" \in CallFns
 BY DEF CallFns
<1> QED BY <1>1 DEF CallsOK, SameCalls

\* A request joins the line to send of a server.
LEMMA CallsJoin ==
    ASSUME NEW sel, NEW F, NEW mm, NEW rq, NEW B, NEW H, NEW K, NEW r, NEW rt, CallsOK(sel, F, mm, rq, B, K, rt),
           K = H \cup {r}, r \notin H, NEW nn,
           \A x : InSend(mm, x) => InSend(nn, x), InSend(nn, r)
    PROVE  CallsOK(sel, F, nn, rq, B, H, "ok")
<1>1. Head(B).fn = "single" => H = {}
 BY DEF CallsOK
<1>2. \A x : x \in K => x \in H \/ InSend(nn, x)
 OBVIOUS
<1> QED BY <1>1, <1>2 DEF CallsOK

\* A request that no server takes.
LEMMA CallsFree ==
    ASSUME NEW sel, NEW F, NEW mm, NEW rq, NEW B, NEW H, NEW K, NEW r, NEW rt, CallsOK(sel, F, mm, rq, B, K, rt),
           K = H \cup {r}, r \notin H, NEW rr, SameCalls(rq, rr), NEW F2, F2 = F \cup {r}
    PROVE  CallsOK(sel, F2, mm, rr, B, H, "failure")
<1>1. Head(B).fn = "single" => H = {} /\ Head(B).call \in F2
 BY DEF CallsOK
<1>2. \A x : (x \in K => x \in H \/ x \in F2) /\ (x \in F => x \in F2)
 OBVIOUS
<1> QED BY <1>1, <1>2 DEF CallsOK, SameCalls

LEMMA CallsSame ==
    ASSUME NEW sel, NEW F, NEW mm, NEW rq, NEW B, NEW H, NEW rt, CallsOK(sel, F, mm, rq, B, H, rt),
           NEW nn, NEW rr, SameCalls(rq, rr), \A x : InSend(mm, x) => InSend(nn, x)
    PROVE  CallsOK(sel, F, nn, rr, B, H, rt)
BY DEF CallsOK, SameCalls

--------------------
(* Lists. *)

\* Core, of one server.
CoreAt(t, S, R, rf, Sd, Rd, Fr, X, P, Q, Y, Z) ==
    /\ t \notin X =>
          /\ t \in S => t \in Sd
          /\ t \in Sd => t \in S \/ t \in P
          /\ t \in R => t \in Rd
          /\ t \in Rd => t \in R \/ t \in Q
          /\ t \in rf /\ t \in R => t \in Fr
    /\ t \in Y => t \notin X /\ t \notin S /\ t \in Sd /\ ~(t \in rf /\ t \in R)
    /\ t \in Z => t \notin X /\ t \notin R /\ t \in Rd /\ t \notin rf

LEMMA CoreIs ==
    ASSUME NEW S, NEW R, NEW rf, NEW Sd, NEW Rd, NEW Fr, NEW X, NEW P, NEW Q, NEW Y, NEW Z
    PROVE  Core(S, R, rf, Sd, Rd, Fr, X, P, Q, Y, Z)
             <=> \A t \in Servers : CoreAt(t, S, R, rf, Sd, Rd, Fr, X, P, Q, Y, Z)
BY DEF Core, CoreAt

\* Sets that agree on all servers but one.
Same(s, A, A2) == \A t \in Servers : t # s => (t \in A2 <=> t \in A)
Less(s, A, A2) == \A t \in Servers : t # s => (t \in A2 => t \in A)

LEMMA CoreOne ==
    ASSUME NEW s,
           NEW S, NEW R, NEW rf, NEW Sd, NEW Rd, NEW Fr, NEW X, NEW P, NEW Q, NEW Y, NEW Z,
           Core(S, R, rf, Sd, Rd, Fr, X, P, Q, Y, Z),
           NEW S2, NEW R2, NEW rf2, NEW Sd2, NEW Rd2, NEW Fr2, NEW X2, NEW P2, NEW Q2, NEW Y2, NEW Z2,
           Same(s, S, S2), Same(s, R, R2), Less(s, rf, rf2), Same(s, Sd, Sd2), Same(s, Rd, Rd2), Same(s, Fr, Fr2),
           Same(s, X, X2), Same(s, P, P2), Same(s, Q, Q2), Less(s, Y, Y2), Less(s, Z, Z2),
           CoreAt(s, S2, R2, rf2, Sd2, Rd2, Fr2, X2, P2, Q2, Y2, Z2)
    PROVE  Core(S2, R2, rf2, Sd2, Rd2, Fr2, X2, P2, Q2, Y2, Z2)
<1> SUFFICES ASSUME NEW t \in Servers PROVE CoreAt(t, S2, R2, rf2, Sd2, Rd2, Fr2, X2, P2, Q2, Y2, Z2)
 BY CoreIs
<1>1. CoreAt(t, S, R, rf, Sd, Rd, Fr, X, P, Q, Y, Z)
 BY CoreIs
<1>2. CASE t = s
 BY <1>2
<1>3. CASE t # s
 BY <1>1, <1>3 DEF CoreAt, Same, Less
<1> QED BY <1>2, <1>3

\* The sets of Core, for a server that changes.
LEMMA SetsBut ==
    ASSUME NEW mm, NEW nn, NEW aa, NEW bb, NEW s \in Servers, But(mm, nn, s), But(aa, bb, s)
    PROVE  /\ Same(s, Sends(mm), Sends(nn)) /\ Same(s, Reads(mm), Reads(nn))
           /\ Same(s, Fresh(mm, aa), Fresh(nn, bb))
           /\ s \in Sends(nn) <=> nn[s].sendreq # NULL
           /\ s \in Reads(nn) <=> nn[s].readreq # NULL
           /\ s \in Fresh(nn, bb) <=> bb[s] = <<>> /\ ~nn[s].part
BY DEF But, Same, Sends, Reads, Fresh

LEMMA SetsAt ==
    ASSUME NEW mm, NEW aa, NEW s \in Servers
    PROVE  /\ s \in Sends(mm) <=> mm[s].sendreq # NULL
           /\ s \in Reads(mm) <=> mm[s].readreq # NULL
           /\ s \in Fresh(mm, aa) <=> aa[s] = <<>> /\ ~mm[s].part
BY DEF Sends, Reads, Fresh

\* The lists that are filled, and nothing else.
Filled(po, qo, S, R) ==
    /\ qo \in Pool /\ SC(qo) = S /\ RC(qo) = R /\ Other(qo) = Other(po) /\ qo.free = po.free
    /\ qo.rfds = po.rfds /\ qo.in_select = po.in_select /\ qo.cur = po.cur

LEMMA PoolIs ==
    ASSUME NEW po \in Pool
    PROVE  /\ po.cur \in Lists /\ 3 - po.cur \in Lists /\ 3 - po.cur # po.cur
           /\ po.sending[po.cur] \in Seq(Servers) /\ po.reading[po.cur] \in Seq(Servers)
           /\ po.sending[3 - po.cur] \in Seq(Servers) /\ po.reading[3 - po.cur] \in Seq(Servers)
           /\ po.sending \in [Lists -> Seq(Servers)] /\ po.reading \in [Lists -> Seq(Servers)]
           /\ po.in_select \in BOOLEAN /\ po.wfds \in SUBSET Servers /\ po.rfds \in SUBSET Servers
           /\ po.free \in SUBSET Nat
           /\ SC(po) \subseteq Servers /\ RC(po) \subseteq Servers
<1>1. /\ po.sending \in [Lists -> Seq(Servers)] /\ po.reading \in [Lists -> Seq(Servers)] /\ po.cur \in Lists
      /\ po.in_select \in BOOLEAN /\ po.wfds \in SUBSET Servers /\ po.rfds \in SUBSET Servers
      /\ po.free \in SUBSET Nat
 BY DEF Pool
<1>2. 3 - po.cur \in Lists /\ 3 - po.cur # po.cur
 BY <1>1 DEF Lists
<1>3. /\ po.sending[po.cur] \in Seq(Servers) /\ po.reading[po.cur] \in Seq(Servers)
      /\ po.sending[3 - po.cur] \in Seq(Servers) /\ po.reading[3 - po.cur] \in Seq(Servers)
 BY <1>1, <1>2
<1>4. SC(po) \subseteq Servers /\ RC(po) \subseteq Servers
 BY <1>3, SeqFacts DEF SC, RC
<1> QED BY <1>1, <1>2, <1>3, <1>4

LEMMA FillBoth ==
    ASSUME NEW po \in Pool, NEW x \in Seq(Servers), NEW y \in Seq(Servers), NEW qo,
           qo = [po EXCEPT !.sending[po.cur] = x, !.reading[po.cur] = y]
    PROVE  Filled(po, qo, ToSet(x), ToSet(y))
<1>1. /\ po.cur \in Lists /\ 3 - po.cur \in Lists /\ 3 - po.cur # po.cur
      /\ po.sending \in [Lists -> Seq(Servers)] /\ po.reading \in [Lists -> Seq(Servers)]
 BY PoolIs
<1>2. /\ qo.cur = po.cur /\ qo.free = po.free /\ qo.rfds = po.rfds /\ qo.wfds = po.wfds /\ qo.in_select = po.in_select
      /\ qo.sending = [po.sending EXCEPT ![po.cur] = x] /\ qo.reading = [po.reading EXCEPT ![po.cur] = y]
 BY DEF Pool
<1>3. /\ qo.sending[po.cur] = x /\ qo.reading[po.cur] = y
      /\ qo.sending[3 - po.cur] = po.sending[3 - po.cur] /\ qo.reading[3 - po.cur] = po.reading[3 - po.cur]
      /\ qo.sending \in [Lists -> Seq(Servers)] /\ qo.reading \in [Lists -> Seq(Servers)]
 BY <1>1, <1>2
<1>4. qo \in Pool
 BY <1>3 DEF Pool
<1> QED BY <1>2, <1>3, <1>4 DEF Filled, SC, RC, Other

LEMMA FillSending ==
    ASSUME NEW po \in Pool, NEW x \in Seq(Servers), NEW qo, qo = [po EXCEPT !.sending[po.cur] = x]
    PROVE  Filled(po, qo, ToSet(x), RC(po))
<1>1. /\ po.cur \in Lists /\ 3 - po.cur \in Lists /\ 3 - po.cur # po.cur
      /\ po.sending \in [Lists -> Seq(Servers)] /\ po.reading \in [Lists -> Seq(Servers)]
 BY PoolIs
<1>2. /\ qo.cur = po.cur /\ qo.free = po.free /\ qo.rfds = po.rfds /\ qo.wfds = po.wfds /\ qo.in_select = po.in_select
      /\ qo.sending = [po.sending EXCEPT ![po.cur] = x] /\ qo.reading = po.reading
 BY DEF Pool
<1>3. /\ qo.sending[po.cur] = x
      /\ qo.sending[3 - po.cur] = po.sending[3 - po.cur]
      /\ qo.sending \in [Lists -> Seq(Servers)]
 BY <1>1, <1>2
<1>4. qo \in Pool
 BY <1>1, <1>2, <1>3 DEF Pool
<1> QED BY <1>2, <1>3, <1>4 DEF Filled, SC, RC, Other

LEMMA FillReading ==
    ASSUME NEW po \in Pool, NEW y \in Seq(Servers), NEW qo, qo = [po EXCEPT !.reading[po.cur] = y]
    PROVE  Filled(po, qo, SC(po), ToSet(y))
<1>1. /\ po.cur \in Lists /\ 3 - po.cur \in Lists /\ 3 - po.cur # po.cur
      /\ po.sending \in [Lists -> Seq(Servers)] /\ po.reading \in [Lists -> Seq(Servers)]
 BY PoolIs
<1>2. /\ qo.cur = po.cur /\ qo.free = po.free /\ qo.rfds = po.rfds /\ qo.wfds = po.wfds /\ qo.in_select = po.in_select
      /\ qo.reading = [po.reading EXCEPT ![po.cur] = y] /\ qo.sending = po.sending
 BY DEF Pool
<1>3. /\ qo.reading[po.cur] = y
      /\ qo.reading[3 - po.cur] = po.reading[3 - po.cur]
      /\ qo.reading \in [Lists -> Seq(Servers)]
 BY <1>1, <1>2
<1>4. qo \in Pool
 BY <1>1, <1>2, <1>3 DEF Pool
<1> QED BY <1>2, <1>3, <1>4 DEF Filled, SC, RC, Other

\* Members that were walked are not walked again.
LEMMA FromIs ==
    ASSUME NEW q \in Seq(Servers), NEW i \in Nat \ {0}
    PROVE  /\ i \in 1 .. Len(q) => /\ From(q, i) = {q[i]} \cup From(q, i + 1)
                                  /\ q[i] \in Servers /\ q[i] \in From(q, i) /\ q[i] \in ToSet(q)
           /\ i > Len(q) => From(q, i) = {}
           /\ From(q, 1) = ToSet(q)
           /\ i \in 1 .. Len(q) \/ i > Len(q)
<1>1. Len(q) \in Nat /\ (\A j \in 1 .. Len(q) : q[j] \in Servers) /\ ToSet(q) = {q[j] : j \in 1 .. Len(q)}
 BY SeqFacts
<1>2. ASSUME i \in 1 .. Len(q) PROVE From(q, i) = {q[i]} \cup From(q, i + 1)
 <2>1. \A j : j \in i .. Len(q) <=> j = i \/ j \in i + 1 .. Len(q)
  BY <1>1, <1>2
 <2> QED BY <2>1 DEF From
<1>3. i > Len(q) => From(q, i) = {}
 <2>1. i > Len(q) => i .. Len(q) = {}
  BY <1>1
 <2> QED BY <2>1 DEF From
<1>4. From(q, 1) = ToSet(q)
 BY <1>1 DEF From
<1> QED BY <1>1, <1>2, <1>3, <1>4

--------------------
(* What is on top of the stack tells the rest. *)

BaseFns == {"user"} \cup CallFns \cup WalkFns \cup AtFns

LEMMA OverSeq ==
    ASSUME NEW B, IsBase(B), NEW R, NEW HR, Over(R, B, HR)
    PROVE  /\ R \in Seq(Frame) /\ R # <<>> /\ Head(R) \in Frame
           /\ HR \subseteq Nat
           /\ Head(R).fn \in BaseFns \cup {"failovers"}
           /\ Head(R).fn \in BaseFns => R = B /\ HR = {}
<1>1. /\ B \in Seq(BaseFrame) /\ B \in Seq(Frame) /\ B # <<>>
      /\ Head(B) \in BaseFrame /\ Head(B) \in Frame /\ Head(B) = B[1]
      /\ Tail(B) \in Seq(BaseFrame) /\ Tail(B) \in Seq(Frame) /\ B = Push(Head(B), Tail(B))
 BY BaseSeq
<1>2. Head(B).fn \in BaseFns
 BY <1>1, FrameHas DEF BaseFns
<1>3. CASE R = B /\ HR = {}
 BY <1>1, <1>2, <1>3
<1>4. ASSUME NEW s \in Servers, NEW line \in Seq(Nat), R = Push(LF(s, line), B), HR = ToSet(line)
      PROVE  /\ R \in Seq(Frame) /\ R # <<>> /\ Head(R) \in Frame
             /\ HR \subseteq Nat
             /\ Head(R).fn \in BaseFns \cup {"failovers"}
             /\ Head(R).fn \in BaseFns => R = B /\ HR = {}
 <2>1. LF(s, line) \in Frame /\ LF(s, line).fn = "failovers"
  BY UpperMade
 <2>2. R \in Seq(Frame) /\ R # <<>> /\ Head(R) = LF(s, line)
  BY <2>1, <1>1, <1>4, PushTop
 <2>3. ToSet(line) \subseteq Nat
  BY DEF ToSet
 <2>4. "failovers" \notin BaseFns
  BY DEF BaseFns, CallFns, WalkFns, AtFns
 <2> QED BY <2>1, <2>2, <2>3, <2>4, <1>4
<1> QED BY <1>3, <1>4 DEF Over

LEMMA RFHas ==
    ASSUME NEW fn \in ReqFns, NEW s \in Servers, NEW r \in Nat
    PROVE  RF(fn, s, r) \in Frame /\ RF(fn, s, r).fn = fn /\ RF(fn, s, r).s = s /\ RF(fn, s, r).r = r
BY DEF Frame, RF

LEMMA SFHas ==
    ASSUME NEW fn \in {"deactivate", "slot"}, NEW s \in Servers
    PROVE  SF(fn, s) \in Frame /\ SF(fn, s).fn = fn /\ SF(fn, s).s = s
BY DEF Frame, SF

\* The functions that are called with one request, and those that wait with it.
LEMMA ChainTop ==
    ASSUME NEW st, NEW mm, NEW aa, NEW B, NEW H, NEW X, IsBase(B), NEW fn, NEW s, NEW r, NEW R, NEW HR,
           ShChain(fn, s, r, R, HR, st, mm, aa, B, H, X)
    PROVE  /\ st \in Seq(Frame) /\ st # <<>> /\ Head(st) = RF(fn, s, r) /\ Tail(st) = R
           /\ Head(st).fn = fn /\ Head(st).s = s /\ Head(st).r = r
<1>1. s \in Servers /\ r \in Nat /\ fn \in ReqFns /\ st = Push(RF(fn, s, r), R) /\ R \in Seq(Frame)
 BY OverSeq DEF ShChain, ReqFns
<1>2. RF(fn, s, r) \in Frame /\ RF(fn, s, r).fn = fn /\ RF(fn, s, r).s = s /\ RF(fn, s, r).r = r
 BY <1>1, RFHas
<1>3. st \in Seq(Frame) /\ st # <<>> /\ Head(st) = RF(fn, s, r) /\ Tail(st) = R
 BY <1>1, <1>2, PushTop
<1> QED BY <1>2, <1>3

LEMMA RefDeactTop ==
    ASSUME NEW st, NEW mm, NEW aa, NEW B, NEW H, NEW X, IsBase(B), NEW s, NEW r, NEW R, NEW HR,
           ShRefDeact(s, r, R, HR, st, mm, aa, B, H, X)
    PROVE  /\ st \in Seq(Frame) /\ st # <<>> /\ Head(st) = SF("deactivate", s)
           /\ Tail(st) = Push(RF("refused", s, r), R)
           /\ Head(st).fn = "deactivate" /\ Head(st).s = s
<1>1. /\ s \in Servers /\ r \in Nat /\ st = Push(SF("deactivate", s), Push(RF("refused", s, r), R))
      /\ R \in Seq(Frame) /\ "refused" \in ReqFns
 BY OverSeq DEF ShRefDeact, ReqFns
<1>2. RF("refused", s, r) \in Frame
 BY <1>1, RFHas
<1>3. Push(RF("refused", s, r), R) \in Seq(Frame)
 BY <1>1, <1>2, PushTop
<1>4. SF("deactivate", s) \in Frame /\ SF("deactivate", s).fn = "deactivate" /\ SF("deactivate", s).s = s
 BY <1>1, SFHas
<1>5. PICK k : k = Push(RF("refused", s, r), R)
 OBVIOUS
<1>6. st \in Seq(Frame) /\ st # <<>> /\ Head(st) = SF("deactivate", s) /\ Tail(st) = k
 BY <1>1, <1>3, <1>4, <1>5, PushTop
<1> QED BY <1>4, <1>5, <1>6

LEMMA ServerTop ==
    ASSUME NEW st, NEW B, IsBase(B), NEW fn \in {"deactivate", "slot"}, NEW s \in Servers, st = Push(SF(fn, s), B)
    PROVE  /\ st \in Seq(Frame) /\ st # <<>> /\ Head(st) = SF(fn, s) /\ Tail(st) = B
           /\ Head(st).fn = fn /\ Head(st).s = s
<1>1. SF(fn, s) \in Frame /\ SF(fn, s).fn = fn /\ SF(fn, s).s = s
 BY SFHas
<1>2. B \in Seq(Frame)
 BY BaseSeq
<1>3. st \in Seq(Frame) /\ st # <<>> /\ Head(st) = SF(fn, s) /\ Tail(st) = B
 BY <1>1, <1>2, PushTop
<1> QED BY <1>1, <1>3

LEMMA RequestTop ==
    ASSUME NEW st, NEW B, IsBase(B), NEW fn \in ReqFns, NEW s \in Servers, NEW r \in Nat, st = Push(RF(fn, s, r), B)
    PROVE  /\ st \in Seq(Frame) /\ st # <<>> /\ Head(st) = RF(fn, s, r) /\ Tail(st) = B
           /\ Head(st).fn = fn /\ Head(st).s = s /\ Head(st).r = r
<1>1. RF(fn, s, r) \in Frame /\ RF(fn, s, r).fn = fn /\ RF(fn, s, r).s = s /\ RF(fn, s, r).r = r
 BY RFHas
<1>2. B \in Seq(Frame)
 BY BaseSeq
<1>3. st \in Seq(Frame) /\ st # <<>> /\ Head(st) = RF(fn, s, r) /\ Tail(st) = B
 BY <1>1, <1>2, PushTop
<1> QED BY <1>1, <1>3

LEMMA SlotRetryTop ==
    ASSUME NEW st, NEW B, IsBase(B), NEW s \in Servers, NEW r \in Nat,
           st = Push(SF("slot", s), Push(RF("retry_send", s, r), B))
    PROVE  /\ st \in Seq(Frame) /\ st # <<>> /\ Head(st) = SF("slot", s)
           /\ Tail(st) = Push(RF("retry_send", s, r), B)
           /\ Head(st).fn = "slot" /\ Head(st).s = s
<1>1. "retry_send" \in ReqFns /\ B \in Seq(Frame)
 BY BaseSeq DEF ReqFns
<1>2. RF("retry_send", s, r) \in Frame
 BY <1>1, RFHas
<1>3. Push(RF("retry_send", s, r), B) \in Seq(Frame)
 BY <1>1, <1>2, PushTop
<1>4. SF("slot", s) \in Frame /\ SF("slot", s).fn = "slot" /\ SF("slot", s).s = s
 BY SFHas
<1>5. PICK k : k = Push(RF("retry_send", s, r), B)
 OBVIOUS
<1>6. st \in Seq(Frame) /\ st # <<>> /\ Head(st) = SF("slot", s) /\ Tail(st) = k
 BY <1>3, <1>4, <1>5, PushTop
<1> QED BY <1>4, <1>5, <1>6

\* The shape, by the function on top.
ShapeIs(S, st, mm, aa, B, H, X) ==
    /\ st \in Seq(Frame) /\ st # <<>>
    /\ Head(st).fn \in BaseFns \cup ReqFns \cup {"deactivate", "slot", "failovers"}
    /\ Head(st).fn \in BaseFns \ {"read_early"} =>
          st = B /\ H = {} /\ X = {} /\ AllQuiet(mm, aa, {})
    /\ Head(st).fn = "read_early" => st = B /\ ShEarly(Head(st).s, st, mm, aa, B, H, X)
    /\ Head(st).fn = "failovers" => \E s \in Servers, line \in Seq(Nat) :
          /\ line # <<>> /\ Inj(line) /\ st = Push(LF(s, line), B) /\ H = ToSet(line)
          /\ Head(B).fn \in WalkCalm /\ X = {} /\ AllQuiet(mm, aa, {})
    /\ Head(st).fn \in {"schedule", "failover", "refused"} =>
          \E R, HR : ShChain(Head(st).fn, Head(st).s, Head(st).r, R, HR, st, mm, aa, B, H, X)
    /\ Head(st).fn = "deactivate" =>
          \/ \E r, R, HR : ShRefDeact(Head(st).s, r, R, HR, st, mm, aa, B, H, X)
          \/ ShDeact(Head(st).s, st, mm, aa, B, H, X)
    /\ Head(st).fn = "slot" =>
          \/ ShSlotSend(Head(st).s, st, mm, aa, B, H, X)
          \/ ShSlotEarly(Head(st).s, st, mm, aa, B, H, X)
          \/ \E r : ShSlotRetry(Head(st).s, r, st, mm, aa, B, H, X)
    /\ Head(st).fn \in {"retry", "retry_send", "retry_read"} =>
          ShRetry(Head(st).fn, Head(st).s, Head(st).r, S, st, mm, aa, B, H, X)

LEMMA ShapeOf ==
    ASSUME NEW S, NEW st, NEW mm, NEW aa, NEW B, NEW H, NEW X, IsBase(B), Shape(S, st, mm, aa, B, H, X)
    PROVE  ShapeIs(S, st, mm, aa, B, H, X)
<1> DEFINE Goal == ShapeIs(S, st, mm, aa, B, H, X)
<1>0. /\ "failovers" \notin BaseFns /\ "deactivate" \notin BaseFns /\ "slot" \notin BaseFns
      /\ "failovers" \notin ReqFns /\ "deactivate" \notin ReqFns /\ "slot" \notin ReqFns
      /\ \A fn \in ReqFns : fn \notin BaseFns
      /\ ReqFns = {"schedule", "failover", "refused"} \cup {"retry", "retry_send", "retry_read"}
      /\ {"schedule", "failover", "refused"} \cap {"retry", "retry_send", "retry_read"} = {}
      /\ "read_early" \in BaseFns
 BY DEF BaseFns, CallFns, WalkFns, AtFns, ReqFns
<1>1. CASE ShRest(st, mm, aa, B, H, X)
 <2>1. /\ st \in Seq(Frame) /\ st # <<>> /\ Head(st) \in Frame
       /\ H \subseteq Nat
       /\ Head(st).fn \in BaseFns \cup {"failovers"}
       /\ Head(st).fn \in BaseFns => st = B /\ H = {}
  BY <1>1, OverSeq DEF ShRest
 <2>2. X = {} /\ AllQuiet(mm, aa, {}) /\ Head(B).fn # "read_early" /\ Over(st, B, H)
  BY <1>1 DEF ShRest
 <2>3. CASE Head(st).fn \in BaseFns
  BY <2>1, <2>2, <2>3, <1>0 DEF ShapeIs
 <2>4. CASE Head(st).fn = "failovers"
  <3>1. ~(st = B /\ H = {})
   <4>1. Head(B).fn \in BaseFns
    BY BaseSeq, FrameHas DEF BaseFns
   <4> QED BY <4>1, <2>4, <1>0
  <3>2. \E s \in Servers, line \in Seq(Nat) :
        /\ line # <<>> /\ Inj(line) /\ st = Push(LF(s, line), B) /\ H = ToSet(line)
        /\ Head(B).fn \in WalkCalm
   BY <3>1, <2>2 DEF Over
  <3> QED BY <2>1, <2>2, <2>4, <3>2, <1>0 DEF ShapeIs
 <2> QED BY <2>1, <2>3, <2>4
<1>2. ASSUME NEW fn, NEW s, NEW r, NEW R, NEW HR, ShChain(fn, s, r, R, HR, st, mm, aa, B, H, X) PROVE Goal
 <2>1. /\ st \in Seq(Frame) /\ st # <<>> /\ Head(st) = RF(fn, s, r) /\ Tail(st) = R
       /\ Head(st).fn = fn /\ Head(st).s = s /\ Head(st).r = r
  BY <1>2, ChainTop
 <2>2. fn \in {"schedule", "failover", "refused"}
  BY <1>2 DEF ShChain
 <2> QED BY <1>2, <2>1, <2>2, <1>0 DEF ShapeIs
<1>3. ASSUME NEW s, NEW r, NEW R, NEW HR, ShRefDeact(s, r, R, HR, st, mm, aa, B, H, X) PROVE Goal
 <2>1. /\ st \in Seq(Frame) /\ st # <<>> /\ Head(st) = SF("deactivate", s)
       /\ Tail(st) = Push(RF("refused", s, r), R)
       /\ Head(st).fn = "deactivate" /\ Head(st).s = s
  BY <1>3, RefDeactTop
 <2> QED BY <1>3, <2>1, <1>0 DEF ShapeIs
<1>4. ASSUME NEW s, ShDeact(s, st, mm, aa, B, H, X) PROVE Goal
 <2>1. /\ st \in Seq(Frame) /\ st # <<>> /\ Head(st) = SF("deactivate", s) /\ Tail(st) = B
       /\ Head(st).fn = "deactivate" /\ Head(st).s = s
  BY <1>4, ServerTop DEF ShDeact
 <2> QED BY <1>4, <2>1, <1>0 DEF ShapeIs
<1>5. ASSUME NEW s, ShSlotSend(s, st, mm, aa, B, H, X) PROVE Goal
 <2>1. /\ st \in Seq(Frame) /\ st # <<>> /\ Head(st) = SF("slot", s) /\ Tail(st) = B
       /\ Head(st).fn = "slot" /\ Head(st).s = s
  BY <1>5, ServerTop DEF ShSlotSend
 <2> QED BY <1>5, <2>1, <1>0 DEF ShapeIs
<1>6. ASSUME NEW s, ShSlotEarly(s, st, mm, aa, B, H, X) PROVE Goal
 <2>1. /\ st \in Seq(Frame) /\ st # <<>> /\ Head(st) = SF("slot", s) /\ Tail(st) = B
       /\ Head(st).fn = "slot" /\ Head(st).s = s
  BY <1>6, ServerTop DEF ShSlotEarly
 <2> QED BY <1>6, <2>1, <1>0 DEF ShapeIs
<1>7. ASSUME NEW s, ShEarly(s, st, mm, aa, B, H, X) PROVE Goal
 <2>1. st = B /\ Head(B).fn = "read_early" /\ Head(B).s = s
  BY <1>7 DEF ShEarly
 <2>2. st \in Seq(Frame) /\ st # <<>>
  BY <2>1, BaseSeq
 <2> QED BY <1>7, <2>1, <2>2, <1>0 DEF ShapeIs
<1>8. ASSUME NEW s, NEW r, ShSlotRetry(s, r, st, mm, aa, B, H, X) PROVE Goal
 <2>1. /\ st \in Seq(Frame) /\ st # <<>> /\ Head(st) = SF("slot", s)
       /\ Tail(st) = Push(RF("retry_send", s, r), B)
       /\ Head(st).fn = "slot" /\ Head(st).s = s
  BY <1>8, SlotRetryTop DEF ShSlotRetry
 <2> QED BY <1>8, <2>1, <1>0 DEF ShapeIs
<1>9. ASSUME NEW fn, NEW s, NEW r, ShRetry(fn, s, r, S, st, mm, aa, B, H, X) PROVE Goal
 <2>0. fn \in ReqFns /\ fn \in {"retry", "retry_send", "retry_read"} /\ s \in Servers /\ r \in Nat
       /\ st = Push(RF(fn, s, r), B)
  BY <1>9 DEF ShRetry, ReqFns
 <2>1. /\ st \in Seq(Frame) /\ st # <<>> /\ Head(st) = RF(fn, s, r) /\ Tail(st) = B
       /\ Head(st).fn = fn /\ Head(st).s = s /\ Head(st).r = r
  BY <2>0, RequestTop
 <2> QED BY <1>9, <2>0, <2>1, <1>0 DEF ShapeIs
<1> QED BY <1>1, <1>2, <1>3, <1>4, <1>5, <1>6, <1>7, <1>8, <1>9 DEF Shape

--------------------
(* One step: what is used of the state before, what makes the state after. *)

Good(st, mm, aa, po, rq, rt, B, H, X) ==
    /\ Types(mm, aa, po, rq)
    /\ IsBase(B) /\ Shape(SC(po), st, mm, aa, B, H, X)
    /\ Placed(mm, H, po.free, 1 .. Len(rq))
    /\ Walked(po, mm, aa, B, X)
    /\ CallsOK(po.in_select, po.free, mm, rq, B, H, rt)

LEMMA GoodIs ==
    ASSUME NEW st, NEW mm, NEW aa, NEW po, NEW rq, NEW rt
    PROVE  GoodAt(st, mm, aa, po, rq, rt) <=> \E B, H, X : Good(st, mm, aa, po, rq, rt, B, H, X)
BY DEF GoodAt, Good

\* One server changes, in the lists that are filled too; the walks go on as before.
Fell(s, po, mm, aa, X, qo, nn, bb, X2) ==
    \A P, Q, Y, Z :
        CoreAt(s, SC(po), RC(po), po.rfds, Sends(mm), Reads(mm), Fresh(mm, aa), X, P, Q, Y, Z)
        => CoreAt(s, SC(qo), RC(qo), qo.rfds, Sends(nn), Reads(nn), Fresh(nn, bb), X2, P, Q, Y, Z)

Plain(f) == f.fn \notin {"send", "read", "read_early"}

LEMMA WalkedOne ==
    ASSUME NEW s \in Servers, NEW mm, NEW nn, NEW aa, NEW bb, But(mm, nn, s), But(aa, bb, s),
           NEW po, NEW qo, Other(qo) = Other(po), Same(s, SC(po), SC(qo)), Same(s, RC(po), RC(qo)),
           qo.rfds = po.rfds, NEW B, Plain(Head(B)), NEW X, NEW X2, Same(s, X, X2),
           Walked(po, mm, aa, B, X), Fell(s, po, mm, aa, X, qo, nn, bb, X2)
    PROVE  Walked(qo, nn, bb, B, X2)
<1>1. PICK P, Q, Y, Z :
          /\ Core(SC(po), RC(po), po.rfds, Sends(mm), Reads(mm), Fresh(mm, aa), X, P, Q, Y, Z)
          /\ Now(Other(po), B, P, Q, Y, Z)
 BY DEF Walked
<1>2. /\ Same(s, Sends(mm), Sends(nn)) /\ Same(s, Reads(mm), Reads(nn))
      /\ Same(s, Fresh(mm, aa), Fresh(nn, bb))
      /\ s \in Sends(nn) <=> nn[s].sendreq # NULL
      /\ s \in Reads(nn) <=> nn[s].readreq # NULL
      /\ s \in Fresh(nn, bb) <=> bb[s] = <<>> /\ ~nn[s].part
 BY SetsBut
<1>3. CoreAt(s, SC(po), RC(po), po.rfds, Sends(mm), Reads(mm), Fresh(mm, aa), X, P, Q, Y, Z)
 BY <1>1, CoreIs
<1>4. CoreAt(s, SC(qo), RC(qo), qo.rfds, Sends(nn), Reads(nn), Fresh(nn, bb), X2, P, Q, Y, Z)
 BY <1>3 DEF Fell
<1>5. Same(s, P, P) /\ Same(s, Q, Q) /\ Less(s, po.rfds, qo.rfds) /\ Less(s, Y, Y) /\ Less(s, Z, Z)
 BY DEF Same, Less
<1>6. Core(SC(qo), RC(qo), qo.rfds, Sends(nn), Reads(nn), Fresh(nn, bb), X2, P, Q, Y, Z)
 <2> HIDE DEF Plain
 <2> QED BY ONLY <1>1, <1>2, <1>4, <1>5, CoreOne, Same(s, SC(po), SC(qo)), Same(s, RC(po), RC(qo)), Same(s, X, X2)
<1>7. Special(Head(B), SC(qo), RC(qo), qo.rfds, Fresh(nn, bb))
 BY DEF Plain, Special
<1> QED BY <1>1, <1>6, <1>7 DEF Walked

\* Nothing that the walks depend on changes.
LEMMA WalkedSame ==
    ASSUME NEW mm, NEW nn, NEW aa, NEW bb, Sends(nn) = Sends(mm), Reads(nn) = Reads(mm), Fresh(nn, bb) = Fresh(mm, aa),
           NEW po, NEW qo, Other(qo) = Other(po), SC(po) = SC(qo), RC(po) = RC(qo),
           qo.rfds = po.rfds, NEW B, NEW X, Walked(po, mm, aa, B, X)
    PROVE  Walked(qo, nn, bb, B, X)
BY DEF Walked

\* One server is given a new mmc_t.
LEMMA ServerPut ==
    ASSUME NEW mm \in [Servers -> Mmc], NEW s \in Servers, NEW n \in Mmc, NEW nn, nn = [mm EXCEPT ![s] = n]
    PROVE  nn \in [Servers -> Mmc] /\ nn[s] = n /\ But(mm, nn, s)
BY DEF But

LEMMA AskedPut ==
    ASSUME NEW aa \in [Servers -> Seq(Answer)], NEW s \in Servers, NEW a \in Seq(Answer), NEW bb, bb = [aa EXCEPT ![s] = a]
    PROVE  bb \in [Servers -> Seq(Answer)] /\ bb[s] = a /\ But(aa, bb, s)
BY DEF But

LEMMA AskedSame ==
    ASSUME NEW aa, NEW s
    PROVE  But(aa, aa, s)
BY DEF But

\* All servers are quiet, and all but one.
LEMMA QuietAll ==
    ASSUME NEW mm, NEW nn, NEW aa, NEW bb, NEW s \in Servers, But(mm, nn, s), But(aa, bb, s),
           AllQuiet(mm, aa, {}) \/ AllQuiet(mm, aa, {s})
    PROVE  AllQuiet(nn, bb, {s}) /\ (Quiet(nn[s], bb[s]) => AllQuiet(nn, bb, {}))
<1>1. ASSUME NEW t \in Servers, t # s PROVE Quiet(nn[t], bb[t])
 BY <1>1 DEF But, AllQuiet
<1> QED BY <1>1 DEF AllQuiet

\* A set of numbers has a least one.
LEMMA LeastIs ==
    ASSUME NEW S, S \subseteq Nat, S # {}
    PROVE  (CHOOSE j \in S : \A n \in S : j <= n) \in S
<1>1. PICK x \in S : \A y \in S : ~(<<y, x>> \in OpToRel(<, Nat))
 BY WFMin, NatLessThanWellFounded, Zenon
<1>2. ASSUME NEW y \in S PROVE x <= y
 <2>1. ~(y < x)
  BY <1>1 DEF OpToRel
 <2>2. x \in Nat /\ y \in Nat
  OBVIOUS
 <2> QED BY <2>1, <2>2
<1> QED BY <1>2

\* Servers that mmc_pool_find and mmc_pool_find_next return.
LEMMA FindIs ==
    ASSUME NEW key \in Keys
    PROVE  mmc_pool_find(key) \in Servers
<1> DEFINE valid == {i \in 1 .. MaxAttempts : mmc_server_valid(Order[key][i])}
           least == CHOOSE j \in valid : \A n \in valid : j <= n
<1>1. MaxAttempts \in Nat \ {0} /\ Home[key] \in Servers /\ Order[key] \in [1 .. MaxAttempts -> Servers]
 BY HashAssumption
<1>2. MaxAttempts \in 1 .. MaxAttempts
 BY <1>1
<1>3. valid \subseteq Nat
 BY <1>1
<1>4. valid # {} => least \in valid
 <2> HIDE DEF valid
 <2> QED BY <1>3, LeastIs
<1>5. \A i \in valid : i \in 1 .. MaxAttempts
 OBVIOUS
<1>6. mmc_pool_find(key) = IF mmc_server_valid(Home[key]) THEN Home[key]
                           ELSE Order[key][IF valid = {} THEN MaxAttempts ELSE least]
 BY DEF mmc_pool_find
<1> HIDE DEF valid, least
<1>7. (IF valid = {} THEN MaxAttempts ELSE least) \in 1 .. MaxAttempts
 BY <1>2, <1>4, <1>5
<1> QED BY <1>1, <1>6, <1>7

LEMMA FindNextIs ==
    ASSUME NEW key \in Keys, NEW skip, NEW index \in Nat
    PROVE  mmc_pool_find_next(key, skip, index).server \in Servers /\ mmc_pool_find_next(key, skip, index).index \in Nat
<1> DEFINE fits == {i \in index + 1 .. MaxAttempts : ~Contains(skip, Order[key][i])}
           least == CHOOSE j \in fits : \A n \in fits : j <= n
           at == IF fits = {} THEN MaxAttempts ELSE least
<1>1. MaxAttempts \in Nat \ {0} /\ Order[key] \in [1 .. MaxAttempts -> Servers]
 BY HashAssumption
<1>2. MaxAttempts \in 1 .. MaxAttempts
 BY <1>1
<1>3. fits \subseteq 1 .. MaxAttempts
 BY <1>1
<1>4. fits # {} => least \in fits
 <2>1. fits \subseteq Nat
  BY <1>1, <1>3
 <2> HIDE DEF fits
 <2> QED BY <2>1, LeastIs
<1>5. mmc_pool_find_next(key, skip, index) = [server |-> Order[key][at], index |-> at]
 BY DEF mmc_pool_find_next
<1> HIDE DEF fits, least
<1>6. at \in 1 .. MaxAttempts
 BY <1>2, <1>3, <1>4
<1> HIDE DEF at
<1> QED BY <1>1, <1>5, <1>6

--------------------
(* mmc_pool_schedule. *)

TypesOf(mm, aa, po, rq, s) ==
    /\ mm \in [Servers -> Mmc] /\ aa \in [Servers -> Seq(Answer)] /\ po \in Pool /\ rq \in Seq(Request)
    /\ mm[s] \in Mmc /\ aa[s] \in Seq(Answer)

LEMMA TypesAre ==
    ASSUME NEW mm, NEW aa, NEW po, NEW rq, Types(mm, aa, po, rq), NEW s \in Servers
    PROVE  TypesOf(mm, aa, po, rq, s)
BY DEF Types, TypesOf

\* What a server that takes a request becomes.
Taken(m, n, r, how) ==
    /\ ReadJoined(m, n, r)
    /\ n.status = IF how = "connected" THEN "connected" ELSE m.status
    /\ n.sendreq = IF how = "queue" THEN m.sendreq ELSE r
    /\ n.sendqueue = IF how = "queue" THEN mmc_queue_push(m.sendqueue, r) ELSE m.sendqueue
    /\ n.part = IF how = "queue" THEN m.part ELSE FALSE

HowTaken(m, how) ==
    \/ how = "queue" /\ m.sendreq # NULL
    \/ how = "open" /\ m.sendreq = NULL /\ Up(m)
    \/ how = "connected" /\ m.sendreq = NULL /\ ~Up(m)

TakenIs(m, n, a, b, r) ==
    /\ Quiet(n, b) /\ ToSet(RL(n)) = ToSet(RL(m)) \cup {r} /\ ToSet(SL(n)) = ToSet(SL(m)) \cup {r}
    /\ n.sendreq # NULL /\ n.readreq # NULL

LEMMA TakesQuiet ==
    ASSUME NEW m \in Mmc, NEW n \in Mmc, NEW a \in Seq(Answer), NEW b \in Seq(Answer), NEW r \in Nat, NEW how,
           Quiet(m, a), r \notin ToSet(RL(m)), HowTaken(m, how), Taken(m, n, r, how),
           b = IF how = "connected" THEN <<>> ELSE a
    PROVE  /\ TakenIs(m, n, a, b, r)
           /\ how = "queue" => m.readreq # NULL
           /\ how # "queue" => /\ m.readreq = NULL => b = <<>>
                               /\ a = <<>> => m.readreq = NULL
<1>1. CASE how = "queue"
 <2>1. /\ Quiet(n, a)
       /\ ToSet(RL(n)) = ToSet(RL(m)) \cup {r} /\ ToSet(SL(n)) = ToSet(SL(m)) \cup {r}
       /\ m.readreq # NULL /\ n.readreq # NULL
  BY <1>1, QueueJoin DEF HowTaken, Taken
 <2> QED BY <1>1, <2>1 DEF TakenIs, HowTaken, Taken
<1>2. CASE how # "queue"
 <2>0. /\ m.sendreq = NULL /\ n.sendreq = r /\ n.sendqueue = m.sendqueue
       /\ \/ Up(m) /\ n.status = m.status /\ b = a
          \/ ~Up(m) /\ n.status = "connected" /\ b = <<>>
  BY <1>2 DEF HowTaken, Taken
 <2>1. /\ Quiet(n, b)
       /\ ToSet(RL(n)) = ToSet(RL(m)) \cup {r}
       /\ ToSet(SL(m)) = {} /\ ToSet(SL(n)) = {r} /\ n.sendreq # NULL /\ n.readreq # NULL
       /\ m.readreq = NULL => b = <<>>
       /\ a = <<>> => m.readreq = NULL
  <3>1. ReadJoined(m, n, r)
   BY DEF Taken
  <3> QED BY <2>0, <3>1, SlotJoin
 <2> QED BY <1>2, <2>1 DEF TakenIs
<1> QED BY <1>1, <1>2

Put(f, g, s, v) == g = [f EXCEPT ![s] = v]
JoinAsked(aa, bb, s, how) == bb = IF how = "connected" THEN [aa EXCEPT ![s] = <<>>] ELSE aa
JoinPool(po, qo, s, m, how) ==
    Filled(po, qo, IF how = "queue" THEN SC(po) ELSE SC(po) \cup {s},
           IF m.readreq = NULL THEN RC(po) \cup {s} ELSE RC(po))

LEMMA Joins ==
    ASSUME NEW st, NEW mm, NEW aa, NEW po, NEW rq, NEW rt, NEW B, NEW H, NEW X, Good(st, mm, aa, po, rq, rt, B, H, X),
           NEW s, NEW r, NEW R, NEW HR, ShChain("schedule", s, r, R, HR, st, mm, aa, B, H, X),
           NEW how, HowTaken(mm[s], how), NEW n \in Mmc, Taken(mm[s], n, r, how),
           NEW nn, Put(mm, nn, s, n), NEW bb, JoinAsked(aa, bb, s, how), NEW qo, JoinPool(po, qo, s, mm[s], how)
    PROVE  GoodAt(R, nn, bb, qo, rq, "ok")
<1>1. /\ Types(mm, aa, po, rq)
      /\ IsBase(B) /\ Shape(SC(po), st, mm, aa, B, H, X)
      /\ Placed(mm, H, po.free, 1 .. Len(rq))
      /\ Walked(po, mm, aa, B, X)
      /\ CallsOK(po.in_select, po.free, mm, rq, B, H, rt)
 BY DEF Good
<1>2. /\ s \in Servers /\ r \in Nat /\ Over(R, B, HR) /\ H = HR \cup {r} /\ r \notin HR /\ X = {}
      /\ AllQuiet(mm, aa, {}) /\ Head(B).fn \in Calm
 BY DEF ShChain
<1>3. /\ mm \in [Servers -> Mmc] /\ aa \in [Servers -> Seq(Answer)] /\ po \in Pool /\ rq \in Seq(Request)
      /\ mm[s] \in Mmc /\ aa[s] \in Seq(Answer)
 BY <1>1, <1>2 DEF Types
<1>4. Quiet(mm[s], aa[s])
 BY <1>2 DEF AllQuiet
<1>5. r \notin ToSet(RL(mm[s]))
 BY <1>1, <1>2 DEF Placed, InLine
<1>6. PICK b : b = IF how = "connected" THEN <<>> ELSE aa[s]
 OBVIOUS
<1>7. <<>> \in Seq(Answer)
 BY ReqsEmpty
<1>8. nn \in [Servers -> Mmc] /\ nn[s] = n /\ But(mm, nn, s)
 BY <1>2, <1>3, ServerPut DEF Put
<1>9. bb \in [Servers -> Seq(Answer)] /\ bb[s] = b /\ But(aa, bb, s) /\ b \in Seq(Answer)
 <2>1. CASE how = "connected"
  BY <1>2, <1>3, <1>6, <1>7, <2>1, AskedPut DEF JoinAsked
 <2>2. CASE how # "connected"
  BY <1>3, <1>6, <2>2, AskedSame DEF JoinAsked
 <2> QED BY <2>1, <2>2
<1>10. /\ TakenIs(mm[s], n, aa[s], b, r)
       /\ how = "queue" => mm[s].readreq # NULL
       /\ how # "queue" => /\ mm[s].readreq = NULL => b = <<>>
                           /\ aa[s] = <<>> => mm[s].readreq = NULL
 BY <1>2, <1>3, <1>4, <1>5, <1>6, <1>9, TakesQuiet
<1>11. /\ Quiet(n, b) /\ InLine(nn, s) = InLine(mm, s) \cup {r} /\ ToSet(SL(n)) = ToSet(SL(mm[s])) \cup {r}
       /\ n.sendreq # NULL /\ n.readreq # NULL
 BY <1>8, <1>10 DEF TakenIs, InLine
<1>12. /\ qo \in Pool /\ Other(qo) = Other(po) /\ qo.free = po.free /\ qo.in_select = po.in_select
       /\ qo.rfds = po.rfds
       /\ SC(qo) = IF how = "queue" THEN SC(po) ELSE SC(po) \cup {s}
       /\ RC(qo) = IF mm[s].readreq = NULL THEN RC(po) \cup {s} ELSE RC(po)
 BY DEF Filled, JoinPool
<1>13. Types(nn, bb, qo, rq)
 BY <1>3, <1>8, <1>9, <1>12 DEF Types
<1>14. Shape(SC(qo), R, nn, bb, B, HR, {})
 <2>1. AllQuiet(nn, bb, {})
  BY <1>2, <1>8, <1>9, <1>11, QuietAll
 <2>2. Head(B).fn # "read_early"
  BY <1>2 DEF Calm, WalkCalm
 <2> QED BY <1>2, <2>1, <2>2 DEF Shape, ShRest
<1>15. Placed(nn, HR, qo.free, 1 .. Len(rq))
 BY <1>1, <1>2, <1>8, <1>11, <1>12, PlacedJoin
<1>16. Walked(qo, nn, bb, B, {})
 <2>1. Plain(Head(B))
  BY <1>2 DEF Calm, WalkCalm, Plain
 <2>2. Same(s, SC(po), SC(qo)) /\ Same(s, RC(po), RC(qo)) /\ Same(s, {}, {})
  BY <1>12 DEF Same
 <2>3. Fell(s, po, mm, aa, {}, qo, nn, bb, {})
  <3>1. /\ s \in Sends(mm) <=> mm[s].sendreq # NULL
        /\ s \in Reads(mm) <=> mm[s].readreq # NULL
        /\ s \in Fresh(mm, aa) <=> aa[s] = <<>> /\ ~mm[s].part
   BY <1>2, SetsAt
  <3>2. /\ s \in Sends(nn) <=> nn[s].sendreq # NULL
        /\ s \in Reads(nn) <=> nn[s].readreq # NULL
        /\ s \in Fresh(nn, bb) <=> bb[s] = <<>> /\ ~nn[s].part
   BY <1>2, SetsAt
  <3>3. s \in Sends(nn) /\ s \in Reads(nn)
   BY <3>2, <1>8, <1>11
  <3> SUFFICES ASSUME NEW P, NEW Q, NEW Y, NEW Z,
                      CoreAt(s, SC(po), RC(po), po.rfds, Sends(mm), Reads(mm), Fresh(mm, aa), {}, P, Q, Y, Z)
               PROVE  CoreAt(s, SC(qo), RC(qo), qo.rfds, Sends(nn), Reads(nn), Fresh(nn, bb), {}, P, Q, Y, Z)
   BY DEF Fell
  <3>4. CASE how = "queue"
   <4>1. s \in Sends(mm) /\ s \in Reads(mm)
    BY <3>1, <3>4, <1>10 DEF HowTaken
   <4>2. SC(qo) = SC(po) /\ RC(qo) = RC(po) /\ qo.rfds = po.rfds
    BY <1>12, <3>4, <1>10
   <4>3. s \in Fresh(nn, bb) <=> s \in Fresh(mm, aa)
    BY <3>1, <3>2, <3>4, <1>8, <1>9, <1>6 DEF Taken
   <4> QED BY <3>3, <4>1, <4>2, <4>3 DEF CoreAt
  <3>5. CASE how # "queue"
   <4>1. s \notin Sends(mm)
    BY <3>1, <3>5 DEF HowTaken
   <4>2. s \in SC(qo) /\ qo.rfds = po.rfds
    BY <1>12, <3>5
   <4>3. s \in Fresh(nn, bb) <=> b = <<>>
    BY <3>2, <3>5, <1>8, <1>9 DEF Taken
   <4>4. CASE s \in Reads(mm)
    <5>1. mm[s].readreq # NULL /\ RC(qo) = RC(po)
     BY <4>4, <3>1, <1>12
    <5>2. s \notin Fresh(mm, aa)
     BY <5>1, <3>1, <3>5, <1>10
    <5> QED BY <3>3, <4>1, <4>2, <4>4, <5>1, <5>2 DEF CoreAt
   <4>5. CASE s \notin Reads(mm)
    <5>1. mm[s].readreq = NULL /\ RC(qo) = RC(po) \cup {s}
     BY <4>5, <3>1, <1>12
    <5>2. s \in Fresh(nn, bb)
     BY <5>1, <4>3, <3>5, <1>10
    <5> QED BY <3>3, <4>1, <4>2, <4>5, <5>1, <5>2 DEF CoreAt
   <4> QED BY <4>4, <4>5
  <3> QED BY <3>4, <3>5
 <2> QED BY <1>1, <1>2, <1>8, <1>9, <1>12, <2>1, <2>2, <2>3, WalkedOne
<1>17. CallsOK(qo.in_select, qo.free, nn, rq, B, HR, "ok")
 <2>1. \A x : InSend(mm, x) => InSend(nn, x)
  <3> SUFFICES ASSUME NEW x, NEW t \in Servers, x \in ToSet(SL(mm[t])) PROVE InSend(nn, x)
   BY DEF InSend
  <3>1. x \in ToSet(SL(nn[t]))
   BY <1>8, <1>11 DEF But
  <3> QED BY <3>1 DEF InSend
 <2>2. InSend(nn, r)
  BY <1>2, <1>8, <1>11 DEF InSend
 <2> QED BY <1>1, <1>2, <1>12, <2>1, <2>2, CallsJoin
<1>18. Good(R, nn, bb, qo, rq, "ok", B, HR, {})
 BY <1>1, <1>13, <1>14, <1>15, <1>16, <1>17 DEF Good
<1> QED BY <1>18, GoodIs

GoodNow(B, H, X) == Good(stack, mmc, asked, pool, request, ret, B, H, X)

LEMMA TopIs ==
    ASSUME NEW B, NEW H, NEW X, GoodNow(B, H, X), NEW fn, Running(fn)
    PROVE  /\ IsBase(B) /\ ShapeIs(SC(pool), stack, mmc, asked, B, H, X)
           /\ Head(stack).fn = fn /\ Top = Head(stack) /\ stack \in Seq(Frame) /\ stack # <<>>
           /\ Types(mmc, asked, pool, request)
<1>1. IsBase(B) /\ Shape(SC(pool), stack, mmc, asked, B, H, X) /\ Types(mmc, asked, pool, request)
 BY DEF GoodNow, Good
<1>2. ShapeIs(SC(pool), stack, mmc, asked, B, H, X)
 BY <1>1, ShapeOf
<1>3. stack \in Seq(Frame) /\ stack # <<>>
 BY <1>2 DEF ShapeIs
<1> QED BY <1>1, <1>2, <1>3 DEF Running, Top

\* The request goes on to another function of the chain.
LEMMA ChainGo ==
    ASSUME NEW st, NEW mm, NEW aa, NEW B, NEW H, NEW X, NEW fn, NEW s, NEW r, NEW R, NEW HR,
           ShChain(fn, s, r, R, HR, st, mm, aa, B, H, X),
           NEW fn2 \in {"schedule", "failover"}, NEW s2 \in Servers, NEW S
    PROVE  Shape(S, Push(RF(fn2, s2, r), R), mm, aa, B, H, X)
<1>1. ShChain(fn2, s2, r, R, HR, Push(RF(fn2, s2, r), R), mm, aa, B, H, X)
 BY DEF ShChain
<1> QED BY <1>1 DEF Shape

LEMMA RefusalIs ==
    ASSUME NEW st, NEW mm, NEW aa, NEW B, NEW H, NEW X, NEW s, NEW r, NEW R, NEW HR,
           ShChain("schedule", s, r, R, HR, st, mm, aa, B, H, X), ~Up(mm[s]), NEW S
    PROVE  Shape(S, Push(SF("deactivate", s), Push(RF("refused", s, r), R)), mm, aa, B, H, X)
<1>1. Empty(mm[s])
 BY DEF ShChain, AllQuiet, Quiet
<1>2. ShRefDeact(s, r, R, HR, Push(SF("deactivate", s), Push(RF("refused", s, r), R)), mm, aa, B, H, X)
 BY <1>1 DEF ShChain, ShRefDeact
<1> QED BY <1>2 DEF Shape

LEMMA ScheduleStep ==
    ASSUME NEW B, NEW H, NEW X, GoodNow(B, H, X), Schedule
    PROVE  Inv'
<1>1. Running("schedule")
 BY Zenon DEF Schedule
<1>2. /\ IsBase(B) /\ ShapeIs(SC(pool), stack, mmc, asked, B, H, X)
      /\ Head(stack).fn = "schedule" /\ Top = Head(stack) /\ stack \in Seq(Frame) /\ stack # <<>>
      /\ Types(mmc, asked, pool, request)
 BY <1>1, TopIs
<1>3. PICK s, r, R, HR : /\ s = Top.s /\ r = Top.r
                         /\ ShChain("schedule", s, r, R, HR, stack, mmc, asked, B, H, X)
 BY <1>2 DEF ShapeIs
<1>4. /\ stack \in Seq(Frame) /\ stack # <<>> /\ Head(stack) = RF("schedule", s, r) /\ Tail(stack) = R
      /\ Head(stack).fn = "schedule" /\ Head(stack).s = s /\ Head(stack).r = r
 <2>1. PICK fn : fn = "schedule"
  OBVIOUS
 <2>2. IsBase(B) /\ ShChain(fn, s, r, R, HR, stack, mmc, asked, B, H, X)
  BY <1>2, <1>3, <2>1
 <2>3. /\ stack \in Seq(Frame) /\ stack # <<>> /\ Head(stack) = RF(fn, s, r) /\ Tail(stack) = R
       /\ Head(stack).fn = fn /\ Head(stack).s = s /\ Head(stack).r = r
  BY ONLY <2>2, ChainTop
 <2> QED BY <2>1, <2>3
<1>5. s \in Servers /\ r \in Nat /\ R \in Seq(Frame)
 <2>1. s \in Servers /\ r \in Nat /\ Over(R, B, HR)
  BY <1>3 DEF ShChain
 <2> QED BY <2>1, <1>2, OverSeq
<1>6. TypesOf(mmc, asked, pool, request, s)
 BY <1>2, <1>5, TypesAre
<1>7. r # NULL
 BY <1>5, NullIs
<1>8. CASE ~mmc_server_valid(s)
 <2>1. /\ stack' = <<[fn |-> "failover", s |-> s, r |-> r]>> \o Tail(stack)
       /\ mmc' = mmc /\ asked' = asked /\ pool' = pool /\ ret' = ret /\ request' = request
  BY <1>3, <1>8 DEF Schedule, Goto
 <2>2. stack' = Push(RF("failover", s, r), R)
  BY <2>1, <1>4 DEF Push, RF
 <2>3. Shape(SC(pool), stack', mmc, asked, B, H, X)
  BY <2>2, <1>3, <1>5, ChainGo
 <2>4. Good(stack', mmc, asked, pool, request, ret, B, H, X)
  BY <2>3 DEF Good, GoodNow
 <2> QED BY <2>1, <2>4, GoodIs DEF Inv
<1>9. CASE mmc_server_valid(s)
 <2>1. PICK how \in IF mmc[s].sendreq = NULL THEN Opens(s, r) ELSE {"queue"} :
             IF how = "refused"
             THEN Refused(s, r, Tail(stack)) /\ UNCHANGED <<mmc, asked, pool, ret>>
             ELSE LET m == IF how = "queue"
                           THEN [mmc EXCEPT ![s].sendqueue = mmc_queue_push(@, r)]
                           ELSE Slotted(s, r, how)
                      reads == m[s].readreq = NULL
                  IN  /\ mmc' = IF reads THEN [m EXCEPT ![s].readreq = r]
                                ELSE [m EXCEPT ![s].readqueue = mmc_queue_push(@, r)]
                      /\ pool' = [pool EXCEPT
                            !.sending[pool.cur] = IF how = "queue" THEN @ ELSE mmc_queue_push(@, s),
                            !.reading[pool.cur] = IF reads THEN mmc_queue_push(@, s) ELSE @]
                      /\ NewConnection(s, how)
                      /\ ret' = "ok"
                      /\ Return
  BY <1>3, <1>9, Zenon DEF Schedule
 <2>2. request' = request
  BY Zenon DEF Schedule
 <2>3. HowTaken(mmc[s], how) \/ (how = "refused" /\ mmc[s].sendreq = NULL /\ ~Up(mmc[s]))
  BY <2>1, <1>7 DEF Opens, HowTaken, Up
 <2>4. CASE how = "refused"
  <3>1. /\ stack' = <<[fn |-> "deactivate", s |-> s], [fn |-> "refused", s |-> s, r |-> r]>> \o Tail(stack)
        /\ mmc' = mmc /\ asked' = asked /\ pool' = pool /\ ret' = ret
   BY <2>1, <2>4 DEF Refused
  <3>2. stack' = Push(SF("deactivate", s), Push(RF("refused", s, r), R))
   <4>1. "refused" \in ReqFns /\ "deactivate" \in {"deactivate", "slot"}
    BY DEF ReqFns
   <4>2. SF("deactivate", s) \in Frame /\ RF("refused", s, r) \in Frame
    BY <4>1, <1>5, SFHas, RFHas
   <4>3. stack' = <<SF("deactivate", s), RF("refused", s, r)>> \o R
    BY <3>1, <1>4 DEF SF, RF
   <4> QED BY <4>2, <4>3, <1>5, PushTwo
  <3>3. ~Up(mmc[s])
   BY <2>3, <2>4 DEF HowTaken
  <3>4. Shape(SC(pool), stack', mmc, asked, B, H, X)
   BY <3>2, <3>3, <1>3, RefusalIs
  <3>5. Good(stack', mmc, asked, pool, request, ret, B, H, X)
   BY <3>4 DEF Good, GoodNow
  <3> QED BY <3>1, <3>5, <2>2, GoodIs DEF Inv
 <2>5. CASE how # "refused"
  <3> DEFINE n0 == IF how = "queue" THEN [mmc[s] EXCEPT !.sendqueue = mmc_queue_push(mmc[s].sendqueue, r)]
                   ELSE [mmc[s] EXCEPT !.sendreq = r, !.part = FALSE,
                            !.status = IF how = "connected" THEN "connected" ELSE mmc[s].status]
             n1 == IF mmc[s].readreq = NULL THEN [n0 EXCEPT !.readreq = r]
                   ELSE [n0 EXCEPT !.readqueue = mmc_queue_push(mmc[s].readqueue, r)]
             m0 == IF how = "queue" THEN [mmc EXCEPT ![s].sendqueue = mmc_queue_push(@, r)]
                   ELSE Slotted(s, r, how)
  <3>0. /\ mmc \in [Servers -> Mmc] /\ asked \in [Servers -> Seq(Answer)] /\ pool \in Pool
        /\ mmc[s] \in Mmc /\ asked[s] \in Seq(Answer)
   BY <1>6 DEF TypesOf
  <3>1. m0 = [mmc EXCEPT ![s] = n0]
   BY <3>0, <1>5 DEF Slotted
  <3>2. /\ m0[s].readreq = mmc[s].readreq /\ m0[s] = n0 /\ n0.readqueue = mmc[s].readqueue
   BY <3>0, <3>1, <1>5, ZenonT(60) DEF Mmc
  <3>3. mmc' = IF m0[s].readreq = NULL THEN [m0 EXCEPT ![s].readreq = r]
                               ELSE [m0 EXCEPT ![s].readqueue = mmc_queue_push(@, r)]
   BY <2>1, <2>5
  <3>4. mmc' = [mmc EXCEPT ![s] = n1]
   <4> HIDE DEF m0, n0
   <4>1. mmc' = [m0 EXCEPT ![s] = n1]
    BY <3>2, <3>3
   <4> QED BY <4>1, <3>0, <3>1, <1>5
  <3>5. /\ mmc_queue_push(mmc[s].sendqueue, r) \in Seq(Nat) /\ mmc_queue_push(mmc[s].readqueue, r) \in Seq(Nat)
        /\ mmc[s].sendqueue \in Seq(Nat) /\ mmc[s].readqueue \in Seq(Nat)
   BY <3>0, <1>5, PushIs, MmcIs
  <3>6. PICK n : n = n1
   OBVIOUS
  <3>7. n \in Mmc /\ Taken(mmc[s], n, r, how)
   BY <3>0, <3>5, <3>6, <1>5, <1>7 DEF Mmc, MaybeReq, Taken, ReadJoined
  <3>8. asked' = IF how = "connected" THEN [asked EXCEPT ![s] = <<>>] ELSE asked
   BY <2>1, <2>5 DEF NewConnection
  <3>9. Filled(pool, pool', IF how = "queue" THEN SC(pool) ELSE SC(pool) \cup {s},
                        IF mmc[s].readreq = NULL THEN RC(pool) \cup {s} ELSE RC(pool))
   <4>1. PICK x, y : /\ x = IF how = "queue" THEN pool.sending[pool.cur] ELSE mmc_queue_push(pool.sending[pool.cur], s)
                     /\ y = IF mmc[s].readreq = NULL THEN mmc_queue_push(pool.reading[pool.cur], s)
                            ELSE pool.reading[pool.cur]
    OBVIOUS
   <4>2. pool.sending[pool.cur] \in Seq(Servers) /\ pool.reading[pool.cur] \in Seq(Servers)
         /\ pool.cur \in Lists /\ pool.sending \in [Lists -> Seq(Servers)] /\ pool.reading \in [Lists -> Seq(Servers)]
    BY <3>0, PoolIs
   <4>3. /\ mmc_queue_push(pool.sending[pool.cur], s) \in Seq(Servers)
         /\ ToSet(mmc_queue_push(pool.sending[pool.cur], s)) = ToSet(pool.sending[pool.cur]) \cup {s}
         /\ mmc_queue_push(pool.reading[pool.cur], s) \in Seq(Servers)
         /\ ToSet(mmc_queue_push(pool.reading[pool.cur], s)) = ToSet(pool.reading[pool.cur]) \cup {s}
    BY <4>2, <1>5, PushIs
   <4>4. pool' = [pool EXCEPT
                          !.sending[pool.cur] = IF how = "queue" THEN @ ELSE mmc_queue_push(@, s),
                          !.reading[pool.cur] = IF mmc[s].readreq = NULL THEN mmc_queue_push(@, s) ELSE @]
    <5>1. pool' = [pool EXCEPT
                         !.sending[pool.cur] = IF how = "queue" THEN @ ELSE mmc_queue_push(@, s),
                         !.reading[pool.cur] = IF m0[s].readreq = NULL THEN mmc_queue_push(@, s) ELSE @]
     BY <2>1, <2>5
    <5> HIDE DEF m0
    <5> QED BY <5>1, <3>2
   <4>5. pool' = [pool EXCEPT !.sending[pool.cur] = x, !.reading[pool.cur] = y]
    BY <4>1, <4>4
   <4>6. x \in Seq(Servers) /\ y \in Seq(Servers)
    BY <4>1, <4>2, <4>3
   <4>7. Filled(pool, pool', ToSet(x), ToSet(y))
    BY <4>5, <4>6, <3>0, FillBoth, Zenon
   <4>8. /\ ToSet(x) = IF how = "queue" THEN SC(pool) ELSE SC(pool) \cup {s}
         /\ ToSet(y) = IF mmc[s].readreq = NULL THEN RC(pool) \cup {s} ELSE RC(pool)
    BY <4>1, <4>3 DEF SC, RC
   <4> QED BY <4>7, <4>8
  <3>10. HowTaken(mmc[s], how) /\ stack' = R /\ ret' = "ok"
   BY <2>1, <2>3, <2>5, <1>4 DEF Return
  <3>11. GoodAt(R, mmc', asked', pool', request, "ok")
   <4>1. Good(stack, mmc, asked, pool, request, ret, B, H, X)
    BY DEF GoodNow
   <4>2. Put(mmc, mmc', s, n)
    BY <3>4, <3>6 DEF Put
   <4>3. JoinAsked(asked, asked', s, how)
    BY <3>8 DEF JoinAsked
   <4>4. JoinPool(pool, pool', s, mmc[s], how)
    BY <3>9 DEF JoinPool
   <4>5. PICK mm, aa, po : mm = mmc' /\ aa = asked' /\ po = pool'
    OBVIOUS
   <4>6. GoodAt(R, mm, aa, po, request, "ok")
    BY ONLY <4>1, <4>2, <4>3, <4>4, <4>5, <1>3, <3>7, <3>10, Joins
   <4> QED BY <4>5, <4>6
  <3> QED BY <3>10, <3>11, <2>2 DEF Inv
 <2> QED BY <2>4, <2>5
<1> QED BY <1>8, <1>9, Zenon

--------------------
(* Failures: mmc_server_deactivate and the failover handlers. *)

LEMMA AfterRefusalStep ==
    ASSUME NEW B, NEW H, NEW X, GoodNow(B, H, X), AfterRefusal
    PROVE  Inv'
<1>1. Running("refused")
 BY DEF AfterRefusal
<1>2. /\ IsBase(B) /\ ShapeIs(SC(pool), stack, mmc, asked, B, H, X)
      /\ Head(stack).fn = "refused" /\ Top = Head(stack) /\ stack \in Seq(Frame) /\ stack # <<>>
      /\ Types(mmc, asked, pool, request)
 BY <1>1, TopIs
<1>3. PICK s, r, R, HR : /\ s = Top.s /\ r = Top.r
                         /\ ShChain("refused", s, r, R, HR, stack, mmc, asked, B, H, X)
 BY <1>2 DEF ShapeIs
<1>4. /\ stack \in Seq(Frame) /\ stack # <<>> /\ Head(stack) = RF("refused", s, r) /\ Tail(stack) = R
      /\ Head(stack).fn = "refused" /\ Head(stack).s = s /\ Head(stack).r = r
 <2>1. PICK fn : fn = "refused"
  OBVIOUS
 <2>2. IsBase(B) /\ ShChain(fn, s, r, R, HR, stack, mmc, asked, B, H, X)
  BY <1>2, <1>3, <2>1
 <2>3. /\ stack \in Seq(Frame) /\ stack # <<>> /\ Head(stack) = RF(fn, s, r) /\ Tail(stack) = R
       /\ Head(stack).fn = fn /\ Head(stack).s = s /\ Head(stack).r = r
  BY ONLY <2>2, ChainTop
 <2> QED BY <2>1, <2>3
<1>5. s \in Servers /\ Empty(mmc[s])
 BY <1>3 DEF ShChain
<1>6. mmc' = mmc
 <2>1. mmc \in [Servers -> Mmc] /\ mmc[s] \in Mmc
  BY <1>2, <1>5 DEF Types
 <2>2. mmc' = [mmc EXCEPT ![s] = [mmc[s] EXCEPT !.sendreq = NULL]]
  BY <1>3 DEF AfterRefusal
 <2>3. [mmc[s] EXCEPT !.sendreq = NULL] = mmc[s]
  BY <2>1, <1>5 DEF Mmc, Empty
 <2> QED BY <2>1, <2>2, <2>3
<1>7. /\ stack' = <<[fn |-> "failover", s |-> s, r |-> r]>> \o Tail(stack)
      /\ asked' = asked /\ pool' = pool /\ ret' = ret /\ request' = request
 BY <1>3 DEF AfterRefusal, Goto
<1>8. stack' = Push(RF("failover", s, r), R)
 BY <1>7, <1>4 DEF Push, RF
<1>9. Shape(SC(pool), stack', mmc, asked, B, H, X)
 BY <1>8, <1>3, <1>5, ChainGo
<1>10. Good(stack', mmc, asked, pool, request, ret, B, H, X)
 BY <1>9 DEF Good, GoodNow
<1> QED BY <1>6, <1>7, <1>10, GoodIs DEF Inv

\* The requests that a server had are handed on, one after another.
LEMMA FailOverShape ==
    ASSUME NEW B, IsBase(B), Head(B).fn \in WalkCalm, NEW line \in Seq(Nat), Inj(line), NEW s \in Servers,
           NEW mm, NEW aa, AllQuiet(mm, aa, {}), NEW S
    PROVE  Shape(S, FailOver(s, line) \o B, mm, aa, B, ToSet(line), {})
<1>1. B \in Seq(BaseFrame) /\ B \in Seq(Frame) /\ B # <<>>
 BY BaseSeq
<1>2. Head(B).fn # "read_early" /\ Head(B).fn \in Calm
 BY DEF WalkCalm, Calm
<1>3. CASE line = <<>>
 <2>1. FailOver(s, line) = <<>> /\ ToSet(line) = {}
  BY <1>3, EmptyFacts DEF FailOver
 <2>2. FailOver(s, line) \o B = B
  BY <2>1, <1>1
 <2>3. ShRest(B, mm, aa, B, {}, {})
  BY <1>2 DEF ShRest, Over
 <2> QED BY <2>1, <2>2, <2>3 DEF Shape
<1>4. CASE line # <<>>
 <2> DEFINE r == Head(line)
            f == RF("failover", s, r)
 <2>1. /\ r \in Nat /\ Tail(line) \in Seq(Nat) /\ Len(Tail(line)) = Len(line) - 1 /\ Len(line) \in Nat
       /\ ToSet(line) = {r} \cup ToSet(Tail(line)) /\ r \notin ToSet(Tail(line)) /\ Inj(Tail(line))
  <3>1. /\ r \in Nat /\ Tail(line) \in Seq(Nat) /\ line = Push(r, Tail(line))
        /\ r = line[1] /\ Len(Tail(line)) = Len(line) - 1 /\ Len(line) \in Nat /\ Len(line) > 0
        /\ ToSet(line) = {r} \cup ToSet(Tail(line))
   BY <1>4, HeadTail
  <3>2. Inj(Tail(line)) /\ r \notin ToSet(Tail(line))
   BY <1>4, InjTail
  <3> QED BY <3>1, <3>2
 <2>2. "failover" \in ReqFns
  BY DEF ReqFns
 <2>3. f \in Frame
  BY <2>1, <2>2, RFHas
 <2>4. CASE Len(line) = 1
  <3>1. FailOver(s, line) \o B = Push(f, B)
   <4>1. FailOver(s, line) = <<f>> \o <<>>
    BY <1>4, <2>4 DEF FailOver, RF
   <4>2. FailOver(s, line) = <<f>>
    BY <4>1
   <4> QED BY <4>2 DEF Push
  <3>2. ToSet(Tail(line)) = {}
   BY <2>1, <2>4, SeqFacts
  <3>3. ShChain("failover", s, r, B, {}, Push(f, B), mm, aa, B, {r}, {})
   BY <1>2, <2>1 DEF ShChain, Over
  <3>4. Shape(S, Push(f, B), mm, aa, B, {r}, {})
   BY <3>3 DEF Shape
  <3>5. ToSet(line) = {r}
   BY <2>1, <3>2
  <3> QED BY <3>1, <3>4, <3>5
 <2>5. CASE Len(line) # 1
  <3> DEFINE g == LF(s, Tail(line))
  <3>1. g \in Frame
   BY <2>1, UpperMade
  <3>2. FailOver(s, line) \o B = Push(f, Push(g, B))
   <4>1. FailOver(s, line) = <<f>> \o <<g>>
    BY <1>4, <2>5 DEF FailOver, RF, LF
   <4> HIDE DEF f, g
   <4>2. PICK k : k = <<g>>
    OBVIOUS
   <4>3. k \in Seq(Frame)
    BY <4>2, <3>1
   <4>4. FailOver(s, line) = Push(f, k) /\ k \o B = Push(g, B)
    BY <4>1, <4>2 DEF Push
   <4>5. Push(f, k) \o B = Push(f, k \o B)
    BY <4>3, <2>3, <1>1, ConcatPush
   <4> QED BY <4>4, <4>5
  <3>3. Tail(line) # <<>>
   <4>1. Len(Tail(line)) # 0
    BY <2>1, <2>5
   <4> QED BY <4>1, EmptyFacts
  <3>4. Over(Push(g, B), B, ToSet(Tail(line)))
   BY <2>1, <3>3 DEF Over
  <3>5. ShChain("failover", s, r, Push(g, B), ToSet(Tail(line)), Push(f, Push(g, B)), mm, aa, B, ToSet(line), {})
   <4> HIDE DEF g
   <4> QED BY <1>2, <2>1, <3>4 DEF ShChain
  <3> QED BY <3>2, <3>5 DEF Shape
 <2> QED BY <2>4, <2>5
<1> QED BY <1>3, <1>4

LEMMA FailoversStep ==
    ASSUME NEW B, NEW H, NEW X, GoodNow(B, H, X), Failovers
    PROVE  Inv'
<1>1. Running("failovers")
 BY DEF Failovers
<1>2. /\ IsBase(B) /\ ShapeIs(SC(pool), stack, mmc, asked, B, H, X)
      /\ Head(stack).fn = "failovers" /\ Top = Head(stack) /\ stack \in Seq(Frame) /\ stack # <<>>
      /\ Types(mmc, asked, pool, request)
 BY <1>1, TopIs
<1>3. PICK s \in Servers, line \in Seq(Nat) :
          /\ line # <<>> /\ Inj(line) /\ stack = Push(LF(s, line), B) /\ H = ToSet(line)
          /\ Head(B).fn \in WalkCalm /\ X = {} /\ AllQuiet(mmc, asked, {})
 BY <1>2 DEF ShapeIs
<1>4. LF(s, line) \in Frame /\ LF(s, line).s = s /\ LF(s, line).line = line
 BY UpperMade
<1>5. Top = LF(s, line) /\ Tail(stack) = B
 <2>1. B \in Seq(Frame)
  BY <1>2, BaseSeq
 <2> QED BY <2>1, <1>2, <1>3, <1>4, PushTop
<1>6. /\ stack' = FailOver(s, line) \o B
      /\ mmc' = mmc /\ asked' = asked /\ pool' = pool /\ ret' = ret /\ request' = request
 BY <1>4, <1>5 DEF Failovers
<1>7. Shape(SC(pool), FailOver(s, line) \o B, mmc, asked, B, ToSet(line), {})
 BY <1>2, <1>3, FailOverShape
<1>8. Shape(SC(pool), stack', mmc, asked, B, H, X)
 BY <1>3, <1>6, <1>7
<1>9. Good(stack', mmc, asked, pool, request, ret, B, H, X)
 BY <1>8 DEF Good, GoodNow
<1> QED BY <1>6, <1>9, GoodIs DEF Inv

\* Requests are released.
LEMMA ReleasedIs ==
    ASSUME NEW p \in Pool, NEW rs, rs \subseteq Nat, request \in Seq(Request), mmc_pool_release(p, rs)
    PROVE  /\ pool' \in Pool /\ SC(pool') = SC(p) /\ RC(pool') = RC(p) /\ Other(pool') = Other(p)
           /\ pool'.rfds = p.rfds /\ pool'.in_select = p.in_select /\ pool'.free = p.free \cup rs
           /\ request' \in Seq(Request) /\ SameCalls(request, request') /\ Len(request') = Len(request)
<1>1. pool' = [p EXCEPT !.free = p.free \cup rs]
 BY DEF mmc_pool_release
<1>2. /\ pool' \in Pool /\ SC(pool') = SC(p) /\ RC(pool') = RC(p) /\ Other(pool') = Other(p)
      /\ pool'.rfds = p.rfds /\ pool'.in_select = p.in_select /\ pool'.free = p.free \cup rs
 BY <1>1 DEF Pool, SC, RC, Other
<1>3. Len(request) \in Nat /\ DOMAIN request = 1 .. Len(request) /\ \A r \in 1 .. Len(request) : request[r] \in Request
 BY SeqFacts
<1>4. request' = [r \in 1 .. Len(request) |-> IF r \in rs THEN Unfailed(request[r]) ELSE request[r]]
 BY <1>3 DEF mmc_pool_release
<1>5. \A r \in 1 .. Len(request) : Unfailed(request[r]) \in Request /\ Unfailed(request[r]).call = request[r].call
 <2> SUFFICES ASSUME NEW r \in 1 .. Len(request)
              PROVE  Unfailed(request[r]) \in Request /\ Unfailed(request[r]).call = request[r].call
  OBVIOUS
 <2>1. request[r] \in Request /\ <<>> \in Seq(Servers)
  BY <1>3
 <2> QED BY <2>1 DEF Unfailed, Request
<1>6. \A r \in 1 .. Len(request) : request'[r] \in Request /\ request'[r].call = request[r].call
 BY <1>3, <1>4, <1>5
<1>7. request' \in Seq(Request) /\ Len(request') = Len(request)
 BY <1>3, <1>4, <1>6
<1> QED BY <1>2, <1>6, <1>7 DEF SameCalls

LEMMA FailoverStep ==
    ASSUME NEW B, NEW H, NEW X, GoodNow(B, H, X), Failover
    PROVE  Inv'
<1>1. Running("failover")
 BY DEF Failover
<1>2. /\ IsBase(B) /\ ShapeIs(SC(pool), stack, mmc, asked, B, H, X)
      /\ Head(stack).fn = "failover" /\ Top = Head(stack) /\ stack \in Seq(Frame) /\ stack # <<>>
      /\ Types(mmc, asked, pool, request)
 BY <1>1, TopIs
<1>3. PICK s, r, R, HR : /\ s = Top.s /\ r = Top.r
                         /\ ShChain("failover", s, r, R, HR, stack, mmc, asked, B, H, X)
 BY <1>2 DEF ShapeIs
<1>4. /\ stack \in Seq(Frame) /\ stack # <<>> /\ Head(stack) = RF("failover", s, r) /\ Tail(stack) = R
      /\ Head(stack).fn = "failover" /\ Head(stack).s = s /\ Head(stack).r = r
 <2>1. PICK fn : fn = "failover"
  OBVIOUS
 <2>2. IsBase(B) /\ ShChain(fn, s, r, R, HR, stack, mmc, asked, B, H, X)
  BY <1>2, <1>3, <2>1
 <2>3. /\ stack \in Seq(Frame) /\ stack # <<>> /\ Head(stack) = RF(fn, s, r) /\ Tail(stack) = R
       /\ Head(stack).fn = fn /\ Head(stack).s = s /\ Head(stack).r = r
  BY ONLY <2>2, ChainTop
 <2> QED BY <2>1, <2>3
<1>5. /\ s \in Servers /\ r \in Nat /\ Over(R, B, HR) /\ H = HR \cup {r} /\ r \notin HR /\ X = {}
      /\ AllQuiet(mmc, asked, {}) /\ Head(B).fn \in Calm
 BY <1>3 DEF ShChain
<1>6. /\ Placed(mmc, H, pool.free, 1 .. Len(request))
      /\ Walked(pool, mmc, asked, B, X)
      /\ CallsOK(pool.in_select, pool.free, mmc, request, B, H, ret)
 BY DEF Good, GoodNow
<1>7. /\ request \in Seq(Request) /\ pool \in Pool /\ Len(request) \in Nat /\ DOMAIN request = 1 .. Len(request)
      /\ r \in 1 .. Len(request) /\ request[r] \in Request
 <2>1. request \in Seq(Request) /\ pool \in Pool
  BY <1>2 DEF Types
 <2>2. r \in 1 .. Len(request)
  BY <1>5, <1>6 DEF Placed
 <2> QED BY <2>1, <2>2, SeqFacts
<1> DEFINE q == request[r]
           failed == mmc_queue_push(q.failed_servers, s)
           next == mmc_pool_find_next(q.key, failed, q.failed_index)
<1>8. /\ q.failed_servers \in Seq(Servers) /\ q.failed_index \in Nat /\ q.key \in Keys
 BY <1>7 DEF Request
<1>9. failed \in Seq(Servers)
 BY <1>5, <1>8, PushIs
<1>10. next.server \in Servers /\ next.index \in Nat
 <2> HIDE DEF failed
 <2> QED BY <1>8, FindNextIs
<1>11. mmc' = mmc /\ asked' = asked
 BY DEF Failover
<1>12. CASE q.failed_index < MaxAttempts /\ Len(q.failed_servers) < Cardinality(Servers)
 <2>1. /\ request' = [request EXCEPT ![r] = [@ EXCEPT !.failed_servers = failed, !.failed_index = next.index]]
       /\ Goto([fn |-> IF /\ ~mmc_server_valid(next.server)
                                  /\ next.index < MaxAttempts
                                  /\ Len(failed) < Cardinality(Servers)
                               THEN "failover" ELSE "schedule", s |-> next.server, r |-> r])
       /\ pool' = pool /\ ret' = ret
  BY <1>3, <1>12 DEF Failover
 <2> HIDE DEF next, failed
 <2>2. request' \in Seq(Request) /\ SameCalls(request, request') /\ Len(request') = Len(request)
  <3>1. PICK v : v = [q EXCEPT !.failed_servers = failed, !.failed_index = next.index]
   OBVIOUS
  <3>2. v \in Request /\ v.call = q.call
   BY <3>1, <1>7, <1>9, <1>10 DEF Request
  <3>3. request' = [request EXCEPT ![r] = v]
   BY <2>1, <3>1, <1>7
  <3>4. Len(request') = Len(request) /\ request' \in Seq(Request)
   BY <3>2, <3>3, <1>7
  <3>5. \A x \in 1 .. Len(request) : request'[x].call = request[x].call
   BY <3>2, <3>3, <1>7
  <3> QED BY <3>4, <3>5 DEF SameCalls
 <2>3. PICK fn2 \in {"schedule", "failover"} : stack' = Push(RF(fn2, next.server, r), R)
  BY <2>1, <1>4 DEF Goto, Push, RF
 <2>4. Shape(SC(pool), stack', mmc, asked, B, H, X)
  BY <2>3, <1>3, <1>10, ChainGo
 <2>5. CallsOK(pool.in_select, pool.free, mmc, request', B, H, ret)
  <3>1. \A x : InSend(mmc, x) => InSend(mmc, x)
   OBVIOUS
  <3> QED BY <1>6, <2>2, <3>1, CallsSame
 <2>6. Types(mmc, asked, pool, request')
  BY <1>2, <2>2 DEF Types
 <2>7. Good(stack', mmc, asked, pool, request', ret, B, H, X)
  BY <1>2, <1>6, <2>2, <2>4, <2>5, <2>6 DEF Good
 <2> QED BY <2>1, <2>7, <1>11, GoodIs, Zenon DEF Inv
<1>13. CASE ~(q.failed_index < MaxAttempts /\ Len(q.failed_servers) < Cardinality(Servers))
 <2>1. mmc_pool_release(pool, {r}) /\ ret' = "failure" /\ stack' = R
  BY <1>3, <1>4, <1>13 DEF Failover, Return
 <2>2. /\ pool' \in Pool /\ SC(pool') = SC(pool) /\ RC(pool') = RC(pool) /\ Other(pool') = Other(pool)
       /\ pool'.rfds = pool.rfds /\ pool'.in_select = pool.in_select /\ pool'.free = pool.free \cup {r}
       /\ request' \in Seq(Request) /\ SameCalls(request, request') /\ Len(request') = Len(request)
  <3>1. PICK rs : rs = {r}
   OBVIOUS
  <3>2. rs \subseteq Nat /\ mmc_pool_release(pool, rs)
   BY <3>1, <2>1, <1>5
  <3> QED BY <3>1, <3>2, <1>7, ReleasedIs
 <2>3. Shape(SC(pool'), stack', mmc, asked, B, HR, X)
  <3>1. Head(B).fn # "read_early"
   BY <1>5 DEF Calm, WalkCalm
  <3> QED BY <2>1, <3>1, <1>5 DEF Shape, ShRest
 <2>4. Placed(mmc, HR, pool'.free, 1 .. Len(request'))
  BY <1>5, <1>6, <2>2, PlacedFree
 <2>5. Walked(pool', mmc, asked, B, X)
  BY <1>6, <2>2, WalkedSame
 <2>6. CallsOK(pool'.in_select, pool'.free, mmc, request', B, HR, "failure")
  <3>1. PICK F2 : F2 = pool.free \cup {r}
   OBVIOUS
  <3>2. CallsOK(pool.in_select, F2, mmc, request', B, HR, "failure")
   BY <3>1, <1>5, <1>6, <2>2, CallsFree
  <3> QED BY <3>1, <3>2, <2>2
 <2>7. Types(mmc, asked, pool', request')
  BY <1>2, <2>2 DEF Types
 <2>8. Good(stack', mmc, asked, pool', request', "failure", B, HR, X)
  BY <1>2, <2>3, <2>4, <2>5, <2>6, <2>7 DEF Good
 <2> QED BY <2>1, <2>8, <1>11, GoodIs DEF Inv
<1> QED BY <1>12, <1>13

--------------------
(* mmc_server_deactivate. *)

Fallen == [Disconnected EXCEPT !.status = "failed"]

LEMMA FallenIs ==
    /\ Fallen \in Mmc /\ Empty(Fallen) /\ ~Up(Fallen) /\ RL(Fallen) = <<>> /\ SL(Fallen) = <<>>
    /\ Fallen.sendreq = NULL /\ Fallen.readreq = NULL
<1>1. Fallen \in Mmc /\ Empty(Fallen) /\ ~Up(Fallen)
 BY EmptyFacts DEF Fallen, Disconnected, Mmc, MaybeReq, Empty, Up
<1> QED BY <1>1, EmptyQuiet DEF Empty

Falls(s, mm, nn, aa, bb, po, qo) ==
    /\ nn \in [Servers -> Mmc] /\ nn[s] = Fallen /\ But(mm, nn, s)
    /\ bb \in [Servers -> Seq(Answer)] /\ bb[s] = <<>> /\ But(aa, bb, s)
    /\ Filled(po, qo, SC(po) \ {s}, RC(po) \ {s})

\* A server that falls leaves the lists.
LEMMA FallsWalked ==
    ASSUME NEW s \in Servers, NEW mm, NEW nn, NEW aa, NEW bb, NEW po, NEW qo, Falls(s, mm, nn, aa, bb, po, qo),
           NEW B, Plain(Head(B)), NEW X, Walked(po, mm, aa, B, X),
           X = {s} \/ (X = {} /\ Empty(mm[s]))
    PROVE  Walked(qo, nn, bb, B, {})
<1>1. /\ nn[s] = Fallen /\ But(mm, nn, s) /\ But(aa, bb, s)
      /\ Other(qo) = Other(po) /\ qo.rfds = po.rfds
      /\ SC(qo) = SC(po) \ {s} /\ RC(qo) = RC(po) \ {s}
 BY DEF Falls, Filled
<1>2. Same(s, SC(po), SC(qo)) /\ Same(s, RC(po), RC(qo)) /\ Same(s, X, {})
 BY <1>1 DEF Same
<1>3. /\ s \in Sends(mm) <=> mm[s].sendreq # NULL
      /\ s \in Reads(mm) <=> mm[s].readreq # NULL
      /\ s \in Fresh(mm, aa) <=> aa[s] = <<>> /\ ~mm[s].part
 BY SetsAt
<1>4. s \notin Sends(nn) /\ s \notin Reads(nn)
 BY <1>1, SetsAt, FallenIs
<1>5. s \in X \/ (s \notin Sends(mm) /\ s \notin Reads(mm))
 BY <1>3 DEF Empty
<1>6. s \notin SC(qo) /\ s \notin RC(qo)
 BY <1>1
<1>7. Fell(s, po, mm, aa, X, qo, nn, bb, {})
 BY <1>4, <1>5, <1>6 DEF Fell, CoreAt
<1> QED BY <1>1, <1>2, <1>7, WalkedOne

LEMMA DeactivateIs ==
    ASSUME Types(mmc, asked, pool, request), NEW s \in Servers, s = Top.s, Deactivate
    PROVE  /\ Falls(s, mmc, mmc', asked, asked', pool, pool')
           /\ stack' = FailOver(s, Drained(mmc[s])) \o Tail(stack)
           /\ request' = request /\ ret' = ret
<1>1. /\ mmc \in [Servers -> Mmc] /\ asked \in [Servers -> Seq(Answer)] /\ pool \in Pool /\ <<>> \in Seq(Answer)
 BY ReqsEmpty DEF Types
<1>2. mmc' = [mmc EXCEPT ![s] = Fallen] /\ asked' = [asked EXCEPT ![s] = <<>>]
 BY DEF Deactivate, Fallen
<1>3. /\ mmc' \in [Servers -> Mmc] /\ mmc'[s] = Fallen /\ But(mmc, mmc', s)
 BY <1>1, <1>2, FallenIs, ServerPut
<1>4. /\ asked' \in [Servers -> Seq(Answer)] /\ asked'[s] = <<>> /\ But(asked, asked', s)
 BY <1>1, <1>2 DEF But
<1>5. PICK x, y : x = mmc_queue_remove(pool.sending[pool.cur], s) /\ y = mmc_queue_remove(pool.reading[pool.cur], s)
 OBVIOUS
<1>6. x \in Seq(Servers) /\ y \in Seq(Servers) /\ ToSet(x) = SC(pool) \ {s} /\ ToSet(y) = RC(pool) \ {s}
 BY <1>1, <1>5, PoolIs, RemoveIs DEF SC, RC
<1>7. pool' = [pool EXCEPT !.sending[pool.cur] = x, !.reading[pool.cur] = y]
 BY <1>5 DEF Deactivate
<1>8. Filled(pool, pool', SC(pool) \ {s}, RC(pool) \ {s})
 <2>1. Filled(pool, pool', ToSet(x), ToSet(y))
  BY <1>1, <1>6, <1>7, FillBoth, Zenon
 <2> QED BY <2>1, <1>6
<1>9. /\ stack' = FailOver(s, Drained(mmc[s])) \o Tail(stack)
      /\ request' = request /\ ret' = ret
 BY DEF Deactivate, Drained
<1> QED BY <1>3, <1>4, <1>8, <1>9 DEF Falls

LEMMA WalkCalmIs ==
    ASSUME NEW B, Head(B).fn \in WalkCalm
    PROVE  Plain(Head(B)) /\ Head(B).fn \notin CallFns /\ Head(B).fn # "read_early" /\ Head(B).fn \in Calm
BY DEF WalkCalm, Plain, CallFns, Calm

LEMMA SameLength ==
    ASSUME NEW rq
    PROVE  SameCalls(rq, rq)
BY DEF SameCalls

LEMMA DeactivateStep ==
    ASSUME NEW B, NEW H, NEW X, GoodNow(B, H, X), Deactivate
    PROVE  Inv'
<1>1. Running("deactivate")
 BY DEF Deactivate
<1>2. /\ IsBase(B) /\ ShapeIs(SC(pool), stack, mmc, asked, B, H, X)
      /\ Head(stack).fn = "deactivate" /\ Top = Head(stack) /\ stack \in Seq(Frame) /\ stack # <<>>
      /\ Types(mmc, asked, pool, request)
 BY <1>1, TopIs
<1>3. /\ Placed(mmc, H, pool.free, 1 .. Len(request))
      /\ Walked(pool, mmc, asked, B, X)
      /\ CallsOK(pool.in_select, pool.free, mmc, request, B, H, ret)
 BY DEF Good, GoodNow
<1>4. PICK s : s = Top.s
 OBVIOUS
<1>5. ASSUME NEW r, NEW R, NEW HR, ShRefDeact(s, r, R, HR, stack, mmc, asked, B, H, X) PROVE Inv'
 <2>1. /\ s \in Servers /\ r \in Nat
       /\ stack = Push(SF("deactivate", s), Push(RF("refused", s, r), R))
       /\ Over(R, B, HR) /\ H = HR \cup {r} /\ r \notin HR /\ X = {} /\ AllQuiet(mmc, asked, {})
       /\ Head(B).fn \in Calm /\ Empty(mmc[s])
  BY <1>5 DEF ShRefDeact
 <2>2. Tail(stack) = Push(RF("refused", s, r), R)
  BY <1>2, <1>5, RefDeactTop, Zenon
 <2>3. /\ Falls(s, mmc, mmc', asked, asked', pool, pool')
       /\ stack' = FailOver(s, Drained(mmc[s])) \o Tail(stack)
       /\ request' = request /\ ret' = ret
  BY <1>2, <1>4, <2>1, DeactivateIs, Zenon
 <2>4. stack' = Push(RF("refused", s, r), R)
  <3>1. Drained(mmc[s]) = <<>>
   BY <2>1 DEF Drained, Empty
  <3>2. FailOver(s, Drained(mmc[s])) = <<>>
   BY <3>1 DEF FailOver
  <3>3. "refused" \in ReqFns /\ R \in Seq(Frame)
   BY <1>2, <2>1, OverSeq DEF ReqFns
  <3>4. Push(RF("refused", s, r), R) \in Seq(Frame)
   BY <2>1, <3>3, RFHas, PushTop
  <3> QED BY <2>2, <2>3, <3>2, <3>4, ConcatEmpty
 <2>5. /\ mmc' \in [Servers -> Mmc] /\ mmc'[s] = Fallen /\ But(mmc, mmc', s)
       /\ asked' \in [Servers -> Seq(Answer)] /\ asked'[s] = <<>> /\ But(asked, asked', s)
       /\ pool' \in Pool /\ pool'.free = pool.free /\ pool'.in_select = pool.in_select
  BY <2>3 DEF Falls, Filled
 <2>6. mmc[s] \in Mmc /\ request \in Seq(Request)
  BY <1>2, <2>1 DEF Types
 <2>7. /\ RL(mmc[s]) = <<>> /\ SL(mmc[s]) = <<>> /\ ToSet(SL(mmc[s])) = {}
  <3>1. PICK a : a = asked[s]
   OBVIOUS
  <3> QED BY <2>1, <2>6, EmptyQuiet
 <2>8. Quiet(mmc'[s], asked'[s])
  BY <2>5, FallenIs, EmptyQuiet
 <2>9. AllQuiet(mmc', asked', {})
  BY <2>1, <2>5, <2>8, QuietAll
 <2>10. Shape(SC(pool'), stack', mmc', asked', B, H, X)
  <3>1. ShChain("refused", s, r, R, HR, stack', mmc', asked', B, H, X)
   BY <2>1, <2>4, <2>5, <2>9, FallenIs DEF ShChain
  <3> QED BY <3>1 DEF Shape
 <2>11. InLine(mmc', s) = InLine(mmc, s)
  BY <2>5, <2>7, FallenIs DEF InLine
 <2>12. Placed(mmc', H, pool'.free, 1 .. Len(request))
  BY <1>3, <2>1, <2>5, <2>11, PlacedSame
 <2>13. Walked(pool', mmc', asked', B, X)
  <3>1. Plain(Head(B))
   BY <2>1 DEF Plain, Calm, WalkCalm
  <3> QED BY <1>3, <2>1, <2>3, <3>1, FallsWalked
 <2>14. CallsOK(pool'.in_select, pool'.free, mmc', request, B, H, ret)
  <3>1. ASSUME NEW x, InSend(mmc, x) PROVE InSend(mmc', x)
   <4>1. PICK t \in Servers : x \in ToSet(SL(mmc[t]))
    BY <3>1 DEF InSend
   <4>2. t # s
    BY <4>1, <2>7
   <4> QED BY <4>1, <4>2, <2>5 DEF InSend, But
  <3> QED BY <1>3, <2>5, <3>1, CallsSame, SameLength
 <2>15. Types(mmc', asked', pool', request)
  BY <2>5, <2>6 DEF Types
 <2>16. Good(stack', mmc', asked', pool', request, ret, B, H, X)
  BY <1>2, <2>10, <2>12, <2>13, <2>14, <2>15 DEF Good
 <2> QED BY <2>3, <2>16, GoodIs DEF Inv
<1>6. ASSUME ShDeact(s, stack, mmc, asked, B, H, X) PROVE Inv'
 <2>1. /\ s \in Servers /\ stack = Push(SF("deactivate", s), B)
       /\ H = {} /\ X = {s} /\ AllQuiet(mmc, asked, {s}) /\ Linked(mmc[s]) /\ Head(B).fn \in WalkCalm
  BY <1>6 DEF ShDeact
 <2>2. Tail(stack) = B
  BY <1>2, <2>1, ServerTop, Zenon
 <2>3. /\ Falls(s, mmc, mmc', asked, asked', pool, pool')
       /\ stack' = FailOver(s, Drained(mmc[s])) \o Tail(stack)
       /\ request' = request /\ ret' = ret
  BY <1>2, <1>4, <2>1, DeactivateIs, Zenon
 <2>5. /\ mmc' \in [Servers -> Mmc] /\ mmc'[s] = Fallen /\ But(mmc, mmc', s)
       /\ asked' \in [Servers -> Seq(Answer)] /\ asked'[s] = <<>> /\ But(asked, asked', s)
       /\ pool' \in Pool /\ pool'.free = pool.free /\ pool'.in_select = pool.in_select
  BY <2>3 DEF Falls, Filled
 <2>6. mmc[s] \in Mmc /\ request \in Seq(Request)
  BY <1>2, <2>1 DEF Types
 <2>7. PICK line : line = Drained(mmc[s])
  OBVIOUS
 <2>8. line \in Seq(Nat) /\ Inj(line) /\ ToSet(line) = InLine(mmc, s)
  BY <2>1, <2>6, <2>7, DrainedIs DEF InLine
 <2>9. Quiet(mmc'[s], asked'[s])
  BY <2>5, FallenIs, EmptyQuiet
 <2>10. AllQuiet(mmc', asked', {})
  BY <2>1, <2>5, <2>9, QuietAll
 <2>11. Plain(Head(B)) /\ Head(B).fn \notin CallFns /\ Head(B).fn # "read_early" /\ Head(B).fn \in Calm
  BY <2>1, WalkCalmIs
 <2>12. Shape(SC(pool'), stack', mmc', asked', B, ToSet(line), {})
  <3>1. stack' = FailOver(s, line) \o B
   BY <2>2, <2>3, <2>7
  <3>2. PICK mm, aa : mm = mmc' /\ aa = asked'
   OBVIOUS
  <3>3. Shape(SC(pool'), FailOver(s, line) \o B, mm, aa, B, ToSet(line), {})
   BY <1>2, <2>1, <2>8, <2>10, <3>2, FailOverShape
  <3> QED BY <3>1, <3>2, <3>3
 <2>13. Placed(mmc', ToSet(line), pool'.free, 1 .. Len(request))
  <3>1. InLine(mmc', s) = {}
   BY <2>5, FallenIs, EmptyFacts DEF InLine
  <3> QED BY <1>3, <2>1, <2>5, <2>8, <3>1, PlacedDrain
 <2>14. Walked(pool', mmc', asked', B, {})
  BY <1>3, <2>1, <2>3, <2>11, FallsWalked
 <2>15. CallsOK(pool'.in_select, pool'.free, mmc', request, B, ToSet(line), ret)
  BY <1>3, <2>5, <2>11, CallsWalk, SameLength
 <2>16. Types(mmc', asked', pool', request)
  BY <2>5, <2>6 DEF Types
 <2>17. Good(stack', mmc', asked', pool', request, ret, B, ToSet(line), {})
  BY <1>2, <2>12, <2>13, <2>14, <2>15, <2>16 DEF Good
 <2> QED BY <2>3, <2>17, GoodIs DEF Inv
<1>7. \/ \E r, R, HR : ShRefDeact(s, r, R, HR, stack, mmc, asked, B, H, X)
      \/ ShDeact(s, stack, mmc, asked, B, H, X)
 BY <1>2, <1>4 DEF ShapeIs
<1> QED BY <1>5, <1>6, <1>7

--------------------
(* mmc_select_retry, of a server that has no connection and one request. *)

\* A server that is taken care of by the function on top.
LEMMA StaysOut ==
    ASSUME NEW s, NEW po, NEW mm, NEW aa, NEW X, NEW qo, NEW nn, NEW bb, NEW X2, s \in X, s \in X2
    PROVE  Fell(s, po, mm, aa, X, qo, nn, bb, X2)
BY DEF Fell, CoreAt

LEMMA ComesEmpty ==
    ASSUME NEW s, NEW po, NEW mm, NEW aa, NEW X, NEW qo, NEW nn, NEW bb, NEW X2, s \in X,
           s \notin SC(qo), s \notin RC(qo), s \notin Sends(nn), s \notin Reads(nn)
    PROVE  Fell(s, po, mm, aa, X, qo, nn, bb, X2)
BY DEF Fell, CoreAt

LEMMA NoneRemoved == ASSUME NEW r PROVE mmc_queue_remove(<<>>, r) = <<>>
<1>1. <<>> \in Seq(Nat) /\ ToSet(<<>>) = {}
 BY EmptyFacts
<1>2. PICK q : q = <<>>
 OBVIOUS
<1>3. mmc_queue_remove(q, r) \in Seq(Nat) /\ ToSet(mmc_queue_remove(q, r)) = ToSet(q) \ {r}
 BY <1>1, <1>2, RemoveIs
<1>4. ToSet(mmc_queue_remove(q, r)) = {}
 BY <1>1, <1>2, <1>3
<1> QED BY <1>2, <1>3, <1>4, SeqFacts

LEMMA RetryStep ==
    ASSUME NEW B, NEW H, NEW X, GoodNow(B, H, X), Retry
    PROVE  Inv'
<1>1. Running("retry")
 BY DEF Retry
<1>2. /\ IsBase(B) /\ ShapeIs(SC(pool), stack, mmc, asked, B, H, X)
      /\ Head(stack).fn = "retry" /\ Top = Head(stack) /\ stack \in Seq(Frame) /\ stack # <<>>
      /\ Types(mmc, asked, pool, request)
 BY <1>1, TopIs
<1>3. PICK s, r : s = Top.s /\ r = Top.r /\ ShRetry("retry", s, r, SC(pool), stack, mmc, asked, B, H, X)
 BY <1>2 DEF ShapeIs
<1>4. /\ s \in Servers /\ r \in Nat /\ stack = Push(RF("retry", s, r), B)
      /\ Head(B).fn \in WalkCalm
      /\ H = {} /\ X = {s} /\ AllQuiet(mmc, asked, {s})
      /\ \/ Len(RL(mmc[s])) > 1
         \/ Stuck(mmc[s], r) /\ \/ mmc[s].sendreq = r
                                \/ mmc[s].sendreq = NULL /\ s \notin SC(pool)
 BY <1>3 DEF ShRetry
<1>5. Top = RF("retry", s, r) /\ Tail(stack) = B
 <2>1. "retry" \in ReqFns
  BY DEF ReqFns
 <2> QED BY <2>1, <1>2, <1>4, RequestTop
<1>6. CASE Len(RL(mmc[s])) > 1
 <2>1. ReadLine(s) = RL(mmc[s])
  BY DEF ReadLine, RL, Line
 <2>2. astray'
  BY <2>1, <1>3, <1>6 DEF Retry
 <2> QED BY <2>2 DEF Inv
<1>7. CASE Stuck(mmc[s], r) /\ (mmc[s].sendreq = r \/ (mmc[s].sendreq = NULL /\ s \notin SC(pool)))
 <2>1. mmc' = mmc
  <3>1. mmc \in [Servers -> Mmc] /\ mmc[s] \in Mmc
   BY <1>2, <1>4 DEF Types
  <3>2. mmc_queue_remove(mmc[s].sendqueue, r) = <<>> /\ mmc_queue_remove(mmc[s].readqueue, r) = <<>>
   BY <1>7, NoneRemoved DEF Stuck
  <3>3. mmc' = [mmc EXCEPT ![s] = [mmc[s] EXCEPT !.sendqueue = mmc_queue_remove(mmc[s].sendqueue, r),
                                                 !.readqueue = mmc_queue_remove(mmc[s].readqueue, r)]]
   BY <3>1, <1>3, <1>4 DEF Retry
  <3>4. [mmc[s] EXCEPT !.sendqueue = <<>>, !.readqueue = <<>>] = mmc[s]
   BY <3>1, <1>7 DEF Mmc, Stuck
  <3> QED BY <3>1, <3>2, <3>3, <3>4
 <2>2. asked' = asked /\ pool' = pool /\ ret' = ret /\ request' = request
  BY DEF Retry
 <2>3. Shape(SC(pool), stack', mmc, asked, B, H, X)
  <3>0. /\ [Top EXCEPT !.fn = "retry_send"] = RF("retry_send", s, r)
        /\ [Top EXCEPT !.fn = "retry_read"] = RF("retry_read", s, r)
   BY <1>5 DEF RF
  <3>a. IF mmc[s].sendreq = r
        THEN Call([fn |-> "slot", s |-> s], [Top EXCEPT !.fn = "retry_send"])
        ELSE Goto([Top EXCEPT !.fn = "retry_read"])
   BY <1>3 DEF Retry
  <3>1. CASE mmc[s].sendreq = r
   <4>1. stack' = <<SF("slot", s), RF("retry_send", s, r)>> \o B
    BY <3>0, <3>a, <1>5, <3>1 DEF Call, SF
   <4>2. SF("slot", s) \in Frame /\ RF("retry_send", s, r) \in Frame
    <5>1. "retry_send" \in ReqFns
     BY DEF ReqFns
    <5> QED BY <5>1, <1>4, SFHas, RFHas
   <4>3. B \in Seq(Frame)
    BY <1>2, BaseSeq
   <4>4. stack' = Push(SF("slot", s), Push(RF("retry_send", s, r), B))
    BY <4>1, <4>2, <4>3, PushTwo
   <4>5. ShSlotRetry(s, r, stack', mmc, asked, B, H, X)
    BY <4>4, <3>1, <1>4, <1>7 DEF ShSlotRetry
   <4> QED BY <4>5 DEF Shape
  <3>2. CASE mmc[s].sendreq # r
   <4>1. stack' = <<RF("retry_read", s, r)>> \o B
    BY <3>0, <3>a, <1>5, <3>2 DEF Goto
   <4>2. ShRetry("retry_read", s, r, SC(pool), stack', mmc, asked, B, H, X)
    BY <4>1, <3>2, <1>4, <1>7 DEF ShRetry, Push
   <4> QED BY <4>2 DEF Shape
  <3> QED BY <3>1, <3>2
 <2>4. Good(stack', mmc, asked, pool, request, ret, B, H, X)
  BY <2>3 DEF Good, GoodNow
 <2> QED BY <2>1, <2>2, <2>4, GoodIs DEF Inv
<1> QED BY <1>4, <1>6, <1>7

\* mmc_pool_slot_send of the next request, when there is none.
LEMMA SlotRetryStep ==
    ASSUME NEW B, NEW H, NEW X, GoodNow(B, H, X), SlotNext,
           NEW s, NEW r, s = Top.s, ShSlotRetry(s, r, stack, mmc, asked, B, H, X)
    PROVE  Inv'
<1>1. /\ s \in Servers /\ r \in Nat
      /\ stack = Push(SF("slot", s), Push(RF("retry_send", s, r), B)) /\ Head(B).fn \in WalkCalm
      /\ H = {} /\ X = {s} /\ AllQuiet(mmc, asked, {s}) /\ Stuck(mmc[s], r) /\ mmc[s].sendreq = r
 BY DEF ShSlotRetry
<1>2. /\ Types(mmc, asked, pool, request)
      /\ IsBase(B)
      /\ Placed(mmc, H, pool.free, 1 .. Len(request))
      /\ Walked(pool, mmc, asked, B, X)
      /\ CallsOK(pool.in_select, pool.free, mmc, request, B, H, ret)
 BY DEF Good, GoodNow
<1>3. /\ stack \in Seq(Frame) /\ stack # <<>> /\ Head(stack) = SF("slot", s)
      /\ Tail(stack) = Push(RF("retry_send", s, r), B)
      /\ Head(stack).fn = "slot" /\ Head(stack).s = s
 BY <1>1, <1>2, SlotRetryTop
<1>4. /\ mmc \in [Servers -> Mmc] /\ mmc[s] \in Mmc /\ asked \in [Servers -> Seq(Answer)]
      /\ pool \in Pool /\ request \in Seq(Request)
 BY <1>1, <1>2 DEF Types
<1>5. First(mmc[s].sendqueue) = NULL /\ Rest(mmc[s].sendqueue) = <<>> /\ mmc[s].sendqueue = <<>>
 BY <1>1 DEF Stuck, First, Rest
<1>6. \E how \in Opens(s, NULL) :
         IF how = "refused"
         THEN /\ Refused(s, NULL, Tail(stack))
              /\ mmc' = [mmc EXCEPT ![s].sendqueue = Rest(@)]
              /\ astray' = TRUE
              /\ UNCHANGED asked
         ELSE /\ mmc' = [Slotted(s, NULL, how) EXCEPT ![s].sendqueue = Rest(@)]
              /\ NewConnection(s, how)
              /\ Return
              /\ UNCHANGED astray
 BY <1>5 DEF SlotNext
<1>7. /\ mmc' = [Slotted(s, NULL, "open") EXCEPT ![s].sendqueue = Rest(@)]
      /\ NewConnection(s, "open") /\ Return
 BY <1>6 DEF Opens
<1>8. /\ asked' = asked /\ stack' = Push(RF("retry_send", s, r), B)
      /\ pool' = pool /\ ret' = ret /\ request' = request
 BY <1>3, <1>7 DEF NewConnection, Return, SlotNext
<1> DEFINE n == [mmc[s] EXCEPT !.sendreq = NULL, !.part = FALSE]
<1>9. mmc' = [mmc EXCEPT ![s] = n]
 <2>1. PICK m0 : m0 = Slotted(s, NULL, "open")
  OBVIOUS
 <2>2. m0 = [mmc EXCEPT ![s] = n]
  BY <2>1, <1>1, <1>4 DEF Slotted, Mmc
 <2>3. m0[s] = n /\ n.sendqueue = <<>> /\ n \in Mmc
  BY <2>2, <1>1, <1>4, <1>5 DEF Mmc, MaybeReq
 <2>4. [n EXCEPT !.sendqueue = Rest(n.sendqueue)] = n
  <3>1. Rest(n.sendqueue) = n.sendqueue
   BY <2>3 DEF Rest
  <3> QED BY <3>1, <2>3 DEF Mmc
 <2>5. mmc' = [m0 EXCEPT ![s] = [m0[s] EXCEPT !.sendqueue = Rest(m0[s].sendqueue)]]
  BY <2>1, <1>7
 <2> HIDE DEF n
 <2>6. mmc' = [m0 EXCEPT ![s] = n]
  BY <2>3, <2>4, <2>5
 <2> QED BY <2>2, <2>6, <1>4
<1>10. n \in Mmc /\ Stuck(n, r) /\ n.sendreq = NULL /\ RL(n) = RL(mmc[s])
 BY <1>1, <1>4 DEF Mmc, MaybeReq, Stuck, RL, Line
<1> HIDE DEF n
<1>11. mmc' \in [Servers -> Mmc] /\ mmc'[s] = n /\ But(mmc, mmc', s)
 BY <1>1, <1>4, <1>9, <1>10, ServerPut
<1>12. AllQuiet(mmc', asked, {s})
 BY <1>1, <1>11, QuietAll, AskedSame
<1>13. Shape(SC(pool), stack', mmc', asked, B, H, X)
 <2>1. ShRetry("retry_send", s, r, SC(pool), stack', mmc', asked, B, H, X)
  BY <1>1, <1>8, <1>10, <1>11, <1>12 DEF ShRetry
 <2> QED BY <2>1 DEF Shape
<1>14. Placed(mmc', H, pool.free, 1 .. Len(request))
 <2>1. InLine(mmc', s) = InLine(mmc, s)
  BY <1>10, <1>11 DEF InLine
 <2> QED BY <2>1, <1>1, <1>2, <1>11, PlacedSame
<1>15. Plain(Head(B)) /\ Head(B).fn \notin CallFns /\ Head(B).fn # "read_early" /\ Head(B).fn \in Calm
 BY <1>1, WalkCalmIs
<1>16. Walked(pool, mmc', asked, B, X)
 <2>1. Fell(s, pool, mmc, asked, X, pool, mmc', asked, X)
  BY <1>1, StaysOut
 <2>2. Same(s, SC(pool), SC(pool)) /\ Same(s, RC(pool), RC(pool)) /\ Same(s, X, X)
  BY DEF Same
 <2>3. But(asked, asked, s)
  BY AskedSame
 <2> QED BY <2>1, <2>2, <2>3, <1>1, <1>2, <1>11, <1>15, WalkedOne
<1>17. CallsOK(pool.in_select, pool.free, mmc', request, B, H, ret)
 BY <1>2, <1>15, CallsWalk, SameLength
<1>18. Types(mmc', asked, pool, request)
 BY <1>4, <1>11 DEF Types
<1>19. Good(stack', mmc', asked, pool, request, ret, B, H, X)
 BY <1>2, <1>13, <1>14, <1>16, <1>17, <1>18 DEF Good
<1> QED BY <1>8, <1>19, GoodIs DEF Inv

LEMMA RetryIs ==
    ASSUME NEW B, NEW H, NEW X, GoodNow(B, H, X), NEW fn \in {"retry_send", "retry_read"}, Running(fn)
    PROVE  /\ Types(mmc, asked, pool, request) /\ IsBase(B)
           /\ Top = RF(fn, Top.s, Top.r) /\ Tail(stack) = B
           /\ Top.s \in Servers /\ Top.r \in Nat /\ Head(B).fn \in WalkCalm
           /\ H = {} /\ X = {Top.s} /\ AllQuiet(mmc, asked, {Top.s})
           /\ Stuck(mmc[Top.s], Top.r) /\ mmc[Top.s].sendreq = NULL
           /\ fn = "retry_read" => Top.s \notin SC(pool)
           /\ Plain(Head(B)) /\ Head(B).fn \notin CallFns /\ Head(B).fn # "read_early" /\ Head(B).fn \in Calm
<1>1. /\ IsBase(B) /\ ShapeIs(SC(pool), stack, mmc, asked, B, H, X)
      /\ Head(stack).fn = fn /\ Top = Head(stack) /\ stack \in Seq(Frame) /\ stack # <<>>
      /\ Types(mmc, asked, pool, request)
 BY TopIs
<1>2. PICK s, r : s = Top.s /\ r = Top.r
 OBVIOUS
<1>3. ShRetry(fn, s, r, SC(pool), stack, mmc, asked, B, H, X)
 BY <1>1, <1>2 DEF ShapeIs
<1>4. /\ s \in Servers /\ r \in Nat /\ stack = Push(RF(fn, s, r), B)
      /\ Head(B).fn \in WalkCalm
      /\ H = {} /\ X = {s} /\ AllQuiet(mmc, asked, {s})
      /\ Stuck(mmc[s], r) /\ mmc[s].sendreq = NULL /\ (fn # "retry_send" => s \notin SC(pool))
 BY <1>3 DEF ShRetry
<1>5. fn \in ReqFns
 BY DEF ReqFns
<1>6. /\ stack \in Seq(Frame) /\ stack # <<>> /\ Head(stack) = RF(fn, s, r) /\ Tail(stack) = B
      /\ Head(stack).fn = fn /\ Head(stack).s = s /\ Head(stack).r = r
 BY <1>1, <1>4, <1>5, RequestTop
<1>7. Plain(Head(B)) /\ Head(B).fn \notin CallFns /\ Head(B).fn # "read_early" /\ Head(B).fn \in Calm
 BY <1>4, WalkCalmIs
<1> QED BY <1>1, <1>2, <1>4, <1>6, <1>7, Zenon

LEMMA RetrySendStep ==
    ASSUME NEW B, NEW H, NEW X, GoodNow(B, H, X), RetrySend
    PROVE  Inv'
<1>0. Running("retry_send")
 BY DEF RetrySend
<1>1. PICK s, r : s = Top.s /\ r = Top.r
 OBVIOUS
<1>2. /\ Types(mmc, asked, pool, request) /\ IsBase(B)
      /\ Top = RF("retry_send", s, r) /\ Tail(stack) = B
      /\ s \in Servers /\ r \in Nat /\ Head(B).fn \in WalkCalm
      /\ H = {} /\ X = {s} /\ AllQuiet(mmc, asked, {s})
      /\ Stuck(mmc[s], r) /\ mmc[s].sendreq = NULL
      /\ Plain(Head(B)) /\ Head(B).fn \notin CallFns /\ Head(B).fn # "read_early" /\ Head(B).fn \in Calm
 BY <1>0, <1>1, RetryIs
<1>3. /\ Placed(mmc, H, pool.free, 1 .. Len(request))
      /\ Walked(pool, mmc, asked, B, X)
      /\ CallsOK(pool.in_select, pool.free, mmc, request, B, H, ret)
 BY DEF Good, GoodNow
<1>4. pool \in Pool /\ request \in Seq(Request)
 BY <1>2 DEF Types
<1>5. /\ mmc' = mmc /\ asked' = asked /\ request' = request /\ ret' = ret
      /\ pool' = [pool EXCEPT !.sending[pool.cur] = mmc_queue_remove(@, s)]
      /\ Goto([Top EXCEPT !.fn = "retry_read"])
 BY <1>1, <1>2 DEF RetrySend
<1>6. Filled(pool, pool', SC(pool) \ {s}, RC(pool))
 <2>1. PICK x : x = mmc_queue_remove(pool.sending[pool.cur], s)
  OBVIOUS
 <2>2. x \in Seq(Servers) /\ ToSet(x) = SC(pool) \ {s}
  BY <1>4, <2>1, PoolIs, RemoveIs DEF SC
 <2>3. pool' = [pool EXCEPT !.sending[pool.cur] = x]
  BY <1>5, <2>1
 <2>4. Filled(pool, pool', ToSet(x), RC(pool))
  BY <1>4, <2>2, <2>3, FillSending
 <2> QED BY <2>2, <2>4
<1>7. /\ pool' \in Pool /\ pool'.free = pool.free /\ pool'.in_select = pool.in_select
      /\ SC(pool') = SC(pool) \ {s} /\ RC(pool') = RC(pool) /\ Other(pool') = Other(pool) /\ pool'.rfds = pool.rfds
 BY <1>6 DEF Filled
<1>8. stack' = Push(RF("retry_read", s, r), B)
 <2>1. [Top EXCEPT !.fn = "retry_read"] = RF("retry_read", s, r)
  BY <1>2 DEF RF
 <2> QED BY <2>1, <1>2, <1>5 DEF Goto, Push
<1>9. Shape(SC(pool'), stack', mmc, asked, B, H, X)
 <2>1. ShRetry("retry_read", s, r, SC(pool'), stack', mmc, asked, B, H, X)
  BY <1>2, <1>7, <1>8 DEF ShRetry
 <2> QED BY <2>1 DEF Shape
<1>10. Walked(pool', mmc, asked, B, X)
 <2>1. Fell(s, pool, mmc, asked, X, pool', mmc, asked, X)
  BY <1>2, StaysOut
 <2>2. Same(s, SC(pool), SC(pool')) /\ Same(s, RC(pool), RC(pool')) /\ Same(s, X, X)
  BY <1>7 DEF Same
 <2>3. But(asked, asked, s) /\ But(mmc, mmc, s)
  BY AskedSame
 <2> QED BY <2>1, <2>2, <2>3, <1>2, <1>3, <1>7, WalkedOne
<1>11. Types(mmc, asked, pool', request)
 BY <1>2, <1>7 DEF Types
<1>12. CallsOK(pool'.in_select, pool'.free, mmc, request, B, H, ret)
 BY <1>3, <1>7
<1>13. Good(stack', mmc, asked, pool', request, ret, B, H, X)
 BY <1>2, <1>3, <1>7, <1>9, <1>10, <1>11, <1>12 DEF Good
<1> QED BY <1>5, <1>13, GoodIs DEF Inv

LEMMA RetryReadStep ==
    ASSUME NEW B, NEW H, NEW X, GoodNow(B, H, X), RetryRead
    PROVE  Inv'
<1>0. Running("retry_read")
 BY DEF RetryRead
<1>1. PICK s, r : s = Top.s /\ r = Top.r
 OBVIOUS
<1>2. /\ Types(mmc, asked, pool, request) /\ IsBase(B)
      /\ Top = RF("retry_read", s, r) /\ Tail(stack) = B
      /\ s \in Servers /\ r \in Nat /\ Head(B).fn \in WalkCalm
      /\ H = {} /\ X = {s} /\ AllQuiet(mmc, asked, {s})
      /\ Stuck(mmc[s], r) /\ mmc[s].sendreq = NULL /\ s \notin SC(pool)
      /\ Plain(Head(B)) /\ Head(B).fn \notin CallFns /\ Head(B).fn # "read_early" /\ Head(B).fn \in Calm
 BY <1>0, <1>1, RetryIs
<1>3. /\ Placed(mmc, H, pool.free, 1 .. Len(request))
      /\ Walked(pool, mmc, asked, B, X)
      /\ CallsOK(pool.in_select, pool.free, mmc, request, B, H, ret)
 BY DEF Good, GoodNow
<1>4. /\ pool \in Pool /\ request \in Seq(Request) /\ mmc \in [Servers -> Mmc] /\ mmc[s] \in Mmc
      /\ asked \in [Servers -> Seq(Answer)]
 BY <1>2 DEF Types
<1>5. mmc[s].readreq = r /\ mmc[s].readqueue = <<>> /\ mmc[s].sendqueue = <<>> /\ mmc[s].status = "disconnected"
 BY <1>2 DEF Stuck
<1>6. /\ asked' = asked /\ request' = request /\ ret' = ret
      /\ mmc' = [mmc EXCEPT ![s] = [@ EXCEPT !.readreq = First(<<>>), !.readqueue = Rest(<<>>)]]
      /\ pool' = [pool EXCEPT !.reading[pool.cur] = mmc_queue_remove(@, s)]
      /\ Goto([fn |-> "failover", s |-> s, r |-> r])
 BY <1>1, <1>5 DEF RetryRead
<1> DEFINE n == [mmc[s] EXCEPT !.readreq = NULL]
<1>7. mmc' = [mmc EXCEPT ![s] = n]
 <2>1. First(<<>>) = NULL /\ Rest(<<>>) = <<>>
  BY DEF First, Rest
 <2>2. mmc' = [mmc EXCEPT ![s] = [mmc[s] EXCEPT !.readreq = NULL, !.readqueue = <<>>]]
  BY <1>2, <1>4, <1>6, <2>1
 <2>3. [mmc[s] EXCEPT !.readreq = NULL, !.readqueue = <<>>] = n
  BY <1>4, <1>5 DEF Mmc
 <2> QED BY <2>1, <2>2, <2>3
<1>8. n \in Mmc /\ Empty(n) /\ ~Up(n) /\ n.sendreq = NULL /\ n.readreq = NULL
 BY <1>2, <1>4, <1>5 DEF Mmc, MaybeReq, Empty, Up
<1> HIDE DEF n
<1>9. mmc' \in [Servers -> Mmc] /\ mmc'[s] = n /\ But(mmc, mmc', s)
 BY <1>2, <1>4, <1>7, <1>8, ServerPut
<1>10. /\ RL(n) = <<>> /\ SL(n) = <<>> /\ ToSet(RL(n)) = {} /\ ToSet(SL(n)) = {}
       /\ Linked(n) /\ (~Up(n) => Quiet(n, asked[s])) /\ (asked[s] = <<>> => Quiet(n, asked[s]))
 BY <1>8, EmptyQuiet
<1>11. Filled(pool, pool', SC(pool), RC(pool) \ {s})
 <2>1. PICK x : x = mmc_queue_remove(pool.reading[pool.cur], s)
  OBVIOUS
 <2>2. x \in Seq(Servers) /\ ToSet(x) = RC(pool) \ {s}
  BY <1>4, <2>1, PoolIs, RemoveIs DEF RC
 <2>3. pool' = [pool EXCEPT !.reading[pool.cur] = x]
  BY <1>6, <2>1
 <2>4. Filled(pool, pool', SC(pool), ToSet(x))
  BY <1>4, <2>2, <2>3, FillReading
 <2> QED BY <2>2, <2>4
<1>12. /\ pool' \in Pool /\ pool'.free = pool.free /\ pool'.in_select = pool.in_select
      /\ SC(pool') = SC(pool) /\ RC(pool') = RC(pool) \ {s} /\ Other(pool') = Other(pool) /\ pool'.rfds = pool.rfds
 BY <1>11 DEF Filled
<1>13. stack' = Push(RF("failover", s, r), B)
 BY <1>2, <1>6 DEF Goto, Push, RF
<1>14. AllQuiet(mmc', asked, {})
 BY <1>2, <1>8, <1>9, <1>10, QuietAll, AskedSame
<1>15. Shape(SC(pool'), stack', mmc', asked, B, {r}, {})
 <2>1. ShChain("failover", s, r, B, {}, stack', mmc', asked, B, {r}, {})
  BY <1>2, <1>13, <1>14 DEF ShChain, Over
 <2> QED BY <2>1 DEF Shape
<1>16. Placed(mmc', {r}, pool'.free, 1 .. Len(request))
 <2>1. InLine(mmc, s) = {r}
  <3>1. r # NULL
   BY <1>2, NullIs
  <3>2. RL(mmc[s]) = Line(r, <<>>) /\ r \in MaybeReq /\ <<>> \in Seq(Nat)
   BY <1>2, <1>5, EmptyFacts DEF RL, MaybeReq
  <3>3. PICK q : q = <<>>
   OBVIOUS
  <3>4. ToSet(Line(r, q)) = IF r = NULL THEN {} ELSE {r} \cup ToSet(q)
   BY <3>1, <3>2, <3>3, LineHas
  <3> QED BY <3>1, <3>2, <3>3, <3>4, EmptyFacts DEF InLine
 <2>2. InLine(mmc', s) = {}
  BY <1>9, <1>10 DEF InLine
 <2>3. Placed(mmc', InLine(mmc, s), pool'.free, 1 .. Len(request))
  BY <1>2, <1>3, <1>9, <1>12, <2>2, PlacedDrain
 <2> QED BY <2>1, <2>3
<1>17. Walked(pool', mmc', asked, B, {})
 <2>1. s \notin Sends(mmc') /\ s \notin Reads(mmc')
  BY <1>8, <1>9 DEF Sends, Reads
 <2>2. s \notin SC(pool') /\ s \notin RC(pool')
  BY <1>2, <1>12
 <2>3. Fell(s, pool, mmc, asked, X, pool', mmc', asked, {})
  BY <1>2, <2>1, <2>2, ComesEmpty
 <2>4. Same(s, SC(pool), SC(pool')) /\ Same(s, RC(pool), RC(pool')) /\ Same(s, X, {})
  BY <1>2, <1>12 DEF Same
 <2>5. But(asked, asked, s)
  BY AskedSame
 <2> QED BY <2>3, <2>4, <2>5, <1>2, <1>3, <1>9, <1>12, WalkedOne
<1>18. CallsOK(pool'.in_select, pool'.free, mmc', request, B, {r}, ret)
 BY <1>2, <1>3, <1>12, CallsWalk, SameLength
<1>19. Types(mmc', asked, pool', request)
 BY <1>4, <1>9, <1>12 DEF Types
<1>20. Good(stack', mmc', asked, pool', request, ret, B, {r}, {})
 BY <1>2, <1>15, <1>16, <1>17, <1>18, <1>19 DEF Good
<1> QED BY <1>6, <1>20, GoodIs DEF Inv

--------------------
(* The walks of mmc_pool_select. *)

WalkOrAt == WalkFns \cup AtFns

\* A function that runs between two of its calls.
AtRest(B) ==
    /\ Types(mmc, asked, pool, request) /\ IsBase(B) /\ stack = B /\ AllQuiet(mmc, asked, {})
    /\ Placed(mmc, {}, pool.free, 1 .. Len(request))
    /\ Walked(pool, mmc, asked, B, {})
    /\ CallsOK(pool.in_select, pool.free, mmc, request, B, {}, ret)
    /\ Top = Head(B)

LEMMA RestIs ==
    ASSUME NEW B, NEW H, NEW X, GoodNow(B, H, X), NEW fn \in BaseFns \ {"read_early"}, Running(fn)
    PROVE  AtRest(B) /\ Head(B).fn = fn /\ Top = Head(B)
<1>1. /\ IsBase(B) /\ ShapeIs(SC(pool), stack, mmc, asked, B, H, X)
      /\ Head(stack).fn = fn /\ Top = Head(stack) /\ stack \in Seq(Frame) /\ stack # <<>>
      /\ Types(mmc, asked, pool, request)
 BY TopIs
<1>2. stack = B /\ H = {} /\ X = {} /\ AllQuiet(mmc, asked, {})
 BY <1>1 DEF ShapeIs
<1>3. /\ Placed(mmc, H, pool.free, 1 .. Len(request))
      /\ Walked(pool, mmc, asked, B, X)
      /\ CallsOK(pool.in_select, pool.free, mmc, request, B, H, ret)
 BY DEF Good, GoodNow
<1> QED BY <1>1, <1>2, <1>3 DEF AtRest

\* What makes it so again.
LEMMA RestGood ==
    ASSUME NEW B, NEW mm, NEW aa, NEW po, NEW rq, NEW rt,
           Types(mm, aa, po, rq), IsBase(B), Head(B).fn # "read_early", AllQuiet(mm, aa, {}),
           Placed(mm, {}, po.free, 1 .. Len(rq)), Walked(po, mm, aa, B, {}),
           CallsOK(po.in_select, po.free, mm, rq, B, {}, rt)
    PROVE  GoodAt(B, mm, aa, po, rq, rt)
<1>1. Shape(SC(po), B, mm, aa, B, {}, {})
 BY DEF Shape, ShRest, Over
<1>2. Good(B, mm, aa, po, rq, rt, B, {}, {})
 BY <1>1 DEF Good
<1> QED BY <1>2, GoodIs

\* One of the base goes on as another.
LEMMA WalkSwap ==
    ASSUME NEW B, IsBase(B), Head(B).fn \in WalkOrAt, NEW f \in BaseFrame, f.fn \in WalkOrAt,
           NEW B2, B2 = Push(f, Tail(B))
    PROVE  /\ IsBase(B2) /\ Head(B2) = f /\ Tail(B2) = Tail(B) /\ f.fn \notin CallFns
           /\ \A c : OpenIn(B2, c) <=> OpenIn(B, c)
<1>1. Head(B) # User("script") /\ Head(B) # User("wakeup") /\ Head(B).fn \notin CallFns /\ f.fn \notin CallFns
      /\ f # User("wakeup")
 BY DEF WalkOrAt, WalkFns, AtFns, User, CallFns
<1>2. IsBase(Tail(B)) /\ Fits(Head(B), Head(Tail(B)))
 BY <1>1, BasePop
<1>3. Fits(f, Head(Tail(B)))
 BY <1>1, <1>2 DEF Fits, WalkOrAt
<1>4. IsBase(Push(f, Tail(B))) /\ Head(Push(f, Tail(B))) = f /\ Tail(Push(f, Tail(B))) = Tail(B)
 BY <1>1, <1>3, BaseSwap
<1>5. Head(B) \in BaseFrame /\ B = Push(Head(B), Tail(B))
 <2>1. /\ B \in Seq(BaseFrame) /\ B \in Seq(Frame) /\ B # <<>>
       /\ Head(B) \in BaseFrame /\ Head(B) \in Frame /\ Head(B) = B[1]
       /\ Tail(B) \in Seq(BaseFrame) /\ Tail(B) \in Seq(Frame) /\ B = Push(Head(B), Tail(B))
  BY BaseSeq
 <2> QED BY <2>1
<1>6. ASSUME NEW c PROVE OpenIn(B2, c) <=> OpenIn(B, c)
 <2>1. PICK T, g : T = Tail(B) /\ g = Head(B)
  OBVIOUS
 <2>2. OpenIn(Push(f, T), c) <=> (f.fn \in CallFns /\ f.call = c) \/ OpenIn(T, c)
  BY <1>2, <2>1, OpenPush
 <2>3. OpenIn(Push(g, T), c) <=> (g.fn \in CallFns /\ g.call = c) \/ OpenIn(T, c)
  BY <1>2, <1>5, <2>1, OpenPush
 <2> QED BY <1>1, <1>5, <2>1, <2>2, <2>3
<1> QED BY <1>1, <1>4, <1>6

\* A walk goes on; no server or request changes.
LEMMA WalkOn ==
    ASSUME NEW B, AtRest(B), Head(B).fn \in WalkOrAt, NEW f \in BaseFrame, f.fn \in WalkOrAt \ {"read_early"},
           NEW B2, B2 = Push(f, Tail(B)), stack' = B2,
           mmc' = mmc, asked' = asked, request' = request, ret' = ret, pool' \in Pool, pool'.free = pool.free,
           Walked(pool', mmc, asked, B2, {})
    PROVE  Inv'
<1>1. /\ Types(mmc, asked, pool, request) /\ IsBase(B) /\ AllQuiet(mmc, asked, {})
      /\ Placed(mmc, {}, pool.free, 1 .. Len(request))
      /\ CallsOK(pool.in_select, pool.free, mmc, request, B, {}, ret)
 BY DEF AtRest
<1>2. /\ IsBase(B2) /\ Head(B2) = f /\ Tail(B2) = Tail(B) /\ f.fn \notin CallFns
      /\ \A c : OpenIn(B2, c) <=> OpenIn(B, c)
 BY <1>1, WalkSwap
<1>3. PICK H : H = {}
 OBVIOUS
<1>4. CallsOK(pool'.in_select, pool'.free, mmc, request, B2, H, ret)
 BY <1>1, <1>2, <1>3, CallsWalk, SameLength
<1>5. Types(mmc, asked, pool', request)
 BY <1>1 DEF Types
<1>6. GoodAt(B2, mmc, asked, pool', request, ret)
 BY <1>1, <1>2, <1>3, <1>4, <1>5, RestGood
<1> QED BY <1>6 DEF Inv

\* The walks know more, or less, of one server.
LEMMA WalkedGo ==
    ASSUME NEW s \in Servers, NEW mm, NEW nn, NEW aa, NEW bb, But(mm, nn, s), But(aa, bb, s),
           NEW po, NEW qo, Same(s, SC(po), SC(qo)), Same(s, RC(po), RC(qo)), Less(s, po.rfds, qo.rfds),
           NEW X, NEW X2, Same(s, X, X2),
           NEW P, NEW Q, NEW Y, NEW Z, NEW P2, NEW Q2, NEW Y2, NEW Z2,
           Same(s, P, P2), Same(s, Q, Q2), Less(s, Y, Y2), Less(s, Z, Z2),
           Core(SC(po), RC(po), po.rfds, Sends(mm), Reads(mm), Fresh(mm, aa), X, P, Q, Y, Z),
           CoreAt(s, SC(qo), RC(qo), qo.rfds, Sends(nn), Reads(nn), Fresh(nn, bb), X2, P2, Q2, Y2, Z2),
           NEW B2, Special(Head(B2), SC(qo), RC(qo), qo.rfds, Fresh(nn, bb)), Now(Other(qo), B2, P2, Q2, Y2, Z2)
    PROVE  Walked(qo, nn, bb, B2, X2)
<1>1. /\ Same(s, Sends(mm), Sends(nn)) /\ Same(s, Reads(mm), Reads(nn))
      /\ Same(s, Fresh(mm, aa), Fresh(nn, bb))
      /\ s \in Sends(nn) <=> nn[s].sendreq # NULL
      /\ s \in Reads(nn) <=> nn[s].readreq # NULL
      /\ s \in Fresh(nn, bb) <=> bb[s] = <<>> /\ ~nn[s].part
 BY SetsBut
<1>2. Core(SC(qo), RC(qo), qo.rfds, Sends(nn), Reads(nn), Fresh(nn, bb), X2, P2, Q2, Y2, Z2)
 BY <1>1, CoreOne
<1> QED BY <1>2 DEF Walked

\* What is walked, by the function on top.
LEMMA NowIs ==
    ASSUME NEW po, NEW mm, NEW aa, NEW B, NEW X, Walked(po, mm, aa, B, X)
    PROVE  /\ Special(Head(B), SC(po), RC(po), po.rfds, Fresh(mm, aa))
           /\ \E P, Q, Y, Z :
                 /\ Core(SC(po), RC(po), po.rfds, Sends(mm), Reads(mm), Fresh(mm, aa), X, P, Q, Y, Z)
                 /\ Now(Other(po), B, P, Q, Y, Z)
                 /\ Head(B).fn \in IdleFns => \/ NowIdle(Head(B), Other(po), P, Q, Y, Z)
                                              \/ \E g : At(B, g) /\ NowWaits(Head(B), g, Other(po), P, Q, Y, Z)
                 /\ Head(B).fn = "timeouts" => NowTimeouts(Head(B), Other(po), P, Q, Y, Z)
                 /\ Head(B).fn \in {"sends", "send", "send_failed"} => NowSends(Head(B), Other(po), P, Q, Y, Z)
                 /\ Head(B).fn \in {"reads", "read", "read_early"} => NowReads(Head(B), Other(po), P, Q, Y, Z)
<1>1. PICK P, Q, Y, Z :
          /\ Core(SC(po), RC(po), po.rfds, Sends(mm), Reads(mm), Fresh(mm, aa), X, P, Q, Y, Z)
          /\ Now(Other(po), B, P, Q, Y, Z)
 BY DEF Walked
<1>2. /\ Head(B).fn \in IdleFns => \/ NowIdle(Head(B), Other(po), P, Q, Y, Z)
                                   \/ \E g : At(B, g) /\ NowWaits(Head(B), g, Other(po), P, Q, Y, Z)
      /\ Head(B).fn = "timeouts" => NowTimeouts(Head(B), Other(po), P, Q, Y, Z)
      /\ Head(B).fn \in {"sends", "send", "send_failed"} => NowSends(Head(B), Other(po), P, Q, Y, Z)
      /\ Head(B).fn \in {"reads", "read", "read_early"} => NowReads(Head(B), Other(po), P, Q, Y, Z)
 <2>1. /\ NowIdle(Head(B), Other(po), P, Q, Y, Z) => Head(B).fn \in IdleFns
       /\ \A g : NowWaits(Head(B), g, Other(po), P, Q, Y, Z) => Head(B).fn \in IdleFns
       /\ NowTimeouts(Head(B), Other(po), P, Q, Y, Z) => Head(B).fn = "timeouts"
       /\ NowSends(Head(B), Other(po), P, Q, Y, Z) => Head(B).fn \in {"sends", "send", "send_failed"}
       /\ NowReads(Head(B), Other(po), P, Q, Y, Z) => Head(B).fn \in {"reads", "read", "read_early"}
  BY DEF NowIdle, NowWaits, NowTimeouts, NowSends, NowReads
 <2>2. /\ "timeouts" \notin IdleFns
       /\ IdleFns \cap {"sends", "send", "send_failed"} = {}
       /\ IdleFns \cap {"reads", "read", "read_early"} = {}
  BY DEF IdleFns, CallFns
 <2> QED BY <1>1, <2>1, <2>2 DEF Now
<1>3. Special(Head(B), SC(po), RC(po), po.rfds, Fresh(mm, aa))
 BY DEF Walked
<1> QED BY <1>1, <1>2, <1>3

LEMMA OtherHas ==
    ASSUME NEW po
    PROVE  /\ Other(po).cur = po.cur /\ Other(po).in_select = po.in_select
           /\ Other(po).wfds = po.wfds /\ Other(po).rfds = po.rfds
           /\ Other(po).sending = po.sending[3 - po.cur] /\ Other(po).reading = po.reading[3 - po.cur]
BY DEF Other

\* The lists that are walked, and nothing else.
Shrunk(po, qo, x, y) ==
    /\ qo \in Pool /\ SC(qo) = SC(po) /\ RC(qo) = RC(po) /\ qo.free = po.free
    /\ qo.cur = po.cur /\ qo.in_select = po.in_select /\ qo.wfds = po.wfds /\ qo.rfds = po.rfds
    /\ qo.sending[3 - po.cur] = x /\ qo.reading[3 - po.cur] = y

LEMMA ShrinkBoth ==
    ASSUME NEW po \in Pool, NEW x \in Seq(Servers), NEW y \in Seq(Servers), NEW n, n = 3 - po.cur,
           NEW qo, qo = [po EXCEPT !.sending[n] = x, !.reading[n] = y]
    PROVE  Shrunk(po, qo, x, y)
<1>1. /\ po.cur \in Lists /\ 3 - po.cur \in Lists /\ 3 - po.cur # po.cur
      /\ po.sending \in [Lists -> Seq(Servers)] /\ po.reading \in [Lists -> Seq(Servers)]
 BY PoolIs
<1>2. /\ qo.cur = po.cur /\ qo.free = po.free /\ qo.rfds = po.rfds /\ qo.wfds = po.wfds /\ qo.in_select = po.in_select
      /\ qo.sending = [po.sending EXCEPT ![n] = x] /\ qo.reading = [po.reading EXCEPT ![n] = y]
 BY DEF Pool
<1>3. /\ qo.sending[n] = x /\ qo.reading[n] = y
      /\ qo.sending[po.cur] = po.sending[po.cur] /\ qo.reading[po.cur] = po.reading[po.cur]
      /\ qo.sending \in [Lists -> Seq(Servers)] /\ qo.reading \in [Lists -> Seq(Servers)]
 BY <1>1, <1>2
<1>4. qo \in Pool
 BY <1>3 DEF Pool
<1> QED BY <1>2, <1>3, <1>4 DEF Shrunk, SC, RC

LEMMA ShrinkReading ==
    ASSUME NEW po \in Pool, NEW y \in Seq(Servers), NEW n, n = 3 - po.cur, NEW qo, qo = [po EXCEPT !.reading[n] = y]
    PROVE  Shrunk(po, qo, po.sending[n], y)
<1>1. /\ po.cur \in Lists /\ 3 - po.cur \in Lists /\ 3 - po.cur # po.cur
      /\ po.sending \in [Lists -> Seq(Servers)] /\ po.reading \in [Lists -> Seq(Servers)]
 BY PoolIs
<1>2. /\ qo.cur = po.cur /\ qo.free = po.free /\ qo.rfds = po.rfds /\ qo.wfds = po.wfds /\ qo.in_select = po.in_select
      /\ qo.sending = po.sending /\ qo.reading = [po.reading EXCEPT ![n] = y]
 BY DEF Pool
<1>3. /\ qo.sending[n] = po.sending[n] /\ qo.reading[n] = y
      /\ qo.sending[po.cur] = po.sending[po.cur] /\ qo.reading[po.cur] = po.reading[po.cur]
      /\ qo.sending \in [Lists -> Seq(Servers)] /\ qo.reading \in [Lists -> Seq(Servers)]
 BY <1>1, <1>2
<1>4. qo \in Pool
 BY <1>1, <1>2, <1>3 DEF Pool
<1> QED BY <1>2, <1>3, <1>4 DEF Shrunk, SC, RC

\* The base of a function at rest.
LEMMA RestFrame ==
    ASSUME NEW B, AtRest(B)
    PROVE  /\ IsBase(B) /\ stack = B /\ Top = Head(B) /\ Tail(stack) = Tail(B)
           /\ Tail(B) \in Seq(Frame) /\ B \in Seq(Frame) /\ Head(B) \in BaseFrame /\ Head(B) \in Frame
           /\ B = Push(Head(B), Tail(B))
           /\ Head(B).fn \in WalkFns => /\ Head(B).n \in Lists /\ Head(B).i \in Nat \ {0}
                                        /\ Head(B) = Walk(Head(B).fn, Head(B).n, Head(B).i)
           /\ Head(B).fn \in AtFns => /\ Head(B).s \in Servers /\ Head(B).n \in Lists /\ Head(B).i \in Nat \ {0}
                                      /\ Head(B) = AF(Head(B).fn, Head(B).s, Head(B).n, Head(B).i)
           /\ pool \in Pool /\ mmc \in [Servers -> Mmc] /\ asked \in [Servers -> Seq(Answer)] /\ request \in Seq(Request)
<1>1. IsBase(B) /\ stack = B /\ Top = Head(B) /\ Types(mmc, asked, pool, request)
 BY DEF AtRest
<1>2. /\ B \in Seq(BaseFrame) /\ B \in Seq(Frame) /\ B # <<>>
      /\ Head(B) \in BaseFrame /\ Head(B) \in Frame /\ Head(B) = B[1]
      /\ Tail(B) \in Seq(BaseFrame) /\ Tail(B) \in Seq(Frame) /\ B = Push(Head(B), Tail(B))
 BY <1>1, BaseSeq
<1> QED BY <1>1, <1>2, FrameHas DEF Types

\* mmc_server_failure, and what its caller does.
FailsTo(s, r, mm, nn, st, C) ==
    \/ mm[s].status = "connected" /\ nn = mm /\ st = Push(SF("deactivate", s), C)
    \/ mm[s].status = "unknown" /\ nn = [mm EXCEPT ![s].status = "disconnected"] /\ st = Push(RF("retry", s, r), C)

AtOne(H, X, s) == H = {} /\ X = {s}

FailsAt(s, r, mm, aa, bb, S) ==
    /\ mm \in [Servers -> Mmc] /\ aa \in [Servers -> Seq(Answer)] /\ AllQuiet(mm, aa, {})
    /\ r # NULL /\ (r = mm[s].sendreq \/ r = mm[s].readreq)
    /\ (s \in S => mm[s].sendreq # NULL) /\ But(aa, bb, s)

\* A function that may have called it.
MayCall(C) == IsBase(C) /\ Head(C).fn \in WalkCalm

FailsIs(S, st, mm, nn, bb, C, H, X, s) ==
    /\ Shape(S, st, nn, bb, C, H, X) /\ nn \in [Servers -> Mmc] /\ But(mm, nn, s)
    /\ InLine(nn, s) = InLine(mm, s)

LEMMA FailsShape ==
    ASSUME NEW C, MayCall(C), NEW mm, NEW aa, NEW s \in Servers, NEW r, NEW S, NEW bb,
           FailsAt(s, r, mm, aa, bb, S), NEW nn, NEW st, FailsTo(s, r, mm, nn, st, C), NEW H, NEW X, AtOne(H, X, s)
    PROVE  FailsIs(S, st, mm, nn, bb, C, H, X, s)
<1> USE DEF MayCall, FailsIs
<1>0. /\ mm \in [Servers -> Mmc] /\ aa \in [Servers -> Seq(Answer)] /\ AllQuiet(mm, aa, {})
      /\ r # NULL /\ (r = mm[s].sendreq \/ r = mm[s].readreq)
      /\ (s \in S => mm[s].sendreq # NULL) /\ But(aa, bb, s)
 BY DEF FailsAt
<1>1. mm[s] \in Mmc /\ aa[s] \in Seq(Answer) /\ Quiet(mm[s], aa[s])
 BY <1>0 DEF AllQuiet
<1>2. /\ Up(mm[s]) /\ Linked(mm[s]) /\ mm[s].readreq # NULL /\ mm[s].readreq \in Nat
      /\ mm[s].sendreq # NULL => mm[s].sendreq \in Nat
      /\ Len(RL(mm[s])) > 1 \/ (/\ mm[s].readqueue = <<>> /\ mm[s].sendqueue = <<>>
                                /\ mm[s].sendreq = NULL \/ mm[s].sendreq = mm[s].readreq)
 <2>1. PICK m, a : m = mm[s] /\ a = aa[s]
  OBVIOUS
 <2>2. m \in Mmc /\ a \in Seq(Answer) /\ Quiet(m, a) /\ (m.sendreq # NULL \/ m.readreq # NULL)
  BY <1>0, <1>1, <2>1
 <2>3. /\ Up(m) /\ Linked(m) /\ m.readreq # NULL /\ m.readreq \in Nat
       /\ m.sendreq # NULL => m.sendreq \in Nat
       /\ Len(RL(m)) > 1 \/ (/\ m.readqueue = <<>> /\ m.sendqueue = <<>>
                             /\ m.sendreq = NULL \/ m.sendreq = m.readreq)
  BY <2>2, LineFails
 <2> QED BY <2>1, <2>3
<1>3. CASE mm[s].status = "connected" /\ nn = mm /\ st = Push(SF("deactivate", s), C)
 <2>1. But(mm, nn, s)
  BY <1>3, AskedSame
 <2>2. AllQuiet(nn, bb, {s})
  BY <1>0, <2>1, QuietAll
 <2>3. ShDeact(s, st, nn, bb, C, H, X)
  BY <1>2, <1>3, <2>2 DEF ShDeact, AtOne
 <2> QED BY <1>0, <1>3, <2>1, <2>3 DEF Shape, InLine
<1>4. CASE mm[s].status = "unknown" /\ nn = [mm EXCEPT ![s].status = "disconnected"] /\ st = Push(RF("retry", s, r), C)
 <2>1. PICK n : n = [mm[s] EXCEPT !.status = "disconnected"]
  OBVIOUS
 <2>2. n \in Mmc /\ RL(n) = RL(mm[s])
  BY <1>1, <2>1 DEF Mmc, RL
 <2>3. nn = [mm EXCEPT ![s] = n]
  BY <1>4, <2>1
 <2>4. nn \in [Servers -> Mmc] /\ nn[s] = n /\ But(mm, nn, s)
  BY <1>0, <2>2, <2>3, ServerPut
 <2>5. AllQuiet(nn, bb, {s})
  BY <1>0, <2>4, QuietAll
 <2>6. Len(RL(n)) > 1 \/ (Stuck(n, r) /\ (n.sendreq = r \/ (n.sendreq = NULL /\ s \notin S)))
  BY <1>0, <1>1, <1>2, <2>1, <2>2 DEF Mmc, Stuck
 <2>7. ShRetry("retry", s, r, S, st, nn, bb, C, H, X)
  BY <1>0, <1>2, <1>4, <2>4, <2>5, <2>6 DEF ShRetry, AtOne
 <2> QED BY <2>2, <2>4, <2>7 DEF Shape, InLine
<1> QED BY <1>3, <1>4 DEF FailsTo

\* A server fails while the lists are walked.
LEMMA Fails ==
    ASSUME NEW B, AtRest(B), NEW s \in Servers, NEW r, r # NULL, r = mmc[s].sendreq \/ r = mmc[s].readreq,
           asked' \in [Servers -> Seq(Answer)], But(asked, asked', s),
           pool' \in Pool, pool'.free = pool.free, SC(pool') = SC(pool), RC(pool') = RC(pool), pool'.rfds = pool.rfds,
           request' = request, ret' = ret,
           NEW C, IsBase(C), Head(C).fn \in WalkCalm, \A c : OpenIn(C, c) <=> OpenIn(B, c),
           FailsTo(s, r, mmc, mmc', stack', C),
           NEW P, NEW Q, NEW Y, NEW Z, NEW P2, NEW Q2, NEW Y2, NEW Z2,
           Same(s, P, P2), Same(s, Q, Q2), Less(s, Y, Y2), Less(s, Z, Z2), s \notin Y2, s \notin Z2,
           Core(SC(pool), RC(pool), pool.rfds, Sends(mmc), Reads(mmc), Fresh(mmc, asked), {}, P, Q, Y, Z),
           Now(Other(pool'), C, P2, Q2, Y2, Z2)
    PROVE  Inv'
<1>1. /\ Types(mmc, asked, pool, request) /\ AllQuiet(mmc, asked, {})
      /\ Placed(mmc, {}, pool.free, 1 .. Len(request))
      /\ CallsOK(pool.in_select, pool.free, mmc, request, B, {}, ret)
      /\ mmc \in [Servers -> Mmc] /\ asked \in [Servers -> Seq(Answer)] /\ request \in Seq(Request)
 BY DEF AtRest, Types
<1>2. s \in SC(pool) => mmc[s].sendreq # NULL
 BY DEF Core, Sends
<1>3. PICK mm, nn, aa, bb, st : mm = mmc /\ nn = mmc' /\ aa = asked /\ bb = asked' /\ st = stack'
 OBVIOUS
<1>4. PICK H, X : H = {} /\ X = {s}
 OBVIOUS
<1>5. /\ Shape(SC(pool), st, nn, bb, C, H, X) /\ nn \in [Servers -> Mmc] /\ But(mm, nn, s)
      /\ InLine(nn, s) = InLine(mm, s)
 <2>1. PICK S : S = SC(pool)
  OBVIOUS
 <2>2. MayCall(C) /\ FailsAt(s, r, mm, aa, bb, S) /\ FailsTo(s, r, mm, nn, st, C) /\ AtOne(H, X, s)
  BY <2>1, <1>1, <1>2, <1>3, <1>4 DEF FailsAt, AtOne, MayCall
 <2>3. FailsIs(S, st, mm, nn, bb, C, H, X, s)
  BY ONLY <2>2, FailsShape, s \in Servers
 <2> QED BY <2>1, <2>3 DEF FailsIs
<1>6. Types(mmc', asked', pool', request)
 BY <1>1, <1>3, <1>5 DEF Types
<1>7. Placed(mmc', H, pool'.free, 1 .. Len(request))
 BY <1>1, <1>3, <1>4, <1>5, PlacedSame
<1>8. Plain(Head(C)) /\ Head(C).fn \notin CallFns
 BY WalkCalmIs
<1>9. CallsOK(pool'.in_select, pool'.free, mmc', request, C, H, ret)
 BY <1>1, <1>4, <1>8, CallsWalk, SameLength
<1>10. Walked(pool', mmc', asked', C, X)
 <2>1. Special(Head(C), SC(pool'), RC(pool'), pool'.rfds, Fresh(mmc', asked'))
  BY <1>8 DEF Special, Plain
 <2>2. CoreAt(s, SC(pool'), RC(pool'), pool'.rfds, Sends(mmc'), Reads(mmc'), Fresh(mmc', asked'), X, P2, Q2, Y2, Z2)
  BY <1>4 DEF CoreAt
 <2>3. PICK X1 : X1 = {}
  OBVIOUS
 <2>4. Same(s, X1, X) /\ Same(s, SC(pool), SC(pool')) /\ Same(s, RC(pool), RC(pool')) /\ Less(s, pool.rfds, pool'.rfds)
  BY <1>4, <2>3 DEF Same, Less
 <2>5. Core(SC(pool), RC(pool), pool.rfds, Sends(mmc), Reads(mmc), Fresh(mmc, asked), X1, P, Q, Y, Z)
  BY <2>3
 <2> QED BY <2>1, <2>2, <2>4, <2>5, <1>3, <1>5, WalkedGo
<1>11. Good(stack', mmc', asked', pool', request, ret, C, H, X)
 BY <1>3, <1>4, <1>5, <1>6, <1>7, <1>9, <1>10 DEF Good
<1> QED BY <1>11, GoodIs DEF Inv

--------------------
(* A timeout. *)

\* What a server with a request in its slots is.
LEMMA SlotUp ==
    ASSUME NEW B, AtRest(B), NEW s \in Servers, NEW r, r # NULL, r = mmc[s].sendreq \/ r = mmc[s].readreq
    PROVE  Up(mmc[s]) /\ r \in Nat
<1>1. PICK m, a : m = mmc[s] /\ a = asked[s]
 OBVIOUS
<1>2. m \in Mmc /\ a \in Seq(Answer) /\ Quiet(m, a) /\ (m.sendreq # NULL \/ m.readreq # NULL)
 BY <1>1 DEF AtRest, Types, AllQuiet
<1>3. /\ Up(m) /\ Linked(m) /\ m.readreq # NULL /\ m.readreq \in Nat
      /\ m.sendreq # NULL => m.sendreq \in Nat
      /\ Len(RL(m)) > 1 \/ (/\ m.readqueue = <<>> /\ m.sendqueue = <<>>
                            /\ m.sendreq = NULL \/ m.sendreq = m.readreq)
 BY <1>2, LineFails
<1> QED BY <1>1, <1>3

LEMMA RestWalked ==
    ASSUME NEW B, AtRest(B)
    PROVE  /\ Special(Head(B), SC(pool), RC(pool), pool.rfds, Fresh(mmc, asked))
           /\ \E P, Q, Y, Z :
                 /\ Core(SC(pool), RC(pool), pool.rfds, Sends(mmc), Reads(mmc), Fresh(mmc, asked), {}, P, Q, Y, Z)
                 /\ Now(Other(pool), B, P, Q, Y, Z)
                 /\ Head(B).fn \in IdleFns => \/ NowIdle(Head(B), Other(pool), P, Q, Y, Z)
                                              \/ \E g : At(B, g) /\ NowWaits(Head(B), g, Other(pool), P, Q, Y, Z)
                 /\ Head(B).fn = "timeouts" => NowTimeouts(Head(B), Other(pool), P, Q, Y, Z)
                 /\ Head(B).fn \in {"sends", "send", "send_failed"} => NowSends(Head(B), Other(pool), P, Q, Y, Z)
                 /\ Head(B).fn \in {"reads", "read", "read_early"} => NowReads(Head(B), Other(pool), P, Q, Y, Z)
<1>1. PICK X1 : X1 = {}
 OBVIOUS
<1>2. Walked(pool, mmc, asked, B, X1)
 BY <1>1 DEF AtRest
<1>3. /\ Special(Head(B), SC(pool), RC(pool), pool.rfds, Fresh(mmc, asked))
      /\ \E P, Q, Y, Z :
            /\ Core(SC(pool), RC(pool), pool.rfds, Sends(mmc), Reads(mmc), Fresh(mmc, asked), X1, P, Q, Y, Z)
            /\ Now(Other(pool), B, P, Q, Y, Z)
            /\ Head(B).fn \in IdleFns => \/ NowIdle(Head(B), Other(pool), P, Q, Y, Z)
                                         \/ \E g : At(B, g) /\ NowWaits(Head(B), g, Other(pool), P, Q, Y, Z)
            /\ Head(B).fn = "timeouts" => NowTimeouts(Head(B), Other(pool), P, Q, Y, Z)
            /\ Head(B).fn \in {"sends", "send", "send_failed"} => NowSends(Head(B), Other(pool), P, Q, Y, Z)
            /\ Head(B).fn \in {"reads", "read", "read_early"} => NowReads(Head(B), Other(pool), P, Q, Y, Z)
 BY <1>2, NowIs
<1> QED BY <1>1, <1>3

\* A set loses one server.
LEMMA LosesOne ==
    ASSUME NEW s, NEW A
    PROVE  Same(s, A, A \ {s}) /\ Less(s, A, A \ {s}) /\ s \notin A \ {s}
BY DEF Same, Less

\* What a walk over servers that timed out does with one.
TimesOut(s, r, n, B) ==
    /\ s \in Servers
    /\ \/ s \in ToSet(pool.sending[n]) /\ r = mmc[s].sendreq
       \/ s \in ToSet(pool.reading[n]) /\ r = mmc[s].readreq
    /\ pool' = [pool EXCEPT !.sending[n] = mmc_queue_remove(@, s), !.reading[n] = mmc_queue_remove(@, s)]
    /\ r # NULL /\ Up(mmc[s]) => FailsTo(s, r, mmc, mmc', stack', B)
    /\ asked' = asked /\ request' = request /\ ret' = ret

LEMMA TimesOutStep ==
    ASSUME NEW B, AtRest(B), Head(B).fn = "timeouts", NEW s, NEW r, NEW n, n = Head(B).n, TimesOut(s, r, n, B)
    PROVE  Inv'
<1>0. /\ s \in Servers
      /\ \/ s \in ToSet(pool.sending[n]) /\ r = mmc[s].sendreq
         \/ s \in ToSet(pool.reading[n]) /\ r = mmc[s].readreq
      /\ pool' = [pool EXCEPT !.sending[n] = mmc_queue_remove(@, s), !.reading[n] = mmc_queue_remove(@, s)]
      /\ r # NULL /\ Up(mmc[s]) => FailsTo(s, r, mmc, mmc', stack', B)
      /\ asked' = asked /\ request' = request /\ ret' = ret
 BY DEF TimesOut
<1>1. /\ IsBase(B) /\ pool \in Pool /\ asked \in [Servers -> Seq(Answer)]
 BY RestFrame
<1>2. PICK P, Q, Y, Z :
          /\ Core(SC(pool), RC(pool), pool.rfds, Sends(mmc), Reads(mmc), Fresh(mmc, asked), {}, P, Q, Y, Z)
          /\ NowTimeouts(Head(B), Other(pool), P, Q, Y, Z)
 BY RestWalked
<1>3. /\ ~pool.in_select /\ n = 3 - pool.cur /\ pool.wfds = {} /\ pool.rfds = {}
      /\ P = ToSet(pool.sending[n]) /\ Y = P /\ Q = ToSet(pool.reading[n]) /\ Z = Q
 BY <1>2, OtherHas DEF NowTimeouts
<1>4. r # NULL /\ (r = mmc[s].sendreq \/ r = mmc[s].readreq)
 BY <1>0, <1>2, <1>3 DEF Core, Sends, Reads
<1>5. FailsTo(s, r, mmc, mmc', stack', B)
 BY <1>0, <1>4, SlotUp
<1>6. PICK x, y, z, w : x = pool.sending[n] /\ y = pool.reading[n] /\ z = mmc_queue_remove(x, s) /\ w = mmc_queue_remove(y, s)
 OBVIOUS
<1>7. x \in Seq(Servers) /\ y \in Seq(Servers) /\ n \in Lists
 BY <1>1, <1>3, <1>6, PoolIs
<1>8. z \in Seq(Servers) /\ w \in Seq(Servers) /\ ToSet(z) = ToSet(x) \ {s} /\ ToSet(w) = ToSet(y) \ {s}
 BY <1>6, <1>7, RemoveIs
<1>9. pool' = [pool EXCEPT !.sending[n] = z, !.reading[n] = w]
 BY <1>0, <1>1, <1>6, <1>7 DEF Pool
<1>10. Shrunk(pool, pool', z, w)
 <2>1. PICK po, qo : po = pool /\ qo = pool'
  OBVIOUS
 <2>2. Shrunk(po, qo, z, w)
  BY ONLY <2>1, <1>1, <1>3, <1>8, <1>9, ShrinkBoth, Zenon
 <2> QED BY <2>1, <2>2
<1>11. /\ pool' \in Pool /\ SC(pool') = SC(pool) /\ RC(pool') = RC(pool) /\ pool'.free = pool.free
       /\ pool'.cur = pool.cur /\ pool'.in_select = pool.in_select /\ pool'.wfds = pool.wfds /\ pool'.rfds = pool.rfds
       /\ pool'.sending[3 - pool.cur] = z /\ pool'.reading[3 - pool.cur] = w
 BY <1>10 DEF Shrunk
<1>12. PICK P2, Q2 : P2 = P \ {s} /\ Q2 = Q \ {s}
 OBVIOUS
<1>13. NowTimeouts(Head(B), Other(pool'), P2, Q2, P2, Q2)
 <2>1. /\ Other(pool').in_select = pool.in_select /\ Other(pool').cur = pool.cur
       /\ Other(pool').wfds = pool.wfds /\ Other(pool').rfds = pool.rfds
       /\ Other(pool').sending = z /\ Other(pool').reading = w
  BY <1>11, OtherHas
 <2> QED BY <2>1, <1>3, <1>6, <1>8, <1>12 DEF NowTimeouts
<1>14. Now(Other(pool'), B, P2, Q2, P2, Q2)
 BY <1>13 DEF Now
<1>15. /\ Same(s, P, P2) /\ Same(s, Q, Q2) /\ Less(s, Y, P2) /\ Less(s, Z, Q2) /\ s \notin P2 /\ s \notin Q2
 BY <1>3, <1>12, LosesOne
<1>16. Head(B).fn \in WalkCalm /\ But(asked, asked', s)
 BY <1>0, AskedSame DEF WalkCalm
<1>17. asked' \in [Servers -> Seq(Answer)] /\ \A c : OpenIn(B, c) <=> OpenIn(B, c)
 BY <1>0, <1>1
<1> QED
 BY ONLY <1>0, <1>1, <1>2, <1>4, <1>5, <1>11, <1>14, <1>15, <1>16, <1>17, AtRest(B), Fails

\* The frame of a walk, called back.
LEMMA FailsToOf ==
    ASSUME NEW s, Up(mmc[s]), NEW r, NEW k, NEW T, NEW C, C = Push(k, T), Tail(stack) = T,
           k \in Frame, T \in Seq(Frame), s \in Servers, r \in Nat, mmc \in [Servers -> Mmc],
           \/ mmc[s].status \in {"disconnected", "unknown"} /\ mmc' = [mmc EXCEPT ![s].status = "disconnected"]
              /\ Call([fn |-> "retry", s |-> s, r |-> r], k)
           \/ mmc[s].status \notin {"disconnected", "unknown"} /\ mmc' = mmc
              /\ Call([fn |-> "deactivate", s |-> s], k)
    PROVE  FailsTo(s, r, mmc, mmc', stack', C)
<1>1. SF("deactivate", s) \in Frame /\ RF("retry", s, r) \in Frame
 BY UpperMade DEF ReqFns
<1>2. mmc[s].status \in {"connected", "unknown"}
 BY DEF Up
<1>3. CASE mmc[s].status = "unknown"
 <2>1. mmc' = [mmc EXCEPT ![s].status = "disconnected"] /\ stack' = <<RF("retry", s, r), k>> \o T
  BY <1>3 DEF Call, RF
 <2>2. <<RF("retry", s, r), k>> \o T = Push(RF("retry", s, r), Push(k, T))
  BY <1>1, PushTwo
 <2> QED BY <1>3, <2>1, <2>2 DEF FailsTo
<1>4. CASE mmc[s].status = "connected"
 <2>1. mmc' = mmc /\ stack' = <<SF("deactivate", s), k>> \o T
  BY <1>4 DEF Call, SF
 <2>2. <<SF("deactivate", s), k>> \o T = Push(SF("deactivate", s), Push(k, T))
  BY <1>1, PushTwo
 <2> QED BY <1>4, <2>1, <2>2 DEF FailsTo
<1> QED BY <1>2, <1>3, <1>4

LEMMA TimeoutIs ==
    ASSUME NEW B, AtRest(B), Head(B).fn = "timeouts", NEW s, NEW n, n = Head(B).n, s \in Servers, NEW q, NEW slot,
           \/ slot = "sendreq" /\ s \in ToSet(pool.sending[n])
           \/ slot = "readreq" /\ s \in ToSet(pool.reading[n]),
           s = Head(q), Timeout(q, slot)
    PROVE  TimesOut(s, mmc[s][slot], n, B)
<1>1. /\ B = Push(Top, Tail(stack)) /\ Tail(stack) \in Seq(Frame) /\ Top \in Frame /\ n = Top.n
      /\ mmc \in [Servers -> Mmc]
 BY RestFrame
<1>2. PICK r : r = mmc[s][slot]
 OBVIOUS
<1>3. r = mmc[s].sendreq \/ r = mmc[s].readreq
 BY <1>2
<1>4. /\ pool' = [pool EXCEPT !.sending[n] = mmc_queue_remove(@, s), !.reading[n] = mmc_queue_remove(@, s)]
      /\ asked' = asked /\ request' = request /\ ret' = ret
      /\ r # NULL => \/ mmc[s].status \in {"disconnected", "unknown"} /\ mmc' = [mmc EXCEPT ![s].status = "disconnected"]
                        /\ Call([fn |-> "retry", s |-> s, r |-> r], Top)
                     \/ mmc[s].status \notin {"disconnected", "unknown"} /\ mmc' = mmc
                        /\ Call([fn |-> "deactivate", s |-> s], Top)
 BY <1>1, <1>2 DEF Timeout, ServerFailure
<1>5. ASSUME r # NULL, Up(mmc[s]) PROVE FailsTo(s, r, mmc, mmc', stack', B)
 <2>1. r \in Nat
  BY <1>3, <1>5, SlotUp
 <2>2. \/ mmc[s].status \in {"disconnected", "unknown"} /\ mmc' = [mmc EXCEPT ![s].status = "disconnected"]
          /\ Call([fn |-> "retry", s |-> s, r |-> r], Top)
       \/ mmc[s].status \notin {"disconnected", "unknown"} /\ mmc' = mmc
          /\ Call([fn |-> "deactivate", s |-> s], Top)
  BY <1>4, <1>5
 <2>3. PICK k, T : k = Top /\ T = Tail(stack)
  OBVIOUS
 <2>4. B = Push(k, T) /\ k \in Frame /\ T \in Seq(Frame)
  BY <1>1, <2>3
 <2> QED BY <1>1, <1>5, <2>1, <2>2, <2>3, <2>4, FailsToOf
<1> QED BY <1>2, <1>4, <1>5 DEF TimesOut

LEMMA SendTimeoutStep ==
    ASSUME NEW B, NEW H, NEW X, GoodNow(B, H, X), SendTimeout
    PROVE  Inv'
<1>1. Running("timeouts") /\ pool.sending[Top.n] # <<>> /\ Timeout(pool.sending[Top.n], "sendreq")
 BY DEF SendTimeout
<1>2. AtRest(B) /\ Head(B).fn = "timeouts" /\ Top = Head(B)
 <2>1. "timeouts" \in BaseFns \ {"read_early"}
  BY DEF BaseFns, WalkFns
 <2> QED BY <1>1, <2>1, RestIs
<1>3. pool \in Pool /\ Head(B).n \in Lists
 BY <1>2, RestFrame DEF WalkFns
<1>4. PICK n, q, s : n = Head(B).n /\ q = pool.sending[n] /\ s = Head(q)
 OBVIOUS
<1>5. q \in Seq(Servers) /\ q # <<>>
 BY <1>1, <1>2, <1>3, <1>4, PoolIs
<1>6. s \in Servers /\ s \in ToSet(q)
 BY <1>4, <1>5, HeadTail
<1>7. Timeout(q, "sendreq")
 BY <1>1, <1>2, <1>4
<1>8. TimesOut(s, mmc[s]["sendreq"], n, B)
 BY <1>2, <1>4, <1>6, <1>7, TimeoutIs
<1> QED BY <1>2, <1>4, <1>8, TimesOutStep

LEMMA ReadTimeoutStep ==
    ASSUME NEW B, NEW H, NEW X, GoodNow(B, H, X), ReadTimeout
    PROVE  Inv'
<1>1. Running("timeouts") /\ pool.reading[Top.n] # <<>> /\ Timeout(pool.reading[Top.n], "readreq")
 BY DEF ReadTimeout
<1>2. AtRest(B) /\ Head(B).fn = "timeouts" /\ Top = Head(B)
 <2>1. "timeouts" \in BaseFns \ {"read_early"}
  BY DEF BaseFns, WalkFns
 <2> QED BY <1>1, <2>1, RestIs
<1>3. pool \in Pool /\ Head(B).n \in Lists
 BY <1>2, RestFrame DEF WalkFns
<1>4. PICK n, q, s : n = Head(B).n /\ q = pool.reading[n] /\ s = Head(q)
 OBVIOUS
<1>5. q \in Seq(Servers) /\ q # <<>>
 BY <1>1, <1>2, <1>3, <1>4, PoolIs
<1>6. s \in Servers /\ s \in ToSet(q)
 BY <1>4, <1>5, HeadTail
<1>7. Timeout(q, "readreq")
 BY <1>1, <1>2, <1>4
<1>8. TimesOut(s, mmc[s]["readreq"], n, B)
 BY <1>2, <1>4, <1>6, <1>7, TimeoutIs
<1> QED BY <1>2, <1>4, <1>8, TimesOutStep

\* A function of the walks that needs nothing of the server it is at.
LEMMA PlainSpecial ==
    ASSUME NEW f, Plain(f), NEW S, NEW R, NEW rf, NEW Fr
    PROVE  Special(f, S, R, rf, Fr)
BY DEF Plain, Special

\* What its next function walks.
WalksAs(f, po, P, Q, Y, Z) ==
    LET o == Other(po) IN NowTimeouts(f, o, P, Q, Y, Z) \/ NowSends(f, o, P, Q, Y, Z) \/ NowReads(f, o, P, Q, Y, Z)

LEMMA WalkNow ==
    ASSUME NEW B, AtRest(B), Head(B).fn \in WalkOrAt, NEW f \in BaseFrame, f.fn \in WalkOrAt \ {"read_early"},
           stack' = <<f>> \o Tail(B),
           mmc' = mmc, asked' = asked, request' = request, ret' = ret, pool' \in Pool, pool'.free = pool.free,
           NEW P, NEW Q, NEW Y, NEW Z,
           Core(SC(pool'), RC(pool'), pool'.rfds, Sends(mmc), Reads(mmc), Fresh(mmc, asked), {}, P, Q, Y, Z),
           Special(f, SC(pool'), RC(pool'), pool'.rfds, Fresh(mmc, asked)),
           WalksAs(f, pool', P, Q, Y, Z)
    PROVE  Inv'
<1>1. PICK B2 : B2 = Push(f, Tail(B))
 OBVIOUS
<1>2. stack' = B2
 BY <1>1 DEF Push
<1>3. Head(B2) = f
 BY <1>1, WalkSwap DEF AtRest
<1>4. Now(Other(pool'), B2, P, Q, Y, Z)
 BY <1>3 DEF Now, WalksAs
<1>5. Special(Head(B2), SC(pool'), RC(pool'), pool'.rfds, Fresh(mmc, asked))
 BY <1>3
<1>6. Walked(pool', mmc, asked, B2, {})
 BY <1>4, <1>5 DEF Walked
<1> QED BY <1>1, <1>2, <1>6, WalkOn

LEMMA TimeoutsEndStep ==
    ASSUME NEW B, NEW H, NEW X, GoodNow(B, H, X), TimeoutsEnd
    PROVE  Inv'
<1>1. /\ Running("timeouts") /\ pool.sending[Top.n] = <<>> /\ pool.reading[Top.n] = <<>>
      /\ pool' = [pool EXCEPT !.in_select = TRUE]
      /\ stack' = <<Walk("sends", Top.n, 1)>> \o Tail(stack)
      /\ mmc' = mmc /\ asked' = asked /\ request' = request /\ ret' = ret
 BY DEF TimeoutsEnd, Goto
<1>2. AtRest(B) /\ Head(B).fn = "timeouts" /\ Top = Head(B)
 <2>1. "timeouts" \in BaseFns \ {"read_early"}
  BY DEF BaseFns, WalkFns
 <2> QED BY <1>1, <2>1, RestIs
<1>3. /\ pool \in Pool /\ Head(B).n \in Lists /\ Tail(stack) = Tail(B)
 BY <1>2, RestFrame DEF WalkFns
<1>4. PICK P, Q, Y, Z :
          /\ Core(SC(pool), RC(pool), pool.rfds, Sends(mmc), Reads(mmc), Fresh(mmc, asked), {}, P, Q, Y, Z)
          /\ NowTimeouts(Head(B), Other(pool), P, Q, Y, Z)
 BY <1>2, RestWalked
<1>5. PICK n, f : n = Head(B).n /\ f = Walk("sends", n, 1)
 OBVIOUS
<1>6. /\ ~pool.in_select /\ n = 3 - pool.cur /\ pool.wfds = {} /\ pool.rfds = {}
      /\ P = ToSet(pool.sending[n]) /\ Y = P /\ Q = ToSet(pool.reading[n]) /\ Z = Q
 BY <1>4, <1>5, OtherHas DEF NowTimeouts
<1>7. P = {} /\ Q = {} /\ Y = {} /\ Z = {}
 <2>1. ToSet(<<>>) = {}
  BY EmptyFacts
 <2> QED BY <1>1, <1>2, <1>5, <1>6, <2>1
<1>8. /\ pool' \in Pool /\ SC(pool') = SC(pool) /\ RC(pool') = RC(pool) /\ pool'.rfds = pool.rfds /\ pool'.wfds = {}
      /\ pool'.free = pool.free /\ pool'.in_select = TRUE /\ pool'.cur = pool.cur
      /\ pool'.sending = pool.sending /\ pool'.reading = pool.reading
 BY <1>1, <1>3, <1>6 DEF Pool, SC, RC
<1>9. f \in BaseFrame /\ f.fn = "sends" /\ f.n = n /\ f.i = 1
 <2>1. "sends" \in WalkFns /\ 1 \in Nat \ {0}
  BY DEF WalkFns
 <2> QED BY <1>3, <1>5, <2>1, FrameMade
<1>10. Head(B).fn \in WalkOrAt /\ f.fn \in WalkOrAt \ {"read_early"} /\ Plain(f)
 BY <1>2, <1>9 DEF WalkOrAt, WalkFns, Plain
<1>12. stack' = <<f>> \o Tail(B)
 BY <1>1, <1>2, <1>3, <1>5
<1>13. PICK po : po = pool'
 OBVIOUS
<1>14. NowSends(f, Other(po), P, Q, Y, Z)
 <2>1. /\ po.in_select = TRUE /\ po.cur = pool.cur /\ po.wfds = {}
       /\ po.sending[n] = <<>> /\ po.reading[n] = <<>> /\ n = 3 - po.cur
  BY <1>1, <1>2, <1>5, <1>6, <1>8, <1>13
 <2>2. /\ Other(po).in_select = TRUE /\ Other(po).cur = po.cur /\ Other(po).wfds = {}
       /\ Other(po).sending = <<>> /\ Other(po).reading = <<>>
  BY ONLY <2>1, OtherHas
 <2>3. ToSet(<<>>) = {} /\ From(<<>>, 1) = {}
  BY EmptyFacts DEF From
 <2> QED BY <1>7, <1>9, <2>1, <2>2, <2>3 DEF NowSends
<1>15. WalksAs(f, pool', P, Q, Y, Z)
 BY <1>13, <1>14 DEF WalksAs
<1>16. Special(f, SC(pool'), RC(pool'), pool'.rfds, Fresh(mmc, asked))
 BY <1>10, PlainSpecial
<1>17. Core(SC(pool'), RC(pool'), pool'.rfds, Sends(mmc), Reads(mmc), Fresh(mmc, asked), {}, P, Q, Y, Z)
 BY <1>4, <1>8
<1> QED BY <1>1, <1>2, <1>8, <1>9, <1>10, <1>12, <1>15, <1>16, <1>17, WalkNow

--------------------
(* The walk over the servers to send to. *)

\* A walk that goes on with the next server.
LEMMA WalkIs ==
    ASSUME NEW fn \in WalkFns, NEW n \in Lists, NEW i \in Nat \ {0}, NEW f, f = Walk(fn, n, i)
    PROVE  /\ f \in BaseFrame /\ f.fn = fn /\ f.n = n /\ f.i = i /\ Plain(f)
           /\ f.fn \in WalkOrAt \ {"read_early"}
<1>1. f \in BaseFrame /\ f.fn = fn /\ f.n = n /\ f.i = i
 BY FrameMade
<1> QED BY <1>1 DEF WalkFns, Plain, WalkOrAt

\* A function at a server.
LEMMA AtIs ==
    ASSUME NEW fn \in AtFns, NEW s \in Servers, NEW n \in Lists, NEW i \in Nat \ {0}, NEW f, f = AF(fn, s, n, i)
    PROVE  /\ f \in BaseFrame /\ f.fn = fn /\ f.s = s /\ f.n = n /\ f.i = i
           /\ f.fn \in WalkOrAt
<1>1. f \in BaseFrame /\ f.fn = fn /\ f.s = s /\ f.n = n /\ f.i = i
 BY FrameMade
<1> QED BY <1>1 DEF WalkOrAt

\* What the walk over the servers to send to has before it.
SendsHave(fn, n, i, P, Q, Y, Z) ==
    /\ Core(SC(pool), RC(pool), pool.rfds, Sends(mmc), Reads(mmc), Fresh(mmc, asked), {}, P, Q, Y, Z)
    /\ pool.in_select /\ n = 3 - pool.cur /\ n \in Lists /\ i \in Nat \ {0}
    /\ Y = pool.wfds /\ Z = {}
    /\ pool.sending[n] \in Seq(Servers) /\ pool.reading[n] \in Seq(Servers)
    /\ fn # "send_failed" => Q = ToSet(pool.reading[n]) /\ P = From(pool.sending[n], i)
    /\ fn = "sends" => pool.wfds \subseteq P
    /\ fn # "sends" => pool.wfds \subseteq From(pool.sending[n], i + 1)

LEMMA SendsAt ==
    ASSUME NEW B, AtRest(B), Head(B).fn \in {"sends", "send", "send_failed"}
    PROVE  /\ \E P, Q, Y, Z :
                 /\ SendsHave(Head(B).fn, Head(B).n, Head(B).i, P, Q, Y, Z)
                 /\ Head(B).fn = "send_failed" =>
                       /\ Q = ToSet(pool.reading[Head(B).n]) \ {Head(B).s}
                       /\ P = From(pool.sending[Head(B).n], Head(B).i + 1)
           /\ Head(B).fn # "sends" => Head(B).s \in Servers
           /\ Head(B).fn = "send" =>
                 /\ Head(B).i \in 1 .. Len(pool.sending[Head(B).n])
                 /\ Head(B).s = pool.sending[Head(B).n][Head(B).i] /\ Head(B).s \notin pool.wfds
                 /\ Head(B).s \notin SC(pool) /\ ~(Head(B).s \in pool.rfds /\ Head(B).s \in RC(pool))
<1>1. PICK f, n, i : f = Head(B) /\ n = Head(B).n /\ i = Head(B).i
 OBVIOUS
<1>2. /\ f.n = n /\ f.i = i /\ n \in Lists /\ i \in Nat \ {0} /\ pool \in Pool
      /\ f.fn # "sends" => f.s \in Servers
 BY <1>1, RestFrame DEF WalkFns, AtFns
<1>3. PICK P, Q, Y, Z :
          /\ Core(SC(pool), RC(pool), pool.rfds, Sends(mmc), Reads(mmc), Fresh(mmc, asked), {}, P, Q, Y, Z)
          /\ NowSends(f, Other(pool), P, Q, Y, Z)
 BY <1>1, RestWalked
<1>4. Special(f, SC(pool), RC(pool), pool.rfds, Fresh(mmc, asked))
 BY <1>1, RestWalked
<1>5. pool.sending[n] \in Seq(Servers) /\ pool.reading[n] \in Seq(Servers) /\ n = 3 - pool.cur
 BY <1>2, <1>3, OtherHas, PoolIs DEF NowSends
<1>6. /\ pool.in_select /\ Y = pool.wfds /\ Z = {}
      /\ Q = IF f.fn = "send_failed" THEN ToSet(pool.reading[n]) \ {f.s} ELSE ToSet(pool.reading[n])
      /\ P = From(pool.sending[n], IF f.fn = "send_failed" THEN i + 1 ELSE i)
      /\ pool.wfds \subseteq From(pool.sending[n], IF f.fn = "sends" THEN i ELSE i + 1)
      /\ f.fn = "send" => i \in 1 .. Len(pool.sending[n]) /\ f.s = pool.sending[n][i] /\ f.s \notin pool.wfds
 BY <1>2, <1>3, <1>5, OtherHas DEF NowSends
<1>7. SendsHave(f.fn, n, i, P, Q, Y, Z)
 BY <1>2, <1>3, <1>5, <1>6 DEF SendsHave
<1>8. f.fn = "send" => f.s \notin SC(pool) /\ ~(f.s \in pool.rfds /\ f.s \in RC(pool))
 BY <1>4 DEF Special
<1>9. f.fn = "send_failed" => Q = ToSet(pool.reading[n]) \ {f.s} /\ P = From(pool.sending[n], i + 1)
 BY <1>6
<1> QED BY <1>1, <1>2, <1>6, <1>7, <1>8, <1>9

\* The next of its functions.
SendsNext(f, po, P, Q, Y) ==
    /\ f.fn \in {"sends", "send"} /\ po.in_select /\ f.n = 3 - po.cur
    /\ Y = po.wfds /\ Q = ToSet(po.reading[f.n]) /\ P = From(po.sending[f.n], f.i)
    /\ po.wfds \subseteq From(po.sending[f.n], IF f.fn = "sends" THEN f.i ELSE f.i + 1)
    /\ f.fn = "send" => f.i \in 1 .. Len(po.sending[f.n]) /\ f.s = po.sending[f.n][f.i] /\ f.s \notin po.wfds

LEMMA SendsNextIs ==
    ASSUME NEW f, NEW po, NEW P, NEW Q, NEW Y, SendsNext(f, po, P, Q, Y), NEW Z, Z = {}
    PROVE  WalksAs(f, po, P, Q, Y, Z)
<1>1. PICK n, i : n = f.n /\ i = f.i
 OBVIOUS
<1>2. /\ f.fn \in {"sends", "send"} /\ po.in_select /\ n = 3 - po.cur
      /\ Y = po.wfds /\ Q = ToSet(po.reading[n]) /\ P = From(po.sending[n], i)
      /\ po.wfds \subseteq From(po.sending[n], IF f.fn = "sends" THEN i ELSE i + 1)
      /\ f.fn = "send" => i \in 1 .. Len(po.sending[n]) /\ f.s = po.sending[n][i] /\ f.s \notin po.wfds
 BY <1>1 DEF SendsNext
<1>3. PICK o : o = Other(po)
 OBVIOUS
<1>4. /\ o.cur = po.cur /\ o.in_select = po.in_select /\ o.wfds = po.wfds
      /\ o.sending = po.sending[n] /\ o.reading = po.reading[n]
 BY <1>2, <1>3, OtherHas
<1>5. NowSends(f, o, P, Q, Y, Z)
 BY <1>1, <1>2, <1>4 DEF NowSends
<1> QED BY <1>3, <1>5 DEF WalksAs

\* A walk goes on, one server changes.
LEMMA WalkAct ==
    ASSUME NEW B, AtRest(B), Head(B).fn \in WalkOrAt, NEW f \in BaseFrame, f.fn \in WalkOrAt \ {"read_early"},
           stack' = <<f>> \o Tail(B), NEW s \in Servers,
           mmc' \in [Servers -> Mmc], asked' \in [Servers -> Seq(Answer)], But(mmc, mmc', s), But(asked, asked', s),
           Quiet(mmc'[s], asked'[s]), pool' \in Pool, request' \in Seq(Request), SameCalls(request, request'),
           ret' = ret, pool.free \subseteq pool'.free, Placed(mmc', {}, pool'.free, 1 .. Len(request')),
           Same(s, SC(pool), SC(pool')), Same(s, RC(pool), RC(pool')), Less(s, pool.rfds, pool'.rfds),
           NEW P, NEW Q, NEW Y, NEW Z, NEW P2, NEW Q2, NEW Y2, NEW Z2,
           Same(s, P, P2), Same(s, Q, Q2), Less(s, Y, Y2), Less(s, Z, Z2),
           Core(SC(pool), RC(pool), pool.rfds, Sends(mmc), Reads(mmc), Fresh(mmc, asked), {}, P, Q, Y, Z),
           CoreAt(s, SC(pool'), RC(pool'), pool'.rfds, Sends(mmc'), Reads(mmc'), Fresh(mmc', asked'), {}, P2, Q2, Y2, Z2),
           Special(f, SC(pool'), RC(pool'), pool'.rfds, Fresh(mmc', asked')),
           WalksAs(f, pool', P2, Q2, Y2, Z2)
    PROVE  Inv'
<1>1. /\ Types(mmc, asked, pool, request) /\ IsBase(B) /\ AllQuiet(mmc, asked, {})
      /\ CallsOK(pool.in_select, pool.free, mmc, request, B, {}, ret)
 BY DEF AtRest
<1>2. PICK B2, H : B2 = Push(f, Tail(B)) /\ H = {}
 OBVIOUS
<1>3. /\ IsBase(B2) /\ Head(B2) = f /\ Tail(B2) = Tail(B) /\ f.fn \notin CallFns
      /\ \A c : OpenIn(B2, c) <=> OpenIn(B, c)
 BY <1>1, <1>2, WalkSwap
<1>4. stack' = B2
 BY <1>2 DEF Push
<1>5. PICK mm, nn, aa, bb, po, qo, rr : /\ mm = mmc /\ nn = mmc' /\ aa = asked /\ bb = asked'
                                        /\ po = pool /\ qo = pool' /\ rr = request'
 OBVIOUS
<1>6. AllQuiet(nn, bb, {})
 BY <1>1, <1>5, QuietAll
<1>7. CallsOK(qo.in_select, qo.free, nn, rr, B2, H, ret)
 <2>1. CallsOK(po.in_select, po.free, mm, request, B, H, ret)
  BY <1>1, <1>2, <1>5
 <2>2. po.free \subseteq qo.free /\ SameCalls(request, rr) /\ Head(B2).fn \notin CallFns
  BY <1>3, <1>5
 <2> QED BY <1>3, <2>1, <2>2, CallsWalk
<1>8. Types(nn, bb, qo, rr)
 BY <1>5 DEF Types
<1>9. Walked(qo, nn, bb, B2, {})
 <2>1. PICK X : X = {}
  OBVIOUS
 <2>2. But(mm, nn, s) /\ But(aa, bb, s) /\ Same(s, SC(po), SC(qo)) /\ Same(s, RC(po), RC(qo)) /\ Less(s, po.rfds, qo.rfds)
  BY <1>5
 <2>3. Core(SC(po), RC(po), po.rfds, Sends(mm), Reads(mm), Fresh(mm, aa), X, P, Q, Y, Z)
  BY <1>5, <2>1
 <2>4. CoreAt(s, SC(qo), RC(qo), qo.rfds, Sends(nn), Reads(nn), Fresh(nn, bb), X, P2, Q2, Y2, Z2)
  BY <1>5, <2>1
 <2>5. Now(Other(qo), B2, P2, Q2, Y2, Z2)
  <3>1. WalksAs(f, qo, P2, Q2, Y2, Z2)
   BY <1>5
  <3> QED BY <1>3, <3>1 DEF Now, WalksAs
 <2>6. Special(Head(B2), SC(qo), RC(qo), qo.rfds, Fresh(nn, bb))
  BY <1>3, <1>5
 <2>7. Same(s, X, X)
  BY DEF Same
 <2>8. Walked(qo, nn, bb, B2, X)
  BY <2>2, <2>3, <2>4, <2>5, <2>6, <2>7, WalkedGo
 <2> QED BY <2>1, <2>8
<1>10. Placed(nn, {}, qo.free, 1 .. Len(rr))
 BY <1>5
<1>11. GoodAt(B2, nn, bb, qo, rr, ret)
 <2>1. CallsOK(qo.in_select, qo.free, nn, rr, B2, {}, ret)
  BY <1>2, <1>7
 <2>2. Head(B2).fn # "read_early"
  BY <1>3
 <2> QED BY <1>3, <1>6, <1>8, <1>9, <1>10, <2>1, <2>2, RestGood
<1> QED BY <1>4, <1>5, <1>11 DEF Inv

\* A walk passes a server.
LEMMA PassOne ==
    ASSUME NEW q \in Seq(Servers), NEW i \in Nat \ {0}, i \in 1 .. Len(q), NEW s, s = q[i]
    PROVE  /\ From(q, i) = {s} \cup From(q, i + 1) /\ s \in Servers /\ s \in From(q, i)
           /\ Same(s, From(q, i), From(q, i + 1))
<1>1. From(q, i) = {q[i]} \cup From(q, i + 1) /\ q[i] \in Servers
 BY FromIs
<1> QED BY <1>1 DEF Same

\* Sets that stay.
LEMMA StaySame == ASSUME NEW s, NEW A PROVE Same(s, A, A) /\ Less(s, A, A)
BY DEF Same, Less

LEMMA GainsOne == ASSUME NEW s, NEW A PROVE Same(s, A, A \cup {s})
BY DEF Same

\* A server is appended to the list that is filled.
LEMMA SendingGains ==
    ASSUME NEW po \in Pool, NEW s \in Servers, NEW qo, qo = [po EXCEPT !.sending[po.cur] = mmc_queue_push(@, s)]
    PROVE  /\ Filled(po, qo, SC(po) \cup {s}, RC(po)) /\ qo.wfds = po.wfds
           /\ qo.sending[3 - po.cur] = po.sending[3 - po.cur] /\ qo.reading[3 - po.cur] = po.reading[3 - po.cur]
<1>1. /\ po.cur \in Lists /\ 3 - po.cur \in Lists /\ 3 - po.cur # po.cur /\ po.sending[po.cur] \in Seq(Servers)
      /\ po.sending \in [Lists -> Seq(Servers)]
 BY PoolIs
<1>2. PICK x : x = mmc_queue_push(po.sending[po.cur], s)
 OBVIOUS
<1>3. x \in Seq(Servers) /\ ToSet(x) = ToSet(po.sending[po.cur]) \cup {s}
 <2>1. PICK u : u = po.sending[po.cur]
  OBVIOUS
 <2>2. mmc_queue_push(u, s) \in Seq(Servers) /\ ToSet(mmc_queue_push(u, s)) = ToSet(u) \cup {s}
  BY <1>1, <2>1, PushIs
 <2> QED BY <1>2, <2>1, <2>2
<1>4. qo = [po EXCEPT !.sending[po.cur] = x]
 BY <1>1, <1>2 DEF Pool
<1>5. Filled(po, qo, ToSet(x), RC(po))
 BY <1>3, <1>4, FillSending
<1>6. ToSet(x) = SC(po) \cup {s}
 BY <1>3 DEF SC
<1>7. /\ qo.wfds = po.wfds /\ qo.reading = po.reading /\ qo.sending[3 - po.cur] = po.sending[3 - po.cur]
 BY <1>1, <1>4 DEF Pool
<1> QED BY <1>5, <1>6, <1>7

LEMMA ReadingGains ==
    ASSUME NEW po \in Pool, NEW s \in Servers, NEW qo, qo = [po EXCEPT !.reading[po.cur] = mmc_queue_push(@, s)]
    PROVE  /\ Filled(po, qo, SC(po), RC(po) \cup {s}) /\ qo.wfds = po.wfds
           /\ qo.sending[3 - po.cur] = po.sending[3 - po.cur] /\ qo.reading[3 - po.cur] = po.reading[3 - po.cur]
<1>1. /\ po.cur \in Lists /\ 3 - po.cur \in Lists /\ 3 - po.cur # po.cur /\ po.reading[po.cur] \in Seq(Servers)
      /\ po.reading \in [Lists -> Seq(Servers)]
 BY PoolIs
<1>2. PICK x : x = mmc_queue_push(po.reading[po.cur], s)
 OBVIOUS
<1>3. x \in Seq(Servers) /\ ToSet(x) = ToSet(po.reading[po.cur]) \cup {s}
 <2>1. PICK u : u = po.reading[po.cur]
  OBVIOUS
 <2>2. mmc_queue_push(u, s) \in Seq(Servers) /\ ToSet(mmc_queue_push(u, s)) = ToSet(u) \cup {s}
  BY <1>1, <2>1, PushIs
 <2> QED BY <1>2, <2>1, <2>2
<1>4. qo = [po EXCEPT !.reading[po.cur] = x]
 BY <1>1, <1>2 DEF Pool
<1>5. Filled(po, qo, SC(po), ToSet(x))
 BY <1>3, <1>4, FillReading
<1>6. ToSet(x) = RC(po) \cup {s}
 BY <1>3 DEF RC
<1>7. /\ qo.wfds = po.wfds /\ qo.sending = po.sending /\ qo.reading[3 - po.cur] = po.reading[3 - po.cur]
 BY <1>1, <1>4 DEF Pool
<1> QED BY <1>5, <1>6, <1>7

LEMMA CoreMoves ==
    ASSUME NEW s, NEW S, NEW R, NEW rf, NEW Sd, NEW Rd, NEW Fr, NEW X, NEW P, NEW Q, NEW Y, NEW Z,
           Core(S, R, rf, Sd, Rd, Fr, X, P, Q, Y, Z),
           NEW S2, NEW R2, NEW rf2, NEW P2, NEW Q2, NEW Y2, NEW Z2,
           Same(s, S, S2), Same(s, R, R2), Less(s, rf, rf2),
           Same(s, P, P2), Same(s, Q, Q2), Less(s, Y, Y2), Less(s, Z, Z2),
           CoreAt(s, S2, R2, rf2, Sd, Rd, Fr, X, P2, Q2, Y2, Z2)
    PROVE  Core(S2, R2, rf2, Sd, Rd, Fr, X, P2, Q2, Y2, Z2)
<1>1. Same(s, Sd, Sd) /\ Same(s, Rd, Rd) /\ Same(s, Fr, Fr) /\ Same(s, X, X)
 BY StaySame
<1> QED BY <1>1, CoreOne

\* One server of the core.
RestCoreIs(s, P, Q, Y, Z) ==
    /\ s \in SC(pool) => mmc[s].sendreq # NULL
    /\ mmc[s].sendreq # NULL => s \in SC(pool) \/ s \in P
    /\ s \in RC(pool) => mmc[s].readreq # NULL
    /\ mmc[s].readreq # NULL => s \in RC(pool) \/ s \in Q
    /\ s \in pool.rfds /\ s \in RC(pool) => asked[s] = <<>> /\ ~mmc[s].part
    /\ s \in Y => s \notin SC(pool) /\ mmc[s].sendreq # NULL /\ ~(s \in pool.rfds /\ s \in RC(pool))
    /\ s \in Z => s \notin RC(pool) /\ mmc[s].readreq # NULL /\ s \notin pool.rfds
    /\ s \in Sends(mmc) <=> mmc[s].sendreq # NULL
    /\ s \in Reads(mmc) <=> mmc[s].readreq # NULL
    /\ s \in Fresh(mmc, asked) <=> asked[s] = <<>> /\ ~mmc[s].part

LEMMA RestCore ==
    ASSUME NEW P, NEW Q, NEW Y, NEW Z, NEW s \in Servers,
           Core(SC(pool), RC(pool), pool.rfds, Sends(mmc), Reads(mmc), Fresh(mmc, asked), {}, P, Q, Y, Z)
    PROVE  RestCoreIs(s, P, Q, Y, Z)
<1>1. /\ s \in Sends(mmc) <=> mmc[s].sendreq # NULL
      /\ s \in Reads(mmc) <=> mmc[s].readreq # NULL
      /\ s \in Fresh(mmc, asked) <=> asked[s] = <<>> /\ ~mmc[s].part
 BY SetsAt
<1> QED BY <1>1 DEF Core, RestCoreIs

\* A walk goes on, the pool becomes po.
LEMMA WalkGoes ==
    ASSUME NEW B, AtRest(B), Head(B).fn \in WalkOrAt, NEW f \in BaseFrame, f.fn \in WalkOrAt, f.fn # "read_early",
           stack' = <<f>> \o Tail(B), NEW po, pool' = po,
           mmc' = mmc, asked' = asked, request' = request, ret' = ret, po \in Pool, po.free = pool.free,
           NEW P, NEW Q, NEW Y, NEW Z,
           Core(SC(po), RC(po), po.rfds, Sends(mmc), Reads(mmc), Fresh(mmc, asked), {}, P, Q, Y, Z),
           Special(f, SC(po), RC(po), po.rfds, Fresh(mmc, asked)),
           WalksAs(f, po, P, Q, Y, Z)
    PROVE  Inv'
<1>1. pool' \in Pool /\ pool'.free = pool.free /\ f.fn \in WalkOrAt \ {"read_early"}
 OBVIOUS
<1>2. /\ Core(SC(pool'), RC(pool'), pool'.rfds, Sends(mmc), Reads(mmc), Fresh(mmc, asked), {}, P, Q, Y, Z)
      /\ Special(f, SC(pool'), RC(pool'), pool'.rfds, Fresh(mmc, asked))
      /\ WalksAs(f, pool', P, Q, Y, Z)
 OBVIOUS
<1> QED BY <1>1, <1>2, WalkNow

LEMMA SendWalkStep ==
    ASSUME NEW B, NEW H, NEW X, GoodNow(B, H, X), SendWalk
    PROVE  Inv'
<1>1. /\ Running("sends") /\ Top.i <= Len(pool.sending[Top.n])
      /\ mmc' = mmc /\ asked' = asked /\ request' = request /\ ret' = ret
 BY DEF SendWalk
<1>2. AtRest(B) /\ Head(B).fn = "sends" /\ Top = Head(B)
 <2>1. "sends" \in BaseFns \ {"read_early"}
  BY DEF BaseFns, WalkFns
 <2> QED BY <1>1, <2>1, RestIs
<1>3. /\ pool \in Pool /\ Tail(stack) = Tail(B)
 BY <1>2, RestFrame
<1>4. PICK n, i, q, s : n = Top.n /\ i = Top.i /\ q = pool.sending[n] /\ s = q[i]
 OBVIOUS
<1>5. PICK P, Q, Y, Z : SendsHave("sends", n, i, P, Q, Y, Z)
 BY <1>2, <1>4, SendsAt
<1>6. /\ Core(SC(pool), RC(pool), pool.rfds, Sends(mmc), Reads(mmc), Fresh(mmc, asked), {}, P, Q, Y, Z)
      /\ pool.in_select /\ n = 3 - pool.cur /\ n \in Lists /\ i \in Nat \ {0}
      /\ Y = pool.wfds /\ Z = {} /\ q \in Seq(Servers)
      /\ Q = ToSet(pool.reading[n]) /\ P = From(q, i) /\ pool.wfds \subseteq P
 BY <1>4, <1>5 DEF SendsHave
<1>7. i \in 1 .. Len(q)
 <2>1. i <= Len(q) /\ Len(q) \in Nat
  BY <1>1, <1>4, <1>6
 <2> QED BY <1>6, <2>1
<1>8. PICK P2 : P2 = From(q, i + 1)
 OBVIOUS
<1>9. P = {s} \cup P2 /\ s \in Servers /\ Same(s, P, P2)
 BY <1>4, <1>6, <1>7, <1>8, PassOne
<1>10. RestCoreIs(s, P, Q, Y, Z)
 BY <1>6, <1>9, RestCore
<1>12. Head(B).fn \in WalkOrAt /\ i + 1 \in Nat \ {0} /\ "sends" \in WalkFns /\ "send" \in AtFns
 BY <1>2, <1>6 DEF WalkOrAt, WalkFns, AtFns
<1>13. PICK f : f = Walk("sends", n, i + 1)
 OBVIOUS
<1>14. f \in BaseFrame /\ f.fn = "sends" /\ f.n = n /\ f.i = i + 1 /\ Plain(f) /\ f.fn \in WalkOrAt \ {"read_early"}
 BY <1>6, <1>12, <1>13, WalkIs
<1>15. PICK po : po = pool'
 OBVIOUS
<1>16. CASE mmc[s].sendreq = NULL
 <2>1. stack' = <<f>> \o Tail(B) /\ pool' = pool
  BY <1>3, <1>4, <1>13, <1>16 DEF SendWalk, NextOf, Goto
 <2>2. CoreAt(s, SC(pool), RC(pool), pool.rfds, Sends(mmc), Reads(mmc), Fresh(mmc, asked), {}, P2, Q, Y, Z)
  BY <1>10, <1>16 DEF CoreAt, RestCoreIs
 <2>3. Core(SC(pool), RC(pool), pool.rfds, Sends(mmc), Reads(mmc), Fresh(mmc, asked), {}, P2, Q, Y, Z)
  BY <1>6, <1>9, <2>2, StaySame, CoreMoves, Zenon
 <2>4. SendsNext(f, pool, P2, Q, Y)
  BY <1>4, <1>6, <1>8, <1>9, <1>10, <1>14, <1>16, Zenon DEF SendsNext, RestCoreIs
 <2>5. WalksAs(f, pool, P2, Q, Y, Z)
  BY <1>6, <2>4, SendsNextIs
 <2>6. Special(f, SC(pool'), RC(pool'), pool'.rfds, Fresh(mmc, asked))
  BY <1>14, PlainSpecial
 <2> QED BY <1>1, <1>2, <1>3, <1>12, <1>14, <2>1, <2>3, <2>5, <2>6, WalkNow
<1>17. CASE mmc[s].sendreq # NULL /\ s \in pool.wfds
 <2>1. PICK g : g = AF("send", s, n, i)
  OBVIOUS
 <2>2. stack' = <<g>> \o Tail(B) /\ po = [pool EXCEPT !.wfds = @ \ {s}]
  BY <1>3, <1>4, <1>15, <1>17, <2>1 DEF SendWalk, Goto, AF
 <2>3. /\ po \in Pool /\ SC(po) = SC(pool) /\ RC(po) = RC(pool) /\ po.rfds = pool.rfds /\ po.free = pool.free
       /\ po.in_select = pool.in_select /\ po.cur = pool.cur /\ po.sending = pool.sending /\ po.reading = pool.reading
       /\ po.wfds = Y \ {s}
  BY <1>3, <1>6, <2>2 DEF Pool, SC, RC
 <2>4. g \in BaseFrame /\ g.fn = "send" /\ g.s = s /\ g.n = n /\ g.i = i /\ g.fn \in WalkOrAt
  BY <1>6, <1>9, <1>12, <2>1, AtIs
 <2>5. PICK Y2 : Y2 = Y \ {s}
  OBVIOUS
 <2>6. CoreAt(s, SC(pool), RC(pool), pool.rfds, Sends(mmc), Reads(mmc), Fresh(mmc, asked), {}, P, Q, Y2, Z)
  BY <1>6, <1>9, <1>10, <2>5 DEF CoreAt, RestCoreIs
 <2>7. Core(SC(pool), RC(pool), pool.rfds, Sends(mmc), Reads(mmc), Fresh(mmc, asked), {}, P, Q, Y2, Z)
  BY <1>6, <2>5, <2>6, StaySame, LosesOne, CoreMoves, SMTT(30)
 <2>8. SendsNext(g, po, P, Q, Y2)
  BY <1>4, <1>6, <1>7, <1>8, <1>9, <2>3, <2>4, <2>5, ZenonT(60) DEF SendsNext
 <2>9. WalksAs(g, po, P, Q, Y2, Z)
  BY <1>6, <2>8, SendsNextIs
 <2>10. Special(g, SC(po), RC(po), po.rfds, Fresh(mmc, asked))
  BY <1>6, <1>10, <1>17, <2>3, <2>4 DEF Special, RestCoreIs
 <2>11. Core(SC(po), RC(po), po.rfds, Sends(mmc), Reads(mmc), Fresh(mmc, asked), {}, P, Q, Y2, Z)
  BY <2>3, <2>7
 <2>12. pool' = po /\ po \in Pool /\ po.free = pool.free /\ g \in BaseFrame /\ g.fn \in WalkOrAt /\ g.fn # "read_early"
        /\ stack' = <<g>> \o Tail(B)
  BY <1>15, <2>2, <2>3, <2>4
 <2> QED BY ONLY <1>1, <1>2, <1>12, <2>9, <2>10, <2>11, <2>12, WalkGoes
<1>18. CASE mmc[s].sendreq # NULL /\ s \notin pool.wfds
 <2>1. stack' = <<f>> \o Tail(B) /\ po = [pool EXCEPT !.sending[pool.cur] = mmc_queue_push(@, s)]
  BY <1>3, <1>4, <1>13, <1>15, <1>18 DEF SendWalk, NextOf, Goto
 <2>2. /\ Filled(pool, po, SC(pool) \cup {s}, RC(pool)) /\ po.wfds = pool.wfds
       /\ po.sending[3 - pool.cur] = pool.sending[3 - pool.cur] /\ po.reading[3 - pool.cur] = pool.reading[3 - pool.cur]
  BY <1>3, <1>9, <2>1, SendingGains
 <2>3. /\ po \in Pool /\ SC(po) = SC(pool) \cup {s} /\ RC(po) = RC(pool) /\ po.rfds = pool.rfds /\ po.free = pool.free
       /\ po.in_select = pool.in_select /\ po.cur = pool.cur /\ po.sending[n] = q /\ po.reading[n] = pool.reading[n]
       /\ po.wfds = Y
  BY <1>4, <1>6, <2>2 DEF Filled
 <2>4. CoreAt(s, SC(po), RC(po), po.rfds, Sends(mmc), Reads(mmc), Fresh(mmc, asked), {}, P2, Q, Y, Z)
  BY <1>6, <1>9, <1>10, <1>18, <2>3 DEF CoreAt, RestCoreIs
 <2>5. Same(s, SC(pool), SC(po)) /\ Same(s, RC(pool), RC(po)) /\ Less(s, pool.rfds, po.rfds)
  BY <2>3, GainsOne, StaySame
 <2>6. Core(SC(po), RC(po), po.rfds, Sends(mmc), Reads(mmc), Fresh(mmc, asked), {}, P2, Q, Y, Z)
  BY <1>6, <1>9, <2>4, <2>5, StaySame, CoreMoves, ZenonT(60)
 <2>7. SendsNext(f, po, P2, Q, Y)
  BY <1>4, <1>6, <1>8, <1>9, <1>14, <1>18, <2>3, ZenonT(60) DEF SendsNext
 <2>8. WalksAs(f, po, P2, Q, Y, Z)
  BY <1>6, <2>7, SendsNextIs
 <2>9. Special(f, SC(po), RC(po), po.rfds, Fresh(mmc, asked))
  BY <1>14, PlainSpecial
 <2> QED BY <1>1, <1>2, <1>12, <1>14, <1>15, <2>1, <2>3, <2>6, <2>8, <2>9, WalkNow, SMTT(30)
<1> QED BY <1>16, <1>17, <1>18

\* What a function at a server to send to does.
LEMMA SendEndsStep ==
    ASSUME NEW B, NEW H, NEW X, GoodNow(B, H, X), SendEnds
    PROVE  Inv'
<1>1. /\ Running("send") /\ mmc[Top.s].sendreq = NULL /\ stack' = <<Walk("sends", Top.n, Top.i + 1)>> \o Tail(stack)
      /\ mmc' = mmc /\ asked' = asked /\ request' = request /\ ret' = ret /\ pool' = pool
 BY DEF SendEnds, NextOf, Goto
<1>2. AtRest(B) /\ Head(B).fn = "send" /\ Top = Head(B)
 <2>1. "send" \in BaseFns \ {"read_early"}
  BY DEF BaseFns, AtFns
 <2> QED BY <1>1, <2>1, RestIs
<1>3. pool \in Pool /\ Tail(stack) = Tail(B)
 BY <1>2, RestFrame
<1>4. PICK n, i, q, s : n = Top.n /\ i = Top.i /\ q = pool.sending[n] /\ s = Top.s
 OBVIOUS
<1>5. /\ \E P, Q, Y, Z : SendsHave("send", n, i, P, Q, Y, Z)
      /\ s \in Servers /\ i \in 1 .. Len(q) /\ s = q[i]
 BY <1>2, <1>4, SendsAt
<1>6. PICK P, Q, Y, Z : SendsHave("send", n, i, P, Q, Y, Z)
 BY <1>5
<1>7. /\ Core(SC(pool), RC(pool), pool.rfds, Sends(mmc), Reads(mmc), Fresh(mmc, asked), {}, P, Q, Y, Z)
      /\ pool.in_select /\ n = 3 - pool.cur /\ n \in Lists /\ i \in Nat \ {0}
      /\ Y = pool.wfds /\ Z = {} /\ q \in Seq(Servers)
      /\ Q = ToSet(pool.reading[n]) /\ P = From(q, i) /\ pool.wfds \subseteq From(q, i + 1)
 BY <1>4, <1>6 DEF SendsHave
<1>8. PICK P2 : P2 = From(q, i + 1)
 OBVIOUS
<1>9. P = {s} \cup P2 /\ s \in Servers /\ Same(s, P, P2)
 BY <1>5, <1>7, <1>8, PassOne
<1>10. RestCoreIs(s, P, Q, Y, Z)
 BY <1>7, <1>9, RestCore
<1>12. Head(B).fn \in WalkOrAt /\ i + 1 \in Nat \ {0} /\ "sends" \in WalkFns
 BY <1>2, <1>7 DEF WalkOrAt, WalkFns, AtFns
<1>13. PICK f : f = Walk("sends", n, i + 1)
 OBVIOUS
<1>14. f \in BaseFrame /\ f.fn = "sends" /\ f.n = n /\ f.i = i + 1 /\ Plain(f) /\ f.fn \in WalkOrAt \ {"read_early"}
 BY <1>7, <1>12, <1>13, WalkIs
<1>15. stack' = <<f>> \o Tail(B)
 BY <1>1, <1>3, <1>4, <1>13
<1>16. CoreAt(s, SC(pool), RC(pool), pool.rfds, Sends(mmc), Reads(mmc), Fresh(mmc, asked), {}, P2, Q, Y, Z)
 BY <1>1, <1>4, <1>10 DEF CoreAt, RestCoreIs
<1>17. Core(SC(pool), RC(pool), pool.rfds, Sends(mmc), Reads(mmc), Fresh(mmc, asked), {}, P2, Q, Y, Z)
 BY <1>7, <1>9, <1>16, StaySame, CoreMoves
<1>18. SendsNext(f, pool, P2, Q, Y)
 BY <1>4, <1>7, <1>8, <1>14 DEF SendsNext
<1>19. WalksAs(f, pool, P2, Q, Y, Z)
 BY <1>7, <1>18, SendsNextIs
<1>20. Special(f, SC(pool), RC(pool), pool.rfds, Fresh(mmc, asked))
 BY <1>14, PlainSpecial
<1> QED BY <1>1, <1>2, <1>3, <1>12, <1>14, <1>15, <1>17, <1>19, <1>20, WalkGoes

LEMMA SendFailedStep ==
    ASSUME NEW B, NEW H, NEW X, GoodNow(B, H, X), SendFailed
    PROVE  Inv'
<1>1. /\ Running("send_failed") /\ stack' = <<Walk("sends", Top.n, Top.i + 1)>> \o Tail(stack)
      /\ pool' = [pool EXCEPT !.reading[Top.n] = mmc_queue_remove(@, Top.s)]
      /\ mmc' = mmc /\ asked' = asked /\ request' = request /\ ret' = ret
 BY DEF SendFailed, NextOf, Goto
<1>2. AtRest(B) /\ Head(B).fn = "send_failed" /\ Top = Head(B)
 <2>1. "send_failed" \in BaseFns \ {"read_early"}
  BY DEF BaseFns, AtFns
 <2> QED BY <1>1, <2>1, RestIs
<1>3. pool \in Pool /\ Tail(stack) = Tail(B)
 BY <1>2, RestFrame
<1>4. PICK n, i, q, s, u, w : /\ n = Top.n /\ i = Top.i /\ q = pool.sending[n] /\ s = Top.s
                              /\ u = pool.reading[n] /\ w = mmc_queue_remove(u, s)
 OBVIOUS
<1>6. PICK P, Q, Y, Z : SendsHave("send_failed", n, i, P, Q, Y, Z) /\ Q = ToSet(u) \ {s} /\ P = From(q, i + 1)
 BY <1>2, <1>4, SendsAt
<1>7. /\ Core(SC(pool), RC(pool), pool.rfds, Sends(mmc), Reads(mmc), Fresh(mmc, asked), {}, P, Q, Y, Z)
      /\ pool.in_select /\ n = 3 - pool.cur /\ n \in Lists /\ i \in Nat \ {0}
      /\ Y = pool.wfds /\ Z = {} /\ q \in Seq(Servers) /\ u \in Seq(Servers)
      /\ pool.wfds \subseteq From(q, i + 1)
 BY <1>4, <1>6 DEF SendsHave
<1>8. w \in Seq(Servers) /\ ToSet(w) = ToSet(u) \ {s}
 BY <1>4, <1>7, RemoveIs
<1>9. PICK po : po = pool'
 OBVIOUS
<1>10. po = [pool EXCEPT !.reading[n] = w]
 BY <1>1, <1>3, <1>4, <1>7, <1>9 DEF Pool
<1>11. Shrunk(pool, po, pool.sending[n], w)
 BY ONLY <1>3, <1>7, <1>8, <1>10, ShrinkReading
<1>12. Head(B).fn \in WalkOrAt /\ i + 1 \in Nat \ {0} /\ "sends" \in WalkFns
 BY <1>2, <1>7 DEF WalkOrAt, WalkFns, AtFns
<1>13. PICK f : f = Walk("sends", n, i + 1)
 OBVIOUS
<1>14. f \in BaseFrame /\ f.fn = "sends" /\ f.n = n /\ f.i = i + 1 /\ Plain(f) /\ f.fn \in WalkOrAt \ {"read_early"}
 BY <1>7, <1>12, <1>13, WalkIs
<1>15. stack' = <<f>> \o Tail(B)
 BY <1>1, <1>3, <1>4, <1>13
<1>16. /\ po \in Pool /\ SC(po) = SC(pool) /\ RC(po) = RC(pool) /\ po.rfds = pool.rfds /\ po.free = pool.free
       /\ po.in_select = pool.in_select /\ po.cur = pool.cur /\ po.sending[n] = q /\ po.reading[n] = w
       /\ po.wfds = pool.wfds
 BY <1>4, <1>7, <1>11 DEF Shrunk
<1>17. Core(SC(po), RC(po), po.rfds, Sends(mmc), Reads(mmc), Fresh(mmc, asked), {}, P, Q, Y, Z)
 BY <1>7, <1>16
<1>18. SendsNext(f, po, P, Q, Y)
 BY <1>6, <1>7, <1>8, <1>14, <1>16 DEF SendsNext
<1>19. WalksAs(f, po, P, Q, Y, Z)
 BY <1>7, <1>18, SendsNextIs
<1>20. Special(f, SC(po), RC(po), po.rfds, Fresh(mmc, asked))
 BY <1>14, PlainSpecial
<1>21. pool' = po /\ po \in Pool /\ po.free = pool.free
 BY <1>9, <1>16
<1> QED BY ONLY <1>1, <1>2, <1>12, <1>14, <1>15, <1>17, <1>19, <1>20, <1>21, WalkGoes

\* Nothing but what is sent of a request, or the interval, changes.
LEMMA SameLines ==
    ASSUME NEW m, NEW n, NEW a, n.status = m.status, n.sendreq = m.sendreq, n.sendqueue = m.sendqueue,
           n.readreq = m.readreq, n.readqueue = m.readqueue
    PROVE  RL(n) = RL(m) /\ SL(n) = SL(m) /\ (Quiet(m, a) => Quiet(n, a))
BY DEF RL, SL, Line, Quiet, Linked, Up, Empty

\* The walk over the servers to send to, at one of them.
SendHas(B, n, i, q, s, P, Q, Y, Z) ==
    /\ n = Head(B).n /\ i = Head(B).i /\ q = pool.sending[n] /\ s = Head(B).s
    /\ s \in Servers /\ i \in 1 .. Len(q) /\ s = q[i] /\ q \in Seq(Servers)
    /\ Core(SC(pool), RC(pool), pool.rfds, Sends(mmc), Reads(mmc), Fresh(mmc, asked), {}, P, Q, Y, Z)
    /\ pool.in_select /\ n = 3 - pool.cur /\ n \in Lists /\ i \in Nat \ {0} /\ i + 1 \in Nat \ {0}
    /\ Y = pool.wfds /\ Z = {} /\ s \notin pool.wfds
    /\ Q = ToSet(pool.reading[n]) /\ P = From(q, i) /\ pool.wfds \subseteq From(q, i + 1)
    /\ s \notin SC(pool) /\ ~(s \in pool.rfds /\ s \in RC(pool))
    /\ P = {s} \cup From(q, i + 1) /\ Same(s, P, From(q, i + 1))
    /\ RestCoreIs(s, P, Q, Y, Z)
    /\ pool.reading[n] \in Seq(Servers)

LEMMA SendAt ==
    ASSUME NEW B, AtRest(B), Head(B).fn = "send"
    PROVE  \E n, i, q, s, P, Q, Y, Z : SendHas(B, n, i, q, s, P, Q, Y, Z)
<1>1. PICK n, i, q, s : n = Head(B).n /\ i = Head(B).i /\ q = pool.sending[n] /\ s = Head(B).s
 OBVIOUS
<1>2. /\ \E P, Q, Y, Z : SendsHave("send", n, i, P, Q, Y, Z)
      /\ s \in Servers /\ i \in 1 .. Len(q) /\ s = q[i] /\ s \notin pool.wfds
      /\ s \notin SC(pool) /\ ~(s \in pool.rfds /\ s \in RC(pool))
 BY <1>1, SendsAt
<1>3. PICK P, Q, Y, Z : SendsHave("send", n, i, P, Q, Y, Z)
 BY <1>2
<1>4. /\ Core(SC(pool), RC(pool), pool.rfds, Sends(mmc), Reads(mmc), Fresh(mmc, asked), {}, P, Q, Y, Z)
      /\ pool.in_select /\ n = 3 - pool.cur /\ n \in Lists /\ i \in Nat \ {0}
      /\ Y = pool.wfds /\ Z = {} /\ q \in Seq(Servers) /\ pool.reading[n] \in Seq(Servers)
      /\ Q = ToSet(pool.reading[n]) /\ P = From(q, i) /\ pool.wfds \subseteq From(q, i + 1)
 BY <1>1, <1>3 DEF SendsHave
<1>5. P = {s} \cup From(q, i + 1) /\ Same(s, P, From(q, i + 1))
 BY <1>2, <1>4, PassOne
<1>6. RestCoreIs(s, P, Q, Y, Z)
 BY <1>2, <1>4, RestCore
<1>7. i + 1 \in Nat \ {0}
 BY <1>4, SMTT(30)
<1>8. SendHas(B, n, i, q, s, P, Q, Y, Z)
 BY <1>1, <1>2, <1>4, <1>5, <1>6, <1>7 DEF SendHas
<1> QED BY <1>8

\* At rest, nothing changes for the requests.
LEMMA SamePlaces ==
    ASSUME NEW B, AtRest(B), NEW nn, NEW s \in Servers, But(mmc, nn, s), RL(nn[s]) = RL(mmc[s])
    PROVE  Placed(nn, {}, pool.free, 1 .. Len(request))
<1>1. PICK H : H = {}
 OBVIOUS
<1>2. Placed(mmc, H, pool.free, 1 .. Len(request)) /\ InLine(nn, s) = InLine(mmc, s)
 BY <1>1 DEF AtRest, InLine
<1>3. Placed(nn, H, pool.free, 1 .. Len(request))
 BY <1>2, PlacedSame
<1> QED BY <1>1, <1>3

LEMMA SendsMoreStep ==
    ASSUME NEW B, NEW H, NEW X, GoodNow(B, H, X), SendsMore
    PROVE  Inv'
<1>1. /\ Running("send") /\ mmc[Top.s].sendreq # NULL /\ stack' = <<Walk("sends", Top.n, Top.i + 1)>> \o Tail(stack)
      /\ \E part \in BOOLEAN : mmc' = [mmc EXCEPT ![Top.s].part = @ \/ part]
      /\ pool' = [pool EXCEPT !.sending[pool.cur] = mmc_queue_push(@, Top.s)]
      /\ asked' = asked /\ request' = request /\ ret' = ret
 BY DEF SendsMore, NextOf, Goto
<1>2. AtRest(B) /\ Head(B).fn = "send" /\ Top = Head(B)
 <2>1. "send" \in BaseFns \ {"read_early"}
  BY DEF BaseFns, AtFns
 <2> QED BY <1>1, <2>1, RestIs
<1>3. /\ pool \in Pool /\ Tail(stack) = Tail(B) /\ mmc \in [Servers -> Mmc]
      /\ asked \in [Servers -> Seq(Answer)] /\ request \in Seq(Request)
 BY <1>2, RestFrame
<1>4. PICK n, i, q, s, P, Q, Y, Z : SendHas(B, n, i, q, s, P, Q, Y, Z)
 BY <1>2, SendAt
<1>5. PICK P2 : P2 = From(q, i + 1)
 OBVIOUS
<1>6. PICK part \in BOOLEAN : mmc' = [mmc EXCEPT ![s].part = @ \/ part]
 BY <1>1, <1>2, <1>4, Zenon DEF SendHas
<1>7. s \in Servers /\ mmc[s] \in Mmc /\ asked[s] \in Seq(Answer)
 BY <1>3, <1>4 DEF SendHas
<1>8. PICK m : m = [mmc[s] EXCEPT !.part = @ \/ part]
 OBVIOUS
<1>9. /\ m \in Mmc /\ m.status = mmc[s].status /\ m.sendreq = mmc[s].sendreq /\ m.sendqueue = mmc[s].sendqueue
      /\ m.readreq = mmc[s].readreq /\ m.readqueue = mmc[s].readqueue
 BY <1>7, <1>8 DEF Mmc
<1>10. PICK nn : nn = mmc'
 OBVIOUS
<1>11. nn \in [Servers -> Mmc] /\ nn[s] = m /\ But(mmc, nn, s)
 <2>1. nn = [mmc EXCEPT ![s] = m]
  BY <1>3, <1>6, <1>7, <1>8, <1>10
 <2> QED BY <1>3, <1>7, <1>9, <2>1, ServerPut
<1>12. Quiet(mmc[s], asked[s])
 BY <1>2, <1>7 DEF AtRest, AllQuiet
<1>13. RL(m) = RL(mmc[s]) /\ Quiet(m, asked[s])
 BY <1>9, <1>12, SameLines
<1>14. Placed(nn, {}, pool.free, 1 .. Len(request))
 BY <1>2, <1>7, <1>11, <1>13, SamePlaces, SMTT(30)
<1>15. PICK po : po = pool'
 OBVIOUS
<1>16. po = [pool EXCEPT !.sending[pool.cur] = mmc_queue_push(@, s)]
 BY <1>1, <1>2, <1>4, <1>15 DEF SendHas
<1>17. /\ Filled(pool, po, SC(pool) \cup {s}, RC(pool)) /\ po.wfds = pool.wfds
       /\ po.sending[3 - pool.cur] = pool.sending[3 - pool.cur] /\ po.reading[3 - pool.cur] = pool.reading[3 - pool.cur]
 BY <1>3, <1>7, <1>16, SendingGains, Zenon
<1>18. /\ po \in Pool /\ SC(po) = SC(pool) \cup {s} /\ RC(po) = RC(pool) /\ po.rfds = pool.rfds /\ po.free = pool.free
       /\ po.in_select = pool.in_select /\ po.cur = pool.cur /\ po.sending[n] = q /\ po.reading[n] = pool.reading[n]
       /\ po.wfds = Y
 BY <1>4, <1>17, Zenon DEF Filled, SendHas
<1>19. CoreAt(s, SC(po), RC(po), po.rfds, Sends(nn), Reads(nn), Fresh(nn, asked), {}, P2, Q, Y, Z)
 <2>1. /\ s \in Sends(nn) <=> m.sendreq # NULL
       /\ s \in Reads(nn) <=> m.readreq # NULL
       /\ s \in Fresh(nn, asked) <=> asked[s] = <<>> /\ ~m.part
  BY <1>7, <1>11, SetsAt
 <2> QED BY <1>1, <1>2, <1>4, <1>7, <1>9, <1>18, <2>1, Zenon DEF CoreAt, SendHas, RestCoreIs
<1>20. PICK f : f = Walk("sends", n, i + 1)
 OBVIOUS
<1>21. f \in BaseFrame /\ f.fn = "sends" /\ f.n = n /\ f.i = i + 1 /\ Plain(f) /\ f.fn \in WalkOrAt \ {"read_early"}
 <2>1. n \in Lists /\ i + 1 \in Nat \ {0} /\ "sends" \in WalkFns
  BY <1>4, SMTT(30) DEF SendHas, WalkFns
 <2> QED BY <1>20, <2>1, WalkIs
<1>22. Head(B).fn \in WalkOrAt /\ stack' = <<f>> \o Tail(B)
 BY <1>1, <1>2, <1>3, <1>4, <1>20 DEF WalkOrAt, AtFns, SendHas
<1>23. WalksAs(f, po, P2, Q, Y, Z)
 <2>1. SendsNext(f, po, P2, Q, Y) /\ Z = {}
  BY <1>4, <1>5, <1>18, <1>21 DEF SendsNext, SendHas
 <2> QED BY <2>1, SendsNextIs
<1>24. Special(f, SC(po), RC(po), po.rfds, Fresh(nn, asked))
 BY <1>21, PlainSpecial
<1>25. /\ Same(s, SC(pool), SC(po)) /\ Same(s, RC(pool), RC(po)) /\ Less(s, pool.rfds, po.rfds)
       /\ Same(s, P, P2) /\ Same(s, Q, Q) /\ Less(s, Y, Y) /\ Less(s, Z, Z)
 <2>1. Same(s, SC(pool), SC(po)) /\ Same(s, RC(pool), RC(po)) /\ Less(s, pool.rfds, po.rfds)
  BY <1>18, GainsOne, StaySame
 <2>2. Same(s, P, P2)
  BY <1>4, <1>5 DEF SendHas
 <2> QED BY <2>1, <2>2, StaySame
<1>26. SameCalls(request, request) /\ But(asked, asked, s)
 BY SameLength, AskedSame
<1>27. /\ mmc' = nn /\ pool' = po /\ asked' = asked /\ request' = request /\ ret' = ret
       /\ Core(SC(pool), RC(pool), pool.rfds, Sends(mmc), Reads(mmc), Fresh(mmc, asked), {}, P, Q, Y, Z)
 BY <1>1, <1>4, <1>10, <1>15 DEF SendHas
<1>28. /\ mmc' \in [Servers -> Mmc] /\ asked' \in [Servers -> Seq(Answer)] /\ But(mmc, mmc', s) /\ But(asked, asked', s)
       /\ Quiet(mmc'[s], asked'[s]) /\ pool' \in Pool /\ request' \in Seq(Request) /\ SameCalls(request, request')
       /\ pool.free \subseteq pool'.free /\ Placed(mmc', {}, pool'.free, 1 .. Len(request'))
 BY <1>3, <1>11, <1>13, <1>14, <1>18, <1>26, <1>27
<1>29. /\ Same(s, SC(pool), SC(pool')) /\ Same(s, RC(pool), RC(pool')) /\ Less(s, pool.rfds, pool'.rfds)
       /\ CoreAt(s, SC(pool'), RC(pool'), pool'.rfds, Sends(mmc'), Reads(mmc'), Fresh(mmc', asked'), {}, P2, Q, Y, Z)
       /\ Special(f, SC(pool'), RC(pool'), pool'.rfds, Fresh(mmc', asked'))
       /\ WalksAs(f, pool', P2, Q, Y, Z)
 BY <1>19, <1>23, <1>24, <1>25, <1>27
<1> QED BY ONLY <1>2, <1>7, <1>21, <1>22, <1>25, <1>27, <1>28, <1>29, WalkAct

\* The walks while a request is sent to a server, which is in no list that is
\* filled and still in the one that is walked.
LEMMA SendWalked ==
    ASSUME NEW B, IsBase(B), Head(B).fn = "send", NEW s \in Servers, s = Head(B).s, NEW po \in Pool,
           NEW mm, NEW nn, NEW aa, NEW bb, But(mm, nn, s), But(aa, bb, s), nn[s].readreq = mm[s].readreq,
           NEW X, X = {}, Walked(po, mm, aa, B, X)
    PROVE  Walked(po, nn, bb, B, X)
<1>1. PICK P, Q, Y, Z :
          /\ Core(SC(po), RC(po), po.rfds, Sends(mm), Reads(mm), Fresh(mm, aa), X, P, Q, Y, Z)
          /\ Now(Other(po), B, P, Q, Y, Z) /\ NowSends(Head(B), Other(po), P, Q, Y, Z)
 BY NowIs
<1>2. Special(Head(B), SC(po), RC(po), po.rfds, Fresh(mm, aa))
 BY DEF Walked
<1>3. s \notin SC(po) /\ ~(s \in po.rfds /\ s \in RC(po))
 BY <1>2 DEF Special
<1>4. PICK o, i : o = Other(po) /\ i = Head(B).i
 OBVIOUS
<1>5. o.sending \in Seq(Servers)
 BY <1>4, OtherHas, PoolIs
<1>6. i \in Nat \ {0} /\ Y = o.wfds /\ Z = {} /\ P = From(o.sending, i) /\ i \in 1 .. Len(o.sending) /\ s = o.sending[i] /\ s \notin o.wfds
 BY <1>1, <1>4, <1>5 DEF NowSends
<1>7. s \in P /\ s \notin Y /\ s \notin Z
 BY <1>5, <1>6, PassOne
<1>8. CoreAt(s, SC(po), RC(po), po.rfds, Sends(mm), Reads(mm), Fresh(mm, aa), X, P, Q, Y, Z)
 BY <1>1, CoreIs
<1>9. CoreAt(s, SC(po), RC(po), po.rfds, Sends(nn), Reads(nn), Fresh(nn, bb), X, P, Q, Y, Z)
 <2>1. /\ s \in Reads(nn) <=> nn[s].readreq # NULL
       /\ s \in Reads(mm) <=> mm[s].readreq # NULL
  BY DEF Reads
 <2> QED BY <1>3, <1>7, <1>8, <2>1 DEF CoreAt
<1>10. Special(Head(B), SC(po), RC(po), po.rfds, Fresh(nn, bb))
 BY <1>3 DEF Special
<1>11. Same(s, SC(po), SC(po)) /\ Same(s, RC(po), RC(po)) /\ Less(s, po.rfds, po.rfds) /\ Same(s, X, X)
       /\ Same(s, P, P) /\ Same(s, Q, Q) /\ Less(s, Y, Y) /\ Less(s, Z, Z)
 BY StaySame
<1> QED BY <1>1, <1>9, <1>10, <1>11, WalkedGo

LEMMA SentStep ==
    ASSUME NEW B, NEW H, NEW X, GoodNow(B, H, X), Sent
    PROVE  Inv'
<1>1. /\ Running("send") /\ mmc[Top.s].sendreq # NULL
      /\ asked' = [asked EXCEPT ![Top.s] = Append(@, [req |-> mmc[Top.s].sendreq, value |-> FALSE,
                                                      kind |-> request[mmc[Top.s].sendreq].kind])]
      /\ stack' = <<SF("slot", Top.s), Top>> \o Tail(stack)
      /\ mmc' = mmc /\ pool' = pool /\ request' = request /\ ret' = ret
 BY DEF Sent, Call, SF
<1>2. AtRest(B) /\ Head(B).fn = "send" /\ Top = Head(B)
 <2>1. "send" \in BaseFns \ {"read_early"}
  BY DEF BaseFns, AtFns
 <2> QED BY <1>1, <2>1, RestIs
<1>3. /\ pool \in Pool /\ mmc \in [Servers -> Mmc] /\ asked \in [Servers -> Seq(Answer)] /\ request \in Seq(Request)
      /\ IsBase(B) /\ Tail(stack) = Tail(B) /\ Tail(B) \in Seq(Frame) /\ Head(B) \in Frame /\ B = Push(Head(B), Tail(B))
      /\ Head(B).s \in Servers
 BY <1>2, RestFrame DEF AtFns
<1>4. PICK s, m, a : s = Top.s /\ m = mmc[s] /\ a = asked[s]
 OBVIOUS
<1>5. s \in Servers /\ m \in Mmc /\ a \in Seq(Answer) /\ Quiet(m, a)
 BY <1>2, <1>3, <1>4 DEF AtRest, AllQuiet
<1>6. PICK r : r = m.sendreq
 OBVIOUS
<1>7. r \in Nat /\ r \in 1 .. Len(request)
 <2>1. QuietIs(m, a)
  BY <1>5, QuietFacts
 <2>2. r \in Nat /\ r \in ToSet(RL(m))
  BY <1>1, <1>4, <1>6, <2>1 DEF QuietIs
 <2>3. r \in InLine(mmc, s)
  BY <1>4, <2>2 DEF InLine
 <2> QED BY <1>2, <1>5, <2>2, <2>3 DEF AtRest, Placed
<1>8. PICK x : x = [req |-> r, value |-> FALSE, kind |-> request[r].kind]
 OBVIOUS
<1>9. x \in Answer /\ x.req = m.sendreq
 <2>1. request[r] \in Request
  BY <1>3, <1>7
 <2>2. request[r].kind \in Kinds
  BY <2>1 DEF Request
 <2> QED BY <1>6, <1>7, <1>8, <2>2 DEF Answer, MaybeReq
<1>10. PICK b, bb : b = Append(a, x) /\ bb = asked'
 OBVIOUS
<1>11. b \in Seq(Answer) /\ b # <<>>
 BY <1>5, <1>9, <1>10, AppendFacts DEF AppendIs
<1>12. bb \in [Servers -> Seq(Answer)] /\ bb[s] = b /\ But(asked, bb, s)
 <2>1. bb = [asked EXCEPT ![s] = b]
  BY <1>1, <1>3, <1>4, <1>6, <1>8, <1>10
 <2> QED BY <1>3, <1>5, <1>11, <2>1, AskedPut
<1>13. Up(m) /\ Linked(m) /\ RL(m) = Reqs(b) \o m.sendqueue
 <2>1. m.sendreq # NULL
  BY <1>1, <1>4
 <2>2. Up(m) /\ Linked(m) /\ RL(m) = Reqs(Append(a, x)) \o m.sendqueue
  BY <1>5, <1>9, <2>1, LineSent
 <2> QED BY <1>10, <2>2
<1>14. AllQuiet(mmc, bb, {s})
 <2>1. But(mmc, mmc, s) /\ AllQuiet(mmc, asked, {})
  BY <1>2, AskedSame DEF AtRest
 <2>2. PICK mm, aa : mm = mmc /\ aa = asked
  OBVIOUS
 <2>3. But(mm, mm, s) /\ But(aa, bb, s) /\ AllQuiet(mm, aa, {})
  BY <1>12, <2>1, <2>2
 <2>4. AllQuiet(mm, bb, {s})
  BY <1>5, <2>3, QuietAll
 <2> QED BY <2>2, <2>4
<1>15. stack' = Push(SF("slot", s), B)
 <2>1. PICK f, g, T : f = SF("slot", s) /\ g = Head(B) /\ T = Tail(B)
  OBVIOUS
 <2>2. f \in Frame /\ g \in Frame /\ T \in Seq(Frame)
  BY <1>3, <1>5, <2>1, SFHas
 <2>3. <<f, g>> \o T = Push(f, Push(g, T))
  BY ONLY <2>2, PushTwo
 <2> QED BY <1>1, <1>2, <1>3, <1>4, <2>1, <2>3
<1>16. PICK E : E = {}
 OBVIOUS
<1>17. PICK st : st = stack'
 OBVIOUS
<1>18. ShSlotSend(s, st, mmc, bb, B, E, E)
 BY <1>1, <1>2, <1>4, <1>5, <1>12, <1>13, <1>14, <1>15, <1>16, <1>17 DEF ShSlotSend
<1>19. Walked(pool, mmc, bb, B, E)
 <2>1. Walked(pool, mmc, asked, B, E) /\ But(mmc, mmc, s) /\ s = Head(B).s
  BY <1>2, <1>4, <1>16, AskedSame DEF AtRest
 <2>2. PICK mm, po, aa : mm = mmc /\ po = pool /\ aa = asked
  OBVIOUS
 <2>3. Walked(po, mm, bb, B, E)
  <3>1. Walked(po, mm, aa, B, E) /\ But(mm, mm, s) /\ But(aa, bb, s) /\ po \in Pool /\ mm[s].readreq = mm[s].readreq
   BY <1>3, <1>12, <2>1, <2>2
  <3> QED BY <1>2, <1>3, <1>5, <1>16, <2>1, <3>1, SendWalked
 <2> QED BY <2>2, <2>3
<1>20. Good(st, mmc, bb, pool, request, ret, B, E, E)
 <2>1. Types(mmc, bb, pool, request)
  BY <1>3, <1>12 DEF Types
 <2>2. Placed(mmc, E, pool.free, 1 .. Len(request)) /\ CallsOK(pool.in_select, pool.free, mmc, request, B, E, ret)
  BY <1>2, <1>16 DEF AtRest
 <2>3. Shape(SC(pool), st, mmc, bb, B, E, E)
  BY <1>18 DEF Shape
 <2> QED BY <1>3, <1>19, <2>1, <2>2, <2>3 DEF Good
<1>21. GoodAt(st, mmc, bb, pool, request, ret)
 BY <1>20, GoodIs
<1> QED BY <1>1, <1>10, <1>17, <1>21 DEF Inv

\* mmc_pool_slot_send, over the connection there is or a new one.
SlotGoes(s, how, n) ==
    /\ n \in Mmc /\ Slots(mmc[s], n) /\ n.part = FALSE
    /\ mmc' = [mmc EXCEPT ![s] = n] /\ stack' = Tail(stack)
    /\ pool' = pool /\ request' = request /\ ret' = ret
    /\ \/ /\ how = "open" /\ n.status = mmc[s].status /\ asked' = asked
          /\ mmc[s].sendqueue = <<>> \/ Up(mmc[s])
       \/ /\ how = "connected" /\ n.status = "connected" /\ asked' = [asked EXCEPT ![s] = <<>>]
          /\ mmc[s].sendqueue # <<>> /\ ~Up(mmc[s])

LEMMA SlotNextIs ==
    ASSUME mmc \in [Servers -> Mmc], NEW s \in Servers, s = Top.s, SlotNext
    PROVE  astray' \/ \E how, n : SlotGoes(s, how, n)
<1>1. PICK r : r = First(mmc[s].sendqueue)
 OBVIOUS
<1>2. /\ mmc[s] \in Mmc /\ mmc[s].sendqueue \in Seq(Nat)
      /\ mmc[s].status \in {"disconnected", "connected", "unknown", "failed"}
 BY MmcIs
<1>3. r \in MaybeReq /\ Rest(mmc[s].sendqueue) \in Seq(Nat) /\ (r = NULL <=> mmc[s].sendqueue = <<>>)
 BY <1>1, <1>2, PopIs
<1>4. PICK how \in Opens(s, r) :
         IF how = "refused"
         THEN astray' = TRUE
         ELSE /\ mmc' = [Slotted(s, r, how) EXCEPT ![s].sendqueue = Rest(@)]
              /\ NewConnection(s, how)
              /\ Return
 BY <1>1 DEF SlotNext
<1>5. pool' = pool /\ request' = request /\ ret' = ret
 BY DEF SlotNext
<1>6. CASE how = "refused"
 BY <1>4, <1>6
<1>7. CASE how # "refused"
 <2>1. /\ mmc' = [Slotted(s, r, how) EXCEPT ![s].sendqueue = Rest(@)]
       /\ NewConnection(s, how) /\ stack' = Tail(stack)
  BY <1>4, <1>7 DEF Return
 <2>2. \/ how = "open" /\ (r = NULL \/ Up(mmc[s]))
       \/ how = "connected" /\ r # NULL /\ ~Up(mmc[s])
  BY <1>4, <1>7 DEF Opens, Up
 <2>3. PICK n0 : n0 = [mmc[s] EXCEPT !.sendreq = r, !.part = FALSE,
                                     !.status = IF how = "connected" THEN "connected" ELSE mmc[s].status]
  OBVIOUS
 <2>4. PICK n : n = [n0 EXCEPT !.sendqueue = Rest(mmc[s].sendqueue)]
  OBVIOUS
 <2>5. /\ n0 \in Mmc /\ n0.sendqueue = mmc[s].sendqueue
       /\ n0.sendreq = r /\ n0.readreq = mmc[s].readreq /\ n0.readqueue = mmc[s].readqueue
       /\ n0.part = FALSE /\ n0.status = IF how = "connected" THEN "connected" ELSE mmc[s].status
  BY <1>2, <1>3, <2>3 DEF Mmc
 <2>6. /\ n \in Mmc /\ n.sendqueue = Rest(mmc[s].sendqueue)
       /\ n.sendreq = r /\ n.readreq = mmc[s].readreq /\ n.readqueue = mmc[s].readqueue
       /\ n.part = FALSE /\ n.status = IF how = "connected" THEN "connected" ELSE mmc[s].status
  BY <1>3, <2>4, <2>5 DEF Mmc
 <2>7. Slots(mmc[s], n)
  BY <1>1, <2>6 DEF Slots
 <2>8. mmc' = [mmc EXCEPT ![s] = n]
  <3>1. PICK m0 : m0 = Slotted(s, r, how)
   OBVIOUS
  <3>2. m0 = [mmc EXCEPT ![s] = n0]
   BY <1>2, <2>3, <3>1 DEF Slotted, Mmc
  <3>3. m0[s] = n0 /\ mmc' = [m0 EXCEPT ![s] = [m0[s] EXCEPT !.sendqueue = Rest(m0[s].sendqueue)]]
   BY <2>1, <3>1, <3>2
  <3>4. mmc' = [m0 EXCEPT ![s] = n]
   BY <2>4, <2>5, <3>3
  <3> QED BY <3>2, <3>4
 <2>9. \/ how = "open" /\ n.status = mmc[s].status /\ asked' = asked /\ (mmc[s].sendqueue = <<>> \/ Up(mmc[s]))
       \/ how = "connected" /\ n.status = "connected" /\ asked' = [asked EXCEPT ![s] = <<>>]
          /\ mmc[s].sendqueue # <<>> /\ ~Up(mmc[s])
  BY <1>3, <2>1, <2>2, <2>6 DEF NewConnection
 <2>10. SlotGoes(s, how, n)
  BY <1>5, <2>1, <2>6, <2>7, <2>8, <2>9 DEF SlotGoes
 <2> QED BY <2>10
<1> QED BY <1>6, <1>7

\* A request has been sent; the next one is taken.
LEMMA SlotSendStep ==
    ASSUME NEW B, NEW H, NEW X, GoodNow(B, H, X), SlotNext,
           NEW s, s = Top.s, ShSlotSend(s, stack, mmc, asked, B, H, X)
    PROVE  Inv'
<1>1. /\ s \in Servers /\ stack = Push(SF("slot", s), B) /\ Head(B).fn = "send" /\ Head(B).s = s
      /\ H = {} /\ X = {} /\ AllQuiet(mmc, asked, {s})
      /\ Linked(mmc[s]) /\ Up(mmc[s]) /\ mmc[s].sendreq # NULL /\ RL(mmc[s]) = Reqs(asked[s]) \o mmc[s].sendqueue
 BY DEF ShSlotSend
<1>2. /\ Types(mmc, asked, pool, request)
      /\ IsBase(B)
      /\ Placed(mmc, H, pool.free, 1 .. Len(request))
      /\ Walked(pool, mmc, asked, B, X)
      /\ CallsOK(pool.in_select, pool.free, mmc, request, B, H, ret)
 BY DEF Good, GoodNow
<1>3. Tail(stack) = B
 <2>1. "slot" \in {"deactivate", "slot"}
  OBVIOUS
 <2>2. PICK fn : fn = "slot"
  OBVIOUS
 <2>3. /\ stack \in Seq(Frame) /\ stack # <<>> /\ Head(stack) = SF(fn, s) /\ Tail(stack) = B
       /\ Head(stack).fn = fn /\ Head(stack).s = s
  BY <1>1, <1>2, <2>2, ServerTop
 <2> QED BY <2>3
<1>4. /\ mmc \in [Servers -> Mmc] /\ mmc[s] \in Mmc /\ asked \in [Servers -> Seq(Answer)]
      /\ pool \in Pool /\ request \in Seq(Request) /\ asked[s] \in Seq(Answer)
 BY <1>1, <1>2 DEF Types
<1>5. SUFFICES ASSUME ~astray' PROVE Inv'
 BY DEF Inv
<1>6. PICK how, n : SlotGoes(s, how, n)
 BY <1>1, <1>4, <1>5, SlotNextIs
<1>7. /\ n \in Mmc /\ Slots(mmc[s], n) /\ n.status = mmc[s].status
      /\ mmc' = [mmc EXCEPT ![s] = n] /\ stack' = B /\ asked' = asked
      /\ pool' = pool /\ request' = request /\ ret' = ret
 BY <1>1, <1>3, <1>6 DEF SlotGoes
<1>8. Quiet(n, asked[s]) /\ RL(n) = RL(mmc[s]) /\ n.readreq = mmc[s].readreq
 <2>1. PICK m, b : m = mmc[s] /\ b = asked[s]
  OBVIOUS
 <2>2. /\ Quiet(n, b) /\ RL(n) = RL(m) /\ SL(n) = m.sendqueue /\ n.readreq = m.readreq
  BY <1>1, <1>4, <1>7, <2>1, SlotAfterSend
 <2> QED BY <2>1, <2>2
<1>9. PICK mm, nn, aa, po : mm = mmc /\ nn = mmc' /\ aa = asked /\ po = pool
 OBVIOUS
<1>10. nn \in [Servers -> Mmc] /\ nn[s] = n /\ But(mm, nn, s)
 BY <1>1, <1>4, <1>7, <1>9, ServerPut
<1>11. But(aa, aa, s) /\ AllQuiet(mm, aa, {s})
 BY <1>1, <1>9, AskedSame
<1>12. AllQuiet(nn, aa, {})
 BY <1>1, <1>8, <1>9, <1>10, <1>11, QuietAll
<1>13. Walked(po, nn, aa, B, X)
 <2>1. Walked(po, mm, aa, B, X) /\ nn[s].readreq = mm[s].readreq /\ po \in Pool /\ s = Head(B).s
  BY <1>1, <1>2, <1>4, <1>8, <1>9, <1>10
 <2> QED BY <1>1, <1>2, <1>10, <1>11, <2>1, SendWalked
<1>14. Placed(nn, H, po.free, 1 .. Len(request))
 <2>1. InLine(nn, s) = InLine(mm, s) /\ Placed(mm, H, po.free, 1 .. Len(request))
  BY <1>2, <1>8, <1>9, <1>10 DEF InLine
 <2> QED BY <1>1, <1>10, <2>1, PlacedSame
<1>15. CallsOK(po.in_select, po.free, nn, request, B, H, ret)
 <2>1. Head(B).fn \notin CallFns /\ CallsOK(po.in_select, po.free, mm, request, B, H, ret)
  BY <1>1, <1>2, <1>9 DEF CallFns
 <2> QED BY <2>1, CallsWalk, SameLength
<1>16. Types(nn, aa, po, request)
 BY <1>4, <1>9, <1>10 DEF Types
<1>17. GoodAt(B, nn, aa, po, request, ret)
 <2>1. /\ Placed(nn, {}, po.free, 1 .. Len(request)) /\ CallsOK(po.in_select, po.free, nn, request, B, {}, ret)
       /\ Walked(po, nn, aa, B, {}) /\ Head(B).fn # "read_early"
  BY <1>1, <1>13, <1>14, <1>15
 <2> QED BY <1>2, <1>12, <1>16, <2>1, RestGood
<1> QED BY <1>7, <1>9, <1>17 DEF Inv

\* A server fails, and the walk goes on as k when its failure is dealt with.
LEMMA FailsGoOn ==
    ASSUME NEW B, AtRest(B), Head(B).fn \in WalkOrAt, NEW s \in Servers, NEW r, r # NULL,
           r = mmc[s].sendreq \/ r = mmc[s].readreq,
           asked' \in [Servers -> Seq(Answer)], But(asked, asked', s), pool' = pool, request' = request, ret' = ret,
           NEW k \in BaseFrame, k.fn \in WalkCalm,
           \/ mmc[s].status \in {"disconnected", "unknown"} /\ mmc' = [mmc EXCEPT ![s].status = "disconnected"]
              /\ Call([fn |-> "retry", s |-> s, r |-> r], k)
           \/ mmc[s].status \notin {"disconnected", "unknown"} /\ mmc' = mmc
              /\ Call([fn |-> "deactivate", s |-> s], k),
           NEW P, NEW Q, NEW Y, NEW Z, NEW P2, NEW Q2, Same(s, P, P2), Same(s, Q, Q2), s \notin Y, s \notin Z,
           Core(SC(pool), RC(pool), pool.rfds, Sends(mmc), Reads(mmc), Fresh(mmc, asked), {}, P, Q, Y, Z),
           WalksAs(k, pool, P2, Q2, Y, Z)
    PROVE  Inv'
<1>1. /\ IsBase(B) /\ pool \in Pool /\ mmc \in [Servers -> Mmc] /\ Tail(stack) = Tail(B) /\ Tail(B) \in Seq(Frame)
 BY RestFrame
<1>2. PICK C : C = Push(k, Tail(B))
 OBVIOUS
<1>3. k.fn \in WalkOrAt /\ k \in Frame
 BY DEF WalkCalm, WalkOrAt, WalkFns, AtFns, Frame
<1>4. IsBase(C) /\ Head(C) = k /\ \A c : OpenIn(C, c) <=> OpenIn(B, c)
 BY <1>1, <1>2, <1>3, WalkSwap
<1>5. Up(mmc[s]) /\ r \in Nat
 BY SlotUp
<1>6. FailsTo(s, r, mmc, mmc', stack', C)
 <2>1. PICK T : T = Tail(B)
  OBVIOUS
 <2>2. C = Push(k, T) /\ Tail(stack) = T /\ T \in Seq(Frame)
  BY <1>1, <1>2, <2>1
 <2> QED BY <1>1, <1>3, <1>5, <2>2, FailsToOf
<1>7. Now(Other(pool'), C, P2, Q2, Y, Z)
 BY <1>4 DEF Now, WalksAs
<1>8. /\ pool' \in Pool /\ pool'.free = pool.free /\ SC(pool') = SC(pool) /\ RC(pool') = RC(pool) /\ pool'.rfds = pool.rfds
      /\ Head(C).fn \in WalkCalm /\ Less(s, Y, Y) /\ Less(s, Z, Z)
      /\ request' = request /\ ret' = ret
      /\ asked' \in [Servers -> Seq(Answer)] /\ But(asked, asked', s)
 BY <1>1, <1>4, StaySame
<1> QED
 BY ONLY <1>4, <1>6, <1>7, <1>8, AtRest(B), s \in Servers, r # NULL, r = mmc[s].sendreq \/ r = mmc[s].readreq,
         Same(s, P, P2), Same(s, Q, Q2), s \notin Y, s \notin Z,
         Core(SC(pool), RC(pool), pool.rfds, Sends(mmc), Reads(mmc), Fresh(mmc, asked), {}, P, Q, Y, Z), Fails

LEMMA SendFailsStep ==
    ASSUME NEW B, NEW H, NEW X, GoodNow(B, H, X), SendFails
    PROVE  Inv'
<1>1. /\ Running("send") /\ mmc[Top.s].sendreq # NULL
      /\ \/ mmc[Top.s].status \in {"disconnected", "unknown"} /\ mmc' = [mmc EXCEPT ![Top.s].status = "disconnected"]
            /\ Call([fn |-> "retry", s |-> Top.s, r |-> mmc[Top.s].sendreq], Walk("sends", Top.n, Top.i + 1))
         \/ mmc[Top.s].status \notin {"disconnected", "unknown"} /\ mmc' = mmc
            /\ Call([fn |-> "deactivate", s |-> Top.s], [Top EXCEPT !.fn = "send_failed"])
      /\ pool' = pool /\ asked' = asked /\ request' = request /\ ret' = ret
 BY DEF SendFails, ServerFailure
<1>2. AtRest(B) /\ Head(B).fn = "send" /\ Top = Head(B)
 <2>1. "send" \in BaseFns \ {"read_early"}
  BY DEF BaseFns, AtFns
 <2> QED BY <1>1, <2>1, RestIs
<1>3. asked \in [Servers -> Seq(Answer)] /\ Head(B) = AF("send", Head(B).s, Head(B).n, Head(B).i)
 BY <1>2, RestFrame DEF AtFns
<1>4. PICK n, i, q, s, P, Q, Y, Z : SendHas(B, n, i, q, s, P, Q, Y, Z)
 BY <1>2, SendAt
<1>5. PICK P2, r : P2 = From(q, i + 1) /\ r = mmc[s].sendreq
 OBVIOUS
<1>6. /\ s = Top.s /\ n = Top.n /\ i = Top.i /\ s \in Servers /\ i \in Nat \ {0} /\ i + 1 \in Nat \ {0} /\ n \in Lists
      /\ n = 3 - pool.cur /\ q = pool.sending[n] /\ pool.in_select
      /\ Y = pool.wfds /\ Z = {} /\ s \notin Y /\ s \notin Z /\ Q = ToSet(pool.reading[n]) /\ Y \subseteq P2
      /\ Same(s, P, P2)
      /\ Core(SC(pool), RC(pool), pool.rfds, Sends(mmc), Reads(mmc), Fresh(mmc, asked), {}, P, Q, Y, Z)
 BY <1>2, <1>4, <1>5 DEF SendHas
<1>7. Head(B).fn \in WalkOrAt /\ But(asked, asked, s) /\ Same(s, Q, Q) /\ Same(s, Q, Q \ {s})
 BY <1>2, AskedSame, StaySame, LosesOne DEF WalkOrAt, AtFns
<1>8. CASE mmc[s].status \in {"disconnected", "unknown"}
 <2>1. PICK k : k = Walk("sends", n, i + 1)
  OBVIOUS
 <2>2. k \in BaseFrame /\ k.fn = "sends" /\ k.n = n /\ k.i = i + 1
  <3>1. "sends" \in WalkFns
   BY DEF WalkFns
  <3> QED BY <1>6, <2>1, <3>1, WalkIs
 <2>3. WalksAs(k, pool, P2, Q, Y, Z)
  <3>1. SendsNext(k, pool, P2, Q, Y)
   BY <1>5, <1>6, <2>2 DEF SendsNext
  <3> QED BY <1>6, <3>1, SendsNextIs
 <2>4. /\ mmc[s].status \in {"disconnected", "unknown"} /\ mmc' = [mmc EXCEPT ![s].status = "disconnected"]
       /\ Call([fn |-> "retry", s |-> s, r |-> r], k)
  BY <1>1, <1>5, <1>6, <1>8, <2>1
 <2>5. pool' = pool /\ request' = request /\ ret' = ret /\ s \in Servers /\ (r = mmc[s].sendreq \/ r = mmc[s].readreq)
  BY <1>1, <1>5, <1>6
 <2>6. k.fn \in WalkCalm /\ r # NULL /\ asked' \in [Servers -> Seq(Answer)] /\ But(asked, asked', s)
  BY <1>1, <1>3, <1>5, <1>6, <1>7, <2>2 DEF WalkCalm
 <2>7. \/ mmc[s].status \in {"disconnected", "unknown"} /\ mmc' = [mmc EXCEPT ![s].status = "disconnected"]
          /\ Call([fn |-> "retry", s |-> s, r |-> r], k)
       \/ mmc[s].status \notin {"disconnected", "unknown"} /\ mmc' = mmc
          /\ Call([fn |-> "deactivate", s |-> s], k)
  BY <2>4
 <2> QED BY ONLY <1>2, <1>6, <1>7, <2>2, <2>3, <2>7, <2>5, <2>6, FailsGoOn, ZenonT(60)
<1>9. CASE mmc[s].status \notin {"disconnected", "unknown"}
 <2>1. PICK k, Q2 : k = AF("send_failed", s, n, i) /\ Q2 = Q \ {s}
  OBVIOUS
 <2>2. k \in BaseFrame /\ k.fn = "send_failed" /\ k.n = n /\ k.i = i /\ k.s = s
  <3>1. "send_failed" \in AtFns
   BY DEF AtFns
  <3> QED BY <1>6, <2>1, <3>1, AtIs
 <2>3. WalksAs(k, pool, P2, Q2, Y, Z)
  <3>1. PICK o : o = Other(pool)
   OBVIOUS
  <3>2. /\ o.cur = pool.cur /\ o.in_select = pool.in_select /\ o.wfds = pool.wfds
        /\ o.sending = pool.sending[n] /\ o.reading = pool.reading[n]
   BY <1>6, <3>1, OtherHas
  <3>3. NowSends(k, o, P2, Q2, Y, Z)
   BY <1>5, <1>6, <2>1, <2>2, <3>2 DEF NowSends
  <3> QED BY <3>1, <3>3 DEF WalksAs
 <2>4. /\ mmc[s].status \notin {"disconnected", "unknown"} /\ mmc' = mmc
       /\ Call([fn |-> "deactivate", s |-> s], k)
  <3>1. [AF("send", s, n, i) EXCEPT !.fn = "send_failed"] = AF("send_failed", s, n, i)
   BY DEF AF
  <3>2. [Top EXCEPT !.fn = "send_failed"] = k
   BY <1>2, <1>3, <1>6, <2>1, <3>1
  <3> QED BY <1>1, <1>6, <1>9, <3>2
 <2>5. pool' = pool /\ request' = request /\ ret' = ret /\ s \in Servers /\ (r = mmc[s].sendreq \/ r = mmc[s].readreq)
  BY <1>1, <1>5, <1>6
 <2>6. k.fn \in WalkCalm /\ r # NULL /\ asked' \in [Servers -> Seq(Answer)] /\ But(asked, asked', s) /\ Same(s, Q, Q2)
  BY <1>1, <1>3, <1>5, <1>6, <1>7, <2>1, <2>2 DEF WalkCalm
 <2>7. \/ mmc[s].status \in {"disconnected", "unknown"} /\ mmc' = [mmc EXCEPT ![s].status = "disconnected"]
          /\ Call([fn |-> "retry", s |-> s, r |-> r], k)
       \/ mmc[s].status \notin {"disconnected", "unknown"} /\ mmc' = mmc
          /\ Call([fn |-> "deactivate", s |-> s], k)
  BY <2>4
 <2> QED BY ONLY <1>2, <1>6, <1>7, <2>2, <2>3, <2>7, <2>5, <2>6, FailsGoOn, ZenonT(60)
<1> QED BY <1>8, <1>9

--------------------
(* The walk over the servers to read from. *)

\* What the walk over the servers to read from has before it, from place j.
ReadsHave(n, j, u, P, Q, Y, Z) ==
    /\ Core(SC(pool), RC(pool), pool.rfds, Sends(mmc), Reads(mmc), Fresh(mmc, asked), {}, P, Q, Y, Z)
    /\ pool.in_select /\ n = 3 - pool.cur /\ n \in Lists /\ j \in Nat \ {0} /\ j + 1 \in Nat \ {0}
    /\ pool.wfds = {} /\ P = {} /\ Y = {} /\ Z = {} /\ u = pool.reading[n] /\ u \in Seq(Servers) /\ Q = From(u, j)

LEMMA ReadsAt ==
    ASSUME NEW B, NEW H, NEW X, GoodNow(B, H, X), AtRead # 0
    PROVE  /\ AtRest(B) /\ Head(B).fn \in {"sends", "reads"} /\ Top = Head(B)
           /\ \E P, Q, Y, Z : ReadsHave(Top.n, AtRead, pool.reading[Top.n], P, Q, Y, Z)
<1>1. CASE Running("reads")
 <2>1. AtRest(B) /\ Head(B).fn = "reads" /\ Top = Head(B)
  <3>1. "reads" \in BaseFns \ {"read_early"}
   BY DEF BaseFns, WalkFns
  <3> QED BY <1>1, <3>1, RestIs
 <2>2. PICK f, n, j : f = Head(B) /\ n = f.n /\ j = f.i
  OBVIOUS
 <2>3. n \in Lists /\ j \in Nat \ {0} /\ pool \in Pool
  BY <2>1, <2>2, RestFrame DEF WalkFns
 <2>4. PICK P, Q, Y, Z :
           /\ Core(SC(pool), RC(pool), pool.rfds, Sends(mmc), Reads(mmc), Fresh(mmc, asked), {}, P, Q, Y, Z)
           /\ NowReads(f, Other(pool), P, Q, Y, Z)
  BY <2>1, <2>2, RestWalked
 <2>5. /\ pool.in_select /\ n = 3 - pool.cur /\ pool.wfds = {} /\ P = {} /\ Y = {} /\ Z = {}
       /\ Q = From(pool.reading[n], j)
  BY <2>2, <2>4, OtherHas DEF NowReads
 <2>6. AtRead = j /\ pool.reading[n] \in Seq(Servers) /\ j + 1 \in Nat \ {0}
  BY <1>1, <2>1, <2>2, <2>3, <2>5, PoolIs DEF AtRead
 <2>7. ReadsHave(n, j, pool.reading[n], P, Q, Y, Z)
  BY <2>3, <2>4, <2>5, <2>6 DEF ReadsHave
 <2> QED BY <2>1, <2>2, <2>6, <2>7
<1>2. CASE ~Running("reads")
 <2>0. Running("sends") /\ Top.i > Len(pool.sending[Top.n]) /\ AtRead = 1
  BY <1>2 DEF AtRead
 <2>1. AtRest(B) /\ Head(B).fn = "sends" /\ Top = Head(B)
  <3>1. "sends" \in BaseFns \ {"read_early"}
   BY DEF BaseFns, WalkFns
  <3> QED BY <2>0, <3>1, RestIs
 <2>2. PICK n, i, q, u : n = Head(B).n /\ i = Head(B).i /\ q = pool.sending[n] /\ u = pool.reading[n]
  OBVIOUS
 <2>3. PICK P, Q, Y, Z : SendsHave("sends", n, i, P, Q, Y, Z)
  BY <2>1, <2>2, SendsAt
 <2>4. /\ Core(SC(pool), RC(pool), pool.rfds, Sends(mmc), Reads(mmc), Fresh(mmc, asked), {}, P, Q, Y, Z)
       /\ pool.in_select /\ n = 3 - pool.cur /\ n \in Lists /\ i \in Nat \ {0}
       /\ Y = pool.wfds /\ Z = {} /\ q \in Seq(Servers) /\ u \in Seq(Servers)
       /\ Q = ToSet(u) /\ P = From(q, i) /\ pool.wfds \subseteq P
  BY <2>2, <2>3 DEF SendsHave
 <2>5. P = {}
  BY <2>0, <2>1, <2>2, <2>4, FromIs
 <2>6. Q = From(u, 1) /\ pool.wfds = {} /\ Y = {} /\ 1 \in Nat \ {0} /\ 1 + 1 \in Nat \ {0}
  BY <2>4, <2>5, FromIs
 <2>7. ReadsHave(n, 1, u, P, Q, Y, Z)
  BY <2>2, <2>4, <2>5, <2>6 DEF ReadsHave
 <2> QED BY <2>0, <2>1, <2>2, <2>7
<1> QED BY <1>1, <1>2

\* The next of its functions.
ReadsNext(f, po, Q) ==
    /\ f.fn \in {"reads", "read"} /\ po.in_select /\ f.n = 3 - po.cur
    /\ po.wfds = {} /\ Q = From(po.reading[f.n], f.i)
    /\ f.fn # "reads" => f.i \in 1 .. Len(po.reading[f.n]) /\ f.s = po.reading[f.n][f.i]

LEMMA ReadsNextIs ==
    ASSUME NEW f, NEW po, NEW P, NEW Q, NEW Y, NEW Z, ReadsNext(f, po, Q), P = {}, Y = {}, Z = {}
    PROVE  WalksAs(f, po, P, Q, Y, Z)
<1>1. PICK n, i : n = f.n /\ i = f.i
 OBVIOUS
<1>2. /\ f.fn \in {"reads", "read"} /\ po.in_select /\ n = 3 - po.cur
      /\ po.wfds = {} /\ Q = From(po.reading[n], i)
      /\ f.fn # "reads" => i \in 1 .. Len(po.reading[n]) /\ f.s = po.reading[n][i]
 BY <1>1 DEF ReadsNext
<1>3. PICK o : o = Other(po)
 OBVIOUS
<1>4. /\ o.cur = po.cur /\ o.in_select = po.in_select /\ o.wfds = po.wfds
      /\ o.sending = po.sending[n] /\ o.reading = po.reading[n]
 BY <1>2, <1>3, OtherHas
<1>5. NowReads(f, o, P, Q, Y, Z)
 BY <1>1, <1>2, <1>4 DEF NowReads
<1> QED BY <1>3, <1>5 DEF WalksAs

LEMMA ReadWalkStep ==
    ASSUME NEW B, NEW H, NEW X, GoodNow(B, H, X), ReadWalk
    PROVE  Inv'
<1>1. /\ AtRead # 0 /\ AtRead <= Len(pool.reading[Top.n])
      /\ mmc' = mmc /\ asked' = asked /\ request' = request /\ ret' = ret
 BY DEF ReadWalk
<1>2. AtRest(B) /\ Head(B).fn \in {"sends", "reads"} /\ Top = Head(B)
 BY <1>1, ReadsAt
<1>3. pool \in Pool /\ Tail(stack) = Tail(B)
 BY <1>2, RestFrame
<1>4. PICK n, j, u, s : n = Top.n /\ j = AtRead /\ u = pool.reading[n] /\ s = u[j]
 OBVIOUS
<1>5. PICK P, Q, Y, Z : ReadsHave(n, j, u, P, Q, Y, Z)
 BY <1>1, <1>4, ReadsAt
<1>6. /\ Core(SC(pool), RC(pool), pool.rfds, Sends(mmc), Reads(mmc), Fresh(mmc, asked), {}, P, Q, Y, Z)
      /\ pool.in_select /\ n = 3 - pool.cur /\ n \in Lists /\ j \in Nat \ {0} /\ j + 1 \in Nat \ {0}
      /\ pool.wfds = {} /\ P = {} /\ Y = {} /\ Z = {} /\ u \in Seq(Servers) /\ Q = From(u, j)
 BY <1>5 DEF ReadsHave
<1>7. j \in 1 .. Len(u)
 <2>1. j <= Len(u) /\ Len(u) \in Nat
  BY <1>1, <1>4, <1>6
 <2> QED BY <1>6, <2>1
<1>8. PICK Q2 : Q2 = From(u, j + 1)
 OBVIOUS
<1>9. Q = {s} \cup Q2 /\ s \in Servers /\ Same(s, Q, Q2)
 BY <1>4, <1>6, <1>7, <1>8, PassOne
<1>10. RestCoreIs(s, P, Q, Y, Z)
 BY <1>6, <1>9, RestCore
<1>12. Head(B).fn \in WalkOrAt /\ "reads" \in WalkFns /\ "read" \in AtFns
 BY <1>2 DEF WalkOrAt, WalkFns, AtFns
<1>13. PICK f : f = Walk("reads", n, j + 1)
 OBVIOUS
<1>14. f \in BaseFrame /\ f.fn = "reads" /\ f.n = n /\ f.i = j + 1 /\ Plain(f) /\ f.fn \in WalkOrAt \ {"read_early"}
 BY <1>6, <1>12, <1>13, WalkIs
<1>15. PICK po : po = pool'
 OBVIOUS
<1>16. CASE mmc[s].readreq = NULL
 <2>1. stack' = <<f>> \o Tail(B) /\ po = pool
  BY <1>3, <1>4, <1>13, <1>15, <1>16 DEF ReadWalk, Goto
 <2>2. CoreAt(s, SC(pool), RC(pool), pool.rfds, Sends(mmc), Reads(mmc), Fresh(mmc, asked), {}, P, Q2, Y, Z)
  BY <1>6, <1>10, <1>16 DEF CoreAt, RestCoreIs
 <2>3. Core(SC(pool), RC(pool), pool.rfds, Sends(mmc), Reads(mmc), Fresh(mmc, asked), {}, P, Q2, Y, Z)
  BY <1>6, <1>9, <2>2, StaySame, CoreMoves
 <2>4. ReadsNext(f, pool, Q2)
  BY <1>4, <1>6, <1>8, <1>14 DEF ReadsNext
 <2>5. WalksAs(f, pool, P, Q2, Y, Z)
  BY <1>6, <2>4, ReadsNextIs
 <2>6. Special(f, SC(pool), RC(pool), pool.rfds, Fresh(mmc, asked))
  BY <1>14, PlainSpecial
 <2>7. pool' = pool /\ f.fn \in WalkOrAt /\ f.fn # "read_early" /\ pool.free = pool.free
  BY <1>14, <1>15, <2>1
 <2> QED BY ONLY <1>1, <1>2, <1>3, <1>12, <1>14, <2>1, <2>3, <2>5, <2>6, <2>7, WalkGoes
<1>17. CASE mmc[s].readreq # NULL /\ s \in pool.rfds
 <2>1. PICK g : g = AF("read", s, n, j)
  OBVIOUS
 <2>2. stack' = <<g>> \o Tail(B) /\ po = [pool EXCEPT !.rfds = @ \ {s}]
  BY <1>3, <1>4, <1>15, <1>17, <2>1 DEF ReadWalk, Goto, AF
 <2>3. /\ po \in Pool /\ SC(po) = SC(pool) /\ RC(po) = RC(pool) /\ po.rfds = pool.rfds \ {s} /\ po.free = pool.free
       /\ po.in_select = pool.in_select /\ po.cur = pool.cur /\ po.sending = pool.sending /\ po.reading = pool.reading
       /\ po.wfds = pool.wfds
  BY <1>3, <1>6, <2>2 DEF Pool, SC, RC
 <2>4. g \in BaseFrame /\ g.fn = "read" /\ g.s = s /\ g.n = n /\ g.i = j /\ g.fn \in WalkOrAt
  BY <1>6, <1>9, <1>12, <2>1, AtIs
 <2>5. Less(s, pool.rfds, po.rfds) /\ s \notin po.rfds
  BY <2>3, LosesOne
 <2>6. CoreAt(s, SC(pool), RC(pool), po.rfds, Sends(mmc), Reads(mmc), Fresh(mmc, asked), {}, P, Q, Y, Z)
  BY <1>6, <1>9, <1>10, <2>5 DEF CoreAt, RestCoreIs
 <2>7. Core(SC(pool), RC(pool), po.rfds, Sends(mmc), Reads(mmc), Fresh(mmc, asked), {}, P, Q, Y, Z)
  BY <1>6, <2>5, <2>6, StaySame, CoreMoves
 <2>8. ReadsNext(g, po, Q)
  BY <1>4, <1>6, <1>7, <1>8, <1>9, <2>3, <2>4 DEF ReadsNext
 <2>9. WalksAs(g, po, P, Q, Y, Z)
  BY <1>6, <2>8, ReadsNextIs
 <2>10. Special(g, SC(po), RC(po), po.rfds, Fresh(mmc, asked))
  BY <1>6, <1>10, <1>17, <2>3, <2>4 DEF Special, RestCoreIs
 <2>11. Core(SC(po), RC(po), po.rfds, Sends(mmc), Reads(mmc), Fresh(mmc, asked), {}, P, Q, Y, Z)
  BY <2>3, <2>7
 <2>12. pool' = po /\ po \in Pool /\ po.free = pool.free /\ g \in BaseFrame /\ g.fn \in WalkOrAt /\ g.fn # "read_early"
        /\ stack' = <<g>> \o Tail(B)
  BY <1>15, <2>2, <2>3, <2>4
 <2> QED BY ONLY <1>1, <1>2, <1>12, <2>9, <2>10, <2>11, <2>12, WalkGoes
<1>18. CASE mmc[s].readreq # NULL /\ s \notin pool.rfds
 <2>1. stack' = <<f>> \o Tail(B) /\ po = [pool EXCEPT !.reading[pool.cur] = mmc_queue_push(@, s)]
  BY <1>3, <1>4, <1>13, <1>15, <1>18 DEF ReadWalk, Goto
 <2>2. /\ Filled(pool, po, SC(pool), RC(pool) \cup {s}) /\ po.wfds = pool.wfds
       /\ po.sending[3 - pool.cur] = pool.sending[3 - pool.cur] /\ po.reading[3 - pool.cur] = pool.reading[3 - pool.cur]
  BY <1>3, <1>9, <2>1, ReadingGains
 <2>3. /\ po \in Pool /\ SC(po) = SC(pool) /\ RC(po) = RC(pool) \cup {s} /\ po.rfds = pool.rfds /\ po.free = pool.free
       /\ po.in_select = pool.in_select /\ po.cur = pool.cur /\ po.reading[n] = u
       /\ po.wfds = pool.wfds
  BY <1>4, <1>6, <2>2 DEF Filled
 <2>4. CoreAt(s, SC(po), RC(po), po.rfds, Sends(mmc), Reads(mmc), Fresh(mmc, asked), {}, P, Q2, Y, Z)
  BY <1>6, <1>9, <1>10, <1>18, <2>3 DEF CoreAt, RestCoreIs
 <2>5. Same(s, SC(pool), SC(po)) /\ Same(s, RC(pool), RC(po)) /\ Less(s, pool.rfds, po.rfds)
  BY <2>3, GainsOne, StaySame
 <2>6. Core(SC(po), RC(po), po.rfds, Sends(mmc), Reads(mmc), Fresh(mmc, asked), {}, P, Q2, Y, Z)
  BY <1>6, <1>9, <2>4, <2>5, StaySame, CoreMoves
 <2>7. ReadsNext(f, po, Q2)
  BY <1>4, <1>6, <1>8, <1>9, <1>14, <1>18, <2>3 DEF ReadsNext
 <2>8. WalksAs(f, po, P, Q2, Y, Z)
  BY <1>6, <2>7, ReadsNextIs
 <2>9. Special(f, SC(po), RC(po), po.rfds, Fresh(mmc, asked))
  BY <1>14, PlainSpecial
 <2>10. pool' = po /\ po \in Pool /\ po.free = pool.free /\ f.fn \in WalkOrAt /\ f.fn # "read_early"
  BY <1>14, <1>15, <2>3
 <2> QED BY ONLY <1>1, <1>2, <1>12, <1>14, <2>1, <2>6, <2>8, <2>9, <2>10, WalkGoes
<1> QED BY <1>16, <1>17, <1>18

\* Nothing is walked.
LEMMA IdleGood ==
    ASSUME NEW B, NEW mm, NEW aa, NEW po, NEW rq, NEW rt,
           Types(mm, aa, po, rq), IsBase(B), Head(B).fn \in IdleFns, AllQuiet(mm, aa, {}),
           Placed(mm, {}, po.free, 1 .. Len(rq)), CallsOK(po.in_select, po.free, mm, rq, B, {}, rt), ~po.in_select,
           NEW P, NEW Q, NEW Y, NEW Z, P = {}, Q = {}, Y = {}, Z = {},
           Core(SC(po), RC(po), po.rfds, Sends(mm), Reads(mm), Fresh(mm, aa), {}, P, Q, Y, Z)
    PROVE  GoodAt(B, mm, aa, po, rq, rt)
<1>1. Plain(Head(B)) /\ Head(B).fn # "read_early"
 BY DEF IdleFns, CallFns, Plain
<1>2. Special(Head(B), SC(po), RC(po), po.rfds, Fresh(mm, aa))
 BY <1>1, PlainSpecial
<1>3. NowIdle(Head(B), Other(po), P, Q, Y, Z)
 BY OtherHas DEF NowIdle
<1>4. Walked(po, mm, aa, B, {})
 BY <1>2, <1>3 DEF Walked, Now
<1> QED BY <1>1, <1>4, RestGood

\* A call whose walk has ended, or is helped by another.
LEMMA CallsReturn ==
    ASSUME NEW sel, NEW F, NEW mm, NEW rq, NEW B, NEW H, NEW rt, CallsOK(sel, F, mm, rq, B, H, rt),
           NEW B2, \A c : OpenIn(B2, c) <=> OpenIn(B, c), Head(B2).fn # "single", NEW sel2, ~sel2, NEW rt2
    PROVE  CallsOK(sel2, F, mm, rq, B2, H, rt2)
BY DEF CallsOK

\* What a walk returns to.
LEMMA WalkPop ==
    ASSUME NEW B, IsBase(B), Head(B).fn \in WalkOrAt
    PROVE  /\ IsBase(Tail(B)) /\ Head(Tail(B)).fn \in {"run", "array_next"}
           /\ \A c : OpenIn(Tail(B), c) <=> OpenIn(B, c)
<1>1. Head(B) # User("script") /\ Head(B) # User("wakeup") /\ Head(B).fn \notin CallFns
 BY DEF WalkOrAt, WalkFns, AtFns, User, CallFns
<1>2. IsBase(Tail(B)) /\ Fits(Head(B), Head(Tail(B)))
 BY <1>1, BasePop
<1>3. Head(Tail(B)).fn \in {"run", "array_next"}
 BY <1>1, <1>2 DEF Fits, WalkOrAt
<1>4. Head(B) \in BaseFrame /\ B = Push(Head(B), Tail(B))
 <2>1. /\ B \in Seq(BaseFrame) /\ B \in Seq(Frame) /\ B # <<>>
       /\ Head(B) \in BaseFrame /\ Head(B) \in Frame /\ Head(B) = B[1]
       /\ Tail(B) \in Seq(BaseFrame) /\ Tail(B) \in Seq(Frame) /\ B = Push(Head(B), Tail(B))
  BY BaseSeq
 <2> QED BY <2>1
<1>5. ASSUME NEW c PROVE OpenIn(Tail(B), c) <=> OpenIn(B, c)
 <2>1. PICK T, g : T = Tail(B) /\ g = Head(B)
  OBVIOUS
 <2>2. OpenIn(Push(g, T), c) <=> (g.fn \in CallFns /\ g.call = c) \/ OpenIn(T, c)
  BY <1>2, <1>4, <2>1, OpenPush
 <2> QED BY <1>1, <1>4, <2>1, <2>2
<1> QED BY <1>2, <1>3, <1>5

LEMMA ReadWalkEndsStep ==
    ASSUME NEW B, NEW H, NEW X, GoodNow(B, H, X), ReadWalkEnds
    PROVE  Inv'
<1>1. /\ AtRead # 0 /\ AtRead > Len(pool.reading[Top.n])
      /\ pool' = [pool EXCEPT !.in_select = FALSE] /\ stack' = Tail(stack)
      /\ mmc' = mmc /\ asked' = asked /\ request' = request /\ ret' = ret
 BY DEF ReadWalkEnds, Return
<1>2. AtRest(B) /\ Head(B).fn \in {"sends", "reads"}
 BY <1>1, ReadsAt
<1>3. pool \in Pool /\ Tail(stack) = Tail(B) /\ IsBase(B)
 BY <1>2, RestFrame
<1>4. PICK n, j, u : n = Top.n /\ j = AtRead /\ u = pool.reading[n]
 OBVIOUS
<1>5. PICK P, Q, Y, Z : ReadsHave(n, j, u, P, Q, Y, Z)
 BY <1>1, <1>4, ReadsAt
<1>6. /\ Core(SC(pool), RC(pool), pool.rfds, Sends(mmc), Reads(mmc), Fresh(mmc, asked), {}, P, Q, Y, Z)
      /\ j \in Nat \ {0} /\ P = {} /\ Y = {} /\ Z = {} /\ u \in Seq(Servers) /\ Q = From(u, j)
 BY <1>5 DEF ReadsHave
<1>7. Q = {}
 BY <1>1, <1>4, <1>6, FromIs
<1>8. PICK po : po = pool'
 OBVIOUS
<1>9. /\ po \in Pool /\ SC(po) = SC(pool) /\ RC(po) = RC(pool) /\ po.rfds = pool.rfds /\ po.free = pool.free
      /\ po.in_select = FALSE
 BY <1>1, <1>3, <1>8 DEF Pool, SC, RC
<1>10. PICK T : T = Tail(B)
 OBVIOUS
<1>11. IsBase(T) /\ Head(T).fn \in {"run", "array_next"} /\ \A c : OpenIn(T, c) <=> OpenIn(B, c)
 <2>1. Head(B).fn \in WalkOrAt
  BY <1>2 DEF WalkOrAt, WalkFns
 <2> QED BY <1>3, <1>10, <2>1, WalkPop
<1>12. Head(T).fn \in IdleFns /\ Head(T).fn # "single"
 BY <1>11 DEF IdleFns, CallFns
<1>13. CallsOK(po.in_select, po.free, mmc, request, T, {}, ret)
 <2>1. PICK E : E = {}
  OBVIOUS
 <2>2. CallsOK(pool.in_select, po.free, mmc, request, B, E, ret) /\ ~po.in_select
  BY <1>2, <1>9, <2>1 DEF AtRest
 <2>3. CallsOK(po.in_select, po.free, mmc, request, T, E, ret)
  BY <1>11, <1>12, <2>2, CallsReturn
 <2> QED BY <2>1, <2>3
<1>14. /\ Types(mmc, asked, po, request) /\ AllQuiet(mmc, asked, {}) /\ Placed(mmc, {}, po.free, 1 .. Len(request))
       /\ Core(SC(po), RC(po), po.rfds, Sends(mmc), Reads(mmc), Fresh(mmc, asked), {}, P, Q, Y, Z)
       /\ ~po.in_select
 BY <1>2, <1>6, <1>9 DEF AtRest, Types
<1>15. GoodAt(T, mmc, asked, po, request, ret)
 BY <1>6, <1>7, <1>11, <1>12, <1>13, <1>14, IdleGood
<1> QED BY <1>1, <1>3, <1>8, <1>10, <1>15 DEF Inv

\* The walk over the servers to read from, at one of them.
ReadHas(B, n, i, u, s, P, Q, Y, Z) ==
    /\ n = Head(B).n /\ i = Head(B).i /\ u = pool.reading[n] /\ s = Head(B).s
    /\ s \in Servers /\ i \in 1 .. Len(u) /\ s = u[i] /\ u \in Seq(Servers)
    /\ Core(SC(pool), RC(pool), pool.rfds, Sends(mmc), Reads(mmc), Fresh(mmc, asked), {}, P, Q, Y, Z)
    /\ pool.in_select /\ n = 3 - pool.cur /\ n \in Lists /\ i \in Nat \ {0} /\ i + 1 \in Nat \ {0}
    /\ pool.wfds = {} /\ P = {} /\ Y = {} /\ Z = {} /\ Q = From(u, i)
    /\ s \notin pool.rfds /\ (s \in RC(pool) => asked[s] = <<>> /\ ~mmc[s].part)
    /\ Q = {s} \cup From(u, i + 1) /\ Same(s, Q, From(u, i + 1))
    /\ RestCoreIs(s, P, Q, Y, Z)
    /\ Top = Head(B) /\ Head(B) = AF("read", s, n, i)

LEMMA ReadAt ==
    ASSUME NEW B, NEW H, NEW X, GoodNow(B, H, X), Running("read")
    PROVE  /\ AtRest(B) /\ Head(B).fn = "read" /\ \E n, i, u, s, P, Q, Y, Z : ReadHas(B, n, i, u, s, P, Q, Y, Z)
<1>0. AtRest(B) /\ Head(B).fn = "read" /\ Top = Head(B)
 <2>1. "read" \in BaseFns \ {"read_early"}
  BY DEF BaseFns, AtFns
 <2> QED BY <2>1, RestIs
<1>1. PICK f, n, i, u, s : f = Head(B) /\ n = f.n /\ i = f.i /\ u = pool.reading[n] /\ s = f.s
 OBVIOUS
<1>2. n \in Lists /\ i \in Nat \ {0} /\ s \in Servers /\ pool \in Pool /\ f = AF("read", s, n, i)
 BY <1>0, <1>1, RestFrame DEF AtFns
<1>3. PICK P, Q, Y, Z :
          /\ Core(SC(pool), RC(pool), pool.rfds, Sends(mmc), Reads(mmc), Fresh(mmc, asked), {}, P, Q, Y, Z)
          /\ NowReads(f, Other(pool), P, Q, Y, Z)
 BY <1>0, <1>1, RestWalked
<1>4. s \notin pool.rfds /\ (s \in RC(pool) => s \in Fresh(mmc, asked))
 <2>1. Special(f, SC(pool), RC(pool), pool.rfds, Fresh(mmc, asked))
  BY <1>0, <1>1, RestWalked
 <2> QED BY <1>0, <1>1, <2>1 DEF Special
<1>5. /\ pool.in_select /\ n = 3 - pool.cur /\ pool.wfds = {} /\ P = {} /\ Y = {} /\ Z = {}
      /\ Q = From(pool.reading[n], i) /\ i \in 1 .. Len(pool.reading[n]) /\ s = pool.reading[n][i]
 BY <1>0, <1>1, <1>3, OtherHas DEF NowReads
<1>6. u \in Seq(Servers) /\ i + 1 \in Nat \ {0}
 BY <1>1, <1>2, <1>5, PoolIs
<1>7. Q = {s} \cup From(u, i + 1) /\ Same(s, Q, From(u, i + 1))
 <2>1. u \in Seq(Servers) /\ i \in Nat \ {0} /\ i \in 1 .. Len(u) /\ s = u[i] /\ Q = From(u, i)
  BY <1>1, <1>2, <1>5, <1>6
 <2>2. From(u, i) = {s} \cup From(u, i + 1) /\ s \in Servers /\ s \in From(u, i) /\ Same(s, From(u, i), From(u, i + 1))
  BY ONLY <2>1, PassOne
 <2> QED BY <2>1, <2>2
<1>8. RestCoreIs(s, P, Q, Y, Z)
 BY <1>2, <1>3, RestCore
<1>9. s \in RC(pool) => asked[s] = <<>> /\ ~mmc[s].part
 BY <1>4, <1>8, SMTT(30) DEF RestCoreIs
<1>10. ReadHas(B, n, i, u, s, P, Q, Y, Z)
 BY <1>0, <1>1, <1>2, <1>3, <1>4, <1>5, <1>6, <1>7, <1>8, <1>9 DEF ReadHas
<1> QED BY <1>0, <1>10

LEMMA ReadEndsStep ==
    ASSUME NEW B, NEW H, NEW X, GoodNow(B, H, X), ReadEnds
    PROVE  Inv'
<1>1. /\ Running("read") /\ mmc[Top.s].readreq = NULL /\ stack' = <<Walk("reads", Top.n, Top.i + 1)>> \o Tail(stack)
      /\ mmc' = mmc /\ asked' = asked /\ request' = request /\ ret' = ret /\ pool' = pool
 BY DEF ReadEnds, NextOf, Goto
<1>2. AtRest(B) /\ Head(B).fn = "read"
 BY <1>1, ReadAt
<1>3. PICK n, i, u, s, P, Q, Y, Z : ReadHas(B, n, i, u, s, P, Q, Y, Z)
 BY <1>1, ReadAt
<1>4. pool \in Pool /\ Tail(stack) = Tail(B)
 BY <1>2, RestFrame
<1>5. PICK Q2, f : Q2 = From(u, i + 1) /\ f = Walk("reads", n, i + 1)
 OBVIOUS
<1>6. f \in BaseFrame /\ f.fn = "reads" /\ f.n = n /\ f.i = i + 1 /\ Plain(f) /\ f.fn \in WalkOrAt \ {"read_early"}
 <2>1. "reads" \in WalkFns /\ n \in Lists /\ i + 1 \in Nat \ {0}
  BY <1>3, Zenon DEF WalkFns, ReadHas
 <2> QED BY <1>5, <2>1, WalkIs
<1>7. stack' = <<f>> \o Tail(B) /\ Head(B).fn \in WalkOrAt
 BY <1>1, <1>2, <1>3, <1>4, <1>5 DEF ReadHas, WalkOrAt, AtFns
<1>8. CoreAt(s, SC(pool), RC(pool), pool.rfds, Sends(mmc), Reads(mmc), Fresh(mmc, asked), {}, P, Q2, Y, Z)
 BY <1>1, <1>3, Zenon DEF CoreAt, ReadHas, RestCoreIs
<1>9. /\ Core(SC(pool), RC(pool), pool.rfds, Sends(mmc), Reads(mmc), Fresh(mmc, asked), {}, P, Q, Y, Z)
      /\ Same(s, Q, Q2) /\ P = {} /\ Y = {} /\ Z = {}
 BY <1>3, <1>5 DEF ReadHas
<1>10. Core(SC(pool), RC(pool), pool.rfds, Sends(mmc), Reads(mmc), Fresh(mmc, asked), {}, P, Q2, Y, Z)
 BY <1>8, <1>9, StaySame, CoreMoves, Zenon
<1>11. ReadsNext(f, pool, Q2)
 BY <1>3, <1>5, <1>6, Zenon DEF ReadsNext, ReadHas
<1>12. WalksAs(f, pool, P, Q2, Y, Z)
 BY <1>9, <1>11, ReadsNextIs
<1>13. Special(f, SC(pool), RC(pool), pool.rfds, Fresh(mmc, asked))
 BY <1>6, PlainSpecial
<1>14. pool' = pool /\ f.fn \in WalkOrAt /\ f.fn # "read_early" /\ pool.free = pool.free
 BY <1>1, <1>6
<1> QED BY ONLY <1>1, <1>2, <1>4, <1>6, <1>7, <1>10, <1>12, <1>13, <1>14, WalkGoes

LEMMA ReadsMoreStep ==
    ASSUME NEW B, NEW H, NEW X, GoodNow(B, H, X), ReadsMore
    PROVE  Inv'
<1>1. /\ Running("read") /\ mmc[Top.s].readreq # NULL /\ stack' = <<Walk("reads", Top.n, Top.i + 1)>> \o Tail(stack)
      /\ pool' = [pool EXCEPT !.reading[pool.cur] = mmc_queue_push(@, Top.s)]
      /\ mmc' = mmc /\ asked' = asked /\ request' = request /\ ret' = ret
 BY DEF ReadsMore, Reading, NextOf, Goto
<1>2. AtRest(B) /\ Head(B).fn = "read"
 BY <1>1, ReadAt
<1>3. PICK n, i, u, s, P, Q, Y, Z : ReadHas(B, n, i, u, s, P, Q, Y, Z)
 BY <1>1, ReadAt
<1>4. pool \in Pool /\ Tail(stack) = Tail(B)
 BY <1>2, RestFrame
<1>5. PICK Q2, f, po : Q2 = From(u, i + 1) /\ f = Walk("reads", n, i + 1) /\ po = pool'
 OBVIOUS
<1>6. f \in BaseFrame /\ f.fn = "reads" /\ f.n = n /\ f.i = i + 1 /\ Plain(f) /\ f.fn \in WalkOrAt \ {"read_early"}
 <2>1. "reads" \in WalkFns /\ n \in Lists /\ i + 1 \in Nat \ {0}
  BY <1>3 DEF WalkFns, ReadHas
 <2> QED BY <1>5, <2>1, WalkIs, SMTT(30)
<1>7. /\ stack' = <<f>> \o Tail(B) /\ Head(B).fn \in WalkOrAt /\ s \in Servers
      /\ po = [pool EXCEPT !.reading[pool.cur] = mmc_queue_push(@, s)]
 BY <1>1, <1>2, <1>3, <1>4, <1>5 DEF ReadHas, WalkOrAt, AtFns
<1>8. /\ Filled(pool, po, SC(pool), RC(pool) \cup {s}) /\ po.wfds = pool.wfds
      /\ po.sending[3 - pool.cur] = pool.sending[3 - pool.cur] /\ po.reading[3 - pool.cur] = pool.reading[3 - pool.cur]
 BY <1>4, <1>7, ReadingGains
<1>9. /\ po \in Pool /\ SC(po) = SC(pool) /\ RC(po) = RC(pool) \cup {s} /\ po.rfds = pool.rfds /\ po.free = pool.free
      /\ po.in_select = pool.in_select /\ po.cur = pool.cur /\ po.reading[n] = u
      /\ po.wfds = pool.wfds
 BY <1>3, <1>8 DEF Filled, ReadHas
<1>10. CoreAt(s, SC(po), RC(po), po.rfds, Sends(mmc), Reads(mmc), Fresh(mmc, asked), {}, P, Q2, Y, Z)
 BY <1>1, <1>3, <1>9, Zenon DEF CoreAt, ReadHas, RestCoreIs
<1>11. /\ Core(SC(pool), RC(pool), pool.rfds, Sends(mmc), Reads(mmc), Fresh(mmc, asked), {}, P, Q, Y, Z)
       /\ Same(s, Q, Q2) /\ P = {} /\ Y = {} /\ Z = {}
 BY <1>3, <1>5 DEF ReadHas
<1>12. Same(s, SC(pool), SC(po)) /\ Same(s, RC(pool), RC(po)) /\ Less(s, pool.rfds, po.rfds)
 BY <1>9, GainsOne, StaySame
<1>13. Core(SC(po), RC(po), po.rfds, Sends(mmc), Reads(mmc), Fresh(mmc, asked), {}, P, Q2, Y, Z)
 BY <1>10, <1>11, <1>12, StaySame, CoreMoves
<1>14. ReadsNext(f, po, Q2)
 BY <1>3, <1>5, <1>6, <1>9, Zenon DEF ReadsNext, ReadHas
<1>15. WalksAs(f, po, P, Q2, Y, Z)
 BY <1>11, <1>14, ReadsNextIs
<1>16. Special(f, SC(po), RC(po), po.rfds, Fresh(mmc, asked))
 BY <1>6, PlainSpecial
<1>17. pool' = po /\ po \in Pool /\ po.free = pool.free /\ f.fn \in WalkOrAt /\ f.fn # "read_early"
 BY <1>5, <1>6, <1>9
<1> QED BY ONLY <1>1, <1>2, <1>6, <1>7, <1>13, <1>15, <1>16, <1>17, WalkGoes

\* A server that is read from fails.
LEMMA ReadFailure ==
    ASSUME NEW B, AtRest(B), Head(B).fn = "read", NEW n, NEW i, NEW u, NEW s, NEW P, NEW Q, NEW Y, NEW Z,
           ReadHas(B, n, i, u, s, P, Q, Y, Z), mmc[s].readreq # NULL,
           NEW a \in Seq(Answer), asked' = [asked EXCEPT ![s] = a], pool' = pool, request' = request, ret' = ret,
           NEW k, k = Walk("reads", n, i + 1),
           \/ mmc[s].status \in {"disconnected", "unknown"} /\ mmc' = [mmc EXCEPT ![s].status = "disconnected"]
              /\ Call([fn |-> "retry", s |-> s, r |-> mmc[s].readreq], k)
           \/ mmc[s].status \notin {"disconnected", "unknown"} /\ mmc' = mmc
              /\ Call([fn |-> "deactivate", s |-> s], k)
    PROVE  Inv'
<1>1. asked \in [Servers -> Seq(Answer)]
 BY RestFrame
<1>2. /\ Core(SC(pool), RC(pool), pool.rfds, Sends(mmc), Reads(mmc), Fresh(mmc, asked), {}, P, Q, Y, Z)
      /\ Same(s, Q, From(u, i + 1)) /\ P = {} /\ Y = {} /\ Z = {} /\ s \in Servers /\ n \in Lists /\ i + 1 \in Nat \ {0}
      /\ u = pool.reading[n] /\ pool.in_select /\ n = 3 - pool.cur /\ pool.wfds = {}
 BY DEF ReadHas
<1>3. PICK Q2, r : Q2 = From(u, i + 1) /\ r = mmc[s].readreq
 OBVIOUS
<1>4. k \in BaseFrame /\ k.fn = "reads" /\ k.n = n /\ k.i = i + 1
 <2>1. "reads" \in WalkFns
  BY DEF WalkFns
 <2> QED BY <1>2, <2>1, WalkIs
<1>5. k.fn \in WalkCalm /\ Head(B).fn \in WalkOrAt
 BY <1>4 DEF WalkCalm, WalkOrAt, AtFns
<1>6. ReadsNext(k, pool, Q2)
 BY <1>2, <1>3, <1>4 DEF ReadsNext
<1>7. WalksAs(k, pool, P, Q2, Y, Z)
 BY <1>2, <1>6, ReadsNextIs
<1>8. asked' \in [Servers -> Seq(Answer)] /\ But(asked, asked', s)
 <2>1. PICK aa, bb : aa = asked /\ bb = asked'
  OBVIOUS
 <2>2. bb \in [Servers -> Seq(Answer)] /\ bb[s] = a /\ But(aa, bb, s)
  BY <1>1, <1>2, <2>1, AskedPut
 <2> QED BY <2>1, <2>2
<1>9. /\ pool' = pool /\ request' = request /\ ret' = ret /\ s \in Servers
      /\ (r = mmc[s].sendreq \/ r = mmc[s].readreq) /\ r # NULL
      /\ Same(s, P, P) /\ Same(s, Q, Q2) /\ s \notin Y /\ s \notin Z
 BY <1>2, <1>3, StaySame
<1>10. \/ mmc[s].status \in {"disconnected", "unknown"} /\ mmc' = [mmc EXCEPT ![s].status = "disconnected"]
          /\ Call([fn |-> "retry", s |-> s, r |-> r], k)
       \/ mmc[s].status \notin {"disconnected", "unknown"} /\ mmc' = mmc
          /\ Call([fn |-> "deactivate", s |-> s], k)
 BY <1>3
<1>11. Core(SC(pool), RC(pool), pool.rfds, Sends(mmc), Reads(mmc), Fresh(mmc, asked), {}, P, Q, Y, Z)
 BY <1>2
<1> QED BY ONLY AtRest(B), <1>4, <1>5, <1>7, <1>8, <1>9, <1>10, <1>11, FailsGoOn, ZenonT(60)

LEMMA ReadFailsStep ==
    ASSUME NEW B, NEW H, NEW X, GoodNow(B, H, X), ReadFails
    PROVE  Inv'
<1>1. /\ Running("read") /\ mmc[Top.s].readreq # NULL /\ asked[Top.s] # <<>>
      /\ \/ mmc[Top.s].status \in {"disconnected", "unknown"} /\ mmc' = [mmc EXCEPT ![Top.s].status = "disconnected"]
            /\ Call([fn |-> "retry", s |-> Top.s, r |-> mmc[Top.s].readreq], Walk("reads", Top.n, Top.i + 1))
         \/ mmc[Top.s].status \notin {"disconnected", "unknown"} /\ mmc' = mmc
            /\ Call([fn |-> "deactivate", s |-> Top.s], Walk("reads", Top.n, Top.i + 1))
      /\ asked' = [asked EXCEPT ![Top.s] = Tail(@)]
      /\ pool' = pool /\ request' = request /\ ret' = ret
 BY DEF ReadFails, Reading, ServerFailure
<1>2. AtRest(B) /\ Head(B).fn = "read"
 BY <1>1, ReadAt
<1>3. PICK n, i, u, s, P, Q, Y, Z : ReadHas(B, n, i, u, s, P, Q, Y, Z)
 BY <1>1, ReadAt
<1>4. s = Top.s /\ n = Top.n /\ i = Top.i /\ s \in Servers
 BY <1>3 DEF ReadHas
<1>5. PICK a, k : a = Tail(asked[s]) /\ k = Walk("reads", n, i + 1)
 OBVIOUS
<1>6. asked \in [Servers -> Seq(Answer)]
 BY <1>2, RestFrame
<1>7. a \in Seq(Answer)
 BY <1>1, <1>4, <1>5, <1>6, HeadTail
<1>8. asked' = [asked EXCEPT ![s] = a]
 BY <1>1, <1>4, <1>5, <1>6
<1>9. \/ mmc[s].status \in {"disconnected", "unknown"} /\ mmc' = [mmc EXCEPT ![s].status = "disconnected"]
         /\ Call([fn |-> "retry", s |-> s, r |-> mmc[s].readreq], k)
      \/ mmc[s].status \notin {"disconnected", "unknown"} /\ mmc' = mmc
         /\ Call([fn |-> "deactivate", s |-> s], k)
 BY <1>1, <1>4, <1>5
<1>10. mmc[s].readreq # NULL /\ pool' = pool /\ request' = request /\ ret' = ret
 BY <1>1, <1>4
<1> QED BY ONLY <1>2, <1>3, <1>5, <1>7, <1>8, <1>9, <1>10, ReadFailure

LEMMA ReadEofStep ==
    ASSUME NEW B, NEW H, NEW X, GoodNow(B, H, X), ReadEof
    PROVE  Inv'
<1>1. /\ Running("read") /\ mmc[Top.s].readreq # NULL
      /\ mmc[Top.s].status \notin {"disconnected", "unknown"} =>
            mmc' = mmc /\ Call([fn |-> "deactivate", s |-> Top.s], Walk("reads", Top.n, Top.i + 1))
      /\ astray' = (astray \/ mmc[Top.s].status # "connected")
      /\ asked' = [asked EXCEPT ![Top.s] = <<>>]
      /\ pool' = pool /\ request' = request /\ ret' = ret
 BY DEF ReadEof, Reading, ServerFailure
<1>2. AtRest(B) /\ Head(B).fn = "read"
 BY <1>1, ReadAt
<1>3. PICK n, i, u, s, P, Q, Y, Z : ReadHas(B, n, i, u, s, P, Q, Y, Z)
 BY <1>1, ReadAt
<1>4. s = Top.s /\ n = Top.n /\ i = Top.i /\ s \in Servers
 BY <1>3 DEF ReadHas
<1>5. SUFFICES ASSUME ~astray' PROVE Inv'
 BY DEF Inv
<1>6. mmc[s].status = "connected"
 BY <1>1, <1>4, <1>5
<1>7. PICK a, k : a = <<>> /\ k = Walk("reads", n, i + 1)
 OBVIOUS
<1>8. a \in Seq(Answer) /\ asked' = [asked EXCEPT ![s] = a]
 BY <1>1, <1>4, <1>7, EmptyFacts
<1>9. \/ mmc[s].status \in {"disconnected", "unknown"} /\ mmc' = [mmc EXCEPT ![s].status = "disconnected"]
         /\ Call([fn |-> "retry", s |-> s, r |-> mmc[s].readreq], k)
      \/ mmc[s].status \notin {"disconnected", "unknown"} /\ mmc' = mmc
         /\ Call([fn |-> "deactivate", s |-> s], k)
 BY <1>1, <1>4, <1>6, <1>7
<1>10. mmc[s].readreq # NULL /\ pool' = pool /\ request' = request /\ ret' = ret
 BY <1>1, <1>4
<1> QED BY ONLY <1>2, <1>3, <1>7, <1>8, <1>9, <1>10, ReadFailure

\* The function at a server that is read from goes on, with more of the server read.
LEMMA ReadGoes ==
    ASSUME NEW B, AtRest(B), Head(B).fn = "read", NEW n, NEW i, NEW u, NEW s, NEW P, NEW Q, NEW Y, NEW Z,
           ReadHas(B, n, i, u, s, P, Q, Y, Z), stack' = stack, NEW nn, NEW bb, mmc' = nn, asked' = bb,
           nn \in [Servers -> Mmc], bb \in [Servers -> Seq(Answer)], But(mmc, nn, s), But(asked, bb, s),
           Quiet(nn[s], bb[s]), nn[s].sendreq = mmc[s].sendreq, asked[s] # <<>>,
           nn[s].readreq # NULL => mmc[s].readreq # NULL,
           pool' \in Pool, SC(pool') = SC(pool), RC(pool') = RC(pool), Other(pool') = Other(pool),
           pool'.rfds = pool.rfds, pool.free \subseteq pool'.free,
           request' \in Seq(Request), SameCalls(request, request'), ret' = ret,
           Placed(nn, {}, pool'.free, 1 .. Len(request'))
    PROVE  Inv'
<1>1. /\ Core(SC(pool), RC(pool), pool.rfds, Sends(mmc), Reads(mmc), Fresh(mmc, asked), {}, P, Q, Y, Z)
      /\ P = {} /\ Y = {} /\ Z = {} /\ s \in Servers /\ s \in Q /\ s \notin RC(pool) /\ s \notin pool.rfds
      /\ RestCoreIs(s, P, Q, Y, Z) /\ s = Head(B).s
 <2>1. Head(B).s = s /\ (s \in RC(pool) => asked[s] = <<>>)
  BY DEF ReadHas
 <2> QED BY <2>1 DEF ReadHas
<1>2. PICK f : f = Head(B)
 OBVIOUS
<1>3. /\ f \in BaseFrame /\ stack = Push(f, Tail(B))
 BY <1>2, RestFrame
<1>4. f.fn \in WalkOrAt \ {"read_early"} /\ Head(B).fn \in WalkOrAt /\ stack' = <<f>> \o Tail(B)
 BY <1>2, <1>3 DEF WalkOrAt, AtFns, Push
<1>5. PICK po : po = pool'
 OBVIOUS
<1>6. CoreAt(s, SC(po), RC(po), po.rfds, Sends(nn), Reads(nn), Fresh(nn, bb), {}, P, Q, Y, Z)
 <2>1. /\ s \in Sends(nn) <=> nn[s].sendreq # NULL
       /\ s \in Reads(nn) <=> nn[s].readreq # NULL
       /\ s \in Fresh(nn, bb) <=> bb[s] = <<>> /\ ~nn[s].part
  <3>1. s \in Servers
   BY <1>1
  <3> QED BY ONLY <3>1, SetsAt
 <2> QED BY <1>1, <1>5, <2>1 DEF CoreAt, RestCoreIs
<1>7. Special(f, SC(po), RC(po), po.rfds, Fresh(nn, bb))
 BY <1>1, <1>2, <1>5 DEF Special
<1>8. WalksAs(f, po, P, Q, Y, Z)
 <2>1. ReadsNext(f, pool, Q)
  BY <1>2 DEF ReadsNext, ReadHas
 <2>2. WalksAs(f, pool, P, Q, Y, Z)
  BY <1>1, <2>1, ReadsNextIs
 <2> QED BY <1>5, <2>2 DEF WalksAs
<1>9. /\ Same(s, SC(pool), SC(po)) /\ Same(s, RC(pool), RC(po)) /\ Less(s, pool.rfds, po.rfds)
      /\ Same(s, P, P) /\ Same(s, Q, Q) /\ Less(s, Y, Y) /\ Less(s, Z, Z)
 BY <1>5, StaySame
<1>10. /\ mmc' \in [Servers -> Mmc] /\ asked' \in [Servers -> Seq(Answer)] /\ But(mmc, mmc', s) /\ But(asked, asked', s)
       /\ Quiet(mmc'[s], asked'[s]) /\ pool' \in Pool /\ request' \in Seq(Request) /\ SameCalls(request, request')
       /\ pool.free \subseteq pool'.free /\ Placed(mmc', {}, pool'.free, 1 .. Len(request')) /\ ret' = ret
 OBVIOUS
<1>11. /\ Same(s, SC(pool), SC(pool')) /\ Same(s, RC(pool), RC(pool')) /\ Less(s, pool.rfds, pool'.rfds)
       /\ CoreAt(s, SC(pool'), RC(pool'), pool'.rfds, Sends(mmc'), Reads(mmc'), Fresh(mmc', asked'), {}, P, Q, Y, Z)
       /\ Special(f, SC(pool'), RC(pool'), pool'.rfds, Fresh(mmc', asked'))
       /\ WalksAs(f, pool', P, Q, Y, Z)
 BY <1>5, <1>6, <1>7, <1>8, <1>9
<1>12. s \in Servers /\ Core(SC(pool), RC(pool), pool.rfds, Sends(mmc), Reads(mmc), Fresh(mmc, asked), {}, P, Q, Y, Z)
 BY <1>1
<1> QED BY ONLY AtRest(B), <1>3, <1>4, <1>9, <1>10, <1>11, <1>12, WalkAct

LEMMA ReadDoneStep ==
    ASSUME NEW B, NEW H, NEW X, GoodNow(B, H, X), ReadDone
    PROVE  Inv'
<1>1. /\ Running("read") /\ mmc[Top.s].readreq # NULL /\ asked[Top.s] # <<>>
      /\ asked' = [asked EXCEPT ![Top.s] = Tail(@)]
      /\ mmc_pool_release(pool, {mmc[Top.s].readreq})
      /\ mmc' = [mmc EXCEPT ![Top.s] = [@ EXCEPT !.readreq = First(mmc[Top.s].readqueue),
                                                  !.readqueue = Rest(mmc[Top.s].readqueue)]]
      /\ stack' = stack /\ ret' = ret
 BY DEF ReadDone, Reading
<1>2. AtRest(B) /\ Head(B).fn = "read"
 BY <1>1, ReadAt
<1>3. PICK n, i, u, s, P, Q, Y, Z : ReadHas(B, n, i, u, s, P, Q, Y, Z)
 BY <1>1, ReadAt, Zenon
<1>4. s = Top.s /\ s \in Servers
 BY <1>3 DEF ReadHas
<1>5. /\ asked \in [Servers -> Seq(Answer)] /\ mmc \in [Servers -> Mmc] /\ pool \in Pool /\ request \in Seq(Request)
 BY <1>2, RestFrame
<1>6. PICK m, a, r : m = mmc[s] /\ a = asked[s] /\ r = m.readreq
 OBVIOUS
<1>7. m \in Mmc /\ a \in Seq(Answer) /\ Quiet(m, a) /\ m.readqueue \in Seq(Nat) /\ a # <<>> /\ r # NULL
 BY <1>1, <1>2, <1>4, <1>5, <1>6, MmcIs DEF AtRest, AllQuiet
<1>8. PICK m2 : m2 = [m EXCEPT !.readreq = First(m.readqueue), !.readqueue = Rest(m.readqueue)]
 OBVIOUS
<1>9. m2 \in Mmc /\ Reads1(m, m2)
 <2>1. First(m.readqueue) \in MaybeReq /\ Rest(m.readqueue) \in Seq(Nat)
  BY <1>7, PopIs
 <2> QED BY <1>7, <1>8, <2>1 DEF Mmc, Reads1
<1>10. /\ Quiet(m2, Tail(a)) /\ Head(a).req = m.readreq
       /\ ToSet(RL(m2)) = ToSet(RL(m)) \ {m.readreq} /\ m.readreq \in ToSet(RL(m)) /\ m.readreq \in Nat
       /\ SL(m2) = SL(m) /\ m2.sendreq = m.sendreq
 BY <1>6, <1>7, <1>9, LineRead
<1>11. PICK nn, bb, b : nn = mmc' /\ bb = asked' /\ b = Tail(a)
 OBVIOUS
<1>12. nn \in [Servers -> Mmc] /\ nn[s] = m2 /\ But(mmc, nn, s)
 <2>1. nn = [mmc EXCEPT ![s] = m2]
  BY <1>1, <1>4, <1>5, <1>6, <1>8, <1>11
 <2> QED BY <1>4, <1>5, <1>9, <2>1, ServerPut
<1>13. bb \in [Servers -> Seq(Answer)] /\ bb[s] = b /\ But(asked, bb, s)
 <2>1. bb = [asked EXCEPT ![s] = b] /\ b \in Seq(Answer)
  BY <1>1, <1>4, <1>5, <1>6, <1>7, <1>11, HeadTail
 <2> QED BY <1>4, <1>5, <2>1, AskedPut
<1>14. /\ pool' \in Pool /\ SC(pool') = SC(pool) /\ RC(pool') = RC(pool) /\ Other(pool') = Other(pool)
       /\ pool'.rfds = pool.rfds /\ pool'.in_select = pool.in_select /\ pool'.free = pool.free \cup {r}
       /\ request' \in Seq(Request) /\ SameCalls(request, request') /\ Len(request') = Len(request)
 <2>1. PICK rs : rs = {r}
  OBVIOUS
 <2>2. rs \subseteq Nat /\ mmc_pool_release(pool, rs)
  BY <1>1, <1>4, <1>6, <1>10, <2>1
 <2>3. /\ pool' \in Pool /\ SC(pool') = SC(pool) /\ RC(pool') = RC(pool) /\ Other(pool') = Other(pool)
       /\ pool'.rfds = pool.rfds /\ pool'.in_select = pool.in_select /\ pool'.free = pool.free \cup rs
       /\ request' \in Seq(Request) /\ SameCalls(request, request') /\ Len(request') = Len(request)
  BY ONLY <1>5, <2>2, ReleasedIs
 <2> QED BY <2>1, <2>3
<1>15. Placed(nn, {}, pool'.free, 1 .. Len(request'))
 <2>1. PICK E, D, F : E = {} /\ D = 1 .. Len(request) /\ F = pool.free
  OBVIOUS
 <2>2. Placed(mmc, E, F, D) /\ r \in InLine(mmc, s) /\ InLine(nn, s) = InLine(mmc, s) \ {r}
  BY <1>2, <1>6, <1>10, <1>12, <2>1 DEF AtRest, InLine
 <2>3. PICK mm : mm = mmc
  OBVIOUS
 <2>4. Placed(nn, E, F \cup {r}, D)
  <3>1. Placed(mm, E, F, D) /\ r \in InLine(mm, s) /\ InLine(nn, s) = InLine(mm, s) \ {r} /\ But(mm, nn, s)
   BY <1>12, <2>2, <2>3
  <3> QED BY ONLY <1>4, <3>1, PlacedDone
 <2> QED BY <1>14, <2>1, <2>4
<1>16. /\ nn[s].sendreq = mmc[s].sendreq /\ asked[s] # <<>> /\ (nn[s].readreq # NULL => mmc[s].readreq # NULL)
       /\ Quiet(nn[s], bb[s]) /\ pool.free \subseteq pool'.free
 BY <1>6, <1>7, <1>10, <1>11, <1>12, <1>13, <1>14
<1>17. mmc' = nn /\ asked' = bb /\ stack' = stack /\ ret' = ret
 BY <1>1, <1>11
<1> QED BY ONLY <1>2, <1>3, <1>12, <1>13, <1>14, <1>15, <1>16, <1>17, ReadGoes

\* A server is left by the lists only in name while its early answer is dealt with.
EarlyNext(f, po, Q, i) ==
    /\ f.fn = "read_early" /\ po.in_select /\ f.n = 3 - po.cur /\ f.i = i
    /\ po.wfds = {} /\ Q = From(po.reading[f.n], i)
    /\ i \in 1 .. Len(po.reading[f.n]) /\ f.s = po.reading[f.n][i]

LEMMA EarlyNow ==
    ASSUME NEW B, NEW f, f = Head(B), NEW po, NEW i, NEW P, NEW Q, NEW Y, NEW Z,
           EarlyNext(f, po, Q, i), P = {}, Y = {}, Z = {}
    PROVE  Now(Other(po), B, P, Q, Y, Z)
<1>1. NowReads(f, Other(po), P, Q, Y, Z)
 <2>1. /\ Other(po).cur = po.cur /\ Other(po).in_select = po.in_select
       /\ Other(po).wfds = po.wfds /\ Other(po).reading = po.reading[3 - po.cur]
  BY OtherHas
 <2> QED BY <2>1 DEF NowReads, EarlyNext
<1> QED BY <1>1 DEF Now

LEMMA ReadEarlyStep ==
    ASSUME NEW B, NEW H, NEW X, GoodNow(B, H, X), ReadEarly
    PROVE  Inv'
<1>1. /\ Running("read") /\ mmc[Top.s].readreq # NULL
      /\ mmc[Top.s].sendreq = mmc[Top.s].readreq /\ mmc[Top.s].part /\ asked[Top.s] = <<>>
      /\ mmc' = [mmc EXCEPT ![Top.s].status = "disconnected"]
      /\ stack' = <<SF("slot", Top.s), [Top EXCEPT !.fn = "read_early"]>> \o Tail(stack)
      /\ asked' = asked /\ pool' = pool /\ request' = request /\ ret' = ret
 BY DEF ReadEarly, Reading, Call, SF
<1>2. AtRest(B) /\ Head(B).fn = "read"
 BY <1>1, ReadAt
<1>3. PICK n, i, u, s, P, Q, Y, Z : ReadHas(B, n, i, u, s, P, Q, Y, Z)
 BY <1>1, ReadAt, Zenon
<1>4. s = Top.s /\ s \in Servers /\ Top = AF("read", s, n, i) /\ n \in Lists /\ i \in Nat \ {0}
 BY <1>3 DEF ReadHas
<1>5. /\ asked \in [Servers -> Seq(Answer)] /\ mmc \in [Servers -> Mmc] /\ pool \in Pool /\ request \in Seq(Request)
      /\ Tail(stack) = Tail(B) /\ Tail(B) \in Seq(Frame) /\ IsBase(B)
 BY <1>2, RestFrame
<1>6. PICK m, a, k : m = mmc[s] /\ a = asked[s] /\ k = [m EXCEPT !.status = "disconnected"]
 OBVIOUS
<1>7. /\ m \in Mmc /\ a \in Seq(Answer) /\ Quiet(m, a) /\ a = <<>> /\ m.sendreq # NULL /\ m.part
      /\ k \in Mmc /\ k.status = "disconnected" /\ k.part = m.part
      /\ k.sendreq = m.sendreq /\ k.sendqueue = m.sendqueue /\ k.readreq = m.readreq /\ k.readqueue = m.readqueue
 BY <1>1, <1>2, <1>4, <1>5, <1>6, ZenonT(60) DEF AtRest, AllQuiet, Mmc
<1>8. Linked(k) /\ RL(k) = SL(k) /\ RL(k) = RL(m)
 BY <1>7, LineRefused
<1>9. PICK nn, mm, aa, po : nn = mmc' /\ mm = mmc /\ aa = asked /\ po = pool
 OBVIOUS
<1>10. nn \in [Servers -> Mmc] /\ nn[s] = k /\ But(mm, nn, s)
 <2>1. nn = [mm EXCEPT ![s] = k]
  BY <1>1, <1>4, <1>5, <1>6, <1>9
 <2>2. mm \in [Servers -> Mmc] /\ s \in Servers /\ k \in Mmc
  BY <1>4, <1>5, <1>7, <1>9
 <2> QED BY ONLY <2>1, <2>2, ServerPut
<1>11. But(aa, aa, s) /\ AllQuiet(nn, aa, {s})
 <2>1. But(aa, aa, s)
  BY AskedSame
 <2>2. AllQuiet(mm, aa, {})
  BY <1>2, <1>9 DEF AtRest
 <2>3. AllQuiet(nn, aa, {s})
  BY <1>4, <1>10, <2>1, <2>2, QuietAll
 <2> QED BY <2>1, <2>3
<1>12. PICK f, B2 : f = AF("read_early", s, n, i) /\ B2 = Push(f, Tail(B))
 OBVIOUS
<1>13. f \in BaseFrame /\ f.fn = "read_early" /\ f.s = s /\ f.n = n /\ f.i = i /\ f.fn \in WalkOrAt
 <2>1. PICK fn : fn = "read_early"
  OBVIOUS
 <2>2. fn \in AtFns /\ f = AF(fn, s, n, i) /\ s \in Servers /\ n \in Lists /\ i \in Nat \ {0}
  BY <1>4, <1>12, <2>1 DEF AtFns
 <2>3. f \in BaseFrame /\ f.fn = fn /\ f.s = s /\ f.n = n /\ f.i = i /\ f.fn \in WalkOrAt
  BY ONLY <2>2, AtIs
 <2> QED BY <2>1, <2>3
<1>14. /\ IsBase(B2) /\ Head(B2) = f /\ Tail(B2) = Tail(B) /\ f.fn \notin CallFns
       /\ \A c : OpenIn(B2, c) <=> OpenIn(B, c)
 <2>1. Head(B).fn \in WalkOrAt
  BY <1>2 DEF WalkOrAt, AtFns
 <2> QED BY <1>5, <1>12, <1>13, <2>1, WalkSwap
<1>15. stack' = Push(SF("slot", s), B2)
 <2>1. PICK e, T : e = SF("slot", s) /\ T = Tail(B)
  OBVIOUS
 <2>2. e \in Frame /\ f \in Frame /\ T \in Seq(Frame)
  BY <1>4, <1>5, <1>13, <2>1, SFHas DEF Frame
 <2>3. <<e, f>> \o T = Push(e, Push(f, T))
  BY ONLY <2>2, PushTwo
 <2>4. [Top EXCEPT !.fn = "read_early"] = f
  BY <1>4, <1>12 DEF AF
 <2> QED BY <1>1, <1>4, <1>5, <1>12, <2>1, <2>3, <2>4
<1>16. PICK st, E, XX : st = stack' /\ E = {} /\ XX = {s}
 OBVIOUS
<1>17. Shape(SC(po), st, nn, aa, B2, E, XX)
 <2>1. ShSlotEarly(s, st, nn, aa, B2, E, XX)
  BY <1>4, <1>7, <1>8, <1>10, <1>11, <1>13, <1>14, <1>15, <1>16 DEF ShSlotEarly
 <2> QED BY <2>1 DEF Shape
<1>18. Placed(nn, E, po.free, 1 .. Len(request))
 <2>1. RL(nn[s]) = RL(mmc[s]) /\ But(mmc, nn, s)
  BY <1>6, <1>8, <1>9, <1>10
 <2>2. Placed(nn, {}, pool.free, 1 .. Len(request))
  BY ONLY <1>2, <1>4, <2>1, SamePlaces, Zenon
 <2> QED BY <1>9, <1>16, <2>2
<1>19. /\ s \in SC(pool) /\ s \notin RC(pool) /\ s \notin pool.rfds
       /\ Core(SC(pool), RC(pool), pool.rfds, Sends(mmc), Reads(mmc), Fresh(mmc, asked), {}, P, Q, Y, Z)
       /\ P = {} /\ Y = {} /\ Z = {}
 <2>1. s \in SC(pool)
  BY <1>3, <1>6, <1>7, Zenon DEF ReadHas, RestCoreIs
 <2>2. s \notin RC(pool)
  BY <1>3, <1>6, <1>7, Zenon DEF ReadHas
 <2> QED BY <1>3, <2>1, <2>2, Zenon DEF ReadHas
<1>20. Walked(po, nn, aa, B2, XX)
 <2>1. PICK X0 : X0 = {}
  OBVIOUS
 <2>2. Core(SC(po), RC(po), po.rfds, Sends(mm), Reads(mm), Fresh(mm, aa), X0, P, Q, Y, Z)
  BY <1>9, <1>19, <2>1
 <2>3. CoreAt(s, SC(po), RC(po), po.rfds, Sends(nn), Reads(nn), Fresh(nn, aa), XX, P, Q, Y, Z)
  BY <1>16, <1>19 DEF CoreAt
 <2>4. Special(Head(B2), SC(po), RC(po), po.rfds, Fresh(nn, aa))
  BY <1>9, <1>13, <1>14, <1>19 DEF Special
 <2>5. Now(Other(po), B2, P, Q, Y, Z)
  <3>1. EarlyNext(f, po, Q, i)
   BY <1>3, <1>9, <1>13 DEF EarlyNext, ReadHas
  <3> QED BY <1>14, <1>19, <3>1, EarlyNow
 <2>6. Same(s, X0, XX)
  BY <1>16, <2>1 DEF Same
 <2>7. /\ Same(s, SC(po), SC(po)) /\ Same(s, RC(po), RC(po)) /\ Less(s, po.rfds, po.rfds)
       /\ Same(s, P, P) /\ Same(s, Q, Q) /\ Less(s, Y, Y) /\ Less(s, Z, Z)
  BY StaySame
 <2> QED BY <1>4, <1>10, <1>11, <2>2, <2>3, <2>4, <2>5, <2>6, <2>7, WalkedGo
<1>21. CallsOK(po.in_select, po.free, nn, request, B2, E, ret)
 <2>1. CallsOK(po.in_select, po.free, mmc, request, B, E, ret) /\ po.free \subseteq po.free
  BY <1>2, <1>9, <1>16 DEF AtRest
 <2>2. Head(B2).fn \notin CallFns /\ SameCalls(request, request)
  BY <1>14, SameLength
 <2> QED BY <1>14, <2>1, <2>2, CallsWalk
<1>22. Types(nn, aa, po, request)
 BY <1>5, <1>9, <1>10 DEF Types
<1>23. GoodAt(st, nn, aa, po, request, ret)
 <2>1. Good(st, nn, aa, po, request, ret, B2, E, XX)
  BY <1>14, <1>17, <1>18, <1>20, <1>21, <1>22 DEF Good
 <2> QED BY <2>1, GoodIs
<1> QED BY <1>1, <1>9, <1>16, <1>23 DEF Inv

\* A function that deals with an early answer, and its walk.
LEMMA EarlyAt ==
    ASSUME NEW po \in Pool, NEW mm, NEW aa, NEW B, IsBase(B), Head(B).fn = "read_early", NEW X, Walked(po, mm, aa, B, X),
           NEW s, s = Head(B).s
    PROVE  /\ s \in SC(po) /\ s \notin RC(po) /\ s \notin po.rfds
           /\ \E P, Q, Y, Z :
                 /\ Core(SC(po), RC(po), po.rfds, Sends(mm), Reads(mm), Fresh(mm, aa), X, P, Q, Y, Z)
                 /\ Now(Other(po), B, P, Q, Y, Z)
                 /\ P = {} /\ Y = {} /\ Z = {}
                 /\ EarlyNext(Head(B), po, Q, Head(B).i)
                 /\ s \in Servers /\ Head(B).n \in Lists /\ Head(B).i \in Nat \ {0}
                 /\ Head(B) = AF("read_early", s, Head(B).n, Head(B).i)
<1>1. PICK f : f = Head(B)
 OBVIOUS
<1>2. f.n \in Lists /\ f.i \in Nat \ {0} /\ s \in Servers /\ f = AF("read_early", s, f.n, f.i)
 <2>1. f \in BaseFrame /\ f.fn \in AtFns
  BY <1>1, BaseSeq DEF AtFns
 <2> QED BY <1>1, <2>1, FrameHas
<1>3. Special(f, SC(po), RC(po), po.rfds, Fresh(mm, aa))
 BY <1>1, NowIs
<1>4. s \in SC(po) /\ s \notin RC(po) /\ s \notin po.rfds
 BY <1>1, <1>3 DEF Special
<1>5. PICK P, Q, Y, Z :
          /\ Core(SC(po), RC(po), po.rfds, Sends(mm), Reads(mm), Fresh(mm, aa), X, P, Q, Y, Z)
          /\ Now(Other(po), B, P, Q, Y, Z) /\ NowReads(f, Other(po), P, Q, Y, Z)
 BY <1>1, NowIs
<1>6. /\ Other(po).cur = po.cur /\ Other(po).in_select = po.in_select
      /\ Other(po).wfds = po.wfds /\ Other(po).reading = po.reading[3 - po.cur]
 BY OtherHas
<1>7. P = {} /\ Y = {} /\ Z = {} /\ EarlyNext(f, po, Q, f.i)
 BY <1>1, <1>5, <1>6 DEF NowReads, EarlyNext
<1> QED BY <1>1, <1>2, <1>4, <1>5, <1>7

LEMMA SlotEarlyStep ==
    ASSUME NEW B, NEW H, NEW X, GoodNow(B, H, X), SlotNext,
           NEW s, s = Top.s, ShSlotEarly(s, stack, mmc, asked, B, H, X)
    PROVE  Inv'
<1>1. /\ s \in Servers /\ stack = Push(SF("slot", s), B) /\ Head(B).fn = "read_early" /\ Head(B).s = s
      /\ H = {} /\ X = {s} /\ AllQuiet(mmc, asked, {s})
      /\ Linked(mmc[s]) /\ mmc[s].status = "disconnected" /\ mmc[s].sendreq # NULL /\ RL(mmc[s]) = SL(mmc[s])
 BY DEF ShSlotEarly
<1>2. /\ Types(mmc, asked, pool, request)
      /\ IsBase(B)
      /\ Placed(mmc, H, pool.free, 1 .. Len(request))
      /\ Walked(pool, mmc, asked, B, X)
      /\ CallsOK(pool.in_select, pool.free, mmc, request, B, H, ret)
 BY DEF Good, GoodNow
<1>3. Tail(stack) = B
 <2>1. PICK fn : fn = "slot"
  OBVIOUS
 <2>2. fn \in {"deactivate", "slot"} /\ stack = Push(SF(fn, s), B)
  BY <1>1, <2>1
 <2>3. /\ stack \in Seq(Frame) /\ stack # <<>> /\ Head(stack) = SF(fn, s) /\ Tail(stack) = B
       /\ Head(stack).fn = fn /\ Head(stack).s = s
  BY <1>1, <1>2, <2>2, ServerTop
 <2> QED BY <2>3
<1>4. /\ mmc \in [Servers -> Mmc] /\ mmc[s] \in Mmc /\ asked \in [Servers -> Seq(Answer)]
      /\ pool \in Pool /\ request \in Seq(Request) /\ asked[s] \in Seq(Answer)
 BY <1>1, <1>2 DEF Types
<1>5. SUFFICES ASSUME ~astray' PROVE Inv'
 BY DEF Inv
<1>6. PICK how, n : SlotGoes(s, how, n)
 BY <1>1, <1>4, <1>5, SlotNextIs
<1>7. /\ n \in Mmc /\ Slots(mmc[s], n) /\ mmc' = [mmc EXCEPT ![s] = n] /\ stack' = B
      /\ pool' = pool /\ request' = request /\ ret' = ret
 BY <1>3, <1>6 DEF SlotGoes
<1>8. PICK m, mm, nn, aa, bb, po : /\ m = mmc[s] /\ mm = mmc /\ nn = mmc' /\ aa = asked /\ bb = asked' /\ po = pool
 OBVIOUS
<1>9. ~Up(m)
 BY <1>1, <1>8 DEF Up
<1>10. /\ bb \in [Servers -> Seq(Answer)] /\ But(aa, bb, s)
       /\ IF Up(n) THEN bb[s] = <<>> ELSE m.sendqueue = <<>>
 <2>1. CASE how = "open"
  <3>1. n.status = m.status /\ asked' = asked /\ (m.sendqueue = <<>> \/ Up(m))
   BY <1>6, <1>8, <2>1 DEF SlotGoes
  <3>2. ~Up(n)
   BY <1>9, <3>1 DEF Up
  <3> QED BY <1>4, <1>8, <1>9, <3>1, <3>2, AskedSame
 <2>2. CASE how # "open"
  <3>1. n.status = "connected" /\ bb = [aa EXCEPT ![s] = <<>>]
   BY <1>6, <1>8, <2>2 DEF SlotGoes
  <3>2. Up(n)
   BY <3>1 DEF Up
  <3>3. PICK e : e = <<>>
   OBVIOUS
  <3>4. e \in Seq(Answer) /\ bb = [aa EXCEPT ![s] = e] /\ aa \in [Servers -> Seq(Answer)]
   BY <1>4, <1>8, <3>1, <3>3, EmptyFacts
  <3>5. bb \in [Servers -> Seq(Answer)] /\ bb[s] = e /\ But(aa, bb, s)
   BY <1>1, <3>4, AskedPut
  <3> QED BY <3>2, <3>3, <3>5
 <2> QED BY <2>1, <2>2
<1>11. /\ Linked(n) /\ RL(n) = RL(m) /\ n.readreq # NULL /\ n.readqueue = SL(n)
       /\ n.sendreq = NULL <=> m.sendqueue = <<>>
       /\ SL(n) = m.sendqueue
 <2>1. m \in Mmc /\ n \in Mmc /\ Linked(m) /\ m.sendreq # NULL /\ RL(m) = SL(m) /\ Slots(m, n)
  BY <1>1, <1>4, <1>7, <1>8
 <2> QED BY ONLY <2>1, SlotEarly
<1>12. nn \in [Servers -> Mmc] /\ nn[s] = n /\ But(mm, nn, s)
 BY <1>1, <1>4, <1>7, <1>8, ServerPut
<1>13. AllQuiet(nn, bb, {s})
 <2>1. AllQuiet(mm, aa, {s})
  BY <1>1, <1>8
 <2> QED BY <1>1, <1>10, <1>12, <2>1, QuietAll
<1>14. PICK E, XX : E = {} /\ XX = {s}
 OBVIOUS
<1>15. Shape(SC(po), B, nn, bb, B, E, XX)
 <2>1. ShEarly(s, B, nn, bb, B, E, XX)
  <3>1. IF Up(nn[s]) THEN bb[s] = <<>> ELSE nn[s].sendreq = NULL
   BY <1>10, <1>11, <1>12
  <3> QED BY <1>1, <1>11, <1>12, <1>13, <1>14, <3>1 DEF ShEarly
 <2> QED BY <2>1 DEF Shape
<1>16. Placed(nn, E, po.free, 1 .. Len(request))
 <2>1. InLine(nn, s) = InLine(mm, s) /\ Placed(mm, E, po.free, 1 .. Len(request))
  BY <1>1, <1>2, <1>8, <1>11, <1>12, <1>14 DEF InLine
 <2> QED BY <1>1, <1>12, <2>1, PlacedSame
<1>17. CallsOK(po.in_select, po.free, nn, request, B, E, ret)
 <2>1. Head(B).fn \notin CallFns /\ CallsOK(po.in_select, po.free, mm, request, B, E, ret)
  BY <1>1, <1>2, <1>8, <1>14 DEF CallFns
 <2> QED BY <2>1, CallsWalk, SameLength
<1>18. Walked(po, nn, bb, B, XX)
 <2>1. Walked(po, mm, aa, B, XX) /\ po \in Pool
  BY <1>1, <1>2, <1>4, <1>8, <1>14
 <2>2. s \in SC(po) /\ s \notin RC(po) /\ s \notin po.rfds
  BY <1>1, <1>2, <2>1, EarlyAt
 <2>3. PICK P, Q, Y, Z :
           /\ Core(SC(po), RC(po), po.rfds, Sends(mm), Reads(mm), Fresh(mm, aa), XX, P, Q, Y, Z)
           /\ Now(Other(po), B, P, Q, Y, Z)
           /\ P = {} /\ Y = {} /\ Z = {}
  BY <1>1, <1>2, <2>1, EarlyAt
 <2>4. CoreAt(s, SC(po), RC(po), po.rfds, Sends(nn), Reads(nn), Fresh(nn, bb), XX, P, Q, Y, Z)
  BY <1>14, <2>3 DEF CoreAt
 <2>5. Special(Head(B), SC(po), RC(po), po.rfds, Fresh(nn, bb))
  BY <1>1, <2>2 DEF Special
 <2>6. /\ Same(s, SC(po), SC(po)) /\ Same(s, RC(po), RC(po)) /\ Less(s, po.rfds, po.rfds) /\ Same(s, XX, XX)
       /\ Same(s, P, P) /\ Same(s, Q, Q) /\ Less(s, Y, Y) /\ Less(s, Z, Z)
  BY StaySame
 <2> QED BY <1>1, <1>10, <1>12, <2>3, <2>4, <2>5, <2>6, WalkedGo
<1>19. Types(nn, bb, po, request)
 BY <1>4, <1>8, <1>10, <1>12 DEF Types
<1>20. GoodAt(B, nn, bb, po, request, ret)
 <2>1. Good(B, nn, bb, po, request, ret, B, E, XX)
  BY <1>2, <1>15, <1>16, <1>17, <1>18, <1>19 DEF Good
 <2> QED BY <2>1, GoodIs
<1> QED BY <1>7, <1>8, <1>20 DEF Inv

LEMMA SlotNextStep ==
    ASSUME NEW B, NEW H, NEW X, GoodNow(B, H, X), SlotNext
    PROVE  Inv'
<1>1. PICK s : s = Top.s
 OBVIOUS
<1>2. \/ ShSlotSend(s, stack, mmc, asked, B, H, X)
      \/ ShSlotEarly(s, stack, mmc, asked, B, H, X)
      \/ \E r : ShSlotRetry(s, r, stack, mmc, asked, B, H, X)
 <2>1. Running("slot")
  BY DEF SlotNext
 <2>2. ShapeIs(SC(pool), stack, mmc, asked, B, H, X) /\ Head(stack).fn = "slot" /\ Top = Head(stack)
  BY <2>1, TopIs
 <2> QED BY <1>1, <2>2 DEF ShapeIs
<1> QED BY <1>1, <1>2, SlotSendStep, SlotEarlyStep, SlotRetryStep

\* The server of an early answer leaves the list of those to send to, unless it
\* has another request.
LEMMA EarlyLeaves ==
    ASSUME NEW po \in Pool, NEW s, NEW m, NEW qo,
           qo = IF m.sendreq # NULL THEN po ELSE [po EXCEPT !.sending[po.cur] = mmc_queue_remove(@, s)]
    PROVE  Filled(po, qo, IF m.sendreq # NULL THEN SC(po) ELSE SC(po) \ {s}, RC(po))
<1>1. CASE m.sendreq # NULL
 BY <1>1 DEF Filled
<1>2. CASE m.sendreq = NULL
 <2>1. PICK x : x = mmc_queue_remove(po.sending[po.cur], s)
  OBVIOUS
 <2>2. po.sending[po.cur] \in Seq(Servers)
  BY PoolIs
 <2>3. x \in Seq(Servers) /\ ToSet(x) = SC(po) \ {s}
  BY <2>1, <2>2, RemoveIs DEF SC
 <2>4. qo = [po EXCEPT !.sending[po.cur] = x]
  BY <1>2, <2>1
 <2>5. Filled(po, qo, ToSet(x), RC(po))
  BY <2>3, <2>4, FillSending
 <2> QED BY <1>2, <2>3, <2>5
<1> QED BY <1>1, <1>2

LEMMA AfterEarlyStep ==
    ASSUME NEW B, NEW H, NEW X, GoodNow(B, H, X), AfterEarly
    PROVE  Inv'
<1>1. /\ Running("read_early")
      /\ mmc_pool_release(IF mmc[Top.s].sendreq # NULL THEN pool
                          ELSE [pool EXCEPT !.sending[pool.cur] = mmc_queue_remove(@, Top.s)],
                          {mmc[Top.s].readreq} \ {NULL})
      /\ mmc' = [mmc EXCEPT ![Top.s] = [@ EXCEPT !.readreq = First(mmc[Top.s].readqueue),
                                                  !.readqueue = Rest(mmc[Top.s].readqueue)]]
      /\ stack' = <<[Top EXCEPT !.fn = "read"]>> \o Tail(stack)
      /\ asked' = asked /\ ret' = ret
 BY DEF AfterEarly, Goto
<1>2. PICK s : s = Top.s
 OBVIOUS
<1>3. /\ IsBase(B) /\ stack = B /\ Top = Head(B) /\ ShEarly(s, stack, mmc, asked, B, H, X)
      /\ Head(B).fn = "read_early"
 <2>1. /\ IsBase(B) /\ ShapeIs(SC(pool), stack, mmc, asked, B, H, X) /\ Top = Head(stack)
       /\ Head(stack).fn = "read_early"
  BY <1>1, TopIs
 <2> QED BY <1>2, <2>1 DEF ShapeIs
<1>4. /\ s \in Servers /\ Head(B).fn = "read_early" /\ Head(B).s = s
      /\ H = {} /\ X = {s} /\ AllQuiet(mmc, asked, {s})
      /\ Linked(mmc[s]) /\ mmc[s].readreq # NULL /\ mmc[s].readqueue = SL(mmc[s])
      /\ IF Up(mmc[s]) THEN asked[s] = <<>> ELSE mmc[s].sendreq = NULL
 BY <1>3 DEF ShEarly
<1>5. /\ Placed(mmc, H, pool.free, 1 .. Len(request))
      /\ Walked(pool, mmc, asked, B, X)
      /\ CallsOK(pool.in_select, pool.free, mmc, request, B, H, ret)
      /\ mmc \in [Servers -> Mmc] /\ mmc[s] \in Mmc /\ asked \in [Servers -> Seq(Answer)]
      /\ pool \in Pool /\ request \in Seq(Request) /\ asked[s] \in Seq(Answer)
 BY <1>4 DEF Good, GoodNow, Types
<1>6. s \in SC(pool) /\ s \notin RC(pool) /\ s \notin pool.rfds
 BY <1>3, <1>4, <1>5, EarlyAt
<1>7. PICK P, Q, Y, Z :
          /\ Core(SC(pool), RC(pool), pool.rfds, Sends(mmc), Reads(mmc), Fresh(mmc, asked), X, P, Q, Y, Z)
          /\ P = {} /\ Y = {} /\ Z = {}
          /\ EarlyNext(Head(B), pool, Q, Head(B).i)
          /\ Head(B).n \in Lists /\ Head(B).i \in Nat \ {0}
          /\ Head(B) = AF("read_early", s, Head(B).n, Head(B).i)
 BY <1>3, <1>4, <1>5, EarlyAt
<1>8. PICK n, i, m, a, r : n = Head(B).n /\ i = Head(B).i /\ m = mmc[s] /\ a = asked[s] /\ r = m.readreq
 OBVIOUS
<1>9. PICK k : k = [m EXCEPT !.readreq = First(m.readqueue), !.readqueue = Rest(m.readqueue)]
 OBVIOUS
<1>10. m \in Mmc /\ k \in Mmc /\ Reads1(m, k)
 <2>1. m \in Mmc /\ m.readqueue \in Seq(Nat)
  BY <1>5, <1>8, MmcIs
 <2>2. First(m.readqueue) \in MaybeReq /\ Rest(m.readqueue) \in Seq(Nat)
  BY <2>1, PopIs
 <2> QED BY <1>9, <2>1, <2>2 DEF Mmc, Reads1
<1>11. /\ Quiet(k, a) /\ SL(k) = SL(m) /\ k.sendreq = m.sendreq
       /\ ToSet(RL(k)) = ToSet(RL(m)) \ {m.readreq} /\ m.readreq \in ToSet(RL(m)) /\ m.readreq \in Nat
 <2>1. /\ m \in Mmc /\ k \in Mmc /\ Linked(m) /\ m.readreq # NULL /\ m.readqueue = SL(m)
       /\ (IF Up(m) THEN a = <<>> ELSE m.sendreq = NULL) /\ Reads1(m, k)
  BY <1>4, <1>8, <1>10
 <2> QED BY ONLY <2>1, LineEarly
<1>12. PICK nn, mm, aa, qo : nn = mmc' /\ mm = mmc /\ aa = asked /\
          qo = IF m.sendreq # NULL THEN pool ELSE [pool EXCEPT !.sending[pool.cur] = mmc_queue_remove(@, s)]
 OBVIOUS
<1>13. nn \in [Servers -> Mmc] /\ nn[s] = k /\ But(mm, nn, s)
 <2>1. nn = [mm EXCEPT ![s] = k]
  BY <1>1, <1>2, <1>4, <1>5, <1>8, <1>9, <1>12
 <2>2. mm \in [Servers -> Mmc] /\ s \in Servers /\ k \in Mmc
  BY <1>4, <1>5, <1>10, <1>12
 <2> QED BY ONLY <2>1, <2>2, ServerPut
<1>14. But(aa, aa, s) /\ AllQuiet(nn, aa, {})
 <2>1. But(aa, aa, s)
  BY AskedSame
 <2>2. AllQuiet(mm, aa, {s}) /\ Quiet(nn[s], aa[s])
  BY <1>4, <1>8, <1>11, <1>12, <1>13
 <2>3. AllQuiet(nn, aa, {})
  BY <1>4, <1>13, <2>1, <2>2, QuietAll
 <2> QED BY <2>1, <2>3
<1>15. Filled(pool, qo, IF m.sendreq # NULL THEN SC(pool) ELSE SC(pool) \ {s}, RC(pool))
 BY <1>5, <1>12, EarlyLeaves
<1>16. PICK rs : rs = {r}
 OBVIOUS
<1>17. rs \subseteq Nat /\ mmc_pool_release(qo, rs)
 <2>1. {mmc[s].readreq} \ {NULL} = rs
  BY <1>4, <1>8, <1>16
 <2>2. mmc_pool_release(qo, {mmc[s].readreq} \ {NULL})
  BY <1>1, <1>2, <1>8, <1>12
 <2> QED BY <1>8, <1>11, <1>16, <2>1, <2>2
<1>18. /\ pool' \in Pool /\ SC(pool') = SC(qo) /\ RC(pool') = RC(qo) /\ Other(pool') = Other(qo)
       /\ pool'.rfds = qo.rfds /\ pool'.in_select = qo.in_select /\ pool'.free = qo.free \cup rs
       /\ request' \in Seq(Request) /\ SameCalls(request, request') /\ Len(request') = Len(request)
 <2>1. qo \in Pool /\ request \in Seq(Request)
  BY <1>5, <1>15 DEF Filled
 <2> QED BY ONLY <1>17, <2>1, ReleasedIs
<1>19. PICK po, to, rr : po = pool /\ to = pool' /\ rr = request'
 OBVIOUS
<1>20. /\ to \in Pool /\ SC(to) = IF m.sendreq # NULL THEN SC(po) ELSE SC(po) \ {s}
       /\ RC(to) = RC(po) /\ Other(to) = Other(po) /\ to.rfds = po.rfds /\ to.in_select = po.in_select
       /\ to.free = po.free \cup {r}
 BY <1>15, <1>16, <1>18, <1>19 DEF Filled
<1>21. PICK f, B2 : f = AF("read", s, n, i) /\ B2 = Push(f, Tail(B))
 OBVIOUS
<1>22. f \in BaseFrame /\ f.fn = "read" /\ f.s = s /\ f.n = n /\ f.i = i /\ f.fn \in WalkOrAt
 <2>1. PICK fn : fn = "read"
  OBVIOUS
 <2>2. fn \in AtFns /\ f = AF(fn, s, n, i) /\ s \in Servers /\ n \in Lists /\ i \in Nat \ {0}
  BY <1>4, <1>7, <1>8, <1>21, <2>1 DEF AtFns
 <2>3. f \in BaseFrame /\ f.fn = fn /\ f.s = s /\ f.n = n /\ f.i = i /\ f.fn \in WalkOrAt
  BY ONLY <2>2, AtIs
 <2> QED BY <2>1, <2>3
<1>23. /\ IsBase(B2) /\ Head(B2) = f /\ Tail(B2) = Tail(B) /\ f.fn \notin CallFns
       /\ \A c : OpenIn(B2, c) <=> OpenIn(B, c)
 <2>1. Head(B).fn \in WalkOrAt
  BY <1>4 DEF WalkOrAt, AtFns
 <2> QED BY <1>3, <1>21, <1>22, <2>1, WalkSwap
<1>24. stack' = B2
 <2>1. [Top EXCEPT !.fn = "read"] = f
  BY <1>3, <1>7, <1>8, <1>21 DEF AF
 <2> QED BY <1>1, <1>3, <1>21, <2>1 DEF Push
<1>25. PICK E : E = {}
 OBVIOUS
<1>26. Placed(nn, E, to.free, 1 .. Len(rr))
 <2>1. PICK D : D = 1 .. Len(request)
  OBVIOUS
 <2>2. Placed(mm, E, po.free, D) /\ r \in InLine(mm, s) /\ InLine(nn, s) = InLine(mm, s) \ {r}
  BY <1>4, <1>5, <1>8, <1>11, <1>12, <1>13, <1>19, <1>25, <2>1 DEF InLine
 <2>3. PICK F : F = po.free
  OBVIOUS
 <2>4. Placed(nn, E, F \cup {r}, D)
  <3>1. s \in Servers /\ But(mm, nn, s) /\ Placed(mm, E, F, D) /\ r \in InLine(mm, s) /\ InLine(nn, s) = InLine(mm, s) \ {r}
   BY <1>4, <1>13, <2>2, <2>3
  <3> QED BY ONLY <3>1, PlacedDone
 <2> QED BY <1>18, <1>19, <1>20, <2>1, <2>3, <2>4
<1>27. Walked(to, nn, aa, B2, E)
 <2>1. Core(SC(po), RC(po), po.rfds, Sends(mm), Reads(mm), Fresh(mm, aa), X, P, Q, Y, Z)
  BY <1>7, <1>12, <1>19
 <2>2. /\ s \in Sends(nn) <=> k.sendreq # NULL
       /\ s \in Reads(nn) <=> k.readreq # NULL
  BY <1>4, <1>13 DEF Sends, Reads
 <2>3. ReadsNext(f, po, Q) /\ s \in Q
  <3>1. EarlyNext(Head(B), po, Q, i)
   BY <1>7, <1>8, <1>19
  <3>2. /\ po.in_select /\ n = 3 - po.cur /\ po.wfds = {} /\ Q = From(po.reading[n], i)
        /\ i \in 1 .. Len(po.reading[n]) /\ s = po.reading[n][i]
   BY <1>4, <1>8, <3>1 DEF EarlyNext
  <3>3. po.reading[n] \in Seq(Servers) /\ i \in Nat \ {0}
   BY <1>5, <1>7, <1>8, <1>19, <3>2, PoolIs
  <3>4. s \in Q
   BY <3>2, <3>3, PassOne
  <3> QED BY <1>22, <3>2, <3>4 DEF ReadsNext
 <2>4. CoreAt(s, SC(to), RC(to), to.rfds, Sends(nn), Reads(nn), Fresh(nn, aa), E, P, Q, Y, Z)
  BY <1>6, <1>7, <1>11, <1>19, <1>20, <1>25, <2>2, <2>3 DEF CoreAt
 <2>5. Special(Head(B2), SC(to), RC(to), to.rfds, Fresh(nn, aa))
  BY <1>6, <1>19, <1>20, <1>22, <1>23 DEF Special
 <2>6. Now(Other(to), B2, P, Q, Y, Z)
  <3>1. WalksAs(f, po, P, Q, Y, Z)
   BY <1>7, <2>3, ReadsNextIs
  <3> QED BY <1>20, <1>23, <3>1 DEF Now, WalksAs
 <2>7. /\ Same(s, SC(po), SC(to)) /\ Same(s, X, E)
  BY <1>4, <1>20, <1>25 DEF Same
 <2>8. /\ Same(s, RC(po), RC(to)) /\ Less(s, po.rfds, to.rfds)
       /\ Same(s, P, P) /\ Same(s, Q, Q) /\ Less(s, Y, Y) /\ Less(s, Z, Z)
  BY <1>20, StaySame
 <2> QED BY <1>4, <1>13, <1>14, <2>1, <2>4, <2>5, <2>6, <2>7, <2>8, WalkedGo
<1>28. CallsOK(to.in_select, to.free, nn, rr, B2, E, ret)
 <2>1. CallsOK(po.in_select, po.free, mmc, request, B, E, ret) /\ po.free \subseteq to.free
  BY <1>4, <1>5, <1>19, <1>20, <1>25
 <2>2. Head(B2).fn \notin CallFns /\ SameCalls(request, rr)
  BY <1>18, <1>19, <1>23
 <2> QED BY <1>23, <2>1, <2>2, CallsWalk
<1>29. Types(nn, aa, to, rr)
 BY <1>5, <1>12, <1>13, <1>18, <1>19 DEF Types
<1>30. GoodAt(B2, nn, aa, to, rr, ret)
 <2>1. Head(B2).fn # "read_early"
  BY <1>22, <1>23
 <2>2. Placed(nn, {}, to.free, 1 .. Len(rr)) /\ Walked(to, nn, aa, B2, {}) /\ CallsOK(to.in_select, to.free, nn, rr, B2, {}, ret)
  BY <1>25, <1>26, <1>27, <1>28
 <2> QED BY <1>14, <1>23, <1>29, <2>1, <2>2, RestGood
<1> QED BY <1>1, <1>12, <1>19, <1>24, <1>30 DEF Inv

\* __wakeup is entered from a function that is read from.
LEMMA WakeupOver ==
    ASSUME NEW B, IsBase(B), Head(B).fn \in WalkOrAt, NEW g \in BaseFrame, g.fn = "unpacked",
           NEW f, f = User("wakeup"), NEW B2, B2 = Push(f, Push(g, Tail(B)))
    PROVE  /\ IsBase(B2) /\ Head(B2) = f /\ f.fn = "user" /\ At(B2, g)
           /\ \A c : OpenIn(B2, c) <=> OpenIn(B, c)
<1>1. g.fn \in WalkOrAt /\ Walking(g)
 BY DEF WalkOrAt, AtFns, Walking
<1>2. PICK B1 : B1 = Push(g, Tail(B))
 OBVIOUS
<1>3. IsBase(B1) /\ Head(B1) = g /\ \A c : OpenIn(B1, c) <=> OpenIn(B, c)
 BY <1>1, <1>2, WalkSwap
<1>4. f \in BaseFrame /\ f.fn = "user" /\ ~Walking(f) /\ f.fn \notin CallFns
 BY FrameMade DEF Walking, WalkFns, AtFns, CallFns
<1>5. Fits(f, Head(B1))
 BY <1>3 DEF Fits
<1>6. B2 = Push(f, B1)
 BY <1>2
<1>7. IsBase(B2) /\ Head(B2) = f
 BY <1>3, <1>4, <1>5, <1>6, BasePush
<1>8. At(B1, g)
 BY <1>1, <1>3, AtTop
<1>9. At(B2, g)
 BY <1>3, <1>4, <1>6, <1>8, AtPush
<1>10. \A c : OpenIn(B2, c) <=> OpenIn(B1, c)
 <2> TAKE c
 <2>1. OpenIn(Push(f, B1), c) <=> (f.fn \in CallFns /\ f.call = c) \/ OpenIn(B1, c)
  BY <1>3, <1>4, OpenPush
 <2> QED BY <1>4, <1>6, <2>1
<1> QED BY <1>3, <1>4, <1>7, <1>9, <1>10

LEMMA MarkedQuiet ==
    ASSUME NEW m, NEW a, NEW b, Reqs(b) = Reqs(a), Quiet(m, a)
    PROVE  Quiet(m, b)
BY DEF Quiet

LEMMA ReadValueStep ==
    ASSUME NEW B, NEW H, NEW X, GoodNow(B, H, X), ReadValue
    PROVE  Inv'
<1>1. /\ Running("read") /\ mmc[Top.s].readreq # NULL /\ asked[Top.s] # <<>>
      /\ asked' = [asked EXCEPT ![Top.s][1].value = TRUE]
      /\ IF Wakeup THEN stack' = <<User("wakeup"), [Top EXCEPT !.fn = "unpacked"]>> \o Tail(stack)
         ELSE stack' = stack
      /\ mmc' = mmc /\ pool' = pool /\ request' = request /\ ret' = ret
 BY DEF ReadValue, Reading, Call
<1>2. AtRest(B) /\ Head(B).fn = "read"
 BY <1>1, ReadAt
<1>3. PICK n, i, u, s, P, Q, Y, Z : ReadHas(B, n, i, u, s, P, Q, Y, Z)
 BY <1>1, ReadAt
<1>4. s = Top.s /\ s \in Servers /\ Top = AF("read", s, n, i) /\ n \in Lists /\ i \in Nat \ {0}
 BY <1>3 DEF ReadHas
<1>5. /\ asked \in [Servers -> Seq(Answer)] /\ mmc \in [Servers -> Mmc] /\ pool \in Pool /\ request \in Seq(Request)
      /\ Tail(stack) = Tail(B) /\ Tail(B) \in Seq(Frame) /\ IsBase(B)
 BY <1>2, RestFrame
<1>6. PICK m, a, b : m = mmc[s] /\ a = asked[s] /\ b = [a EXCEPT ![1].value = TRUE]
 OBVIOUS
<1>7. m \in Mmc /\ a \in Seq(Answer) /\ Quiet(m, a) /\ a # <<>> /\ m.readreq # NULL
 BY <1>1, <1>2, <1>4, <1>5, <1>6 DEF AtRest, AllQuiet
<1>8. b \in Seq(Answer) /\ b # <<>> /\ Reqs(b) = Reqs(a)
 BY <1>6, <1>7, ReqsMarked
<1>9. Quiet(m, b)
 BY <1>7, <1>8, MarkedQuiet
<1>10. PICK mm, aa, bb, po : mm = mmc /\ aa = asked /\ bb = asked' /\ po = pool
 OBVIOUS
<1>11. bb \in [Servers -> Seq(Answer)] /\ bb[s] = b /\ But(aa, bb, s)
 <2>1. bb = [aa EXCEPT ![s] = b]
  BY <1>1, <1>4, <1>5, <1>6, <1>10
 <2>2. aa \in [Servers -> Seq(Answer)] /\ s \in Servers /\ b \in Seq(Answer)
  BY <1>4, <1>5, <1>8, <1>10
 <2> QED BY ONLY <2>1, <2>2, AskedPut
<1>12. But(mm, mm, s)
 BY AskedSame
<1>13. CASE ~Wakeup
 <2>1. /\ mm \in [Servers -> Mmc] /\ bb \in [Servers -> Seq(Answer)] /\ But(mmc, mm, s) /\ But(asked, bb, s)
       /\ Quiet(mm[s], bb[s]) /\ mm[s].sendreq = mmc[s].sendreq /\ asked[s] # <<>>
       /\ (mm[s].readreq # NULL => mmc[s].readreq # NULL)
  BY <1>5, <1>6, <1>7, <1>9, <1>10, <1>11, <1>12
 <2>2. /\ pool' \in Pool /\ SC(pool') = SC(pool) /\ RC(pool') = RC(pool) /\ Other(pool') = Other(pool)
       /\ pool'.rfds = pool.rfds /\ pool.free \subseteq pool'.free
  BY <1>1, <1>5
 <2>3. request' \in Seq(Request) /\ SameCalls(request, request')
  BY <1>1, <1>5, SameLength
 <2>4. Placed(mm, {}, pool'.free, 1 .. Len(request'))
  BY <1>1, <1>2, <1>10 DEF AtRest
 <2>5. mmc' = mm /\ asked' = bb /\ stack' = stack /\ ret' = ret
  BY <1>1, <1>10, <1>13
 <2> QED BY ONLY <1>2, <1>3, <2>1, <2>2, <2>3, <2>4, <2>5, ReadGoes
<1>14. CASE Wakeup
 <2>1. PICK f, g, B2 : f = User("wakeup") /\ g = AF("unpacked", s, n, i) /\ B2 = Push(f, Push(g, Tail(B)))
  OBVIOUS
 <2>2. g \in BaseFrame /\ g.fn = "unpacked" /\ g.s = s /\ g.n = n /\ g.i = i /\ g.fn \in WalkOrAt
  <3>1. PICK fn : fn = "unpacked"
   OBVIOUS
  <3>2. fn \in AtFns /\ g = AF(fn, s, n, i) /\ s \in Servers /\ n \in Lists /\ i \in Nat \ {0}
   BY <1>4, <2>1, <3>1 DEF AtFns
  <3>3. g \in BaseFrame /\ g.fn = fn /\ g.s = s /\ g.n = n /\ g.i = i /\ g.fn \in WalkOrAt
   BY ONLY <3>2, AtIs
  <3> QED BY <3>1, <3>3
 <2>3. /\ IsBase(B2) /\ Head(B2) = f /\ f.fn = "user" /\ At(B2, g)
       /\ \A c : OpenIn(B2, c) <=> OpenIn(B, c)
  <3>1. Head(B).fn \in WalkOrAt
   BY <1>2 DEF WalkOrAt, AtFns
  <3> QED BY <1>5, <2>1, <2>2, <3>1, WakeupOver
 <2>4. stack' = B2
  <3>1. PICK T : T = Tail(B)
   OBVIOUS
  <3>2. f \in Frame /\ g \in Frame /\ T \in Seq(Frame)
   BY <1>5, <2>1, <2>2, <3>1, FrameMade DEF Frame
  <3>3. <<f, g>> \o T = Push(f, Push(g, T))
   BY ONLY <3>2, PushTwo
  <3>4. [Top EXCEPT !.fn = "unpacked"] = g
   BY <1>4, <2>1 DEF AF
  <3> QED BY <1>1, <1>5, <1>14, <2>1, <3>1, <3>3, <3>4
 <2>5. PICK E, K : E = {} /\ K = {s}
  OBVIOUS
 <2>6. /\ s \notin RC(po) /\ s \notin po.rfds /\ P = {} /\ Y = {} /\ Z = {}
       /\ Core(SC(po), RC(po), po.rfds, Sends(mm), Reads(mm), Fresh(mm, aa), E, P, Q, Y, Z)
       /\ RestCoreIs(s, P, Q, Y, Z)
       /\ po.in_select /\ n = 3 - po.cur /\ po.wfds = {} /\ i \in 1 .. Len(po.reading[n])
       /\ s = po.reading[n][i] /\ Q = From(po.reading[n], i)
  <3>1. s \notin RC(po)
   BY <1>3, <1>6, <1>7, <1>10, Zenon DEF ReadHas
  <3> QED BY <1>3, <1>10, <2>5, <3>1, Zenon DEF ReadHas
 <2>7. Walked(po, mm, bb, B2, E)
  <3>1. CoreAt(s, SC(po), RC(po), po.rfds, Sends(mm), Reads(mm), Fresh(mm, bb), E, P, Q, Y, K)
   BY <1>6, <1>7, <1>10, <2>5, <2>6, Zenon DEF CoreAt, RestCoreIs
  <3>2. Special(Head(B2), SC(po), RC(po), po.rfds, Fresh(mm, bb))
   <4>1. Plain(f)
    BY <2>3 DEF Plain
   <4> QED BY <2>3, <4>1, PlainSpecial
  <3>3. Now(Other(po), B2, P, Q, Y, K)
   <4>1. /\ Other(po).cur = po.cur /\ Other(po).in_select = po.in_select
         /\ Other(po).wfds = po.wfds /\ Other(po).reading = po.reading[3 - po.cur]
    BY OtherHas
   <4>2. f.fn \in IdleFns
    BY <2>3 DEF IdleFns
   <4>3. NowWaits(f, g, Other(po), P, Q, Y, K)
    BY <2>2, <2>5, <2>6, <4>1, <4>2 DEF NowWaits
   <4> QED BY <2>3, <4>3 DEF Now
  <3>4. /\ Same(s, SC(po), SC(po)) /\ Same(s, RC(po), RC(po)) /\ Less(s, po.rfds, po.rfds) /\ Same(s, E, E)
        /\ Same(s, P, P) /\ Same(s, Q, Q) /\ Less(s, Y, Y)
   BY StaySame
  <3>5. Less(s, Z, K)
   BY <2>5 DEF Less
  <3> QED BY <1>4, <1>11, <1>12, <2>6, <3>1, <3>2, <3>3, <3>4, <3>5, WalkedGo, ZenonT(60)
 <2>8. CallsOK(po.in_select, po.free, mm, request, B2, E, ret)
  <3>1. CallsOK(po.in_select, po.free, mm, request, B, E, ret) /\ po.free \subseteq po.free
   BY <1>2, <1>10, <2>5 DEF AtRest
  <3>2. Head(B2).fn \notin CallFns /\ SameCalls(request, request)
   BY <2>3, SameLength DEF CallFns
  <3> QED BY <2>3, <3>1, <3>2, CallsWalk
 <2>9. Types(mm, bb, po, request)
  BY <1>5, <1>10, <1>11 DEF Types
 <2>10. AllQuiet(mm, bb, {})
  <3>1. AllQuiet(mm, aa, {}) /\ Quiet(mm[s], bb[s])
   BY <1>2, <1>6, <1>9, <1>10, <1>11 DEF AtRest
  <3> QED BY <1>4, <1>11, <1>12, <3>1, QuietAll
 <2>11. GoodAt(B2, mm, bb, po, request, ret)
  <3>1. Head(B2).fn # "read_early"
   BY <2>3
  <3>2. /\ Placed(mm, {}, po.free, 1 .. Len(request)) /\ Walked(po, mm, bb, B2, {})
        /\ CallsOK(po.in_select, po.free, mm, request, B2, {}, ret)
   BY <1>2, <1>10, <2>5, <2>7, <2>8 DEF AtRest
  <3> QED BY <2>3, <2>9, <2>10, <3>1, <3>2, RestGood
 <2> QED BY <1>1, <1>10, <2>4, <2>11 DEF Inv
<1> QED BY <1>13, <1>14

\* __wakeup has returned: the walk it waited in goes on, or has been ended.
LEMMA UnpackedStep ==
    ASSUME NEW B, NEW H, NEW X, GoodNow(B, H, X), Unpacked
    PROVE  Inv'
<1>1. /\ Running("unpacked")
      /\ stack' = IF pool.in_select THEN <<[Top EXCEPT !.fn = "read"]>> \o Tail(stack) ELSE Tail(stack)
      /\ mmc' = mmc /\ asked' = asked /\ pool' = pool /\ request' = request /\ ret' = ret
 BY DEF Unpacked, Goto, Return
<1>2. AtRest(B) /\ Head(B).fn = "unpacked" /\ Top = Head(B)
 <2>1. "unpacked" \in BaseFns \ {"read_early"}
  BY DEF BaseFns, AtFns
 <2> QED BY <1>1, <2>1, RestIs
<1>3. PICK g, n, i, s, po : g = Head(B) /\ n = g.n /\ i = g.i /\ s = g.s /\ po = pool
 OBVIOUS
<1>4. /\ n \in Lists /\ i \in Nat \ {0} /\ s \in Servers /\ po \in Pool /\ g = AF("unpacked", s, n, i)
      /\ Tail(stack) = Tail(B) /\ IsBase(B)
 BY <1>2, <1>3, RestFrame DEF AtFns
<1>5. Walking(g) /\ Head(B).fn \in WalkOrAt /\ g.fn \in IdleFns
 BY <1>2, <1>3 DEF Walking, WalkOrAt, AtFns, IdleFns
<1>6. PICK P, Q, Y, Z :
          /\ Core(SC(po), RC(po), po.rfds, Sends(mmc), Reads(mmc), Fresh(mmc, asked), {}, P, Q, Y, Z)
          /\ \/ NowIdle(g, Other(po), P, Q, Y, Z)
             \/ \E h : At(B, h) /\ NowWaits(g, h, Other(po), P, Q, Y, Z)
 BY <1>2, <1>3, <1>5, RestWalked
<1>7. /\ Other(po).cur = po.cur /\ Other(po).in_select = po.in_select
      /\ Other(po).wfds = po.wfds /\ Other(po).reading = po.reading[3 - po.cur]
 BY OtherHas
<1>8. CASE po.in_select
 <2>1. NowWaits(g, g, Other(po), P, Q, Y, Z)
  <3>1. ~NowIdle(g, Other(po), P, Q, Y, Z)
   BY <1>7, <1>8 DEF NowIdle
  <3>2. PICK h : At(B, h) /\ NowWaits(g, h, Other(po), P, Q, Y, Z)
   BY <1>6, <3>1
  <3>3. h = g
   BY <1>3, <1>4, <1>5, <3>2, AtTop
  <3> QED BY <3>2, <3>3
 <2>2. /\ n = 3 - po.cur /\ po.wfds = {} /\ P = {} /\ Y = {}
       /\ i \in 1 .. Len(po.reading[n]) /\ s = po.reading[n][i]
       /\ Q = From(po.reading[n], i) /\ Z = {s}
  BY <1>3, <1>7, <2>1 DEF NowWaits
 <2>3. PICK f, Z2 : f = AF("read", s, n, i) /\ Z2 = {}
  OBVIOUS
 <2>4. f \in BaseFrame /\ f.fn = "read" /\ f.s = s /\ f.n = n /\ f.i = i /\ f.fn \in WalkOrAt
  <3>1. PICK fn : fn = "read"
   OBVIOUS
  <3>2. fn \in AtFns /\ f = AF(fn, s, n, i) /\ s \in Servers /\ n \in Lists /\ i \in Nat \ {0}
   BY <1>4, <2>3, <3>1 DEF AtFns
  <3>3. f \in BaseFrame /\ f.fn = fn /\ f.s = s /\ f.n = n /\ f.i = i /\ f.fn \in WalkOrAt
   BY ONLY <3>2, AtIs
  <3> QED BY <3>1, <3>3
 <2>5. stack' = <<f>> \o Tail(B)
  <3>1. [Top EXCEPT !.fn = "read"] = f
   BY <1>2, <1>3, <1>4, <2>3 DEF AF
  <3> QED BY <1>1, <1>3, <1>4, <1>8, <3>1
 <2>6. CoreAt(s, SC(po), RC(po), po.rfds, Sends(mmc), Reads(mmc), Fresh(mmc, asked), {}, P, Q, Y, Z)
  BY <1>4, <1>6, CoreIs
 <2>7. s \notin RC(po) /\ s \notin po.rfds
  BY <2>2, <2>6 DEF CoreAt
 <2>8. Core(SC(po), RC(po), po.rfds, Sends(mmc), Reads(mmc), Fresh(mmc, asked), {}, P, Q, Y, Z2)
  <3>1. CoreAt(s, SC(po), RC(po), po.rfds, Sends(mmc), Reads(mmc), Fresh(mmc, asked), {}, P, Q, Y, Z2)
   BY <2>3, <2>6 DEF CoreAt
  <3>2. Less(s, Z, Z2)
   BY <2>3 DEF Less
  <3>3. /\ Same(s, SC(po), SC(po)) /\ Same(s, RC(po), RC(po)) /\ Less(s, po.rfds, po.rfds)
        /\ Same(s, P, P) /\ Same(s, Q, Q) /\ Less(s, Y, Y)
   BY StaySame
  <3> QED BY <1>6, <3>1, <3>2, <3>3, CoreMoves
 <2>9. Special(f, SC(po), RC(po), po.rfds, Fresh(mmc, asked))
  BY <2>4, <2>7 DEF Special
 <2>10. WalksAs(f, po, P, Q, Y, Z2)
  <3>1. ReadsNext(f, po, Q)
   BY <1>8, <2>2, <2>4 DEF ReadsNext
  <3> QED BY <2>2, <2>3, <3>1, ReadsNextIs
 <2>11. f.fn \in WalkOrAt /\ f.fn # "read_early" /\ po \in Pool /\ po.free = pool.free /\ pool' = po
  BY <1>1, <1>3, <1>4, <2>4
 <2>12. mmc' = mmc /\ asked' = asked /\ request' = request /\ ret' = ret
  BY <1>1
 <2> QED BY ONLY <1>2, <1>5, <2>4, <2>5, <2>8, <2>9, <2>10, <2>11, <2>12, WalkGoes
<1>9. CASE ~po.in_select
 <2>1. P = {} /\ Q = {} /\ Y = {} /\ Z = {}
  BY <1>6, <1>7, <1>9 DEF NowIdle, NowWaits
 <2>2. PICK T : T = Tail(B)
  OBVIOUS
 <2>3. IsBase(T) /\ Head(T).fn \in {"run", "array_next"} /\ \A c : OpenIn(T, c) <=> OpenIn(B, c)
  BY <1>4, <1>5, <2>2, WalkPop
 <2>4. Head(T).fn \in IdleFns /\ Head(T).fn # "single"
  BY <2>3 DEF IdleFns, CallFns
 <2>5. CallsOK(po.in_select, po.free, mmc, request, T, {}, ret)
  <3>1. PICK E : E = {}
   OBVIOUS
  <3>2. CallsOK(po.in_select, po.free, mmc, request, B, E, ret)
   BY <1>2, <1>3, <3>1 DEF AtRest
  <3>3. CallsOK(po.in_select, po.free, mmc, request, T, E, ret)
   BY <1>9, <2>3, <2>4, <3>2, CallsReturn
  <3> QED BY <3>1, <3>3
 <2>6. /\ Types(mmc, asked, po, request) /\ AllQuiet(mmc, asked, {}) /\ Placed(mmc, {}, po.free, 1 .. Len(request))
  BY <1>2, <1>3 DEF AtRest
 <2>7. GoodAt(T, mmc, asked, po, request, ret)
  BY <1>6, <1>9, <2>1, <2>3, <2>4, <2>5, <2>6, IdleGood
 <2>8. stack' = T
  BY <1>1, <1>3, <1>4, <1>9, <2>2
 <2> QED BY <1>1, <1>3, <2>7, <2>8 DEF Inv
<1> QED BY <1>8, <1>9

\* A function K waits for the walk that begins, in the place of B.
Called(B, K) == /\ IsBase(K) /\ Head(K).fn \in {"run", "array_next"}
                /\ \A c : OpenIn(K, c) <=> OpenIn(B, c)

LEMMA WalkBegins ==
    ASSUME NEW B, AtRest(B), NEW K, Called(B, K), NEW f \in BaseFrame, f.fn \in WalkFns, stack' = <<f>> \o K,
           mmc' = mmc, asked' = asked, request' = request, NEW po, pool' = po, po \in Pool, po.free = pool.free,
           NEW P, NEW Q, NEW Y, NEW Z,
           Core(SC(po), RC(po), po.rfds, Sends(mmc), Reads(mmc), Fresh(mmc, asked), {}, P, Q, Y, Z),
           WalksAs(f, po, P, Q, Y, Z)
    PROVE  Inv'
<1>1. PICK B2 : B2 = Push(f, K)
 OBVIOUS
<1>2. f.fn \notin CallFns /\ f.fn # "read_early" /\ Plain(f)
 BY DEF WalkFns, CallFns, Plain
<1>3. IsBase(B2) /\ Head(B2) = f
 <2>1. IsBase(K) /\ Fits(f, Head(K))
  BY DEF Called, Fits
 <2> QED BY <1>1, <2>1, BasePush
<1>4. \A c : OpenIn(B2, c) <=> OpenIn(B, c)
 <2> TAKE c
 <2>1. IsBase(K) /\ (OpenIn(K, c) <=> OpenIn(B, c))
  BY DEF Called
 <2>2. OpenIn(Push(f, K), c) <=> (f.fn \in CallFns /\ f.call = c) \/ OpenIn(K, c)
  BY <2>1, OpenPush
 <2> QED BY <1>1, <1>2, <2>1, <2>2
<1>5. CallsOK(po.in_select, po.free, mmc, request, B2, {}, ret')
 <2>1. PICK E : E = {}
  OBVIOUS
 <2>2. CallsOK(pool.in_select, po.free, mmc, request, B, E, ret) /\ po.free \subseteq po.free
  BY <2>1 DEF AtRest
 <2>3. Head(B2).fn \notin CallFns /\ SameCalls(request, request)
  BY <1>2, <1>3, SameLength
 <2>4. CallsOK(po.in_select, po.free, mmc, request, B2, E, ret')
  BY <1>4, <2>2, <2>3, CallsWalk
 <2> QED BY <2>1, <2>4
<1>6. Walked(po, mmc, asked, B2, {})
 <2>1. Special(Head(B2), SC(po), RC(po), po.rfds, Fresh(mmc, asked))
  BY <1>2, <1>3, PlainSpecial
 <2>2. Now(Other(po), B2, P, Q, Y, Z)
  BY <1>3 DEF Now, WalksAs
 <2> QED BY <2>1, <2>2 DEF Walked
<1>7. GoodAt(B2, mmc, asked, po, request, ret')
 <2>1. Types(mmc, asked, po, request) /\ AllQuiet(mmc, asked, {}) /\ Placed(mmc, {}, po.free, 1 .. Len(request))
  BY DEF AtRest, Types
 <2>2. Head(B2).fn # "read_early"
  BY <1>2, <1>3
 <2> QED BY <1>3, <1>5, <1>6, <2>1, <2>2, RestGood
<1>8. stack' = B2
 BY <1>1 DEF Push
<1> QED BY <1>7, <1>8 DEF Inv

LEMMA SelectCases ==
    ASSUME NEW k, mmc_pool_select(k)
    PROVE  \/ pool.in_select /\ stack' = <<Walk("sends", 3 - pool.cur, 1)>> \o k /\ pool' = pool
           \/ /\ ~pool.in_select
              /\ \/ \E s \in SC(pool) : mmc[s].sendreq = NULL
                 \/ \E s \in RC(pool) : mmc[s].readreq = NULL
           \/ /\ ~pool.in_select
              /\ \E w, r :
                    /\ w \subseteq SC(pool) /\ r \subseteq RC(pool)
                    /\ pool' = [pool EXCEPT !.cur = 3 - pool.cur, !.sending[3 - pool.cur] = <<>>,
                                            !.reading[3 - pool.cur] = <<>>,
                                            !.wfds = w, !.rfds = r, !.in_select = w \cup r # {}]
                    /\ stack' = <<Walk(IF w \cup r = {} THEN "timeouts" ELSE "sends", pool.cur, 1)>> \o k
BY Zenon DEF mmc_pool_select, SC, RC

\* The lists are switched: what was filled is walked, and nothing is filled yet.
Switched(po, qo, w, r) ==
    /\ qo \in Pool /\ SC(qo) = {} /\ RC(qo) = {} /\ qo.free = po.free
    /\ qo.cur = 3 - po.cur /\ po.cur = 3 - qo.cur /\ qo.wfds = w /\ qo.rfds = r
    /\ qo.in_select = (w \cup r # {})
    /\ qo.sending[po.cur] = po.sending[po.cur] /\ qo.reading[po.cur] = po.reading[po.cur]

LEMMA Switches ==
    ASSUME NEW po \in Pool, NEW w, NEW r, w \subseteq SC(po), r \subseteq RC(po), NEW qo,
           qo = [po EXCEPT !.cur = 3 - po.cur, !.sending[3 - po.cur] = <<>>, !.reading[3 - po.cur] = <<>>,
                           !.wfds = w, !.rfds = r, !.in_select = w \cup r # {}]
    PROVE  Switched(po, qo, w, r)
<1>1. PICK n, m, e, b : n = po.cur /\ m = 3 - po.cur /\ e = <<>> /\ b = (w \cup r # {})
 OBVIOUS
<1>2. /\ n \in Lists /\ m \in Lists /\ m # n /\ w \subseteq Servers /\ r \subseteq Servers
      /\ po.sending \in [Lists -> Seq(Servers)] /\ po.reading \in [Lists -> Seq(Servers)]
 BY <1>1, PoolIs
<1>3. b \in BOOLEAN /\ n = 3 - m
 BY <1>1, <1>2 DEF Lists
<1>4. e \in Seq(Servers) /\ ToSet(e) = {}
 BY <1>1, EmptyFacts
<1>5. PICK x, y : x = [po.sending EXCEPT ![m] = e] /\ y = [po.reading EXCEPT ![m] = e]
 OBVIOUS
<1>6. /\ x \in [Lists -> Seq(Servers)] /\ x[m] = e /\ x[n] = po.sending[n]
      /\ y \in [Lists -> Seq(Servers)] /\ y[m] = e /\ y[n] = po.reading[n]
 BY <1>2, <1>4, <1>5
<1>7. qo = [po EXCEPT !.cur = m, !.sending = x, !.reading = y, !.wfds = w, !.rfds = r, !.in_select = b]
 BY <1>1, <1>5
<1>8. /\ qo \in Pool /\ qo.cur = m /\ qo.sending = x /\ qo.reading = y /\ qo.wfds = w /\ qo.rfds = r
      /\ qo.in_select = b /\ qo.free = po.free
 BY <1>2, <1>3, <1>6, <1>7, ZenonT(60) DEF Pool
<1>9. SC(qo) = {} /\ RC(qo) = {}
 BY <1>4, <1>6, <1>8 DEF SC, RC
<1> QED BY <1>1, <1>3, <1>6, <1>8, <1>9, Zenon DEF Switched

\* A walk may have more before it and wait for less.
LEMMA CoreMore ==
    ASSUME NEW S, NEW R, NEW rf, NEW Sd, NEW Rd, NEW Fr, NEW X, NEW P, NEW Q, NEW Y, NEW Z,
           Core(S, R, rf, Sd, Rd, Fr, X, P, Q, Y, Z),
           NEW P2, NEW Q2, NEW Y2, NEW Z2, P \subseteq P2, Q \subseteq Q2, Y2 \subseteq Y, Z2 \subseteq Z
    PROVE  Core(S, R, rf, Sd, Rd, Fr, X, P2, Q2, Y2, Z2)
BY DEF Core

\* All the servers with a request are in the lists that were filled, and are walked now.
LEMMA CoreSwitched ==
    ASSUME NEW S, NEW R, NEW rf, NEW Sd, NEW Rd, NEW Fr, NEW E, E = {}, Core(S, R, rf, Sd, Rd, Fr, E, E, E, E, E),
           NEW w, NEW r, w \subseteq S, r \subseteq R, S \subseteq Servers, R \subseteq Servers, NEW Z,
           Z = {} \/ (Z = R /\ r = {})
    PROVE  /\ Core(E, E, r, Sd, Rd, Fr, E, S, R, w, Z)
           /\ Z = R => Core(E, E, r, Sd, Rd, Fr, E, S, R, S, Z)
BY DEF Core

\* mmc_pool_select begins a walk, or helps the one that waits.
LEMMA SelectStep ==
    ASSUME NEW B, AtRest(B), Head(B).fn \in {"run", "array"}, NEW K, Called(B, K), mmc_pool_select(K),
           mmc' = mmc, asked' = asked, request' = request
    PROVE  Inv'
<1>1. PICK po, n, m : po = pool /\ n = po.cur /\ m = 3 - po.cur
 OBVIOUS
<1>2. /\ po \in Pool /\ n \in Lists /\ m \in Lists /\ n = 3 - m
      /\ po.sending[n] \in Seq(Servers) /\ po.reading[n] \in Seq(Servers)
      /\ po.sending[m] \in Seq(Servers) /\ po.reading[m] \in Seq(Servers)
      /\ SC(po) = ToSet(po.sending[n]) /\ RC(po) = ToSet(po.reading[n])
      /\ SC(po) \subseteq Servers /\ RC(po) \subseteq Servers
 <2>1. po \in Pool
  BY <1>1, RestFrame
 <2>2. n \in Lists /\ m \in Lists /\ n = 3 - m
  <3>1. n \in Lists
   BY <1>1, <2>1, PoolIs
  <3> QED BY <1>1, <3>1 DEF Lists
 <2> QED BY <1>1, <2>1, <2>2, PoolIs DEF SC, RC
<1>3. PICK P, Q, Y, Z :
          /\ Core(SC(po), RC(po), po.rfds, Sends(mmc), Reads(mmc), Fresh(mmc, asked), {}, P, Q, Y, Z)
          /\ \/ NowIdle(Head(B), Other(po), P, Q, Y, Z)
             \/ \E g : At(B, g) /\ NowWaits(Head(B), g, Other(po), P, Q, Y, Z)
 <2>1. Head(B).fn \in IdleFns
  BY DEF IdleFns, CallFns
 <2> QED BY <1>1, <2>1, RestWalked
<1>4. /\ Other(po).cur = po.cur /\ Other(po).in_select = po.in_select
      /\ Other(po).wfds = po.wfds /\ Other(po).reading = po.reading[m]
 BY <1>1, OtherHas
<1>5. 1 \in Nat \ {0}
 OBVIOUS
<1>6. mmc' = mmc /\ asked' = asked /\ request' = request
 OBVIOUS
<1>7. ASSUME pool.in_select, stack' = <<Walk("sends", 3 - pool.cur, 1)>> \o K, pool' = pool
      PROVE  Inv'
 <2>1. PICK f : f = Walk("sends", m, 1)
  OBVIOUS
 <2>2. f \in BaseFrame /\ f.fn = "sends" /\ f.n = m /\ f.i = 1 /\ f.fn \in WalkFns
  <3>1. PICK fn : fn = "sends"
   OBVIOUS
  <3>2. fn \in WalkFns /\ f = Walk(fn, m, 1)
   BY <2>1, <3>1 DEF WalkFns
  <3>3. f \in BaseFrame /\ f.fn = fn /\ f.n = m /\ f.i = 1
   BY <1>2, <1>5, <3>2, WalkIs
  <3> QED BY <3>1, <3>2, <3>3
 <2>3. PICK g : NowWaits(Head(B), g, Other(po), P, Q, Y, Z)
  BY <1>1, <1>3, <1>4, <1>7 DEF NowIdle
 <2>4. po.wfds = {} /\ P = {} /\ Y = {} /\ g.i \in 1 .. Len(po.reading[m]) /\ Q = From(po.reading[m], g.i)
  BY <1>4, <2>3 DEF NowWaits
 <2>5. PICK P2, Q2, Y2, Z2 : P2 = ToSet(po.sending[m]) /\ Q2 = ToSet(po.reading[m]) /\ Y2 = po.wfds /\ Z2 = {}
  OBVIOUS
 <2>6. Q \subseteq Q2
  <3>1. PICK u, j : u = po.reading[m] /\ j = g.i
   OBVIOUS
  <3>2. u \in Seq(Servers) /\ j \in 1 .. Len(u) /\ Q = From(u, j) /\ Q2 = ToSet(u)
   BY <1>2, <2>4, <2>5, <3>1
  <3>3. \A i \in 1 .. Len(u) : u[i] \in ToSet(u)
   BY <3>2, SeqFacts
  <3>4. Len(u) \in Nat
   BY <3>2, SeqFacts
  <3>5. \A i \in j .. Len(u) : i \in 1 .. Len(u)
   BY <3>2, <3>4
  <3> QED BY <3>2, <3>3, <3>5 DEF From
 <2>7. Core(SC(po), RC(po), po.rfds, Sends(mmc), Reads(mmc), Fresh(mmc, asked), {}, P2, Q2, Y2, Z2)
  <3>1. P \subseteq P2 /\ Y2 \subseteq Y /\ Z2 \subseteq Z
   BY <2>4, <2>5
  <3> QED BY <1>3, <2>6, <3>1, CoreMore
 <2>8. WalksAs(f, po, P2, Q2, Y2, Z2)
  <3>1. P2 = From(po.sending[m], 1)
   BY <1>2, <1>5, <2>5, FromIs
  <3>2. SendsNext(f, po, P2, Q2, Y2)
   BY <1>1, <1>7, <2>2, <2>4, <2>5, <3>1 DEF SendsNext
  <3> QED BY <2>5, <3>2, SendsNextIs
 <2>9. stack' = <<f>> \o K /\ pool' = po /\ po.free = pool.free
  BY <1>1, <1>7, <2>1
 <2> QED BY ONLY <1>2, <1>6, <2>2, <2>7, <2>8, <2>9, AtRest(B), Called(B, K), WalkBegins
<1>8. ASSUME ~pool.in_select PROVE NowIdle(Head(B), Other(po), P, Q, Y, Z)
 BY <1>1, <1>3, <1>4, <1>8 DEF NowWaits
<1>9. ASSUME ~pool.in_select
      PROVE  Core(SC(po), RC(po), po.rfds, Sends(mmc), Reads(mmc), Fresh(mmc, asked), {}, {}, {}, {}, {})
 BY <1>3, <1>8, <1>9 DEF NowIdle
<1>10. ASSUME ~pool.in_select
       PROVE  /\ \A s \in SC(pool) : mmc[s].sendreq # NULL
              /\ \A s \in RC(pool) : mmc[s].readreq # NULL
 BY <1>1, <1>2, <1>9, <1>10 DEF Core, Sends, Reads
<1>11. ASSUME ~pool.in_select, NEW w, NEW r, w \subseteq SC(pool), r \subseteq RC(pool),
              pool' = [pool EXCEPT !.cur = 3 - pool.cur, !.sending[3 - pool.cur] = <<>>,
                                   !.reading[3 - pool.cur] = <<>>,
                                   !.wfds = w, !.rfds = r, !.in_select = w \cup r # {}],
              stack' = <<Walk(IF w \cup r = {} THEN "timeouts" ELSE "sends", pool.cur, 1)>> \o K
       PROVE  Inv'
 <2>1. PICK qo : qo = pool'
  OBVIOUS
 <2>2. Switched(po, qo, w, r)
  <3>1. /\ po \in Pool /\ w \subseteq SC(po) /\ r \subseteq RC(po)
        /\ qo = [po EXCEPT !.cur = 3 - po.cur, !.sending[3 - po.cur] = <<>>, !.reading[3 - po.cur] = <<>>,
                           !.wfds = w, !.rfds = r, !.in_select = w \cup r # {}]
   BY <1>1, <1>2, <1>11, <2>1
  <3> QED BY ONLY <3>1, Switches, Zenon
 <2>3. PICK fn : fn = IF w \cup r = {} THEN "timeouts" ELSE "sends"
  OBVIOUS
 <2>4. PICK f : f = Walk(fn, n, 1)
  OBVIOUS
 <2>5. f \in BaseFrame /\ f.fn = fn /\ f.n = n /\ f.i = 1 /\ f.fn \in WalkFns
  <3>1. fn \in WalkFns
   BY <2>3 DEF WalkFns
  <3>2. f \in BaseFrame /\ f.fn = fn /\ f.n = n /\ f.i = 1
   BY <1>2, <1>5, <2>4, <3>1, WalkIs
  <3> QED BY <3>1, <3>2
 <2>6. stack' = <<f>> \o K /\ pool' = qo /\ qo.free = pool.free /\ qo \in Pool
  BY <1>1, <1>11, <2>1, <2>2, <2>3, <2>4, Zenon DEF Switched
 <2>7. PICK S, R, E : S = SC(po) /\ R = RC(po) /\ E = {}
  OBVIOUS
 <2>8. /\ SC(qo) = E /\ RC(qo) = E /\ qo.rfds = r /\ qo.wfds = w /\ qo.in_select = (w \cup r # {})
       /\ n = 3 - qo.cur /\ qo.sending[n] = po.sending[n] /\ qo.reading[n] = po.reading[n]
  BY <1>1, <2>2, <2>7 DEF Switched
 <2>9. Core(S, R, po.rfds, Sends(mmc), Reads(mmc), Fresh(mmc, asked), E, E, E, E, E)
  BY <1>9, <1>11, <2>7
 <2>10. w \subseteq S /\ r \subseteq R /\ S \subseteq Servers /\ R \subseteq Servers
  BY <1>1, <1>2, <1>11, <2>7
 <2>11. CASE w \cup r = {}
  <3>1. r = {} /\ w = {} /\ fn = "timeouts" /\ ~qo.in_select
   BY <2>3, <2>8, <2>11
  <3>2. Core(E, E, r, Sends(mmc), Reads(mmc), Fresh(mmc, asked), E, S, R, S, R)
   <4>1. PICK Z2 : Z2 = R
    OBVIOUS
   <4>2. Core(E, E, r, Sends(mmc), Reads(mmc), Fresh(mmc, asked), E, S, R, S, Z2)
    BY <2>7, <2>9, <2>10, <3>1, <4>1, CoreSwitched
   <4> QED BY <4>1, <4>2
  <3>3. Core(SC(qo), RC(qo), qo.rfds, Sends(mmc), Reads(mmc), Fresh(mmc, asked), {}, S, R, S, R)
   BY <2>7, <2>8, <3>2
  <3>4. WalksAs(f, qo, S, R, S, R)
   <4>1. NowTimeouts(f, Other(qo), S, R, S, R)
    BY <1>2, <2>5, <2>7, <2>8, <3>1, OtherHas DEF NowTimeouts
   <4> QED BY <4>1 DEF WalksAs
  <3> QED BY ONLY <1>6, <2>5, <2>6, <3>3, <3>4, AtRest(B), Called(B, K), WalkBegins
 <2>12. CASE w \cup r # {}
  <3>1. fn = "sends" /\ qo.in_select
   BY <2>3, <2>8, <2>12
  <3>2. Core(E, E, r, Sends(mmc), Reads(mmc), Fresh(mmc, asked), E, S, R, w, E)
   BY <2>7, <2>9, <2>10, CoreSwitched
  <3>3. Core(SC(qo), RC(qo), qo.rfds, Sends(mmc), Reads(mmc), Fresh(mmc, asked), {}, S, R, w, E)
   BY <2>7, <2>8, <3>2
  <3>4. WalksAs(f, qo, S, R, w, E)
   <4>1. S = From(po.sending[n], 1) /\ R = ToSet(po.reading[n])
    BY <1>2, <1>5, <2>7, FromIs
   <4>2. SendsNext(f, qo, S, R, w)
    BY <2>5, <2>8, <2>10, <3>1, <4>1 DEF SendsNext
   <4> QED BY <2>7, <4>2, SendsNextIs
  <3> QED BY ONLY <1>6, <2>5, <2>6, <3>3, <3>4, AtRest(B), Called(B, K), WalkBegins
 <2> QED BY <2>11, <2>12
<1>12. \/ pool.in_select /\ stack' = <<Walk("sends", 3 - pool.cur, 1)>> \o K /\ pool' = pool
       \/ /\ ~pool.in_select
          /\ \E w, r :
                /\ w \subseteq SC(pool) /\ r \subseteq RC(pool)
                /\ pool' = [pool EXCEPT !.cur = 3 - pool.cur, !.sending[3 - pool.cur] = <<>>,
                                        !.reading[3 - pool.cur] = <<>>,
                                        !.wfds = w, !.rfds = r, !.in_select = w \cup r # {}]
                /\ stack' = <<Walk(IF w \cup r = {} THEN "timeouts" ELSE "sends", pool.cur, 1)>> \o K
 BY <1>10, SelectCases, Zenon
<1> QED BY <1>7, <1>11, <1>12, ZenonT(60)

\* Functions that are not walking come and go above the walk that waits.
LEMMA IdlePop ==
    ASSUME NEW B, IsBase(B), Head(B).fn \in {"user"} \cup CallFns, Head(B) # User("script"), NEW T, T = Tail(B)
    PROVE  /\ IsBase(T) /\ Fits(Head(B), Head(T)) /\ B = Push(Head(B), T) /\ Head(B) \in BaseFrame
           /\ \A g : At(B, g) <=> At(T, g)
           /\ \A c : OpenIn(B, c) <=> (Head(B).fn \in CallFns /\ Head(B).call = c) \/ OpenIn(T, c)
           /\ Head(B).fn \in CallFns => Head(T).fn = "user"
<1>1. PICK f : f = Head(B)
 OBVIOUS
<1>2. IsBase(T) /\ Fits(f, Head(T)) /\ B = Push(f, T) /\ f \in BaseFrame
 BY <1>1, BasePop, BaseSeq
<1>3. ~Walking(f)
 BY <1>1 DEF Walking, WalkFns, AtFns, CallFns
<1>4. \A g : At(B, g) <=> At(T, g)
 BY <1>2, <1>3, AtPush
<1>5. \A c : OpenIn(B, c) <=> (f.fn \in CallFns /\ f.call = c) \/ OpenIn(T, c)
 BY <1>2, OpenPush
<1>6. f.fn \in CallFns => Head(T).fn = "user"
 <2>1. f.fn \in CallFns => f.fn # "user" /\ f.fn \notin WalkFns /\ f.fn \notin AtFns
  BY DEF CallFns, WalkFns, AtFns
 <2>2. f.fn \in CallFns => f # User("wakeup")
  BY <2>1, FrameMade
 <2>3. \/ f = User("wakeup") /\ Head(T).fn = "unpacked"
       \/ f.fn \in CallFns /\ Head(T).fn = "user"
       \/ f.fn \in WalkFns \cup AtFns /\ Head(T).fn \in {"run", "array_next"}
  BY <1>2 DEF Fits
 <2> QED BY <2>1, <2>2, <2>3
<1> QED BY <1>1, <1>2, <1>4, <1>5, <1>6

LEMMA IdlePush ==
    ASSUME NEW T, IsBase(T), NEW f \in BaseFrame, f.fn \in CallFns, Head(T).fn = "user", NEW B, B = Push(f, T)
    PROVE  /\ IsBase(B) /\ Head(B) = f /\ Tail(B) = T
           /\ \A g : At(B, g) <=> At(T, g)
           /\ \A c : OpenIn(B, c) <=> f.call = c \/ OpenIn(T, c)
<1>1. Fits(f, Head(T))
 BY DEF Fits
<1>2. IsBase(B) /\ Head(B) = f /\ Tail(B) = T
 BY <1>1, BasePush
<1>3. ~Walking(f)
 BY DEF Walking, WalkFns, AtFns, CallFns
<1>4. \A g : At(B, g) <=> At(T, g)
 BY <1>3, AtPush
<1>5. \A c : OpenIn(B, c) <=> (f.fn \in CallFns /\ f.call = c) \/ OpenIn(T, c)
 BY OpenPush
<1> QED BY <1>2, <1>4, <1>5

\* A call goes on as another function of it.
LEMMA CallSwap ==
    ASSUME NEW B, IsBase(B), Head(B).fn \in CallFns, NEW f, NEW fn \in CallFns, f = CF(fn, Head(B).call),
           NEW B2, B2 = Push(f, Tail(B))
    PROVE  /\ IsBase(B2) /\ Head(B2) = f /\ f \in BaseFrame /\ f.fn = fn /\ f.call = Head(B).call
           /\ \A g : At(B2, g) <=> At(B, g)
           /\ \A c : OpenIn(B2, c) <=> OpenIn(B, c)
<1>1. PICK c : c = Head(B).call
 OBVIOUS
<1>2. Head(B) # User("script") /\ c \in Nat
 <2>1. PICK g : g = Head(B)
  OBVIOUS
 <2>2. g \in BaseFrame /\ g.fn \in CallFns
  BY <2>1, BaseSeq
 <2>3. g.call \in Nat
  BY <2>2, FrameHas
 <2> QED BY <1>1, <2>1, <2>2, <2>3 DEF User, CallFns
<1>3. f \in BaseFrame /\ f.fn = fn /\ f.call = c
 BY <1>1, <1>2, FrameMade
<1>4. PICK T : T = Tail(B)
 OBVIOUS
<1>5. /\ IsBase(T) /\ Head(T).fn = "user"
      /\ \A g : At(B, g) <=> At(T, g)
      /\ \A d : OpenIn(B, d) <=> Head(B).call = d \/ OpenIn(T, d)
 <2>1. Head(B).fn \in {"user"} \cup CallFns
  OBVIOUS
 <2> QED BY <1>2, <1>4, <2>1, IdlePop
<1>6. /\ IsBase(B2) /\ Head(B2) = f
      /\ \A g : At(B2, g) <=> At(T, g)
      /\ \A d : OpenIn(B2, d) <=> f.call = d \/ OpenIn(T, d)
 <2>1. B2 = Push(f, T) /\ f.fn \in CallFns
  BY <1>3, <1>4
 <2> QED BY <1>3, <1>5, <2>1, IdlePush
<1> QED BY <1>1, <1>3, <1>5, <1>6

LEMMA IdleWalked ==
    ASSUME NEW po, NEW mm, NEW aa, NEW X, NEW B, Walked(po, mm, aa, B, X), Head(B).fn \in IdleFns,
           NEW B2, Head(B2).fn \in IdleFns, \A g : At(B2, g) <=> At(B, g)
    PROVE  Walked(po, mm, aa, B2, X)
<1>1. PICK P, Q, Y, Z :
          /\ Core(SC(po), RC(po), po.rfds, Sends(mm), Reads(mm), Fresh(mm, aa), X, P, Q, Y, Z)
          /\ \/ NowIdle(Head(B), Other(po), P, Q, Y, Z)
             \/ \E g : At(B, g) /\ NowWaits(Head(B), g, Other(po), P, Q, Y, Z)
 BY NowIs
<1>2. \/ NowIdle(Head(B2), Other(po), P, Q, Y, Z)
      \/ \E g : At(B2, g) /\ NowWaits(Head(B2), g, Other(po), P, Q, Y, Z)
 <2>1. CASE NowIdle(Head(B), Other(po), P, Q, Y, Z)
  <3>1. NowIdle(Head(B2), Other(po), P, Q, Y, Z)
   BY <2>1 DEF NowIdle
  <3> QED BY <3>1
 <2>2. ASSUME NEW g, At(B, g), NowWaits(Head(B), g, Other(po), P, Q, Y, Z)
       PROVE  At(B2, g) /\ NowWaits(Head(B2), g, Other(po), P, Q, Y, Z)
  BY <2>2 DEF NowWaits
 <2> QED BY <1>1, <2>1, <2>2
<1>3. Now(Other(po), B2, P, Q, Y, Z)
 BY <1>2 DEF Now
<1>4. Special(Head(B2), SC(po), RC(po), po.rfds, Fresh(mm, aa))
 <2>1. Plain(Head(B2))
  BY DEF Plain, IdleFns, CallFns
 <2> QED BY <2>1, PlainSpecial
<1> QED BY <1>1, <1>3, <1>4 DEF Walked

\* A call whose requests are free returns.
LEMMA CallsPop ==
    ASSUME NEW sel, NEW F, NEW mm, NEW rq, NEW B, NEW H, NEW rt, CallsOK(sel, F, mm, rq, B, H, rt),
           NEW T, NEW c, \A d : OpenIn(B, d) <=> c = d \/ OpenIn(T, d),
           \A r \in 1 .. Len(rq) : rq[r].call = c => r \in F, Head(T).fn = "user", NEW rt2
    PROVE  CallsOK(sel, F, mm, rq, T, H, rt2)
<1>1. Head(T).fn \notin CallFns /\ Head(T).fn # "single"
 BY DEF CallFns
<1>2. \A d : OpenIn(T, d) => d \in 1 .. Len(rq)
 BY DEF CallsOK
<1>3. \A r \in 1 .. Len(rq) : rq[r].call \in 1 .. Len(rq) /\ (OpenIn(T, rq[r].call) \/ r \in F)
 BY DEF CallsOK
<1> QED BY <1>1, <1>2, <1>3 DEF CallsOK

\* It goes on as another function of it, which is not the one that schedules its only request.
LEMMA CallsGo ==
    ASSUME NEW sel, NEW F, NEW mm, NEW rq, NEW B, NEW H, NEW rt, CallsOK(sel, F, mm, rq, B, H, rt),
           Head(B).fn \in CallFns, NEW B2, Head(B2).fn # "single", Head(B2).call = Head(B).call,
           \A d : OpenIn(B2, d) <=> OpenIn(B, d), NEW rt2
    PROVE  CallsOK(sel, F, mm, rq, B2, H, rt2)
BY DEF CallsOK

\* One function that does not walk is followed by another.
LEMMA IdleStays ==
    ASSUME NEW B, AtRest(B), Head(B).fn \in IdleFns, NEW B2, IsBase(B2), Head(B2).fn \in IdleFns,
           \A g : At(B2, g) <=> At(B, g), NEW rt,
           CallsOK(pool.in_select, pool.free, mmc, request, B2, {}, rt),
           stack' = B2, mmc' = mmc, asked' = asked, pool' = pool, request' = request, ret' = rt
    PROVE  Inv'
<1>1. Walked(pool, mmc, asked, B2, {})
 <2>1. PICK E : E = {}
  OBVIOUS
 <2>2. Walked(pool, mmc, asked, B, E)
  BY <2>1 DEF AtRest
 <2>3. Walked(pool, mmc, asked, B2, E)
  BY <2>2, IdleWalked
 <2> QED BY <2>1, <2>3
<1>2. Head(B2).fn # "read_early"
 BY DEF IdleFns, CallFns
<1>3. Types(mmc, asked, pool, request) /\ AllQuiet(mmc, asked, {}) /\ Placed(mmc, {}, pool.free, 1 .. Len(request))
 BY DEF AtRest
<1>4. GoodAt(B2, mmc, asked, pool, request, rt)
 BY <1>1, <1>2, <1>3, RestGood
<1> QED BY <1>4 DEF Inv

\* A run with nothing in the lists has completed the requests of its call.
LEMMA RunDone ==
    ASSUME NEW B, AtRest(B), Head(B).fn = "run", ~HasWork
    PROVE  \A r \in 1 .. Len(request) : request[r].call = Head(B).call => r \in pool.free
<1>1. SUFFICES ASSUME NEW r \in 1 .. Len(request), request[r].call = Head(B).call, r \notin pool.free PROVE FALSE
 OBVIOUS
<1>2. SC(pool) = {} /\ RC(pool) = {}
 BY EmptyFacts DEF HasWork, SC, RC
<1>3. PICK P, Q, Y, Z :
          /\ Core(SC(pool), RC(pool), pool.rfds, Sends(mmc), Reads(mmc), Fresh(mmc, asked), {}, P, Q, Y, Z)
          /\ \/ NowIdle(Head(B), Other(pool), P, Q, Y, Z)
             \/ \E g : At(B, g) /\ NowWaits(Head(B), g, Other(pool), P, Q, Y, Z)
 <2>1. Head(B).fn \in IdleFns
  BY DEF IdleFns, CallFns
 <2> QED BY <2>1, RestWalked
<1>4. P = {} /\ (~pool.in_select => Q = {})
 BY <1>3, OtherHas DEF NowIdle, NowWaits
<1>5. ASSUME NEW s \in Servers PROVE mmc[s].sendreq = NULL /\ (~pool.in_select => mmc[s].readreq = NULL)
 <2>1. RestCoreIs(s, P, Q, Y, Z)
  BY <1>3, RestCore
 <2> QED BY <1>2, <1>4, <2>1 DEF RestCoreIs
<1>6. ASSUME NEW s \in Servers
      PROVE  ToSet(SL(mmc[s])) = {} /\ (~pool.in_select => InLine(mmc, s) = {})
 <2>1. PICK m, a : m = mmc[s] /\ a = asked[s]
  OBVIOUS
 <2>2. m \in Mmc /\ a \in Seq(Answer) /\ Quiet(m, a)
  BY <1>6, <2>1 DEF AtRest, Types, AllQuiet
 <2>3. QuietIs(m, a)
  BY <2>2, QuietFacts
 <2>4. SL(m) = <<>> /\ (~pool.in_select => RL(m) = <<>>)
  BY <1>5, <1>6, <2>1, <2>3 DEF QuietIs
 <2> QED BY <2>1, <2>4, EmptyFacts DEF InLine
<1>7. CASE pool.in_select
 <2>1. CallsOK(pool.in_select, pool.free, mmc, request, B, {}, ret) /\ Head(B).fn \in CallFns
  BY DEF AtRest, CallFns
 <2>2. InSend(mmc, r)
  BY <1>1, <1>7, <2>1 DEF CallsOK
 <2> QED BY <1>6, <2>2 DEF InSend
<1>8. CASE ~pool.in_select
 <2>1. Placed(mmc, {}, pool.free, 1 .. Len(request))
  BY DEF AtRest
 <2>2. PICK s \in Servers : r \in InLine(mmc, s)
  BY <1>1, <2>1 DEF Placed
 <2> QED BY <1>6, <1>8, <2>2
<1> QED BY <1>7, <1>8

LEMMA RunStep ==
    ASSUME NEW B, NEW H, NEW X, GoodNow(B, H, X), Run
    PROVE  Inv'
<1>1. Running("run") /\ mmc' = mmc /\ asked' = asked /\ request' = request /\ ret' = ret
 BY DEF Run
<1>2. AtRest(B) /\ Head(B).fn = "run"
 <2>1. "run" \in BaseFns \ {"read_early"}
  BY DEF BaseFns, CallFns
 <2> QED BY <1>1, <2>1, RestIs
<1>3. IsBase(B) /\ stack = B /\ Head(B).fn \in CallFns
 BY <1>2, RestFrame DEF CallFns
<1>4. CASE HasWork
 <2>1. mmc_pool_select(B)
  BY <1>3, <1>4 DEF Run
 <2>2. Called(B, B)
  BY <1>2, <1>3 DEF Called
 <2>3. Head(B).fn \in {"run", "array"}
  BY <1>2
 <2> QED BY <1>1, <1>2, <2>1, <2>2, <2>3, SelectStep
<1>5. CASE ~HasWork
 <2>1. PICK T : T = Tail(B)
  OBVIOUS
 <2>2. stack' = T /\ pool' = pool
  BY <1>3, <1>5, <2>1 DEF Run, Return
 <2>3. /\ IsBase(T) /\ Head(T).fn = "user"
       /\ \A g : At(B, g) <=> At(T, g)
       /\ \A c : OpenIn(B, c) <=> Head(B).call = c \/ OpenIn(T, c)
  <3>1. Head(B).fn \in {"user"} \cup CallFns
   BY <1>3
  <3>2. Head(B) # User("script")
   BY <1>2, FrameMade
  <3> QED BY <1>3, <2>1, <3>1, <3>2, IdlePop
 <2>4. CallsOK(pool.in_select, pool.free, mmc, request, T, {}, ret)
  <3>1. PICK E, c : E = {} /\ c = Head(B).call
   OBVIOUS
  <3>2. CallsOK(pool.in_select, pool.free, mmc, request, B, E, ret)
   BY <1>2, <3>1 DEF AtRest
  <3>3. \A r \in 1 .. Len(request) : request[r].call = c => r \in pool.free
   BY <1>2, <1>5, <3>1, RunDone
  <3>4. CallsOK(pool.in_select, pool.free, mmc, request, T, E, ret)
   <4>1. /\ \A d : OpenIn(B, d) <=> c = d \/ OpenIn(T, d)
         /\ Head(T).fn = "user"
    BY <2>3, <3>1
   <4> QED BY ONLY <3>2, <3>3, <4>1, CallsPop
  <3> QED BY <3>1, <3>4
 <2>5. Head(B).fn \in IdleFns /\ Head(T).fn \in IdleFns
  BY <1>2, <2>3 DEF IdleFns, CallFns
 <2> QED BY <1>1, <1>2, <2>2, <2>3, <2>4, <2>5, IdleStays
<1> QED BY <1>4, <1>5

LEMMA CallIs ==
    ASSUME NEW B, IsBase(B), Head(B).fn \in CallFns
    PROVE  Head(B) = CF(Head(B).fn, Head(B).call)
<1>1. PICK f : f = Head(B)
 OBVIOUS
<1>2. f \in BaseFrame /\ f.fn \in CallFns
 BY <1>1, BaseSeq
<1>3. f = CF(f.fn, f.call)
 BY <1>2, FrameHas
<1> QED BY <1>1, <1>3

LEMMA SingleScheduledStep ==
    ASSUME NEW B, NEW H, NEW X, GoodNow(B, H, X), SingleScheduled
    PROVE  Inv'
<1>1. /\ Running("single")
      /\ stack' = IF ret = "ok" THEN <<[Top EXCEPT !.fn = "run"]>> \o Tail(stack) ELSE Tail(stack)
      /\ ret' = "ok"
      /\ mmc' = mmc /\ asked' = asked /\ pool' = pool /\ request' = request
 BY DEF SingleScheduled, Goto, Return
<1>2. AtRest(B) /\ Head(B).fn = "single" /\ Top = Head(B)
 <2>1. "single" \in BaseFns \ {"read_early"}
  BY DEF BaseFns, CallFns
 <2> QED BY <1>1, <2>1, RestIs
<1>3. IsBase(B) /\ Tail(stack) = Tail(B) /\ Head(B).fn \in CallFns /\ Head(B).fn \in IdleFns
 BY <1>2, RestFrame DEF CallFns, IdleFns
<1>4. PICK c, E, rt, ok : c = Head(B).call /\ E = {} /\ rt = ret /\ ok = "ok"
 OBVIOUS
<1>5. CallsOK(pool.in_select, pool.free, mmc, request, B, E, rt)
 BY <1>2, <1>4 DEF AtRest
<1>6. CASE ret = "ok"
 <2>1. PICK f, B2 : f = CF("run", c) /\ B2 = Push(f, Tail(B))
  OBVIOUS
 <2>2. /\ IsBase(B2) /\ Head(B2) = f /\ f.fn = "run" /\ f.call = c
       /\ \A g : At(B2, g) <=> At(B, g)
       /\ \A d : OpenIn(B2, d) <=> OpenIn(B, d)
  <3>1. PICK fn : fn = "run"
   OBVIOUS
  <3>2. fn \in CallFns /\ f = CF(fn, Head(B).call)
   BY <1>4, <2>1, <3>1 DEF CallFns
  <3>3. /\ IsBase(B2) /\ Head(B2) = f /\ f \in BaseFrame /\ f.fn = fn /\ f.call = Head(B).call
        /\ \A g : At(B2, g) <=> At(B, g)
        /\ \A d : OpenIn(B2, d) <=> OpenIn(B, d)
   BY <1>3, <2>1, <3>2, CallSwap
  <3> QED BY <1>4, <3>1, <3>3
 <2>3. stack' = B2
  <3>1. Top = CF("single", c)
   BY <1>2, <1>3, <1>4, CallIs
  <3>2. [Top EXCEPT !.fn = "run"] = f
   BY <2>1, <3>1 DEF CF
  <3> QED BY <1>1, <1>3, <1>6, <2>1, <3>2 DEF Push
 <2>4. CallsOK(pool.in_select, pool.free, mmc, request, B2, {}, ok)
  <3>1. Head(B2).fn # "single" /\ Head(B2).call = Head(B).call
   BY <1>4, <2>2
  <3>2. CallsOK(pool.in_select, pool.free, mmc, request, B2, E, ok)
   BY <1>3, <1>5, <2>2, <3>1, CallsGo
  <3> QED BY <1>4, <3>2
 <2>5. Head(B2).fn \in IdleFns
  BY <2>2 DEF IdleFns, CallFns
 <2> QED BY <1>1, <1>2, <1>3, <1>4, <2>2, <2>3, <2>4, <2>5, IdleStays
<1>7. CASE ret # "ok"
 <2>1. PICK T : T = Tail(B)
  OBVIOUS
 <2>2. /\ IsBase(T) /\ Head(T).fn = "user"
       /\ \A g : At(B, g) <=> At(T, g)
       /\ \A d : OpenIn(B, d) <=> c = d \/ OpenIn(T, d)
  <3>1. Head(B).fn \in {"user"} \cup CallFns
   BY <1>3
  <3>2. Head(B) # User("script")
   BY <1>2, FrameMade
  <3> QED BY <1>3, <1>4, <2>1, <3>1, <3>2, IdlePop
 <2>3. \A r \in 1 .. Len(request) : request[r].call = c => r \in pool.free
  <3>1. c \in pool.free
   BY <1>2, <1>4, <1>5, <1>7 DEF CallsOK
  <3>2. \A r \in 1 .. Len(request) : request[r].call = c => r = c
   BY <1>2, <1>3, <1>4, <1>5 DEF CallsOK
  <3> QED BY <3>1, <3>2
 <2>4. CallsOK(pool.in_select, pool.free, mmc, request, T, {}, ok)
  <3>1. /\ \A d : OpenIn(B, d) <=> c = d \/ OpenIn(T, d)
        /\ Head(T).fn = "user"
   BY <2>2
  <3>2. PICK sel, F, mm, rq : sel = pool.in_select /\ F = pool.free /\ mm = mmc /\ rq = request
   OBVIOUS
  <3>3. CallsOK(sel, F, mm, rq, B, E, rt) /\ \A r \in 1 .. Len(rq) : rq[r].call = c => r \in F
   BY <1>5, <2>3, <3>2
  <3>4. CallsOK(sel, F, mm, rq, T, E, ok)
   BY ONLY <3>1, <3>3, CallsPop
  <3> QED BY <1>4, <3>2, <3>4
 <2>5. Head(T).fn \in IdleFns /\ stack' = T
  BY <1>1, <1>3, <1>7, <2>1, <2>2 DEF IdleFns, CallFns
 <2> QED BY <1>1, <1>2, <1>3, <1>4, <2>2, <2>4, <2>5, IdleStays
<1> QED BY <1>6, <1>7

LEMMA ArrayScheduledStep ==
    ASSUME NEW B, NEW H, NEW X, GoodNow(B, H, X), ArrayScheduled
    PROVE  Inv'
<1>1. PICK f, B2 : f = CF("array_next", Head(B).call) /\ B2 = Push(f, Tail(B))
 OBVIOUS
<1>2. AtRest(B) /\ Head(B).fn = "array" /\ Top = Head(B)
 <2>1. "array" \in BaseFns \ {"read_early"} /\ Running("array")
  BY DEF BaseFns, CallFns, ArrayScheduled
 <2> QED BY <2>1, RestIs
<1>3. IsBase(B) /\ Tail(stack) = Tail(B) /\ Head(B).fn \in CallFns /\ Head(B).fn \in IdleFns
 BY <1>2, RestFrame DEF CallFns, IdleFns
<1>4. /\ IsBase(B2) /\ Head(B2) = f /\ f.fn = "array_next" /\ f.call = Head(B).call
      /\ \A g : At(B2, g) <=> At(B, g)
      /\ \A d : OpenIn(B2, d) <=> OpenIn(B, d)
 <2>1. PICK fn : fn = "array_next"
  OBVIOUS
 <2>2. fn \in CallFns /\ f = CF(fn, Head(B).call)
  BY <1>1, <2>1 DEF CallFns
 <2>3. /\ IsBase(B2) /\ Head(B2) = f /\ f \in BaseFrame /\ f.fn = fn /\ f.call = Head(B).call
       /\ \A g : At(B2, g) <=> At(B, g)
       /\ \A d : OpenIn(B2, d) <=> OpenIn(B, d)
  BY <1>1, <1>3, <2>2, CallSwap
 <2> QED BY <2>1, <2>3
<1>5. <<[Top EXCEPT !.fn = "array_next"]>> \o Tail(stack) = B2
 <2>1. Top = CF("array", Head(B).call)
  BY <1>2, <1>3, CallIs
 <2>2. [Top EXCEPT !.fn = "array_next"] = f
  BY <1>1, <2>1 DEF CF
 <2> QED BY <1>1, <1>3, <2>2 DEF Push
<1>6. /\ IF ret = "ok" THEN mmc_pool_select(B2) ELSE stack' = B2 /\ pool' = pool
      /\ ret' = "ok"
      /\ mmc' = mmc /\ asked' = asked /\ request' = request
 BY <1>5 DEF ArrayScheduled
<1>7. CASE ret = "ok"
 <2>1. Called(B, B2) /\ Head(B).fn \in {"run", "array"}
  BY <1>2, <1>4 DEF Called
 <2> QED BY <1>2, <1>6, <1>7, <2>1, SelectStep
<1>8. CASE ret # "ok"
 <2>1. PICK E, rt, ok : E = {} /\ rt = ret /\ ok = "ok"
  OBVIOUS
 <2>2. CallsOK(pool.in_select, pool.free, mmc, request, B, E, rt)
  BY <1>2, <2>1 DEF AtRest
 <2>3. CallsOK(pool.in_select, pool.free, mmc, request, B2, {}, ok)
  <3>1. Head(B2).fn # "single" /\ Head(B2).call = Head(B).call
   BY <1>4
  <3>2. CallsOK(pool.in_select, pool.free, mmc, request, B2, E, ok)
   BY <1>3, <1>4, <2>2, <3>1, CallsGo
  <3> QED BY <2>1, <3>2
 <2>4. Head(B2).fn \in IdleFns
  BY <1>4 DEF IdleFns, CallFns
 <2>5. stack' = B2 /\ mmc' = mmc /\ asked' = asked /\ pool' = pool /\ request' = request /\ ret' = ok
  BY <1>6, <1>8, <2>1
 <2> QED BY <1>2, <1>3, <1>4, <2>3, <2>4, <2>5, IdleStays
<1> QED BY <1>7, <1>8

\* __wakeup returns.
LEMMA WakeupReturnsStep ==
    ASSUME NEW B, NEW H, NEW X, GoodNow(B, H, X), WakeupReturns
    PROVE  Inv'
<1>1. /\ Running("user") /\ Top.where = "wakeup" /\ stack' = Tail(stack)
      /\ mmc' = mmc /\ asked' = asked /\ pool' = pool /\ request' = request /\ ret' = ret
 BY DEF WakeupReturns, Return
<1>2. AtRest(B) /\ Head(B).fn = "user" /\ Top = Head(B)
 <2>1. "user" \in BaseFns \ {"read_early"}
  BY DEF BaseFns
 <2> QED BY <1>1, <2>1, RestIs
<1>3. PICK T : T = Tail(B)
 OBVIOUS
<1>4. IsBase(B) /\ stack' = T
 BY <1>1, <1>2, <1>3, RestFrame
<1>5. Head(B) # User("script")
 BY <1>1, <1>2, FrameMade
<1>6. /\ IsBase(T) /\ Fits(Head(B), Head(T))
      /\ \A g : At(B, g) <=> At(T, g)
      /\ \A d : OpenIn(B, d) <=> (Head(B).fn \in CallFns /\ Head(B).call = d) \/ OpenIn(T, d)
 <2>1. Head(B).fn \in {"user"} \cup CallFns
  BY <1>2
 <2> QED BY <1>3, <1>4, <1>5, <2>1, IdlePop
<1>7. Head(T).fn = "unpacked"
 BY <1>2, <1>6 DEF Fits, CallFns, WalkFns, AtFns
<1>8. CallsOK(pool.in_select, pool.free, mmc, request, T, {}, ret)
 <2>1. PICK E, po, mm : E = {} /\ po = pool /\ mm = mmc
  OBVIOUS
 <2>2. CallsOK(po.in_select, po.free, mm, request, B, E, ret) /\ po.free \subseteq po.free
  BY <1>2, <2>1 DEF AtRest
 <2>3. \A c : OpenIn(T, c) <=> OpenIn(B, c)
  BY <1>2, <1>6 DEF CallFns
 <2>4. Head(T).fn \notin CallFns /\ SameCalls(request, request)
  BY <1>7, SameLength DEF CallFns
 <2>5. CallsOK(po.in_select, po.free, mm, request, T, E, ret)
  BY <2>2, <2>3, <2>4, CallsWalk
 <2> QED BY <2>1, <2>5
<1>9. Head(B).fn \in IdleFns /\ Head(T).fn \in IdleFns
 BY <1>2, <1>7 DEF IdleFns
<1> QED BY <1>1, <1>2, <1>4, <1>6, <1>8, <1>9, IdleStays

\* A request is made and handed to mmc_pool_schedule, for B2.
LEMMA Asks ==
    ASSUME NEW B, AtRest(B), Head(B).fn \in IdleFns, NEW B2, IsBase(B2), Head(B2).fn \in {"single", "array"},
           \A g : At(B2, g) <=> At(B, g), NEW k, k = Len(request) + 1, NEW q \in Request, NEW s \in Servers,
           NEW rr, rr = Append(request, q), NEW K, K = {k},
           CallsOK(pool.in_select, pool.free, mmc, rr, B2, K, ret),
           stack' = Push(RF("schedule", s, k), B2), mmc' = mmc, asked' = asked, pool' = pool, request' = rr, ret' = ret
    PROVE  Inv'
<1>1. PICK E : E = {}
 OBVIOUS
<1>2. request \in Seq(Request) /\ Len(request) \in Nat /\ k \in Nat
 <2>1. request \in Seq(Request)
  BY RestFrame
 <2> QED BY <2>1, SeqFacts
<1>3. rr \in Seq(Request) /\ Len(rr) = k
 BY <1>2, AppendFacts DEF AppendIs
<1>4. Walked(pool, mmc, asked, B2, E)
 <2>1. Walked(pool, mmc, asked, B, E) /\ Head(B2).fn \in IdleFns
  BY <1>1 DEF AtRest, IdleFns, CallFns
 <2> QED BY <2>1, IdleWalked
<1>5. Placed(mmc, K, pool.free, 1 .. Len(rr))
 <2>1. Placed(mmc, {}, pool.free, 1 .. Len(request))
  BY DEF AtRest
 <2>2. PICK n : n = Len(request)
  OBVIOUS
 <2>3. Placed(mmc, {n + 1}, pool.free, 1 .. n + 1)
  BY <1>2, <2>1, <2>2, PlacedNew
 <2> QED BY <1>3, <2>2, <2>3
<1>6. Types(mmc, asked, pool, rr)
 BY <1>3 DEF AtRest, Types
<1>7. Shape(SC(pool), stack', mmc, asked, B2, K, E)
 <2>1. PICK fn : fn = "schedule"
  OBVIOUS
 <2>2. /\ fn \in {"schedule", "failover", "refused"} /\ stack' = Push(RF(fn, s, k), B2) /\ fn # "refused"
       /\ Head(B2).fn \in Calm /\ AllQuiet(mmc, asked, {})
  BY <2>1 DEF Calm, AtRest
 <2>3. Over(B2, B2, E) /\ K = E \cup {k} /\ k \notin E
  BY <1>1 DEF Over
 <2>4. ShChain(fn, s, k, B2, E, stack', mmc, asked, B2, K, E)
  BY <1>1, <1>2, <2>2, <2>3 DEF ShChain
 <2> QED BY <2>4 DEF Shape
<1>8. Good(stack', mmc, asked, pool, rr, ret, B2, K, E)
 BY <1>4, <1>5, <1>6, <1>7 DEF Good
<1>9. PICK st : st = stack'
 OBVIOUS
<1>10. GoodAt(st, mmc, asked, pool, rr, ret)
 BY <1>8, <1>9, GoodIs
<1> QED BY <1>9, <1>10 DEF Inv

\* A call begins with its request, by whose number it is known.
LEMMA CallsBegin ==
    ASSUME NEW sel, NEW F, NEW mm, NEW rq \in Seq(Request), NEW B, NEW H, NEW rt, CallsOK(sel, F, mm, rq, B, H, rt),
           NEW k, k = Len(rq) + 1, NEW q \in Request, q.call = k, NEW rr, rr = Append(rq, q),
           NEW B2, Head(B2).call = k, \A d : OpenIn(B2, d) <=> k = d \/ OpenIn(B, d), NEW K, K = {k}
    PROVE  CallsOK(sel, F, mm, rr, B2, K, rt)
<1>1. /\ Len(rq) \in Nat /\ Len(rr) = k /\ rr[k] = q /\ \A r \in 1 .. Len(rq) : rr[r] = rq[r]
 BY AppendFacts DEF AppendIs
<1>2. \A r \in 1 .. k : r = k \/ r \in 1 .. Len(rq)
 BY <1>1
<1>3. \A r \in 1 .. Len(rq) : r \in 1 .. k
 BY <1>1
<1>4. k \in 1 .. k /\ k \notin 1 .. Len(rq)
 BY <1>1
<1>5. \A c : OpenIn(B2, c) => c \in 1 .. k
 BY <1>3, <1>4 DEF CallsOK
<1>6. \A r \in 1 .. k : rr[r].call \in 1 .. k /\ (OpenIn(B2, rr[r].call) \/ r \in F)
 <2> TAKE r \in 1 .. k
 <2>1. CASE r = k
  BY <1>1, <1>4, <2>1
 <2>2. CASE r \in 1 .. Len(rq)
  BY <1>1, <1>3, <2>2 DEF CallsOK
 <2> QED BY <1>2, <2>1, <2>2
<1>7. \A r \in 1 .. k : rr[r].call = k => r = k
 BY <1>1, <1>2, <1>4 DEF CallsOK
<1>8. \A r \in 1 .. k : rr[r].call = Head(B2).call =>
          /\ Head(B2).fn = "single" => r = Head(B2).call
          /\ sel => r \in F \/ r \in K \/ InSend(mm, r)
 BY <1>7
<1>9. Head(B2).fn = "single" => K = {Head(B2).call}
 OBVIOUS
<1> QED BY <1>1, <1>5, <1>6, <1>8, <1>9 DEF CallsOK

\* A call makes another request.
LEMMA CallsMore ==
    ASSUME NEW sel, NEW F, NEW mm, NEW rq \in Seq(Request), NEW B, NEW H, NEW rt, CallsOK(sel, F, mm, rq, B, H, rt),
           H = {}, Head(B).fn \in CallFns,
           NEW k, k = Len(rq) + 1, NEW q \in Request, q.call = Head(B).call, NEW rr, rr = Append(rq, q),
           NEW B2, Head(B2).call = Head(B).call, Head(B2).fn # "single", \A d : OpenIn(B2, d) <=> OpenIn(B, d),
           OpenIn(B, Head(B).call), NEW K, K = {k}
    PROVE  CallsOK(sel, F, mm, rr, B2, K, rt)
<1>1. /\ Len(rq) \in Nat /\ Len(rr) = k /\ rr[k] = q /\ \A r \in 1 .. Len(rq) : rr[r] = rq[r]
 BY AppendFacts DEF AppendIs
<1>2. \A r \in 1 .. k : r = k \/ r \in 1 .. Len(rq)
 BY <1>1
<1>3. \A r \in 1 .. Len(rq) : r \in 1 .. k
 BY <1>1
<1>4. \A c : OpenIn(B2, c) => c \in 1 .. k
 BY <1>3 DEF CallsOK
<1>5. \A r \in 1 .. k : rr[r].call \in 1 .. k /\ (OpenIn(B2, rr[r].call) \/ r \in F)
 <2> TAKE r \in 1 .. k
 <2>1. CASE r = k
  BY <1>1, <1>4, <2>1
 <2>2. CASE r \in 1 .. Len(rq)
  BY <1>1, <1>3, <2>2 DEF CallsOK
 <2> QED BY <1>2, <2>1, <2>2
<1>6. \A r \in 1 .. k : rr[r].call = Head(B2).call => (sel => r \in F \/ r \in K \/ InSend(mm, r))
 <2> TAKE r \in 1 .. k
 <2>1. CASE r = k
  BY <2>1
 <2>2. CASE r \in 1 .. Len(rq)
  BY <1>1, <2>2 DEF CallsOK
 <2> QED BY <1>2, <2>1, <2>2
<1> QED BY <1>1, <1>4, <1>5, <1>6 DEF CallsOK

\* What mmc_pool_request makes.
Made(call, kind, key) == [call |-> call, kind |-> kind, key |-> key, failed_servers |-> <<>>, failed_index |-> 0]

LEMMA MadeIs ==
    ASSUME NEW call \in Nat, NEW kind \in Kinds, NEW key \in Keys
    PROVE  Made(call, kind, key) \in Request /\ Made(call, kind, key).call = call
BY EmptyFacts DEF Made, Request

\* User code calls the pool.
LEMMA CallBegins ==
    ASSUME NEW B, NEW H, NEW X, GoodNow(B, H, X), Running("user"), NEW fn \in {"single", "array"},
           NEW kind \in Kinds, NEW key \in Keys,
           NewRequest(ThisCall, kind, key, <<[fn |-> fn, call |-> ThisCall]>> \o stack),
           mmc' = mmc, asked' = asked, pool' = pool, ret' = ret
    PROVE  Inv'
<1>1. AtRest(B) /\ Head(B).fn = "user"
 <2>1. "user" \in BaseFns \ {"read_early"}
  BY DEF BaseFns
 <2> QED BY <2>1, RestIs
<1>2. IsBase(B) /\ stack = B /\ Head(B).fn \in IdleFns /\ request \in Seq(Request)
 BY <1>1, RestFrame DEF IdleFns
<1>3. PICK k, q, s, rr, f, B2, K : /\ k = Len(request) + 1 /\ q = Made(k, kind, key) /\ s = mmc_pool_find(key)
                                   /\ rr = Append(request, q) /\ f = CF(fn, k) /\ B2 = Push(f, B) /\ K = {k}
 OBVIOUS
<1>4. k \in Nat
 BY <1>2, <1>3, SeqFacts
<1>5. q \in Request /\ q.call = k
 BY <1>3, <1>4, MadeIs
<1>6. s \in Servers
 BY <1>3, FindIs
<1>7. f \in BaseFrame /\ f.fn = fn /\ f.call = k /\ fn \in CallFns
 <2>1. fn \in CallFns
  BY DEF CallFns
 <2> QED BY <1>3, <1>4, <2>1, FrameMade
<1>8. /\ IsBase(B2) /\ Head(B2) = f
      /\ \A g : At(B2, g) <=> At(B, g)
      /\ \A c : OpenIn(B2, c) <=> k = c \/ OpenIn(B, c)
 BY <1>1, <1>2, <1>3, <1>7, IdlePush
<1>9. /\ request' = rr
      /\ stack' = Push(RF("schedule", s, k), B2)
 <2>1. request' = Append(request, [call |-> k, kind |-> kind, key |-> key, failed_servers |-> <<>>, failed_index |-> 0])
  BY <1>3 DEF NewRequest, ThisCall
 <2>2. stack' = <<[fn |-> "schedule", s |-> s, r |-> k]>> \o (<<[fn |-> fn, call |-> k]>> \o B)
  BY <1>2, <1>3 DEF NewRequest, ThisCall
 <2> QED BY <1>3, <2>1, <2>2 DEF Made, Push, RF, CF
<1>10. CallsOK(pool.in_select, pool.free, mmc, rr, B2, K, ret)
 <2>1. PICK sel, F, mm, rq, E : sel = pool.in_select /\ F = pool.free /\ mm = mmc /\ rq = request /\ E = {}
  OBVIOUS
 <2>2. /\ CallsOK(sel, F, mm, rq, B, E, ret) /\ rq \in Seq(Request) /\ k = Len(rq) + 1 /\ rr = Append(rq, q)
       /\ Head(B2).call = k /\ K = {k}
  BY <1>1, <1>2, <1>3, <1>7, <1>8, <2>1 DEF AtRest
 <2>3. \A d : OpenIn(B2, d) <=> k = d \/ OpenIn(B, d)
  BY <1>8
 <2>4. CallsOK(sel, F, mm, rr, B2, K, ret)
  BY ONLY <1>5, <2>2, <2>3, CallsBegin
 <2> QED BY <2>1, <2>4
<1>11. Head(B2).fn \in {"single", "array"} /\ \A g : At(B2, g) <=> At(B, g)
 BY <1>7, <1>8
<1>12. k = Len(request) + 1 /\ rr = Append(request, q) /\ K = {k} /\ IsBase(B2)
 BY <1>3, <1>8
<1>13. mmc' = mmc /\ asked' = asked /\ pool' = pool /\ ret' = ret
 OBVIOUS
<1> QED BY ONLY <1>1, <1>2, <1>5, <1>6, <1>9, <1>10, <1>11, <1>12, <1>13, Asks

LEMMA SingleStep ==
    ASSUME NEW B, NEW H, NEW X, GoodNow(B, H, X), memcache_get \/ memcache_set \/ StoreArray
    PROVE  Inv'
<1>1. PICK fn, kind, key :
          /\ fn \in {"single", "array"} /\ kind \in Kinds /\ key \in Keys
          /\ NewRequest(ThisCall, kind, key, <<[fn |-> fn, call |-> ThisCall]>> \o stack)
          /\ Running("user")
          /\ mmc' = mmc /\ asked' = asked /\ pool' = pool /\ ret' = ret
 <2>1. CASE memcache_get
  BY <2>1 DEF memcache_get, Single, Kinds
 <2>2. CASE memcache_set
  BY <2>2 DEF memcache_set, Single, Kinds
 <2>3. CASE StoreArray
  BY <2>3 DEF StoreArray, Kinds
 <2> QED BY <2>1, <2>2, <2>3
<1> QED BY <1>1, CallBegins

LEMMA OpenTop ==
    ASSUME NEW B, IsBase(B), Head(B).fn \in CallFns
    PROVE  OpenIn(B, Head(B).call)
<1>1. B \in Seq(BaseFrame) /\ B # <<>> /\ Head(B) = B[1]
 BY BaseSeq
<1>2. 1 \in 1 .. Len(B)
 BY <1>1
<1> QED BY <1>1, <1>2 DEF OpenIn

LEMMA ArrayNextStep ==
    ASSUME NEW B, NEW H, NEW X, GoodNow(B, H, X), ArrayNext
    PROVE  Inv'
<1>1. /\ Running("array_next") /\ mmc' = mmc /\ asked' = asked /\ pool' = pool /\ ret' = ret
      /\ \/ \E key \in Keys : NewRequest(Top.call, "store", key, <<[Top EXCEPT !.fn = "array"]>> \o Tail(stack))
         \/ stack' = <<[fn |-> "run", call |-> Top.call]>> \o Tail(stack) /\ request' = request
 BY DEF ArrayNext, Goto
<1>2. AtRest(B) /\ Head(B).fn = "array_next" /\ Top = Head(B)
 <2>1. "array_next" \in BaseFns \ {"read_early"}
  BY DEF BaseFns, CallFns
 <2> QED BY <1>1, <2>1, RestIs
<1>3. IsBase(B) /\ Tail(stack) = Tail(B) /\ Head(B).fn \in CallFns /\ Head(B).fn \in IdleFns /\ request \in Seq(Request)
 BY <1>2, RestFrame DEF CallFns, IdleFns
<1>4. PICK c, E : c = Head(B).call /\ E = {}
 OBVIOUS
<1>5. CallsOK(pool.in_select, pool.free, mmc, request, B, E, ret) /\ OpenIn(B, c) /\ c \in Nat
 <2>1. CallsOK(pool.in_select, pool.free, mmc, request, B, E, ret)
  BY <1>2, <1>4 DEF AtRest
 <2>2. OpenIn(B, c)
  BY <1>3, <1>4, OpenTop
 <2> QED BY <2>1, <2>2 DEF CallsOK
<1>6. ASSUME NEW fn \in CallFns, NEW f, f = CF(fn, c), NEW B2, B2 = Push(f, Tail(B))
      PROVE  /\ IsBase(B2) /\ Head(B2) = f /\ f \in BaseFrame /\ f.fn = fn /\ f.call = c
             /\ \A g : At(B2, g) <=> At(B, g)
             /\ \A d : OpenIn(B2, d) <=> OpenIn(B, d)
 <2>1. f = CF(fn, Head(B).call)
  BY <1>4, <1>6
 <2>2. /\ IsBase(B2) /\ Head(B2) = f /\ f \in BaseFrame /\ f.fn = fn /\ f.call = Head(B).call
       /\ \A g : At(B2, g) <=> At(B, g)
       /\ \A d : OpenIn(B2, d) <=> OpenIn(B, d)
  BY <1>3, <1>6, <2>1, CallSwap
 <2> QED BY <1>4, <2>2
<1>7. ASSUME stack' = <<[fn |-> "run", call |-> Top.call]>> \o Tail(stack), request' = request
      PROVE  Inv'
 <2>1. PICK fn, f, B2 : fn = "run" /\ f = CF(fn, c) /\ B2 = Push(f, Tail(B))
  OBVIOUS
 <2>2. fn \in CallFns
  BY <2>1 DEF CallFns
 <2>3. /\ IsBase(B2) /\ Head(B2) = f /\ f.fn = fn /\ f.call = c
       /\ \A g : At(B2, g) <=> At(B, g)
       /\ \A d : OpenIn(B2, d) <=> OpenIn(B, d)
  BY <1>6, <2>1, <2>2
 <2>4. stack' = B2
  BY <1>2, <1>3, <1>4, <1>7, <2>1 DEF Push, CF
 <2>5. CallsOK(pool.in_select, pool.free, mmc, request, B2, {}, ret)
  <3>1. Head(B2).fn # "single" /\ Head(B2).call = Head(B).call
   BY <1>4, <2>1, <2>3
  <3>2. CallsOK(pool.in_select, pool.free, mmc, request, B2, E, ret)
   BY <1>3, <1>5, <2>3, <3>1, CallsGo
  <3> QED BY <1>4, <3>2
 <2>6. Head(B2).fn \in IdleFns
  BY <2>1, <2>3 DEF IdleFns, CallFns
 <2> QED BY <1>1, <1>2, <1>3, <1>7, <2>3, <2>4, <2>5, <2>6, IdleStays
<1>8. ASSUME NEW key \in Keys,
             NewRequest(Top.call, "store", key, <<[Top EXCEPT !.fn = "array"]>> \o Tail(stack))
      PROVE  Inv'
 <2>1. PICK k, q, s, rr, fn, f, B2, K :
           /\ k = Len(request) + 1 /\ q = Made(c, "store", key) /\ s = mmc_pool_find(key) /\ fn = "array"
           /\ rr = Append(request, q) /\ f = CF(fn, c) /\ B2 = Push(f, Tail(B)) /\ K = {k}
  OBVIOUS
 <2>2. fn \in CallFns
  BY <2>1 DEF CallFns
 <2>3. /\ IsBase(B2) /\ Head(B2) = f /\ f.fn = fn /\ f.call = c
       /\ \A g : At(B2, g) <=> At(B, g)
       /\ \A d : OpenIn(B2, d) <=> OpenIn(B, d)
  BY <1>6, <2>1, <2>2
 <2>4. q \in Request /\ q.call = c
  <3>1. "store" \in Kinds
   BY DEF Kinds
  <3> QED BY <1>5, <2>1, <3>1, MadeIs
 <2>5. s \in Servers
  BY <2>1, FindIs
 <2>6. /\ request' = rr
       /\ stack' = Push(RF("schedule", s, k), B2)
  <3>1. Top = CF("array_next", c)
   BY <1>2, <1>3, <1>4, CallIs
  <3>2. [Top EXCEPT !.fn = "array"] = f /\ Top.call = c
   BY <2>1, <3>1 DEF CF
  <3>3. request' = Append(request, [call |-> c, kind |-> "store", key |-> key, failed_servers |-> <<>>, failed_index |-> 0])
   BY <1>8, <3>2 DEF NewRequest
  <3>4. stack' = <<[fn |-> "schedule", s |-> s, r |-> k]>> \o (<<f>> \o Tail(B))
   BY <1>3, <1>8, <2>1, <3>2 DEF NewRequest
  <3> QED BY <2>1, <3>3, <3>4 DEF Made, Push, RF
 <2>7. CallsOK(pool.in_select, pool.free, mmc, rr, B2, K, ret)
  <3>1. PICK sel, F, mm, rq : sel = pool.in_select /\ F = pool.free /\ mm = mmc /\ rq = request
   OBVIOUS
  <3>2. /\ CallsOK(sel, F, mm, rq, B, E, ret) /\ rq \in Seq(Request) /\ k = Len(rq) + 1 /\ rr = Append(rq, q)
        /\ Head(B2).call = Head(B).call /\ K = {k} /\ E = {} /\ Head(B).fn \in CallFns
        /\ q \in Request /\ q.call = Head(B).call /\ Head(B2).fn # "single" /\ OpenIn(B, Head(B).call)
   BY <1>3, <1>4, <1>5, <2>1, <2>3, <2>4, <3>1
  <3>3. \A d : OpenIn(B2, d) <=> OpenIn(B, d)
   BY <2>3
  <3>4. CallsOK(sel, F, mm, rr, B2, K, ret)
   BY ONLY <3>2, <3>3, CallsMore
  <3> QED BY <3>1, <3>4
 <2>8. Head(B2).fn \in {"single", "array"} /\ \A g : At(B2, g) <=> At(B, g)
  BY <2>1, <2>3
 <2>9. k = Len(request) + 1 /\ rr = Append(request, q) /\ K = {k} /\ IsBase(B2) /\ q \in Request
  BY <2>1, <2>3, <2>4
 <2> QED BY ONLY <1>1, <1>2, <1>3, <2>5, <2>6, <2>7, <2>8, <2>9, Asks
<1> QED BY <1>1, <1>7, <1>8

\* A script begins with servers that have no request.
LEMMA Starts ==
    ASSUME NEW mm \in [Servers -> Mmc], \A s \in Servers : Empty(mm[s]),
           NEW aa \in [Servers -> Seq(Answer)], \A s \in Servers : aa[s] = <<>>,
           NEW po, po = NewPool, NEW rq, rq = <<>>, NEW B, B = <<User("script")>>, NEW rt
    PROVE  GoodAt(B, mm, aa, po, rq, rt)
<1>1. /\ \A T : <<>> \in Seq(T)
      /\ ToSet(<<>>) = {} /\ Len(<<>>) = 0
 BY EmptyFacts
<1>2. /\ po \in Pool /\ SC(po) = {} /\ RC(po) = {} /\ po.in_select = FALSE /\ po.free = {} /\ po.rfds = {}
 <2>1. PICK e, q : e = <<>> /\ q = [n \in Lists |-> e]
  OBVIOUS
 <2>2. e \in Seq(Servers) /\ ToSet(e) = {} /\ q \in [Lists -> Seq(Servers)] /\ q[1] = e /\ 1 \in Lists
  BY <1>1, <2>1 DEF Lists
 <2>3. po = [sending |-> q, reading |-> q, cur |-> 1, in_select |-> FALSE, wfds |-> {}, rfds |-> {}, free |-> {}]
  BY <2>1 DEF NewPool
 <2> QED BY <2>2, <2>3 DEF Pool, SC, RC
<1>3. B \in Seq(BaseFrame) /\ B # <<>> /\ Len(B) = 1 /\ B[1] = User("script") /\ Head(B) = User("script")
 BY FrameMade
<1>4. IsBase(B)
 BY <1>3 DEF IsBase
<1>5. Head(B).fn = "user"
 BY <1>3, FrameMade
<1>6. \A s \in Servers : Quiet(mm[s], aa[s]) /\ InLine(mm, s) = {}
 BY EmptyQuiet DEF InLine
<1>7. AllQuiet(mm, aa, {})
 BY <1>6 DEF AllQuiet
<1>8. Len(rq) = 0 /\ rq \in Seq(Request) /\ 1 .. 0 = {}
 BY <1>1
<1>9. Placed(mm, {}, po.free, 1 .. Len(rq))
 BY <1>2, <1>6, <1>8 DEF Placed
<1>10. \A c : ~OpenIn(B, c)
 BY <1>3, <1>5 DEF OpenIn, CallFns
<1>11. CallsOK(po.in_select, po.free, mm, rq, B, {}, rt)
 BY <1>5, <1>8, <1>10 DEF CallsOK, CallFns
<1>12. PICK E : E = {}
 OBVIOUS
<1>13. Core(SC(po), RC(po), po.rfds, Sends(mm), Reads(mm), Fresh(mm, aa), {}, E, E, E, E)
 BY <1>2, <1>12 DEF Core, Sends, Reads, Empty
<1>14. Types(mm, aa, po, rq) /\ Head(B).fn \in IdleFns /\ ~po.in_select
 BY <1>2, <1>5, <1>8 DEF Types, IdleFns
<1> QED BY <1>4, <1>7, <1>9, <1>11, <1>12, <1>13, <1>14, IdleGood

LEMMA DisconnectedIs ==
    /\ Disconnected \in Mmc /\ Empty(Disconnected)
    /\ \A st \in {"disconnected", "connected", "unknown", "failed"}, e \in BOOLEAN :
          /\ [Disconnected EXCEPT !.status = st, !.elapsed = e] \in Mmc
          /\ Empty([Disconnected EXCEPT !.status = st, !.elapsed = e])
BY EmptyFacts, Zenon DEF Disconnected, Mmc, MaybeReq, Empty

LEMMA InitInv == Init => Inv
<1> SUFFICES ASSUME Init PROVE Inv
 OBVIOUS
<1>1. PICK mm, aa, st, po, rq : mm = mmc /\ aa = asked /\ st = stack /\ po = pool /\ rq = request
 OBVIOUS
<1>2. mm \in [Servers -> Mmc] /\ \A s \in Servers : Empty(mm[s])
 BY <1>1, DisconnectedIs, Zenon DEF Init
<1>3. aa \in [Servers -> Seq(Answer)] /\ \A s \in Servers : aa[s] = <<>>
 BY <1>1, EmptyFacts DEF Init
<1>4. po = NewPool /\ rq = <<>> /\ st = <<User("script")>>
 BY <1>1 DEF Init
<1>5. GoodAt(st, mm, aa, po, rq, ret)
 BY <1>2, <1>3, <1>4, Starts
<1> QED BY <1>1, <1>5 DEF Inv


LEMMA ScriptEndsStep ==
    ASSUME NEW B, NEW H, NEW X, GoodNow(B, H, X), ScriptEnds
    PROVE  Inv'
<1> SUFFICES ASSUME ~astray' PROVE Inv'
 BY Zenon DEF Inv
<1>1. PICK kept, status :
          /\ kept \subseteq Persistent
          /\ \A s \in Servers : status[s] \in {"disconnected", "connected", "unknown", "failed"}
          /\ mmc' = [s \in Servers |-> [Disconnected EXCEPT !.status = status[s],
                                                            !.elapsed = s \in Persistent /\ mmc[s].elapsed]]
          /\ asked' = [s \in Servers |-> [i \in IF s \in kept THEN DOMAIN asked[s] ELSE {} |->
                                            [asked[s][i] EXCEPT !.req = NULL]]]
          /\ astray' = (astray \/ \E s \in kept : asked[s] # <<>>)
 <2>1. PICK closed \in SUBSET Persistent :
           LET kept == {s \in Persistent : mmc[s].status \in {"connected", "unknown"}} \ closed
               status(s) == IF s \in kept THEN "unknown"
                            ELSE IF s \in Persistent /\ mmc[s].status = "failed" THEN "failed"
                            ELSE "disconnected"
           IN  /\ mmc' = [s \in Servers |->
                            [Disconnected EXCEPT !.status = status(s),
                                                 !.elapsed = s \in Persistent /\ mmc[s].elapsed]]
               /\ asked' = [s \in Servers |-> [i \in IF s \in kept THEN DOMAIN asked[s] ELSE {} |->
                                                [asked[s][i] EXCEPT !.req = NULL]]]
               /\ astray' = (astray \/ \E s \in kept : asked[s] # <<>>)
  BY Zenon DEF ScriptEnds
 <2>2. PICK kept : kept = {s \in Persistent : mmc[s].status \in {"connected", "unknown"}} \ closed
  OBVIOUS
 <2>3. PICK status : status = [s \in Servers |-> IF s \in kept THEN "unknown"
                            ELSE IF s \in Persistent /\ mmc[s].status = "failed" THEN "failed"
                            ELSE "disconnected"]
  OBVIOUS
 <2>4. mmc' = [s \in Servers |-> [Disconnected EXCEPT !.status = status[s],
                                                      !.elapsed = s \in Persistent /\ mmc[s].elapsed]]
  BY <2>1, <2>2, <2>3, Zenon
 <2>5. /\ asked' = [s \in Servers |-> [i \in IF s \in kept THEN DOMAIN asked[s] ELSE {} |->
                                         [asked[s][i] EXCEPT !.req = NULL]]]
       /\ astray' = (astray \/ \E s \in kept : asked[s] # <<>>)
  BY <2>1, <2>2, Zenon
 <2>6. kept \subseteq Persistent
  BY <2>2
 <2>7. \A s \in Servers : status[s] \in {"disconnected", "connected", "unknown", "failed"}
  BY <2>3
 <2> QED BY <2>4, <2>5, <2>6, <2>7, Zenon
<1>2. pool' = NewPool /\ request' = <<>> /\ stack' = <<User("script")>>
 BY Zenon DEF ScriptEnds
<1>3. mmc \in [Servers -> Mmc] /\ asked \in [Servers -> Seq(Answer)]
 BY DEF GoodNow, Good, Types
<1>4. PICK mm, aa, st, po, rq, rt : mm = mmc' /\ aa = asked' /\ st = stack' /\ po = pool' /\ rq = request' /\ rt = ret'
 OBVIOUS
<1>5. mm \in [Servers -> Mmc] /\ \A s \in Servers : Empty(mm[s])
 <2>1. ASSUME NEW s \in Servers PROVE mm[s] \in Mmc /\ Empty(mm[s])
  <3>1. PICK e : e = (s \in Persistent /\ mmc[s].elapsed)
   OBVIOUS
  <3>2. mmc[s] \in Mmc
   BY <1>3
  <3>3. e \in BOOLEAN
   BY <3>1
  <3>4. mm[s] = [Disconnected EXCEPT !.status = status[s], !.elapsed = e]
   BY <1>1, <1>4, <3>1, Zenon
  <3> QED BY <1>1, <3>3, <3>4, DisconnectedIs, ZenonT(60)
 <2>2. DOMAIN mm = Servers /\ mm = [s \in Servers |-> mm[s]]
  BY <1>1, <1>4, Zenon
 <2> QED BY <2>1, <2>2
<1>6. ASSUME NEW s \in Servers PROVE aa[s] = <<>>
 <2>1. aa[s] = [i \in IF s \in kept THEN DOMAIN asked[s] ELSE {} |-> [asked[s][i] EXCEPT !.req = NULL]]
  BY <1>1, <1>4, Zenon
 <2>2. (IF s \in kept THEN DOMAIN asked[s] ELSE {}) = {}
  <3>1. s \in kept => asked[s] = <<>>
   BY <1>1, Zenon
  <3> QED BY <3>1
 <2>3. aa[s] = [i \in {} |-> [asked[s][i] EXCEPT !.req = NULL]]
  BY <2>1, <2>2
 <2> QED BY <2>3
<1>7. aa \in [Servers -> Seq(Answer)]
 <2>1. DOMAIN aa = Servers /\ aa = [s \in Servers |-> aa[s]]
  BY <1>1, <1>4, Zenon
 <2> QED BY <1>6, <2>1, EmptyFacts
<1>8. GoodAt(st, mm, aa, po, rq, rt)
 BY <1>2, <1>4, <1>5, <1>6, <1>7, Starts
<1> QED BY <1>4, <1>8 DEF Inv

\* The retry interval of a server passes.
LEMMA ElapseStep ==
    ASSUME NEW B, NEW H, NEW X, GoodNow(B, H, X), Elapse
    PROVE  Inv'
<1>1. /\ Running("user") /\ asked' = asked /\ pool' = pool /\ request' = request /\ ret' = ret /\ stack' = stack
      /\ \E s \in Servers : mmc' = [mmc EXCEPT ![s].elapsed = TRUE]
 BY DEF Elapse
<1>2. AtRest(B) /\ Head(B).fn = "user"
 <2>1. "user" \in BaseFns \ {"read_early"}
  BY DEF BaseFns
 <2> QED BY <1>1, <2>1, RestIs
<1>3. /\ mmc \in [Servers -> Mmc] /\ asked \in [Servers -> Seq(Answer)] /\ pool \in Pool /\ request \in Seq(Request)
 BY <1>2 DEF AtRest, Types
<1>4. PICK s \in Servers : mmc' = [mmc EXCEPT ![s].elapsed = TRUE]
 BY <1>1
<1>5. mmc[s] \in Mmc
 BY <1>3
<1>6. PICK m : m = [mmc[s] EXCEPT !.elapsed = TRUE]
 OBVIOUS
<1>7. /\ m \in Mmc /\ m.status = mmc[s].status /\ m.sendreq = mmc[s].sendreq /\ m.sendqueue = mmc[s].sendqueue
      /\ m.readreq = mmc[s].readreq /\ m.readqueue = mmc[s].readqueue /\ m.part = mmc[s].part
 BY <1>5, <1>6 DEF Mmc
<1>8. PICK nn : nn = mmc'
 OBVIOUS
<1>9. nn \in [Servers -> Mmc] /\ nn[s] = m /\ But(mmc, nn, s)
 <2>1. nn = [mmc EXCEPT ![s] = m]
  BY <1>3, <1>4, <1>6, <1>8
 <2> QED BY <1>3, <1>7, <2>1, ServerPut
<1>10. Quiet(mmc[s], asked[s])
 BY <1>2 DEF AtRest, AllQuiet
<1>11. RL(m) = RL(mmc[s]) /\ SL(m) = SL(mmc[s]) /\ Quiet(m, asked[s])
 BY <1>7, <1>10, SameLines
<1>12. PICK E : E = {}
 OBVIOUS
<1>13. Placed(nn, {}, pool.free, 1 .. Len(request))
 BY <1>2, <1>9, <1>11, SamePlaces
<1>14. AllQuiet(nn, asked, {})
 <2>1. AllQuiet(mmc, asked, {}) /\ But(mmc, nn, s) /\ But(asked, asked, s) /\ Quiet(nn[s], asked[s])
  BY <1>2, <1>9, <1>11 DEF AtRest, But
 <2> QED BY <2>1, QuietAll
<1>15. Walked(pool, nn, asked, B, {})
 <2>1. Sends(nn) = Sends(mmc)
  BY <1>7, <1>9 DEF Sends, But
 <2>2. Reads(nn) = Reads(mmc)
  BY <1>7, <1>9 DEF Reads, But
 <2>3. Fresh(nn, asked) = Fresh(mmc, asked)
  BY <1>7, <1>9 DEF Fresh, But
 <2>4. Walked(pool, mmc, asked, B, E)
  BY <1>2, <1>12 DEF AtRest
 <2>5. Walked(pool, nn, asked, B, E)
  BY <2>1, <2>2, <2>3, <2>4, WalkedSame
 <2> QED BY <2>5, <1>12
<1>16. CallsOK(pool.in_select, pool.free, nn, request, B, {}, ret)
 <2>1. PICK sel, F : sel = pool.in_select /\ F = pool.free
  OBVIOUS
 <2>2. CallsOK(sel, F, mmc, request, B, E, ret) /\ F \subseteq F
  BY <1>2, <1>12, <2>1 DEF AtRest
 <2>3. Head(B).fn \notin CallFns /\ SameCalls(request, request)
  BY <1>2, SameLength DEF CallFns
 <2>4. CallsOK(sel, F, nn, request, B, E, ret)
  BY <2>2, <2>3, CallsWalk
 <2> QED BY <2>1, <2>4, <1>12
<1>17. Types(nn, asked, pool, request) /\ IsBase(B) /\ Head(B).fn # "read_early"
 BY <1>2, <1>3, <1>9 DEF AtRest, Types
<1>18. GoodAt(B, nn, asked, pool, request, ret)
 BY <1>13, <1>14, <1>15, <1>16, <1>17, RestGood
<1>19. stack' = B
 BY <1>1, <1>2 DEF AtRest
<1> QED BY <1>1, <1>8, <1>18, <1>19 DEF Inv

\* A pool that has gone astray is left to itself.
LEMMA AstrayStays ==
    ASSUME astray, Next
    PROVE  Inv'
<1>1. astray'
 <2>1. CASE Scheduling
  BY <2>1, Zenon DEF Scheduling, Schedule, SlotNext, AfterRefusal, Deactivate, Failovers, Failover,
              Retry, RetrySend, RetryRead
 <2>2. CASE Run \/ SendTimeout \/ ReadTimeout \/ TimeoutsEnd
  BY <2>2 DEF Run, SendTimeout, ReadTimeout, TimeoutsEnd, Timeout
 <2>3. CASE Sending
  BY <2>3 DEF Sending, SendWalk, Sent, SendsMore, SendFails, SendFailed, SendEnds
 <2>4. CASE Receiving
  BY <2>4 DEF Receiving, ReadWalk, ReadWalkEnds, ReadDone, ReadEarly, AfterEarly, ReadValue,
              Unpacked, ReadsMore, ReadFails, ReadEof, ReadEnds
 <2>5. CASE Calls
  BY <2>5 DEF Calls, memcache_get, memcache_set, Single, SingleScheduled, StoreArray, ArrayScheduled,
              ArrayNext, WakeupReturns
 <2>6. CASE ScriptEnds
  BY <2>6, Zenon DEF ScriptEnds
 <2>7. CASE Elapse \/ Crashed
  BY <2>7 DEF Elapse, Crashed, vars
 <2> QED BY <2>1, <2>2, <2>3, <2>4, <2>5, <2>6, <2>7, Zenon DEF Next
<1> QED BY <1>1 DEF Inv

LEMMA StepInv ==
    ASSUME Inv, [Next]_vars
    PROVE  Inv'
<1>1. CASE UNCHANGED vars
 BY <1>1 DEF vars, Inv
<1>2. CASE astray /\ Next
 BY <1>2, AstrayStays
<1>3. CASE ~astray /\ Next
 <2>1. PICK B, H, X : GoodNow(B, H, X)
  <3>1. GoodAt(stack, mmc, asked, pool, request, ret)
   BY <1>3 DEF Inv
  <3> QED BY <3>1, GoodIs DEF GoodNow
 <2>2. CASE Scheduling
  BY ONLY <2>1, <2>2, ScheduleStep, SlotNextStep, AfterRefusalStep, DeactivateStep, FailoversStep,
          FailoverStep, RetryStep, RetrySendStep, RetryReadStep DEF Scheduling
 <2>3. CASE Run \/ SendTimeout \/ ReadTimeout \/ TimeoutsEnd
  BY ONLY <2>1, <2>3, RunStep, SendTimeoutStep, ReadTimeoutStep, TimeoutsEndStep
 <2>4. CASE Sending
  BY ONLY <2>1, <2>4, SendWalkStep, SentStep, SendsMoreStep, SendFailsStep, SendFailedStep,
          SendEndsStep DEF Sending
 <2>5. CASE Receiving
  BY ONLY <2>1, <2>5, ReadWalkStep, ReadWalkEndsStep, ReadDoneStep, ReadEarlyStep, AfterEarlyStep,
          ReadValueStep, UnpackedStep, ReadsMoreStep, ReadFailsStep, ReadEofStep, ReadEndsStep DEF Receiving
 <2>6. CASE Calls
  BY ONLY <2>1, <2>6, SingleStep, SingleScheduledStep, ArrayScheduledStep, ArrayNextStep,
          WakeupReturnsStep DEF Calls
 <2>7. CASE ScriptEnds \/ Elapse
  BY ONLY <2>1, <2>7, ScriptEndsStep, ElapseStep
 <2>8. CASE Crashed
  BY <1>1, <2>8 DEF Crashed
 <2> QED BY <1>3, <2>2, <2>3, <2>4, <2>5, <2>6, <2>7, <2>8 DEF Next
<1> QED BY <1>1, <1>2, <1>3

\* In every state the stack has one of the shapes, and the lines of the servers, the
\* lists, and the calls that wait agree with it.
THEOREM InvHolds == Spec => []Inv
<1>1. Init => Inv
 BY InitInv
<1>2. Inv /\ [Next]_vars => Inv'
 BY StepInv
<1> QED BY <1>1, <1>2, PTL DEF Spec

--------------------
(* What the invariant says of the properties. *)

LEMMA PipelineFollows == ASSUME Inv PROVE PipelineExact
<1> SUFFICES ASSUME ~astray, NEW s \in Servers, Settled(s)
             PROVE  ReadLine(s) = [i \in DOMAIN asked[s] |-> asked[s][i].req] \o SendLine(s)
 BY DEF PipelineExact
<1>1. PICK B, H, X : GoodNow(B, H, X)
 <2>1. GoodAt(stack, mmc, asked, pool, request, ret)
  BY DEF Inv
 <2> QED BY <2>1, GoodIs DEF GoodNow
<1>2. PICK fn : fn = Head(stack).fn
 OBVIOUS
<1>3. ShapeIs(SC(pool), stack, mmc, asked, B, H, X) /\ Top = Head(stack)
 <2>1. IsBase(B) /\ Shape(SC(pool), stack, mmc, asked, B, H, X)
  BY <1>1 DEF GoodNow, Good
 <2> QED BY <2>1, ShapeOf DEF Top
<1>4. Quiet(mmc[s], asked[s])
 <2>1. CASE AllQuiet(mmc, asked, {})
  BY <2>1 DEF AllQuiet
 <2>2. ASSUME AllQuiet(mmc, asked, {Top.s}), Top.fn \in {"slot", "deactivate", "retry", "retry_send", "retry_read", "read_early"}
       PROVE  Quiet(mmc[s], asked[s])
  BY <2>2 DEF AllQuiet, Settled
 <2>3. CASE fn \in BaseFns \ {"read_early"} \/ fn = "failovers" \/ fn \in {"schedule", "failover", "refused"}
  BY <1>2, <1>3, <2>1, <2>3 DEF ShapeIs, ShChain
 <2>4. CASE fn = "read_early"
  BY <1>2, <1>3, <2>2, <2>4 DEF ShapeIs, ShEarly
 <2>5. CASE fn = "deactivate"
  BY <1>2, <1>3, <2>1, <2>2, <2>5 DEF ShapeIs, ShRefDeact, ShDeact
 <2>6. CASE fn = "slot"
  BY <1>2, <1>3, <2>2, <2>6 DEF ShapeIs, ShSlotSend, ShSlotEarly, ShSlotRetry
 <2>7. CASE fn \in {"retry", "retry_send", "retry_read"}
  BY <1>2, <1>3, <2>2, <2>7 DEF ShapeIs, ShRetry
 <2> QED BY <1>2, <1>3, <2>3, <2>4, <2>5, <2>6, <2>7 DEF ShapeIs, ReqFns
<1>5. Up(mmc[s])
 BY DEF Settled, Up
<1>6. ReadLine(s) = RL(mmc[s]) /\ SendLine(s) = SL(mmc[s])
 BY DEF ReadLine, SendLine, RL, SL, Line
<1> QED BY <1>4, <1>5, <1>6 DEF Quiet, Reqs

LEMMA ListsFollow == ASSUME Inv PROVE ListsExact
<1> SUFFICES ASSUME ~astray
             PROVE  /\ ~Running("crashed")
                    /\ Top.fn \in {"run", "array"} /\ ~pool.in_select =>
                          SC(pool) = Sends(mmc) /\ RC(pool) = Reads(mmc)
 BY DEF ListsExact, SC, RC, Sends, Reads
<1>1. PICK B, H, X : GoodNow(B, H, X)
 <2>1. GoodAt(stack, mmc, asked, pool, request, ret)
  BY DEF Inv
 <2> QED BY <2>1, GoodIs DEF GoodNow
<1>2. ~Running("crashed")
 <2> SUFFICES ASSUME Running("crashed") PROVE FALSE
  OBVIOUS
 <2>1. ShapeIs(SC(pool), stack, mmc, asked, B, H, X) /\ Head(stack).fn = "crashed"
  BY <1>1, TopIs
 <2> QED BY <2>1 DEF ShapeIs, BaseFns, CallFns, WalkFns, AtFns, ReqFns
<1>3. ASSUME NEW fn \in {"run", "array"}, Top.fn = fn, ~pool.in_select
      PROVE  SC(pool) = Sends(mmc) /\ RC(pool) = Reads(mmc)
 <2>1. Running(fn)
  <3>1. stack # <<>>
   BY <1>1, ShapeOf DEF GoodNow, Good, ShapeIs
  <3> QED BY <1>3, <3>1 DEF Running, Top
 <2>2. AtRest(B) /\ Head(B).fn = fn
  <3>1. fn \in BaseFns \ {"read_early"}
   BY DEF BaseFns, CallFns
  <3> QED BY <1>1, <2>1, <3>1, RestIs
 <2>3. PICK E : E = {}
  OBVIOUS
 <2>4. Walked(pool, mmc, asked, B, E) /\ pool \in Pool
  BY <2>2, <2>3 DEF AtRest, Types
 <2>5. PICK P, Q, Y, Z :
          /\ Core(SC(pool), RC(pool), pool.rfds, Sends(mmc), Reads(mmc), Fresh(mmc, asked), E, P, Q, Y, Z)
          /\ Head(B).fn \in IdleFns => \/ NowIdle(Head(B), Other(pool), P, Q, Y, Z)
                                       \/ \E g : At(B, g) /\ NowWaits(Head(B), g, Other(pool), P, Q, Y, Z)
  BY <2>4, NowIs
 <2>6. Head(B).fn \in IdleFns
  BY <2>2 DEF IdleFns, CallFns
 <2>7. P = {} /\ Q = {}
  <3>1. Other(pool).in_select = pool.in_select
   BY DEF Other
  <3> QED BY <1>3, <2>5, <2>6, <3>1 DEF NowIdle, NowWaits
 <2>8. \A t \in Servers : (t \in SC(pool) <=> t \in Sends(mmc)) /\ (t \in RC(pool) <=> t \in Reads(mmc))
  BY <2>3, <2>5, <2>7 DEF Core
 <2>9. SC(pool) \subseteq Servers /\ RC(pool) \subseteq Servers
  BY <2>4, PoolIs
 <2>10. Sends(mmc) \subseteq Servers /\ Reads(mmc) \subseteq Servers
  BY DEF Sends, Reads
 <2> QED BY <2>8, <2>9, <2>10
<1> QED BY <1>2, <1>3

\* A frame is on the stack; one holds a request.
Has(st, g) == \E i \in DOMAIN st : st[i] = g
Holds(g, r) == \/ \E fn, s : g = RF(fn, s, r)
               \/ \E s, line : g = LF(s, line) /\ r \in ToSet(line)
OnStack(st, B, H) ==
    /\ \A j \in 1 .. Len(B) : Has(st, B[j])
    /\ \A r \in H : \E g : Has(st, g) /\ Holds(g, r)

LEMMA PushHas ==
    ASSUME NEW k \in Seq(Frame), NEW f \in Frame, NEW st, st = Push(f, k), NEW B, NEW H, OnStack(k, B, H),
           NEW H2, \A r \in H2 : r \in H \/ Holds(f, r)
    PROVE  OnStack(st, B, H2) /\ st \in Seq(Frame)
<1>1. FrontIs(Frame, f, k, st)
 BY FrontFacts
<1>2. DOMAIN k = 1 .. Len(k) /\ DOMAIN st = 1 .. Len(st) /\ Len(k) \in Nat
 BY <1>1, SeqFacts DEF FrontIs
<1>3. \A g : Has(k, g) => Has(st, g)
 <2> SUFFICES ASSUME NEW g, NEW i \in 1 .. Len(k), k[i] = g PROVE Has(st, g)
  BY <1>2 DEF Has
 <2>1. i + 1 \in 1 .. Len(st) /\ st[i + 1] = g
  BY <1>1, <1>2 DEF FrontIs
 <2> QED BY <1>2, <2>1 DEF Has
<1>4. Has(st, f)
 <2>1. 1 \in 1 .. Len(st) /\ st[1] = f
  BY <1>1 DEF FrontIs
 <2> QED BY <1>2, <2>1 DEF Has
<1> QED BY <1>1, <1>3, <1>4 DEF OnStack, FrontIs

LEMMA BaseOn == ASSUME NEW B, IsBase(B) PROVE OnStack(B, B, {}) /\ B \in Seq(Frame)
<1>1. B \in Seq(Frame)
 BY BaseSeq
<1>2. DOMAIN B = 1 .. Len(B)
 BY <1>1, SeqFacts
<1> QED BY <1>1, <1>2 DEF OnStack, Has

LEMMA OverOn == ASSUME NEW B, IsBase(B), NEW R, NEW HR, Over(R, B, HR) PROVE OnStack(R, B, HR) /\ R \in Seq(Frame)
<1>0. OnStack(B, B, {}) /\ B \in Seq(Frame)
 BY BaseOn
<1>1. CASE R = B /\ HR = {}
 BY <1>0, <1>1
<1>2. CASE \E s \in Servers, line \in Seq(Nat) : R = Push(LF(s, line), B) /\ HR = ToSet(line)
 <2>1. PICK s \in Servers, line \in Seq(Nat) : R = Push(LF(s, line), B) /\ HR = ToSet(line)
  BY <1>2
 <2>2. PICK f : f = LF(s, line)
  OBVIOUS
 <2>3. f \in Frame
  BY <2>2 DEF LF, Frame
 <2>4. \A r \in HR : Holds(f, r)
  BY <2>1, <2>2 DEF Holds
 <2> QED BY <1>0, <2>1, <2>2, <2>3, <2>4, PushHas
<1> QED BY <1>1, <1>2 DEF Over

LEMMA ShapeOn ==
    ASSUME NEW S, NEW st, NEW mm, NEW aa, NEW B, NEW H, NEW X, IsBase(B), Shape(S, st, mm, aa, B, H, X)
    PROVE  OnStack(st, B, H)
<1>0. OnStack(B, B, {}) /\ B \in Seq(Frame)
 BY BaseOn
<1>1. CASE ShRest(st, mm, aa, B, H, X)
 BY <1>1, OverOn DEF ShRest
<1>2. ASSUME NEW fn, NEW s, NEW r, NEW R, NEW HR, ShChain(fn, s, r, R, HR, st, mm, aa, B, H, X)
      PROVE  OnStack(st, B, H)
 <2>1. OnStack(R, B, HR) /\ R \in Seq(Frame)
  BY <1>2, OverOn DEF ShChain
 <2>2. PICK f : f = RF(fn, s, r)
  OBVIOUS
 <2>3. f \in Frame /\ st = Push(f, R) /\ H = HR \cup {r}
  BY <1>2, <2>2, RFHas DEF ShChain, ReqFns
 <2>4. \A x \in H : x \in HR \/ Holds(f, x)
  BY <2>2, <2>3 DEF Holds
 <2> QED BY <2>1, <2>3, <2>4, PushHas
<1>3. ASSUME NEW s, NEW r, NEW R, NEW HR, ShRefDeact(s, r, R, HR, st, mm, aa, B, H, X)
      PROVE  OnStack(st, B, H)
 <2>1. OnStack(R, B, HR) /\ R \in Seq(Frame)
  BY <1>3, OverOn DEF ShRefDeact
 <2>2. PICK f, g, k : f = RF("refused", s, r) /\ g = SF("deactivate", s) /\ k = Push(f, R)
  OBVIOUS
 <2>3. f \in Frame /\ g \in Frame /\ st = Push(g, k) /\ H = HR \cup {r}
  BY <1>3, <2>2, RFHas, SFHas DEF ShRefDeact, ReqFns
 <2>4. \A x \in H : x \in HR \/ Holds(f, x)
  BY <2>2, <2>3 DEF Holds
 <2>5. OnStack(k, B, H) /\ k \in Seq(Frame)
  BY <2>1, <2>2, <2>3, <2>4, PushHas
 <2> QED BY <2>3, <2>5, PushHas
<1>4. ASSUME NEW s \in Servers, NEW fn \in {"deactivate", "slot"}, st = Push(SF(fn, s), B), H = {}
      PROVE  OnStack(st, B, H)
 <2>1. PICK f : f = SF(fn, s)
  OBVIOUS
 <2>2. f \in Frame /\ st = Push(f, B)
  BY <1>4, <2>1, SFHas
 <2>3. OnStack(B, B, H)
  BY <1>0, <1>4
 <2> QED BY <1>0, <2>2, <2>3, PushHas
<1>5. ASSUME NEW s, ShDeact(s, st, mm, aa, B, H, X) \/ ShSlotSend(s, st, mm, aa, B, H, X)
                    \/ ShSlotEarly(s, st, mm, aa, B, H, X)
      PROVE  OnStack(st, B, H)
 BY <1>4, <1>5 DEF ShDeact, ShSlotSend, ShSlotEarly
<1>6. ASSUME NEW s, ShEarly(s, st, mm, aa, B, H, X) PROVE OnStack(st, B, H)
 BY <1>0, <1>6 DEF ShEarly
<1>7. ASSUME NEW s, NEW r, ShSlotRetry(s, r, st, mm, aa, B, H, X) PROVE OnStack(st, B, H)
 <2>1. PICK f, g, k : f = RF("retry_send", s, r) /\ g = SF("slot", s) /\ k = Push(f, B)
  OBVIOUS
 <2>2. f \in Frame /\ g \in Frame /\ st = Push(g, k) /\ H = {}
  BY <1>7, <2>1, RFHas, SFHas DEF ShSlotRetry, ReqFns
 <2>3. OnStack(B, B, H)
  BY <1>0, <2>2
 <2>4. OnStack(k, B, H) /\ k \in Seq(Frame)
  BY <1>0, <2>1, <2>2, <2>3, PushHas
 <2> QED BY <2>2, <2>4, PushHas
<1>8. ASSUME NEW fn, NEW s, NEW r, ShRetry(fn, s, r, S, st, mm, aa, B, H, X) PROVE OnStack(st, B, H)
 <2>1. PICK f : f = RF(fn, s, r)
  OBVIOUS
 <2>2. f \in Frame /\ st = Push(f, B) /\ H = {}
  BY <1>8, <2>1, RFHas DEF ShRetry, ReqFns
 <2>3. OnStack(B, B, H)
  BY <1>0, <2>2
 <2> QED BY <1>0, <2>2, <2>3, PushHas
<1> QED BY <1>1, <1>2, <1>3, <1>5, <1>6, <1>7, <1>8 DEF Shape

LEMMA RunsFollow == ASSUME Inv PROVE RunsToCompletion
<1> SUFFICES ASSUME ~astray, NEW r \in DOMAIN request
             PROVE  /\ request[r].call \in Open \/ r \in pool.free
                    /\ \/ r \in Held
                       \/ Cardinality({s \in Servers : Contains(ReadLine(s), r)})
                          + (IF r \in pool.free THEN 1 ELSE 0) = 1
 BY DEF RunsToCompletion
<1>1. PICK B, H, X : GoodNow(B, H, X)
 <2>1. GoodAt(stack, mmc, asked, pool, request, ret)
  BY DEF Inv
 <2> QED BY <2>1, GoodIs DEF GoodNow
<1>2. /\ Types(mmc, asked, pool, request) /\ IsBase(B) /\ Shape(SC(pool), stack, mmc, asked, B, H, X)
      /\ Placed(mmc, H, pool.free, 1 .. Len(request))
      /\ CallsOK(pool.in_select, pool.free, mmc, request, B, H, ret)
 BY <1>1 DEF GoodNow, Good
<1>3. OnStack(stack, B, H)
 BY <1>2, ShapeOn
<1>4. r \in 1 .. Len(request)
 <2>1. request \in Seq(Request)
  BY <1>2 DEF Types
 <2> QED BY <2>1, SeqFacts
<1>5. ASSUME r \notin pool.free PROVE request[r].call \in Open
 <2>1. OpenIn(B, request[r].call)
  BY <1>2, <1>4, <1>5 DEF CallsOK
 <2>2. PICK j \in 1 .. Len(B) : B[j].fn \in CallFns /\ B[j].call = request[r].call
  BY <2>1 DEF OpenIn
 <2>3. PICK i \in DOMAIN stack : stack[i] = B[j]
  BY <1>3 DEF OnStack, Has
 <2>4. "call" \in DOMAIN B[j]
  <3>1. B[j] \in BaseFrame
   <4>1. B \in Seq(BaseFrame)
    BY <1>2 DEF IsBase
   <4> QED BY <4>1, SeqFacts
  <3>2. B[j] \in [fn : CallFns, call : Nat]
   BY <3>1, <2>2 DEF BaseFrame, CallFns, WalkFns, AtFns
  <3> QED BY <3>2
 <2> QED BY <2>2, <2>3, <2>4 DEF Open
<1>6. ASSUME r \in H PROVE r \in Held
 <2>1. PICK g : Has(stack, g) /\ Holds(g, r)
  BY <1>3, <1>6 DEF OnStack
 <2>2. PICK i \in DOMAIN stack : stack[i] = g
  BY <2>1 DEF Has
 <2>3. CASE \E fn, s : g = RF(fn, s, r)
  <3>1. "r" \in DOMAIN stack[i] /\ stack[i].r = r
   BY <2>2, <2>3 DEF RF
  <3> QED BY <3>1 DEF Held
 <2>4. CASE \E s, line : g = LF(s, line) /\ r \in ToSet(line)
  <3>1. "line" \in DOMAIN stack[i] /\ r \in ToSet(stack[i].line)
   BY <2>2, <2>4 DEF LF
  <3>2. r \in UNION {ToSet(stack[k].line) : k \in {j \in DOMAIN stack : "line" \in DOMAIN stack[j]}}
   BY <3>1
  <3> QED BY <3>2 DEF Held
 <2> QED BY <2>1, <2>3, <2>4 DEF Holds
<1>7. PICK L : L = {s \in Servers : Contains(ReadLine(s), r)}
 OBVIOUS
<1>8. \A s \in Servers : s \in L <=> r \in InLine(mmc, s)
 <2> SUFFICES ASSUME NEW s \in Servers PROVE Contains(ReadLine(s), r) <=> r \in InLine(mmc, s)
  BY <1>7
 <2>1. ReadLine(s) = RL(mmc[s])
  BY DEF ReadLine, RL, Line
 <2>2. RL(mmc[s]) \in Seq(Nat)
  <3>1. mmc[s] \in Mmc
   BY <1>2 DEF Types
  <3> QED BY <3>1, LineIs DEF RL, Mmc
 <2>3. PICK q : q = RL(mmc[s])
  OBVIOUS
 <2>4. Contains(q, r) <=> r \in ToSet(q)
  BY <2>2, <2>3, SeqFacts
 <2> QED BY <2>1, <2>3, <2>4 DEF InLine
<1>9. ASSUME r \notin H, r \in pool.free PROVE L = {}
 BY <1>2, <1>7, <1>8, <1>9 DEF Placed
<1>10. ASSUME r \notin H, r \notin pool.free PROVE \E s : L = {s}
 <2>1. PICK s \in Servers : r \in InLine(mmc, s)
  BY <1>2, <1>4, <1>10 DEF Placed
 <2>2. \A t \in Servers : r \in InLine(mmc, t) => t = s
  BY <1>2, <2>1 DEF Placed
 <2> QED BY <1>7, <1>8, <2>1, <2>2
<1>11. ASSUME r \notin H
       PROVE  Cardinality(L) + (IF r \in pool.free THEN 1 ELSE 0) = 1
 <2>1. CASE r \in pool.free
  <3>1. Cardinality(L) = 0
   BY <1>9, <1>11, <2>1, FS_EmptySet
  <3> QED BY <2>1, <3>1
 <2>2. CASE r \notin pool.free
  <3>1. Cardinality(L) = 1
   BY <1>10, <1>11, <2>2, FS_Singleton
  <3> QED BY <2>2, <3>1
 <2> QED BY <2>1, <2>2
<1> QED BY <1>5, <1>6, <1>7, <1>11

--------------------
(* The properties. *)

\* Until the pool is astray, whatever fails over, times out or is sent from inside
\* __wakeup, the answers still to be read from a server are those of the requests it
\* was sent, in that order, and then of those still to be sent (mmc_pool_schedule,
\* mmc_pool_select).
THEOREM PipelineCorrect == Spec => []PipelineExact
BY InvHolds, PipelineFollows, PTL

\* mmc_pool_select follows no empty slot, and when it is entered its lists are the
\* servers with a request to send and those with an answer to read.
THEOREM ListsCorrect == Spec => []ListsExact
BY InvHolds, ListsFollow, PTL

\* A request is with one server, or free, or about to be scheduled, and when its
\* call returns it is free: mmc_pool_run completes all it has scheduled.
THEOREM RunsCorrect == Spec => []RunsToCompletion
BY InvHolds, RunsFollow, PTL
=============================================================================
