----------------------- MODULE RequestShutdownProofs -----------------------
(***************************************************************************)
(* Theorems about the end of a request, for any number of things printed,  *)
(* buffers, chunk sizes, resources, references, shutdown functions and     *)
(* calls of user code.                                                     *)
(***************************************************************************)
EXTENDS RequestShutdown, TLAPS, FiniteSetTheorems, SequenceTheorems,
        WellFoundedInduction

Phases == {"script", "functions", "destructors", "end_buffers", "headers", "modules",
           "symbols", "deactivate", "done"}

\* The phases after the flush.
Late == {"headers", "modules", "symbols", "deactivate", "done"}

\* The functions a phase begins with, which call the others in a loop.
Loops == {"functions", "end_buffers", "symbols", "destroy_list"}

\* The functions that have still to release a resource.
Dtors == {"dtor", "dtor_end"}

Buffers == [text : Seq(Nat), handler : BOOLEAN, chunk : Nat]

\* The functions that end a buffer.
Flushers == {"end", "ended", "handler", "restore"}

\* The user code that runs: the script, a shutdown function, a stream wrapper's
\* stream_close, and what the phases of destructors and of modules call.
Codes == {"script", "function", "close", "destructors", "modules"}

Frames == [fn : {"user"}, code : Codes]
          \cup [fn : {"end"}, send : BOOLEAN, flush : BOOLEAN]
          \cup [fn : {"ended"}, send : BOOLEAN, flush : BOOLEAN, text : Seq(Nat)]
          \cup [fn : {"handler"}, text : Seq(Nat)]
          \cup [fn : Loops]
          \cup [fn : {"restore"}, buf : {b \in Buffers : b.text = <<>>}]
          \cup [fn : Dtors, holds : Ids \cup {NULL}]

\* No buffer is half ended.
Calm(s) == \A i \in 1 .. Len(s) : s[i].fn \notin {"ended", "handler"}

\* What a handler may call, by filling the chunk of its buffer: flushes only.
Flushing(f) == f.fn \in {"handler", "restore"} \/ (f.fn \in {"end", "ended"} /\ f.flush)

\* Stack s, where levels says that there is a buffer: loops are at the bottom; a
\* buffer is half ended under its handler, or on top; over a handler there are only
\* flushes, and its buffer is there unless one of them has taken it away.
StackOK(s, levels) ==
    /\ s \in Seq(Frames)
    /\ \A i \in 1 .. Len(s) :
         /\ s[i].fn \in Loops => i = Len(s)
         /\ s[i].fn = "ended" => IF i = 1 THEN levels ELSE s[i - 1].fn = "handler"
         /\ s[i].fn = "handler" =>
              /\ i < Len(s) /\ s[i + 1].fn = "ended"
              /\ levels \/ \E j \in 1 .. i - 1 : s[j].fn = "restore"
              /\ \A j \in 1 .. i - 1 : Flushing(s[j])

\* What runs in each phase: its loop, at the bottom, until the phase is over; and no
\* user code once there is no executor.
PhaseOK(s, ph) ==
    /\ ph \in {"headers", "done"} => s = <<>>
    /\ ph = "end_buffers" /\ s # <<>> => s[Len(s)].fn = "end_buffers"
    /\ ph = "deactivate" /\ s # <<>> => s[Len(s)].fn = "destroy_list"
    /\ ph = "deactivate" => \A i \in 1 .. Len(s) : s[i].fn \in Dtors \cup {"destroy_list"}

StackInv == StackOK(stack, ob # <<>>) /\ PhaseOK(stack, phase)

\* A flush in progress that will open its buffer again.
Restoring(s) == \E i \in 1 .. Len(s) : s[i].fn = "restore"

OutputTypeOK ==
    /\ ob \in Seq(Buffers)
    /\ writer \in {"buffer", "direct"}
    /\ sent \in Seq(Nat)
    /\ printed \in Nat
    /\ headers_sent \in BOOLEAN

OutputInv == OutputTypeOK /\ WriterMatchesLevel /\ OutputExact /\ (sent # <<>> => headers_sent)

\* t is the beginning of u.
Beginning(t, u) == \E v \in Seq(Nat) : u = t \o v

\* The text of f accounts for the active buffer of b, but for what handlers printed
\* (e); unless a buffer was flushed under its handler (x), the buffer goes on from it.
Owed(f, b, e, x) ==
    /\ ToSet(Last(b).text) \subseteq ToSet(f.text) \cup e
    /\ "repeated" \notin x => Beginning(f.text, Last(b).text)

\* The texts that wait on stack s have been printed; each handler's accounts for its
\* buffer while that is the active one; and the first flush under a handler has not
\* got far.
TextsOK(s, b, e, p, x) ==
    \A i \in 1 .. Len(s) :
       /\ s[i].fn \in {"handler", "ended"} => ToSet(s[i].text) \subseteq 1 .. p
       /\ s[i].fn = "handler" =>
            /\ (\A j \in 1 .. i - 1 : s[j].fn # "restore") => Owed(s[i], b, e, x)
            /\ "repeated" \notin x => \A j \in 1 .. i - 1 : s[j].fn = "end"

TextInv ==
    /\ TextsOK(stack, ob, echoed, printed, excused)
    /\ \A i \in 1 .. Len(stack) :
         i = 1 /\ stack[i].fn = "ended" => Owed(stack[i], ob, echoed, excused)

\* Once the loop of the flush is over there is no buffer, nor one to open again.
FlushedInv ==
    /\ phase \in Late => headers_sent
    /\ phase = "end_buffers" /\ stack = <<>> => ob = <<>> \/ "output" \in excused
    /\ phase \in Late /\ (ob # <<>> \/ Restoring(stack)) => "output" \in excused

\* The resources of l that hold h; the calls that have still to release it, counted
\* from the bottom of the stack.
Holders(l, h) == {id \in Ids : l[id] # NULL /\ l[id].holds = h}

HeldAt(s, h) == {j \in 1 .. Len(s) : /\ s[Len(s) + 1 - j].fn \in Dtors
                                     /\ s[Len(s) + 1 - j].holds = h}

\* Every reference is counted; what is gone has none but the script's.
Counted(l, refs, s) ==
    \A h \in Ids :
       IF l[h] = NULL THEN Holders(l, h) = {} /\ HeldAt(s, h) = {}
       ELSE l[h].refs >= refs[h] + Cardinality(Holders(l, h)) + Cardinality(HeldAt(s, h))

ResourcesTypeOK ==
    /\ list \in [Ids -> {NULL} \cup [refs : Nat \ {0}, holds : Ids \cup {NULL}]]
    /\ next_id \in 1 .. MaxResources + 1
    /\ script \in [Ids -> Nat]
    /\ destroyed \in Seq(Ids)

\* The lifetimes of resources, as far as they do not depend on who holds whom.
Lifetimes ==
    /\ \A i, j \in DOMAIN destroyed : i # j => destroyed[i] # destroyed[j]
    /\ Live \cup ToSet(destroyed) = 1 .. next_id - 1
    /\ Live \cap ToSet(destroyed) = {}

ResourcesInv ==
    /\ ResourcesTypeOK
    /\ Lifetimes
    /\ \A id \in Ids : list[id] # NULL /\ list[id].holds # NULL => list[id].holds < id
    /\ "held" \notin excused => Counted(list, script, stack)
    /\ phase = "done" \/ (phase = "deactivate" /\ stack = <<>>) => Live = {}

IInv == phase \in Phases /\ StackInv /\ OutputInv /\ TextInv /\ FlushedInv /\ ResourcesInv

--------------------
(* The stack.                                                              *)

\* A call is pushed on the stack.
LEMMA Pushed ==
    ASSUME NEW s \in Seq(Frames), NEW f \in Frames
    PROVE  /\ <<f>> \o s \in Seq(Frames) /\ <<f>> \o s # <<>>
           /\ Len(s) \in Nat /\ Len(<<f>> \o s) = Len(s) + 1
           /\ (<<f>> \o s)[1] = f
           /\ \A i \in 1 .. Len(s) : (<<f>> \o s)[i + 1] = s[i]
           /\ \A i \in 2 .. Len(s) + 1 : (<<f>> \o s)[i] = s[i - 1]
           /\ Tail(<<f>> \o s) = s
<1> DEFINE r == <<f>> \o s
<1>1. /\ r \in Seq(Frames) /\ Len(s) \in Nat /\ Len(r) = Len(s) + 1 /\ r[1] = f
      /\ \A i \in 2 .. Len(s) + 1 : r[i] = s[i - 1]
 OBVIOUS
<1>2. \A i \in 1 .. Len(s) : r[i + 1] = s[i]
 BY <1>1
<1> HIDE DEF r
<1>3. r # <<>>
 BY <1>1
<1>4. Tail(r) = s
 <2>1. /\ Tail(r) \in Seq(Frames) /\ Len(Tail(r)) = Len(s)
       /\ \A i \in 1 .. Len(s) : Tail(r)[i] = s[i]
  BY <1>1, <1>2, <1>3, HeadTailProperties
 <2> QED BY <2>1, SeqEqual
<1> QED BY <1>1, <1>2, <1>3, <1>4 DEF r

\* The function on top returns.
LEMMA Popped ==
    ASSUME NEW s \in Seq(Frames), s # <<>>
    PROVE  /\ Tail(s) \in Seq(Frames)
           /\ Len(s) \in Nat /\ Len(s) >= 1 /\ Len(Tail(s)) = Len(s) - 1
           /\ \A i \in 1 .. Len(s) - 1 : Tail(s)[i] = s[i + 1]
           /\ \A i \in 2 .. Len(s) : Tail(s)[i - 1] = s[i]
           /\ Head(s) = s[1]
           /\ s[1] \in Frames
           /\ Len(s) > 1 => Tail(s) # <<>>
<1>1. /\ Tail(s) \in Seq(Frames) /\ Len(s) \in Nat /\ Len(s) >= 1 /\ Len(Tail(s)) = Len(s) - 1
      /\ \A i \in 1 .. Len(s) - 1 : Tail(s)[i] = s[i + 1]
 BY HeadTailProperties, EmptySeq
<1>2. \A i \in 2 .. Len(s) : Tail(s)[i - 1] = s[i]
 BY <1>1
<1>3. Head(s) = s[1]
 BY <1>1
<1>4. Len(s) > 1 => Tail(s) # <<>>
 BY <1>1
<1>5. s[1] \in Frames
 BY <1>1, ElementOfSeq
<1> QED BY <1>1, <1>2, <1>3, <1>4, <1>5

\* Nothing runs.
LEMMA EmptyOK ==
    ASSUME NEW b \in BOOLEAN
    PROVE  StackOK(<<>>, b) /\ Calm(<<>>) /\ ~Restoring(<<>>) /\ <<>> \in Seq(Frames)
BY DEF StackOK, Calm, Restoring

\* A call of a calm stack returns.
LEMMA CalmPop ==
    ASSUME NEW s \in Seq(Frames), s # <<>>, Calm(s)
    PROVE  Calm(Tail(s))
BY Popped DEF Calm

\* No return opens a buffer again that was not to be.
LEMMA RestoringPop ==
    ASSUME NEW s \in Seq(Frames), s # <<>>
    PROVE  Restoring(Tail(s)) => Restoring(s)
<1> SUFFICES ASSUME NEW i \in 1 .. Len(Tail(s)), Tail(s)[i].fn = "restore"
             PROVE  Restoring(s)
 BY DEF Restoring
<1> i \in 1 .. Len(s) - 1 /\ i + 1 \in 1 .. Len(s)
 BY Popped
<1> Tail(s)[i] = s[i + 1]
 BY Popped
<1> QED BY DEF Restoring

\* Nor does a call that is no restore.
LEMMA RestoringPush ==
    ASSUME NEW s \in Seq(Frames), NEW f \in Frames
    PROVE  Restoring(<<f>> \o s) <=> (f.fn = "restore" \/ Restoring(s))
<1>1. ASSUME Restoring(<<f>> \o s) PROVE f.fn = "restore" \/ Restoring(s)
 <2>1. PICK i \in 1 .. Len(<<f>> \o s) : (<<f>> \o s)[i].fn = "restore"
  BY <1>1 DEF Restoring
 <2>2. CASE i = 1
  BY <2>1, <2>2, Pushed
 <2>3. CASE i # 1
  <3>1. i - 1 \in 1 .. Len(s) /\ (<<f>> \o s)[i] = s[i - 1]
   BY <2>1, <2>3, Pushed
  <3> QED BY <2>1, <3>1 DEF Restoring
 <2> QED BY <2>2, <2>3
<1>2. ASSUME f.fn = "restore" \/ Restoring(s) PROVE Restoring(<<f>> \o s)
 <2>1. CASE f.fn = "restore"
  BY <2>1, Pushed DEF Restoring
 <2>2. CASE Restoring(s)
  <3>1. PICK i \in 1 .. Len(s) : s[i].fn = "restore"
   BY <2>2 DEF Restoring
  <3>2. i + 1 \in 1 .. Len(<<f>> \o s) /\ (<<f>> \o s)[i + 1] = s[i]
   BY Pushed
  <3> QED BY <3>1, <3>2 DEF Restoring
 <2> QED BY <1>2, <2>1, <2>2
<1> QED BY <1>1, <1>2

\* Over a function that flushes nothing no buffer is half ended.
LEMMA TopCalm ==
    ASSUME NEW s, NEW b \in BOOLEAN, StackOK(s, b), s # <<>>
    PROVE  /\ ~Flushing(s[1]) => Calm(Tail(s))
           /\ s[1].fn \notin Flushers => Calm(s) /\ Calm(Tail(s))
           /\ s[1].fn \in {"ended", "handler"} => b
           /\ s[1].fn = "handler" => Tail(s) # <<>> /\ Tail(s)[1].fn = "ended" /\ Tail(s)[1] = s[2]
<1>1. /\ s \in Seq(Frames) /\ Len(s) \in Nat /\ Len(s) >= 1 /\ 1 \in 1 .. Len(s)
      /\ Len(Tail(s)) = Len(s) - 1 /\ \A i \in 1 .. Len(s) - 1 : Tail(s)[i] = s[i + 1]
      /\ Len(s) > 1 => Tail(s) # <<>>
 BY Popped DEF StackOK
<1>2. ASSUME ~Flushing(s[1]), NEW i \in 1 .. Len(s), i # 1 PROVE s[i].fn \notin {"ended", "handler"}
 <2>1. i \in 2 .. Len(s) /\ 1 \in 1 .. i - 1 /\ i - 1 \in 1 .. Len(s)
  BY <1>1, <1>2
 <2>2. s[i].fn # "handler"
  BY <1>2, <2>1 DEF StackOK
 <2>3. ASSUME s[i].fn = "ended" PROVE FALSE
  <3>1. s[i - 1].fn = "handler"
   BY <1>2, <2>3 DEF StackOK
  <3>2. i - 1 # 1
   BY <1>2, <3>1 DEF Flushing
  <3>3. 1 \in 1 .. (i - 1) - 1
   BY <2>1, <3>2
  <3> QED BY <1>2, <2>1, <3>1, <3>3 DEF StackOK
 <2> QED BY <2>2, <2>3
<1>3. ~Flushing(s[1]) => Calm(Tail(s))
 BY <1>1, <1>2 DEF Calm
<1>4. s[1].fn \notin Flushers => ~Flushing(s[1]) /\ s[1].fn \notin {"ended", "handler"}
 BY DEF Flushers, Flushing
<1>5. s[1].fn \notin Flushers => Calm(s)
 BY <1>1, <1>2, <1>4 DEF Calm
<1>6. s[1].fn = "ended" => b
 BY <1>1 DEF StackOK
<1>7. s[1].fn = "handler" => b /\ 1 < Len(s) /\ s[1 + 1].fn = "ended"
 <2>1. \A j \in 1 .. 1 - 1 : FALSE
  OBVIOUS
 <2> QED BY <1>1, <2>1 DEF StackOK
<1>8. s[1].fn = "handler" => Tail(s) # <<>> /\ Tail(s)[1].fn = "ended" /\ Tail(s)[1] = s[2]
 BY <1>1, <1>7
<1> QED BY <1>3, <1>4, <1>5, <1>6, <1>7, <1>8

\* A stack where no buffer is half ended is good with buffers and without.
LEMMA CalmAny ==
    ASSUME NEW s, NEW b \in BOOLEAN, StackOK(s, b), Calm(s), NEW c \in BOOLEAN
    PROVE  StackOK(s, c)
BY DEF StackOK, Calm

\* Popping.
LEMMA PopOK ==
    ASSUME NEW s, NEW b \in BOOLEAN, StackOK(s, b), s # <<>>, NEW c \in BOOLEAN,
           b \/ s[1].fn = "restore" => c
    PROVE  StackOK(Tail(s), c)
<1> DEFINE t == Tail(s)
<1>1. /\ t \in Seq(Frames) /\ Len(s) \in Nat /\ Len(s) >= 1 /\ Len(t) = Len(s) - 1
      /\ \A i \in 1 .. Len(s) - 1 : t[i] = s[i + 1]
 BY Popped DEF StackOK
<1> HIDE DEF t
<1>2. ASSUME NEW i \in 1 .. Len(t)
      PROVE  /\ t[i].fn \in Loops => i = Len(t)
             /\ t[i].fn = "ended" => IF i = 1 THEN c ELSE t[i - 1].fn = "handler"
             /\ t[i].fn = "handler" =>
                  /\ i < Len(t) /\ t[i + 1].fn = "ended"
                  /\ c \/ \E j \in 1 .. i - 1 : t[j].fn = "restore"
                  /\ \A j \in 1 .. i - 1 : Flushing(t[j])
 <2>1. i + 1 \in 1 .. Len(s) /\ t[i] = s[i + 1] /\ i + 1 # 1 /\ (i + 1) - 1 = i /\ 1 \in 1 .. Len(s)
  BY <1>1
 <2>2. t[i].fn \in Loops => i = Len(t)
  BY <1>1, <2>1 DEF StackOK
 <2>3. t[i].fn = "ended" => s[i].fn = "handler"
  BY <2>1 DEF StackOK
 <2>4. t[i].fn = "ended" => IF i = 1 THEN c ELSE t[i - 1].fn = "handler"
  <3>1. CASE i = 1
   BY <2>1, <2>3, <3>1, TopCalm
  <3>2. CASE i # 1
   <4>1. i - 1 \in 1 .. Len(s) - 1 /\ (i - 1) + 1 = i
    BY <1>1, <3>2
   <4> QED BY <2>3, <3>2, <4>1, <1>1
  <3> QED BY <3>1, <3>2
 <2>5. ASSUME t[i].fn = "handler"
       PROVE  /\ i < Len(t) /\ t[i + 1].fn = "ended"
              /\ c \/ \E j \in 1 .. i - 1 : t[j].fn = "restore"
              /\ \A j \in 1 .. i - 1 : Flushing(t[j])
  <3>1. /\ i + 1 < Len(s) /\ s[(i + 1) + 1].fn = "ended"
        /\ b \/ \E j \in 1 .. (i + 1) - 1 : s[j].fn = "restore"
        /\ \A j \in 1 .. (i + 1) - 1 : Flushing(s[j])
   BY <2>1, <2>5 DEF StackOK
  <3>2. i < Len(t) /\ t[i + 1].fn = "ended"
   <4>1. i < Len(t) /\ i + 1 \in 1 .. Len(s) - 1
    BY <1>1, <3>1
   <4> QED BY <4>1, <1>1, <3>1
  <3>3. ASSUME NEW j \in 1 .. (i + 1) - 1, s[j].fn = "restore", j # 1
        PROVE  \E k \in 1 .. i - 1 : t[k].fn = "restore"
   <4>1. j - 1 \in 1 .. i - 1 /\ j - 1 \in 1 .. Len(s) - 1 /\ (j - 1) + 1 = j
    BY <1>1, <3>3
   <4> QED BY <4>1, <3>3, <1>1
  <3>4. \A j \in 1 .. i - 1 : Flushing(t[j])
   <4> SUFFICES ASSUME NEW j \in 1 .. i - 1 PROVE Flushing(t[j])
    OBVIOUS
   <4>1. j + 1 \in 1 .. (i + 1) - 1 /\ j \in 1 .. Len(s) - 1
    BY <1>1
   <4> QED BY <4>1, <3>1, <1>1
  <3> QED BY <3>1, <3>2, <3>3, <3>4
 <2> QED BY <2>2, <2>4, <2>5
<1>3. StackOK(t, c)
 BY <1>1, <1>2 DEF StackOK
<1> QED BY <1>3 DEF t

\* Call f may be made on stack s, where b and c say that there is a buffer before
\* and after.
CanPush(f, s, b, c) ==
    /\ f.fn \notin Loops
    /\ Calm(s) \/ Flushing(f)
    /\ Calm(s) \/ f.fn = "restore" \/ (b => c)
    /\ f.fn = "handler" <=> (s # <<>> /\ s[1].fn = "ended")
    /\ f.fn \in {"ended", "handler"} => c

\* Pushing.
LEMMA PushOK ==
    ASSUME NEW s, NEW b \in BOOLEAN, StackOK(s, b), NEW c \in BOOLEAN, NEW f \in Frames,
           CanPush(f, s, b, c)
    PROVE  StackOK(<<f>> \o s, c)
<1> DEFINE r == <<f>> \o s
<1>1. /\ r \in Seq(Frames) /\ Len(s) \in Nat /\ Len(r) = Len(s) + 1 /\ r[1] = f
      /\ \A i \in 2 .. Len(s) + 1 : r[i] = s[i - 1]
 BY Pushed DEF StackOK
<1> HIDE DEF r
<1>2. s # <<>> => 1 \in 1 .. Len(s)
 <2>1. s \in Seq(Frames)
  BY DEF StackOK
 <2> QED BY <2>1, Popped
<1>3. ASSUME NEW i \in 1 .. Len(r)
      PROVE  /\ r[i].fn \in Loops => i = Len(r)
             /\ r[i].fn = "ended" => IF i = 1 THEN c ELSE r[i - 1].fn = "handler"
             /\ r[i].fn = "handler" =>
                  /\ i < Len(r) /\ r[i + 1].fn = "ended"
                  /\ c \/ \E j \in 1 .. i - 1 : r[j].fn = "restore"
                  /\ \A j \in 1 .. i - 1 : Flushing(r[j])
 <2>1. CASE i = 1
  <3>1. f.fn = "handler" => 1 < Len(r) /\ r[1 + 1].fn = "ended" /\ c
   BY <1>1, <1>2 DEF CanPush
  <3> QED BY <2>1, <3>1, <1>1 DEF CanPush
 <2>2. CASE i # 1
  <3>1. i \in 2 .. Len(s) + 1 /\ i - 1 \in 1 .. Len(s) /\ r[i] = s[i - 1]
   BY <1>1, <2>2
  <3>2. r[i].fn \in Loops => i = Len(r)
   BY <1>1, <3>1 DEF StackOK
  <3>3. r[i].fn = "ended" => r[i - 1].fn = "handler"
   <4>1. CASE i = 2
    <5>1. s # <<>>
     BY <3>1, <4>1, EmptySeq
    <5> QED BY <4>1, <5>1, <3>1, <1>1 DEF CanPush
   <4>2. CASE i # 2
    <5>1. i - 1 \in 2 .. Len(s) + 1 /\ i - 1 # 1
     BY <3>1, <4>2
    <5> QED BY <5>1, <3>1, <1>1 DEF StackOK
   <4> QED BY <4>1, <4>2
  <3>4. ASSUME r[i].fn = "handler"
        PROVE  /\ i < Len(r) /\ r[i + 1].fn = "ended"
               /\ c \/ \E j \in 1 .. i - 1 : r[j].fn = "restore"
               /\ \A j \in 1 .. i - 1 : Flushing(r[j])
   <4>1. /\ i - 1 < Len(s) /\ s[(i - 1) + 1].fn = "ended"
         /\ b \/ \E j \in 1 .. (i - 1) - 1 : s[j].fn = "restore"
         /\ \A j \in 1 .. (i - 1) - 1 : Flushing(s[j])
    BY <3>1, <3>4 DEF StackOK
   <4>2. ~Calm(s)
    BY <3>1, <3>4 DEF Calm
   <4>3. i < Len(r) /\ r[i + 1].fn = "ended"
    <5>1. i + 1 \in 2 .. Len(s) + 1 /\ (i - 1) + 1 = (i + 1) - 1 /\ i < Len(r)
     BY <1>1, <3>1, <4>1
    <5> QED BY <5>1, <4>1, <1>1
   <4>4. ASSUME NEW j \in 1 .. (i - 1) - 1
         PROVE  j + 1 \in 1 .. i - 1 /\ r[j + 1] = s[j]
    <5>1. j + 1 \in 2 .. Len(s) + 1 /\ j + 1 \in 1 .. i - 1 /\ (j + 1) - 1 = j
     BY <3>1
    <5> QED BY <5>1, <1>1
   <4>5. c \/ \E j \in 1 .. i - 1 : r[j].fn = "restore"
    <5>1. CASE f.fn = "restore"
     <6>1. 1 \in 1 .. i - 1
      BY <3>1
     <6> QED BY <5>1, <6>1, <1>1
    <5>2. CASE b => c
     BY <4>1, <4>4, <5>2
    <5> QED BY <5>1, <5>2, <4>2 DEF CanPush
   <4>6. ASSUME NEW j \in 1 .. i - 1 PROVE Flushing(r[j])
    <5>1. CASE j = 1
     BY <5>1, <4>2, <1>1 DEF CanPush
    <5>2. CASE j # 1
     <6>1. j - 1 \in 1 .. (i - 1) - 1 /\ (j - 1) + 1 = j
      BY <3>1, <5>2
     <6> QED BY <6>1, <4>1, <4>4
    <5> QED BY <5>1, <5>2
   <4> QED BY <4>3, <4>5, <4>6
  <3> QED BY <2>2, <3>2, <3>3, <3>4
 <2> QED BY <2>1, <2>2
<1>4. StackOK(r, c)
 BY <1>1, <1>3 DEF StackOK
<1> QED BY <1>4 DEF r

\* A call of another kind leaves no buffer half ended.
LEMMA PushCalm ==
    ASSUME NEW s \in Seq(Frames), Calm(s), NEW f \in Frames, f.fn \notin {"ended", "handler"}
    PROVE  Calm(<<f>> \o s)
<1> SUFFICES ASSUME NEW i \in 1 .. Len(<<f>> \o s)
             PROVE  (<<f>> \o s)[i].fn \notin {"ended", "handler"}
 BY DEF Calm
<1>1. CASE i = 1
 BY <1>1, Pushed
<1>2. CASE i # 1
 <2>1. i - 1 \in 1 .. Len(s) /\ (<<f>> \o s)[i] = s[i - 1]
  BY <1>2, Pushed
 <2> QED BY <2>1 DEF Calm
<1> QED BY <1>1, <1>2

\* What the phase says of the stack goes on while its loop is there.
LEMMA PhasePop ==
    ASSUME NEW s, NEW b \in BOOLEAN, NEW ph, StackOK(s, b), PhaseOK(s, ph), s # <<>>
    PROVE  /\ ph \notin {"headers", "done"}
           /\ s[1].fn \notin Loops =>
                /\ PhaseOK(Tail(s), ph)
                /\ ph \in {"end_buffers", "deactivate"} => Tail(s) # <<>>
           /\ s[1].fn \in Loops => /\ Tail(s) = <<>> /\ PhaseOK(Tail(s), ph)
                                   /\ ph = "end_buffers" => s[1].fn = "end_buffers"
                                   /\ ph = "deactivate" => s[1].fn = "destroy_list"
           /\ ph = "deactivate" => s[1].fn \in Dtors \cup {"destroy_list"}
<1>1. s \in Seq(Frames)
 BY DEF StackOK
<1> DEFINE t == Tail(s)
<1>2. /\ t \in Seq(Frames) /\ Len(s) \in Nat /\ Len(s) >= 1 /\ Len(t) = Len(s) - 1
      /\ \A i \in 1 .. Len(s) - 1 : t[i] = s[i + 1]
      /\ Len(s) > 1 => t # <<>>
 BY <1>1, Popped
<1> HIDE DEF t
<1>3. ph \notin {"headers", "done"}
 BY DEF PhaseOK
<1>4. t # <<>> => Len(t) >= 1 /\ t[Len(t)] = s[Len(s)]
 <2>1. t # <<>> => Len(t) \in Nat \ {0}
  BY <1>2, EmptySeq
 <2> QED BY <2>1, <1>2
<1>5. ph = "deactivate" => \A i \in 1 .. Len(t) : t[i].fn \in Dtors \cup {"destroy_list"}
 <2> SUFFICES ASSUME ph = "deactivate", NEW i \in 1 .. Len(t)
              PROVE  t[i].fn \in Dtors \cup {"destroy_list"}
  OBVIOUS
 <2>1. i + 1 \in 1 .. Len(s) /\ t[i] = s[i + 1]
  BY <1>2
 <2> QED BY <2>1 DEF PhaseOK
<1>6. PhaseOK(t, ph)
 BY <1>3, <1>4, <1>5 DEF PhaseOK
<1>7. 1 \in 1 .. Len(s)
 BY <1>2
<1>8. ASSUME s[1].fn \in Loops
      PROVE  /\ t = <<>>
             /\ ph = "end_buffers" => s[1].fn = "end_buffers"
             /\ ph = "deactivate" => s[1].fn = "destroy_list"
 <2>1. Len(s) = 1
  BY <1>8, <1>7 DEF StackOK
 <2>2. t = <<>>
  BY <2>1, <1>2
 <2> QED BY <2>1, <2>2 DEF PhaseOK
<1>9. ASSUME s[1].fn \notin Loops, ph \in {"end_buffers", "deactivate"} PROVE t # <<>>
 <2>1. s[Len(s)].fn \in Loops
  BY <1>9 DEF PhaseOK, Loops
 <2> QED BY <2>1, <1>9, <1>2
<1> QED BY <1>3, <1>6, <1>7, <1>8, <1>9 DEF t, PhaseOK

\* A call keeps the loop of the phase at the bottom.
LEMMA PhasePush ==
    ASSUME NEW s \in Seq(Frames), NEW f \in Frames, NEW ph, PhaseOK(s, ph),
           ph \notin {"headers", "done"},
           ph \in {"end_buffers", "deactivate"} => s # <<>>,
           ph = "deactivate" => f.fn \in Dtors
    PROVE  PhaseOK(<<f>> \o s, ph)
<1> DEFINE r == <<f>> \o s
<1>1. /\ r \in Seq(Frames) /\ Len(s) \in Nat /\ Len(r) = Len(s) + 1 /\ r[1] = f
      /\ \A i \in 2 .. Len(s) + 1 : r[i] = s[i - 1]
 BY Pushed
<1> HIDE DEF r
<1>2. s # <<>> => r[Len(r)] = s[Len(s)]
 <2>1. s # <<>> => Len(s) \in Nat \ {0}
  BY EmptySeq
 <2> QED BY <2>1, <1>1
<1>3. ph = "deactivate" => \A i \in 1 .. Len(r) : r[i].fn \in Dtors \cup {"destroy_list"}
 <2> SUFFICES ASSUME ph = "deactivate", NEW i \in 1 .. Len(r)
              PROVE  r[i].fn \in Dtors \cup {"destroy_list"}
  OBVIOUS
 <2>1. CASE i = 1
  BY <2>1, <1>1
 <2>2. CASE i # 1
  <3>1. i - 1 \in 1 .. Len(s) /\ r[i] = s[i - 1]
   BY <2>2, <1>1
  <3> QED BY <3>1 DEF PhaseOK
 <2> QED BY <2>1, <2>2
<1>4. PhaseOK(r, ph)
 BY <1>2, <1>3 DEF PhaseOK
<1> QED BY <1>4 DEF r

\* Two calls, the first of which goes on when the second is done.
LEMMA PushTwo ==
    ASSUME NEW s \in Seq(Frames), NEW f \in Frames, NEW g \in Frames
    PROVE  <<f, g>> \o s = <<f>> \o (<<g>> \o s)
<1>1. <<f, g>> = <<f>> \o <<g>>
 <2>1. /\ <<f, g>> \in Seq(Frames) /\ Len(<<f, g>>) = 2
       /\ <<f, g>>[1] = f /\ <<f, g>>[2] = g
  OBVIOUS
 <2>2. /\ <<f>> \o <<g>> \in Seq(Frames) /\ Len(<<f>> \o <<g>>) = 2
       /\ (<<f>> \o <<g>>)[1] = f /\ (<<f>> \o <<g>>)[2] = g
  OBVIOUS
 <2>3. \A i \in 1 .. 2 : i = 1 \/ i = 2
  OBVIOUS
 <2>4. \A i \in 1 .. 2 : <<f, g>>[i] = (<<f>> \o <<g>>)[i]
  BY <2>1, <2>2, <2>3
 <2> QED BY <2>1, <2>2, <2>4, SeqEqual
<1>2. <<f>> \in Seq(Frames) /\ <<g>> \in Seq(Frames)
 OBVIOUS
<1>3. (<<f>> \o <<g>>) \o s = <<f>> \o (<<g>> \o s)
 BY <1>2, ConcatAssociative
<1> QED BY <1>1, <1>3

--------------------
(* The references of resources, in the list and on the stack.              *)

\* The calls that have to release h are finitely many.
LEMMA HeldBound ==
    ASSUME NEW s \in Seq(Frames), NEW h
    PROVE  /\ HeldAt(s, h) \subseteq 1 .. Len(s)
           /\ IsFiniteSet(HeldAt(s, h)) /\ Cardinality(HeldAt(s, h)) \in Nat
           /\ HeldAt(s, h) = {} <=> Cardinality(HeldAt(s, h)) = 0
<1>1. HeldAt(s, h) \subseteq 1 .. Len(s) /\ Len(s) \in Nat
 BY DEF HeldAt
<1>2. IsFiniteSet(1 .. Len(s))
 BY <1>1, FS_Interval
<1> QED BY <1>1, <1>2, FS_Subset, FS_CardinalityType, FS_EmptySet

\* So are the resources that hold it.
LEMMA HoldersBound ==
    ASSUME NEW l, NEW h
    PROVE  /\ Holders(l, h) \subseteq Ids
           /\ IsFiniteSet(Holders(l, h)) /\ Cardinality(Holders(l, h)) \in Nat
           /\ Holders(l, h) = {} <=> Cardinality(Holders(l, h)) = 0
<1>1. Holders(l, h) \subseteq Ids
 BY DEF Holders
<1>2. IsFiniteSet(Ids)
 BY FS_Interval, ResourceAssumption DEF Ids
<1> QED BY <1>1, <1>2, FS_Subset, FS_CardinalityType, FS_EmptySet

\* What a call on top of s has still to release.
LEMMA HeldPush ==
    ASSUME NEW s \in Seq(Frames), NEW f \in Frames, NEW h
    PROVE  IF f.fn \in Dtors /\ f.holds = h
           THEN Cardinality(HeldAt(<<f>> \o s, h)) = Cardinality(HeldAt(s, h)) + 1
           ELSE HeldAt(<<f>> \o s, h) = HeldAt(s, h)
<1> DEFINE r == <<f>> \o s
<1>1. /\ Len(s) \in Nat /\ Len(r) = Len(s) + 1 /\ r[1] = f
      /\ \A i \in 2 .. Len(s) + 1 : r[i] = s[i - 1]
 BY Pushed
<1> HIDE DEF r
<1>2. \A j \in 1 .. Len(s) : r[Len(r) + 1 - j] = s[Len(s) + 1 - j]
 <2> SUFFICES ASSUME NEW j \in 1 .. Len(s) PROVE r[Len(r) + 1 - j] = s[Len(s) + 1 - j]
  OBVIOUS
 <2>1. Len(r) + 1 - j \in 2 .. Len(s) + 1 /\ (Len(r) + 1 - j) - 1 = Len(s) + 1 - j
  BY <1>1
 <2> QED BY <2>1, <1>1
<1>3. r[Len(r) + 1 - (Len(s) + 1)] = f
 BY <1>1
<1>4. 1 .. Len(r) = 1 .. Len(s) \cup {Len(s) + 1}
 BY <1>1
<1>5. ASSUME NEW j
      PROVE  j \in HeldAt(r, h) <=> \/ j \in HeldAt(s, h)
                                    \/ j = Len(s) + 1 /\ f.fn \in Dtors /\ f.holds = h
 <2>1. CASE j \in 1 .. Len(s)
  <3>1. j # Len(s) + 1 /\ j \in 1 .. Len(r)
   BY <2>1, <1>1
  <3> QED BY <2>1, <3>1, <1>2 DEF HeldAt
 <2>2. CASE j = Len(s) + 1
  <3>1. j \notin 1 .. Len(s) /\ j \in 1 .. Len(r)
   BY <2>2, <1>1
  <3> QED BY <2>2, <3>1, <1>3 DEF HeldAt
 <2>3. CASE j \notin 1 .. Len(s) /\ j # Len(s) + 1
  BY <2>3, <1>4 DEF HeldAt
 <2> QED BY <2>1, <2>2, <2>3
<1>6. ASSUME f.fn \in Dtors, f.holds = h
      PROVE  Cardinality(HeldAt(r, h)) = Cardinality(HeldAt(s, h)) + 1
 <2>1. HeldAt(r, h) = HeldAt(s, h) \cup {Len(s) + 1}
  BY <1>5, <1>6
 <2>2. Len(s) + 1 \notin HeldAt(s, h)
  BY <1>1 DEF HeldAt
 <2>3. IsFiniteSet(HeldAt(s, h))
  BY HeldBound
 <2> QED BY <2>1, <2>2, <2>3, FS_AddElement
<1>7. ~(f.fn \in Dtors /\ f.holds = h) => HeldAt(r, h) = HeldAt(s, h)
 BY <1>5
<1> QED BY <1>6, <1>7 DEF r

\* A call that was to release h, or was not, is over.
LEMMA HeldPop ==
    ASSUME NEW s \in Seq(Frames), s # <<>>, NEW h
    PROVE  /\ HeldAt(Tail(s), h) \subseteq HeldAt(s, h)
           /\ IF s[1].fn \in Dtors /\ s[1].holds = h
              THEN Cardinality(HeldAt(s, h)) = Cardinality(HeldAt(Tail(s), h)) + 1
              ELSE HeldAt(Tail(s), h) = HeldAt(s, h)
<1> DEFINE t == Tail(s)
<1>1. /\ t \in Seq(Frames) /\ Len(s) \in Nat /\ Len(s) >= 1 /\ Len(t) = Len(s) - 1
      /\ \A i \in 1 .. Len(s) - 1 : t[i] = s[i + 1]
 BY Popped
<1> HIDE DEF t
<1>2. \A j \in 1 .. Len(t) : t[Len(t) + 1 - j] = s[Len(s) + 1 - j]
 <2> SUFFICES ASSUME NEW j \in 1 .. Len(t) PROVE t[Len(t) + 1 - j] = s[Len(s) + 1 - j]
  OBVIOUS
 <2>1. Len(t) + 1 - j \in 1 .. Len(s) - 1 /\ (Len(t) + 1 - j) + 1 = Len(s) + 1 - j
  BY <1>1
 <2> QED BY <2>1, <1>1
<1>3. s[Len(s) + 1 - Len(s)] = s[1]
 BY <1>1
<1>4. ASSUME NEW j
      PROVE  j \in HeldAt(s, h) <=> \/ j \in HeldAt(t, h)
                                    \/ j = Len(s) /\ s[1].fn \in Dtors /\ s[1].holds = h
 <2>1. CASE j \in 1 .. Len(t)
  <3>1. j # Len(s) /\ j \in 1 .. Len(s)
   BY <2>1, <1>1
  <3> QED BY <2>1, <3>1, <1>2 DEF HeldAt
 <2>2. CASE j = Len(s)
  <3>1. j \notin 1 .. Len(t) /\ j \in 1 .. Len(s)
   BY <2>2, <1>1
  <3> QED BY <2>2, <3>1, <1>3 DEF HeldAt
 <2>3. CASE j \notin 1 .. Len(t) /\ j # Len(s)
  <3>1. j \notin 1 .. Len(s)
   BY <2>3, <1>1
  <3> QED BY <2>3, <3>1 DEF HeldAt
 <2> QED BY <2>1, <2>2, <2>3
<1>5. Len(s) \notin HeldAt(t, h)
 BY <1>1 DEF HeldAt
<1>6. ASSUME s[1].fn \in Dtors, s[1].holds = h
      PROVE  Cardinality(HeldAt(s, h)) = Cardinality(HeldAt(t, h)) + 1
 <2>1. HeldAt(s, h) = HeldAt(t, h) \cup {Len(s)}
  BY <1>4, <1>6
 <2>2. IsFiniteSet(HeldAt(t, h))
  BY <1>1, HeldBound
 <2> QED BY <2>1, <2>2, <1>5, FS_AddElement
<1>7. ~(s[1].fn \in Dtors /\ s[1].holds = h) => HeldAt(t, h) = HeldAt(s, h)
 BY <1>4
<1>8. HeldAt(t, h) \subseteq HeldAt(s, h)
 BY <1>4
<1> QED BY <1>6, <1>7, <1>8 DEF t

\* No more calls have something to release than before.
Released(s, r) == \A h \in Ids : HeldAt(r, h) \subseteq HeldAt(s, h)

\* Then every reference is still counted.
LEMMA ReleasedCounted ==
    ASSUME NEW l, NEW refs \in [Ids -> Nat], NEW s \in Seq(Frames), NEW r \in Seq(Frames),
           \A h \in Ids : l[h] # NULL => l[h].refs \in Nat,
           Counted(l, refs, s), Released(s, r)
    PROVE  Counted(l, refs, r)
<1> SUFFICES ASSUME NEW h \in Ids
             PROVE  IF l[h] = NULL THEN Holders(l, h) = {} /\ HeldAt(r, h) = {}
                    ELSE l[h].refs >= refs[h] + Cardinality(Holders(l, h)) + Cardinality(HeldAt(r, h))
 BY DEF Counted
<1>1. HeldAt(r, h) \subseteq HeldAt(s, h)
 BY DEF Released
<1>2. CASE l[h] = NULL
 BY <1>1, <1>2 DEF Counted
<1>3. CASE l[h] # NULL
 <2>1. Cardinality(HeldAt(r, h)) <= Cardinality(HeldAt(s, h))
  BY <1>1, HeldBound, FS_Subset
 <2>2. /\ Cardinality(HeldAt(r, h)) \in Nat /\ Cardinality(HeldAt(s, h)) \in Nat
       /\ Cardinality(Holders(l, h)) \in Nat
       /\ l[h].refs \in Nat /\ refs[h] \in Nat
  BY <1>3, HeldBound, HoldersBound
 <2>3. l[h].refs >= refs[h] + Cardinality(Holders(l, h)) + Cardinality(HeldAt(s, h))
  BY <1>3 DEF Counted
 <2> QED BY <1>3, <2>1, <2>2, <2>3
<1> QED BY <1>2, <1>3

\* A call returns.
LEMMA ReleasedPop ==
    ASSUME NEW s \in Seq(Frames), s # <<>>
    PROVE  Released(s, Tail(s))
BY HeldPop DEF Released

\* A call is made that has nothing to release.
LEMMA ReleasedPush ==
    ASSUME NEW s, NEW r \in Seq(Frames), Released(s, r), NEW f \in Frames, f.fn \notin Dtors
    PROVE  Released(s, <<f>> \o r)
BY HeldPush DEF Released

\* A bailout: what it throws away is not released.
LEMMA ReleasedEmpty ==
    ASSUME NEW s
    PROVE  Released(s, s) /\ Released(s, <<>>)
BY DEF Released, HeldAt

--------------------
(* The texts of buffers: FlattenSeq goes on to a longer sequence.          *)

\* A set of natural numbers has a least member.
LEMMA Least ==
    ASSUME NEW S \in SUBSET Nat, S # {}
    PROVE  \E x \in S : \A y \in S : x <= y
<1>1. PICK x \in S : \A y \in S : ~(<<y, x>> \in OpToRel(<, Nat))
 BY WFMin, NatLessThanWellFounded, Zenon
<1>2. ASSUME NEW y \in S PROVE x <= y
 <2>1. ~(y < x)
  BY <1>1 DEF OpToRel
 <2> QED BY <2>1
<1> QED BY <1>2

\* f concatenates the first members of s, as FlattenSeq does.
Flattens(f, s, n) ==
    f = [i \in 1 .. n |-> IF i = 1 THEN s[i] ELSE f[i-1] \o s[i]]

\* FlattenSeq is well defined: by the least n for which it would not be.
LEMMA FlattenExists ==
    ASSUME NEW s, NEW n \in Nat
    PROVE  \E f : Flattens(f, s, n)
<1> DEFINE Bad == {k \in 0 .. n : ~ \E f : Flattens(f, s, k)}
<1>1. SUFFICES ASSUME Bad # {} PROVE FALSE
 BY <1>1
<1>2. PICK m \in Bad : \A k \in Bad : m <= k
 <2>1. Bad \subseteq Nat
  OBVIOUS
 <2> HIDE DEF Bad
 <2> QED BY <1>1, <2>1, Least
<1>3. CASE m = 0
 <2>1. Flattens([i \in 1 .. 0 |-> 0], s, 0)
  BY DEF Flattens
 <2> QED BY <2>1, <1>2, <1>3
<1>4. CASE m # 0
 <2>1. m - 1 \in 0 .. n /\ m - 1 \notin Bad
  BY <1>2, <1>4
 <2>2. PICK f : Flattens(f, s, m - 1)
  BY <2>1
 <2> DEFINE g == [i \in 1 .. m |->
                    IF i = 1 THEN s[i]
                    ELSE IF i = m THEN f[m - 1] \o s[m] ELSE f[i]]
 <2>3. ASSUME NEW i \in 1 .. m
       PROVE  g[i] = IF i = 1 THEN s[i] ELSE g[i-1] \o s[i]
  <3>1. CASE i = 1
   BY <3>1
  <3>2. CASE i # 1
   <4>1. i - 1 \in 1 .. m /\ i - 1 # m /\ i - 1 \in 1 .. m - 1
    BY <3>2, <1>2
   <4>2. g[i-1] = f[i-1]
    <5>1. CASE i - 1 = 1
     <6>1. f[1] = s[1]
      BY <2>2, <4>1, <5>1 DEF Flattens
     <6> QED BY <6>1, <5>1, <4>1
    <5>2. CASE i - 1 # 1
     BY <5>2, <4>1
    <5> QED BY <5>1, <5>2
   <4>3. g[i] = f[i-1] \o s[i]
    <5>1. CASE i = m
     BY <5>1, <3>2
    <5>2. CASE i # m
     <6>1. i \in 1 .. m - 1 /\ g[i] = f[i]
      BY <5>2, <3>2, <1>2
     <6>2. f[i] = f[i-1] \o s[i]
      BY <6>1, <2>2, <3>2, Zenon DEF Flattens
     <6> QED BY <6>1, <6>2
    <5> QED BY <5>1, <5>2
   <4> QED BY <4>2, <4>3, <3>2
  <3> QED BY <3>1, <3>2
 <2>4. Flattens(g, s, m)
  <3> g = [i \in 1 .. m |-> g[i]]
   OBVIOUS
  <3> HIDE DEF g
  <3> QED BY <2>3, Zenon DEF Flattens
 <2> QED BY <2>4, <1>2
<1> QED BY <1>3, <1>4

\* The first members of s alone decide it.
LEMMA FlattenUnique ==
    ASSUME NEW s, NEW t, NEW f, NEW g, NEW n \in Nat, NEW m \in Nat, n <= m,
           Flattens(f, s, n), Flattens(g, t, m), \A i \in 1 .. n : s[i] = t[i]
    PROVE  \A i \in 1 .. n : f[i] = g[i]
<1> DEFINE Bad == {i \in 1 .. n : f[i] # g[i]}
<1>1. SUFFICES ASSUME Bad # {} PROVE FALSE
 BY <1>1
<1>2. PICK k \in Bad : \A i \in Bad : k <= i
 <2>1. Bad \subseteq Nat
  OBVIOUS
 <2> HIDE DEF Bad
 <2> QED BY <1>1, <2>1, Least
<1>3. /\ f[k] = IF k = 1 THEN s[k] ELSE f[k-1] \o s[k]
      /\ g[k] = IF k = 1 THEN t[k] ELSE g[k-1] \o t[k]
 <2>1. k \in 1 .. n /\ k \in 1 .. m
  BY <1>2
 <2> QED BY <2>1, Zenon DEF Flattens
<1>4. CASE k = 1
 BY <1>2, <1>3, <1>4
<1>5. CASE k # 1
 <2>1. k - 1 \in 1 .. n /\ k - 1 \notin Bad
  BY <1>2, <1>5
 <2> QED BY <2>1, <1>2, <1>3, <1>5
<1> QED BY <1>4, <1>5

\* FlattenSeq of the community modules, unfolded.
LEMMA FlattenSeqIs ==
    ASSUME NEW s, Len(s) \in Nat \ {0}
    PROVE  \E f : Flattens(f, s, Len(s)) /\ FlattenSeq(s) = f[Len(s)]
<1> DEFINE c == CHOOSE f : Flattens(f, s, Len(s))
<1>1. Flattens(c, s, Len(s))
 BY FlattenExists
<1>2. FlattenSeq(s) = c[Len(s)]
 BY DEF FlattenSeq, Flattens
<1> QED BY <1>1, <1>2

\* One more sequence at the end.
LEMMA FlattenAppend ==
    ASSUME NEW S, NEW s \in Seq(Seq(S)), NEW x \in Seq(S)
    PROVE  FlattenSeq(Append(s, x)) = FlattenSeq(s) \o x
<1> DEFINE t == Append(s, x)
           n == Len(s)
<1>1. /\ n \in Nat /\ Len(t) = n + 1 /\ t[n + 1] = x
      /\ \A i \in 1 .. n : s[i] = t[i]
 OBVIOUS
<1> HIDE DEF t
<1>2. PICK g : Flattens(g, t, n + 1) /\ FlattenSeq(t) = g[n + 1]
 BY <1>1, FlattenSeqIs
<1>3. CASE n = 0
 <2>1. g[1] = t[1]
  BY <1>2, <1>3 DEF Flattens
 <2>2. s = <<>> /\ FlattenSeq(s) = <<>>
  BY <1>3 DEF FlattenSeq
 <2>3. <<>> \o x = x
  BY ConcatEmptySeq
 <2> QED BY <2>1, <2>2, <2>3, <1>1, <1>2, <1>3 DEF t
<1>4. CASE n # 0
 <2>1. PICK f : Flattens(f, s, n) /\ FlattenSeq(s) = f[n]
  BY <1>1, <1>4, FlattenSeqIs
 <2>2. f[n] = g[n]
  <3>1. \A i \in 1 .. n : f[i] = g[i]
   <4> HIDE DEF n
   <4>1. n \in Nat /\ n + 1 \in Nat /\ n <= n + 1
    BY <1>1
   <4>2. Flattens(f, s, n) /\ Flattens(g, t, n + 1)
    BY <1>2, <2>1
   <4>3. \A i \in 1 .. n : s[i] = t[i]
    BY <1>1
   <4> QED BY <4>1, <4>2, <4>3, FlattenUnique
  <3> QED BY <3>1, <1>1, <1>4
 <2>3. g[n + 1] = g[n] \o t[n + 1]
  <3>1. n + 1 \in 1 .. n + 1 /\ n + 1 # 1 /\ (n + 1) - 1 = n
   BY <1>1, <1>4
  <3>2. g[n + 1] = IF n + 1 = 1 THEN t[n + 1] ELSE g[(n + 1) - 1] \o t[n + 1]
   <4> HIDE DEF n
   <4> QED BY <3>1, <1>2, Zenon DEF Flattens
  <3> QED BY <3>1, <3>2
 <2> QED BY <1>1, <1>2, <2>1, <2>2, <2>3 DEF t
<1> QED BY <1>3, <1>4

\* It is a sequence of what the sequences hold.
LEMMA FlattenType ==
    ASSUME NEW S, NEW s \in Seq(Seq(S))
    PROVE  FlattenSeq(s) \in Seq(S)
<1>1. CASE Len(s) = 0
 BY <1>1 DEF FlattenSeq
<1>2. CASE Len(s) # 0
 <2>1. Len(s) \in Nat \ {0}
  BY <1>2
 <2>2. PICK f : Flattens(f, s, Len(s)) /\ FlattenSeq(s) = f[Len(s)]
  BY <2>1, FlattenSeqIs
 <2> DEFINE n == Len(s)
            Bad == {i \in 1 .. n : f[i] \notin Seq(S)}
 <2>3. ASSUME Bad # {} PROVE FALSE
  <3>1. PICK k \in Bad : \A i \in Bad : k <= i
   <4>1. Bad \subseteq Nat
    OBVIOUS
   <4> HIDE DEF Bad
   <4> QED BY <2>3, <4>1, Least
  <3>2. f[k] = IF k = 1 THEN s[k] ELSE f[k-1] \o s[k]
   <4>1. k \in 1 .. n
    BY <3>1
   <4> QED BY <4>1, <2>2, Zenon DEF Flattens
  <3>3. k = 1 \/ f[k-1] \in Seq(S)
   <4>1. CASE k # 1
    <5>1. k - 1 \in 1 .. n /\ k - 1 \notin Bad
     BY <2>1, <3>1, <4>1
    <5> QED BY <5>1
   <4> QED BY <4>1
  <3>4. s[k] \in Seq(S)
   BY <3>1, ElementOfSeq
  <3>5. f[k] \notin Seq(S)
   BY <3>1
  <3>6. CASE k = 1
   BY <3>2, <3>4, <3>5, <3>6
  <3>7. CASE k # 1
   BY <3>2, <3>3, <3>4, <3>5, <3>7, ConcatProperties
  <3> QED BY <3>6, <3>7
 <2>4. Len(s) \in 1 .. n /\ Len(s) \notin Bad
  BY <2>1, <2>3
 <2> QED BY <2>2, <2>4
<1> QED BY <1>1, <1>2

\* The texts of buffers.
LEMMA TextsOf ==
    ASSUME NEW b \in Seq(Buffers)
    PROVE  /\ [i \in DOMAIN b |-> b[i].text] \in Seq(Seq(Nat))
           /\ Len([i \in DOMAIN b |-> b[i].text]) = Len(b)
<1> DEFINE s == [i \in DOMAIN b |-> b[i].text]
           n == Len(b)
<1>1. n \in Nat /\ DOMAIN b = 1 .. n
 BY LenProperties
<1>2. ASSUME NEW i \in 1 .. n PROVE b[i].text \in Seq(Nat)
 <2>1. b[i] \in Buffers
  BY ElementOfSeq
 <2> QED BY <2>1 DEF Buffers
<1>3. s \in [1 .. n -> Seq(Nat)]
 BY <1>1, <1>2
<1> HIDE DEF s, n
<1>4. s \in Seq(Seq(Nat))
 BY <1>1, <1>3, SeqDef
<1>5. Len(s) = n
 BY <1>1, <1>3, <1>4
<1> QED BY <1>4, <1>5 DEF s, n

\* What is in buffers.
LEMMA TextsType ==
    ASSUME NEW b \in Seq(Buffers)
    PROVE  Texts(b) \in Seq(Nat) /\ Texts(<<>>) = <<>>
<1>1. [i \in DOMAIN b |-> b[i].text] \in Seq(Seq(Nat))
 BY TextsOf
<1>2. [i \in DOMAIN <<>> |-> <<>>[i].text] = <<>>
 OBVIOUS
<1>3. Texts(<<>>) = <<>>
 BY <1>2 DEF Texts, FlattenSeq
<1> QED BY <1>1, <1>3, FlattenType DEF Texts

\* One more buffer on top.
LEMMA TextsAppend ==
    ASSUME NEW b \in Seq(Buffers), NEW x \in Buffers
    PROVE  Texts(Append(b, x)) = Texts(b) \o x.text
<1> DEFINE s == [i \in DOMAIN b |-> b[i].text]
           t == [i \in DOMAIN Append(b, x) |-> Append(b, x)[i].text]
<1>1. s \in Seq(Seq(Nat)) /\ x.text \in Seq(Nat) /\ Len(s) = Len(b) /\ Len(b) \in Nat
 BY TextsOf DEF Buffers
<1>2. /\ Append(b, x) \in Seq(Buffers) /\ Len(Append(b, x)) = Len(b) + 1
      /\ DOMAIN Append(b, x) = 1 .. Len(b) + 1
      /\ \A i \in 1 .. Len(b) : Append(b, x)[i] = b[i]
      /\ Append(b, x)[Len(b) + 1] = x
 OBVIOUS
<1>3. t \in Seq(Seq(Nat)) /\ Len(t) = Len(b) + 1
 BY <1>2, TextsOf
<1>4. \A i \in 1 .. Len(b) : t[i] = s[i]
 BY <1>2
<1>5. t[Len(b) + 1] = x.text
 BY <1>2, <1>1
<1> HIDE DEF s, t
<1>6. /\ Append(s, x.text) \in Seq(Seq(Nat)) /\ Len(Append(s, x.text)) = Len(b) + 1
      /\ \A i \in 1 .. Len(b) : Append(s, x.text)[i] = s[i]
      /\ Append(s, x.text)[Len(b) + 1] = x.text
 BY <1>1, AppendProperties
<1>7. \A i \in 1 .. Len(b) + 1 : t[i] = Append(s, x.text)[i]
 BY <1>1, <1>4, <1>5, <1>6
<1>8. t = Append(s, x.text)
 BY <1>3, <1>6, <1>7, SeqEqual
<1>9. FlattenSeq(t) = FlattenSeq(s) \o x.text
 BY <1>1, <1>8, FlattenAppend
<1> QED BY <1>9 DEF s, t, Texts

\* The active buffer and those below it.
LEMMA ActiveBuffer ==
    ASSUME NEW b \in Seq(Buffers), b # <<>>
    PROVE  /\ Front(b) \in Seq(Buffers) /\ Last(b) \in Buffers
           /\ Texts(b) = Texts(Front(b)) \o Last(b).text
<1>1. Len(b) \in Nat /\ Len(b) >= 1
 BY EmptySeq
<1>2. /\ Front(b) \in Seq(Buffers) /\ Len(Front(b)) = Len(b) - 1
      /\ \A i \in 1 .. Len(b) - 1 : Front(b)[i] = b[i]
 <2>1. \A i \in 1 .. Len(b) - 1 : b[i] \in Buffers
  BY <1>1, ElementOfSeq
 <2>2. /\ SubSeq(b, 1, Len(b) - 1) \in Seq(Buffers)
       /\ Len(SubSeq(b, 1, Len(b) - 1)) = IF 1 <= Len(b) - 1 THEN (Len(b) - 1) - 1 + 1 ELSE 0
       /\ \A i \in 1 .. (Len(b) - 1) - 1 + 1 : SubSeq(b, 1, Len(b) - 1)[i] = b[1 + i - 1]
  BY <1>1, <2>1, SubSeqProperties
 <2>3. ASSUME NEW n \in Nat, n >= 1
       PROVE  /\ (n - 1) - 1 + 1 = n - 1
              /\ \A i \in 1 .. n - 1 : 1 + i - 1 = i
              /\ ~(1 <= n - 1) => n - 1 = 0
  BY <2>3
 <2>4. \A i \in 1 .. Len(b) - 1 : SubSeq(b, 1, Len(b) - 1)[i] = b[i]
  BY <1>1, <2>2, <2>3
 <2>5. Len(SubSeq(b, 1, Len(b) - 1)) = Len(b) - 1
  BY <1>1, <2>2, <2>3
 <2> QED BY <2>2, <2>4, <2>5 DEF Front
<1>3. Last(b) \in Buffers
 BY <1>1, ElementOfSeq DEF Last
<1>4. b = Append(Front(b), Last(b))
 <2> DEFINE c == Append(Front(b), Last(b))
 <2>1. /\ c \in Seq(Buffers) /\ Len(c) = Len(b)
       /\ \A i \in 1 .. Len(b) - 1 : c[i] = b[i]
       /\ c[Len(b)] = Last(b)
  BY <1>1, <1>2, <1>3, AppendProperties
 <2> HIDE DEF c
 <2>2. \A i \in 1 .. Len(b) : c[i] = b[i]
  BY <1>1, <2>1 DEF Last
 <2>3. c = b
  BY <2>1, <2>2, SeqEqual
 <2> QED BY <2>3 DEF c
<1>5. Texts(Append(Front(b), Last(b))) = Texts(Front(b)) \o Last(b).text
 BY <1>2, <1>3, TextsAppend
<1> QED BY <1>2, <1>3, <1>4, <1>5

--------------------
(* What has been printed is there, and what has not been thrown away is in *)
(* order.                                                                  *)

Increasing(o) == \A i, j \in DOMAIN o : i < j => o[i] < o[j]

Exact(o, d, e, p, x) ==
    /\ ToSet(o) \cup d \cup e = 1 .. p
    /\ "repeated" \notin x => Increasing(o) /\ ToSet(o) \cap d = {}

\* The elements of a concatenation.
LEMMA ToSetConcat ==
    ASSUME NEW o \in Seq(Nat), NEW x \in Seq(Nat)
    PROVE  ToSet(o \o x) = ToSet(o) \cup ToSet(x)
<1>1. /\ o \o x \in Seq(Nat) /\ Len(o) \in Nat /\ Len(x) \in Nat
      /\ Len(o \o x) = Len(o) + Len(x)
      /\ \A i \in 1 .. Len(o) + Len(x) :
           (o \o x)[i] = IF i <= Len(o) THEN o[i] ELSE x[i - Len(o)]
 BY ConcatProperties
<1>2. /\ DOMAIN o = 1 .. Len(o) /\ DOMAIN x = 1 .. Len(x)
      /\ DOMAIN (o \o x) = 1 .. Len(o) + Len(x)
 BY <1>1
<1>3. ASSUME NEW v \in ToSet(o \o x) PROVE v \in ToSet(o) \cup ToSet(x)
 <2>1. PICK i \in 1 .. Len(o) + Len(x) : v = (o \o x)[i]
  BY <1>2, <1>3 DEF ToSet
 <2>2. CASE i <= Len(o)
  <3>1. i \in 1 .. Len(o) /\ v = o[i]
   BY <1>1, <2>1, <2>2
  <3> QED BY <3>1, <1>2 DEF ToSet
 <2>3. CASE ~(i <= Len(o))
  <3>1. i - Len(o) \in 1 .. Len(x) /\ v = x[i - Len(o)]
   BY <1>1, <2>1, <2>3
  <3> QED BY <3>1, <1>2 DEF ToSet
 <2> QED BY <2>2, <2>3
<1>4. ASSUME NEW v \in ToSet(o) PROVE v \in ToSet(o \o x)
 <2>1. PICK i \in 1 .. Len(o) : v = o[i]
  BY <1>2, <1>4 DEF ToSet
 <2>2. i \in 1 .. Len(o) + Len(x) /\ v = (o \o x)[i]
  BY <1>1, <2>1
 <2> QED BY <2>2, <1>2 DEF ToSet
<1>5. ASSUME NEW v \in ToSet(x) PROVE v \in ToSet(o \o x)
 <2>1. PICK i \in 1 .. Len(x) : v = x[i]
  BY <1>2, <1>5 DEF ToSet
 <2>2. /\ Len(o) + i \in 1 .. Len(o) + Len(x) /\ ~(Len(o) + i <= Len(o))
       /\ (Len(o) + i) - Len(o) = i
  BY <1>1
 <2>3. v = (o \o x)[Len(o) + i]
  BY <1>1, <2>1, <2>2
 <2> QED BY <2>2, <2>3, <1>2 DEF ToSet
<1> QED BY <1>3, <1>4, <1>5

\* Concatenation, for the provers.
LEMMA Associative ==
    ASSUME NEW x \in Seq(Nat), NEW y \in Seq(Nat), NEW z \in Seq(Nat)
    PROVE  (x \o y) \o z = x \o (y \o z)
<1>1. /\ (x \o y) \o z \in Seq(Nat) /\ Len((x \o y) \o z) = Len(x) + Len(y) + Len(z)
      /\ x \o (y \o z) \in Seq(Nat) /\ Len(x \o (y \o z)) = Len(x) + Len(y) + Len(z)
      /\ Len(x) \in Nat /\ Len(y) \in Nat /\ Len(z) \in Nat
 OBVIOUS
<1>2. ASSUME NEW i \in 1 .. Len(x) + Len(y) + Len(z)
      PROVE  ((x \o y) \o z)[i] = (x \o (y \o z))[i]
 <2>1. CASE i <= Len(x)
  BY <2>1, <1>1
 <2>2. CASE i > Len(x) /\ i <= Len(x) + Len(y)
  BY <2>2, <1>1
 <2>3. CASE i > Len(x) + Len(y)
  BY <2>3, <1>1
 <2> QED BY <2>1, <2>2, <2>3, <1>1
<1> QED BY <1>1, <1>2, SeqEqual

\* One thing more is printed, by a handler or not (e2).
LEMMA ExactPrint ==
    ASSUME NEW o \in Seq(Nat), NEW d, NEW e, NEW p \in Nat, NEW x, Exact(o, d, e, p, x),
           NEW e2, e2 = e \/ e2 = e \cup {p + 1}
    PROVE  Exact(o \o <<p + 1>>, d, e2, p + 1, x) /\ Exact(o, d \cup {p + 1}, e2, p + 1, x)
<1>1. 1 .. p + 1 = 1 .. p \cup {p + 1} /\ p + 1 \notin 1 .. p
 OBVIOUS
<1>2. ToSet(o) \subseteq 1 .. p /\ d \subseteq 1 .. p
 BY DEF Exact
<1>3. ToSet(<<p + 1>>) = {p + 1} /\ <<p + 1>> \in Seq(Nat)
 BY DEF ToSet
<1>4. ToSet(o \o <<p + 1>>) = ToSet(o) \cup {p + 1}
 BY <1>3, ToSetConcat
<1>5. ASSUME Increasing(o) PROVE Increasing(o \o <<p + 1>>)
 <2> DEFINE q == o \o <<p + 1>>
 <2>1. /\ Len(o) \in Nat /\ DOMAIN o = 1 .. Len(o)
       /\ DOMAIN q = 1 .. Len(o) + 1
       /\ \A i \in 1 .. Len(o) : q[i] = o[i]
       /\ q[Len(o) + 1] = p + 1
  OBVIOUS
 <2> HIDE DEF q
 <2>2. \A i \in 1 .. Len(o) : o[i] \in Nat /\ o[i] <= p
  <3>1. \A i \in 1 .. Len(o) : o[i] \in ToSet(o)
   BY <2>1 DEF ToSet
  <3> QED BY <3>1, <1>2
 <2> SUFFICES ASSUME NEW i \in DOMAIN q, NEW j \in DOMAIN q, i < j PROVE q[i] < q[j]
  BY DEF q, Increasing
 <2>3. i \in 1 .. Len(o)
  BY <2>1
 <2>4. CASE j \in 1 .. Len(o)
  BY <2>1, <2>3, <2>4, <1>5 DEF Increasing
 <2>5. CASE j = Len(o) + 1
  BY <2>1, <2>2, <2>3, <2>5
 <2> QED BY <2>1, <2>4, <2>5
<1>6. Exact(o \o <<p + 1>>, d, e2, p + 1, x)
 BY <1>1, <1>2, <1>4, <1>5 DEF Exact
<1>7. Exact(o, d \cup {p + 1}, e2, p + 1, x)
 BY <1>1, <1>2 DEF Exact
<1> QED BY <1>6, <1>7

\* The first part of it is in order, and has nothing of the rest.
LEMMA OrderDrop ==
    ASSUME NEW o \in Seq(Nat), NEW x \in Seq(Nat), Increasing(o \o x)
    PROVE  Increasing(o) /\ ToSet(o) \cap ToSet(x) = {}
<1> DEFINE q == o \o x
<1>1. /\ q \in Seq(Nat) /\ Len(o) \in Nat /\ Len(x) \in Nat
      /\ DOMAIN o = 1 .. Len(o) /\ DOMAIN x = 1 .. Len(x)
      /\ DOMAIN q = 1 .. Len(o) + Len(x)
      /\ \A i \in 1 .. Len(o) : q[i] = o[i]
 OBVIOUS
<1>2. \A i \in 1 .. Len(x) : q[Len(o) + i] = x[i]
 OBVIOUS
<1> HIDE DEF q
<1>4. \A i, j \in DOMAIN q : i < j => q[i] < q[j]
 BY DEF Increasing, q
<1>5. \A i, j \in DOMAIN o : i < j => o[i] < o[j]
 <2> SUFFICES ASSUME NEW i \in DOMAIN o, NEW j \in DOMAIN o, i < j PROVE o[i] < o[j]
  OBVIOUS
 <2>1. i \in DOMAIN q /\ j \in DOMAIN q /\ q[i] = o[i] /\ q[j] = o[j]
  BY <1>1
 <2> QED BY <2>1, <1>4
<1>6. ToSet(o) \cap ToSet(x) = {}
 <2> SUFFICES ASSUME NEW v \in ToSet(o), v \in ToSet(x) PROVE FALSE
  OBVIOUS
 <2>1. PICK i \in 1 .. Len(o) : v = o[i]
  BY <1>1 DEF ToSet
 <2>2. PICK j \in 1 .. Len(x) : v = x[j]
  BY <1>1 DEF ToSet
 <2>3. i \in 1 .. Len(o) + Len(x) /\ Len(o) + j \in 1 .. Len(o) + Len(x) /\ i < Len(o) + j
  <3>1. Len(o) \in Nat /\ Len(x) \in Nat /\ i \in 1 .. Len(o) /\ j \in 1 .. Len(x)
   BY <1>1
  <3> QED BY ONLY <3>1
 <2>4. q[i] = v /\ q[Len(o) + j] = v
  BY <1>1, <1>2, <2>1, <2>2
 <2>5. v < v
  BY <2>3, <2>4, <1>1, <1>4
 <2>6. v \in Nat
  BY <2>1, ElementOfSeq
 <2> QED BY <2>5, <2>6
<1> QED BY <1>5, <1>6 DEF Increasing

\* The end of it is thrown away,
LEMMA ExactDrop ==
    ASSUME NEW o \in Seq(Nat), NEW l \in Seq(Nat), NEW d, NEW e, NEW p, NEW x,
           Exact(o \o l, d, e, p, x)
    PROVE  Exact(o, d \cup ToSet(l), e, p, x)
<1>1. ToSet(o \o l) = ToSet(o) \cup ToSet(l)
 BY ToSetConcat
<1>2. Increasing(o \o l) => Increasing(o) /\ ToSet(o) \cap ToSet(l) = {}
 BY OrderDrop
<1> QED BY <1>1, <1>2 DEF Exact

\* or replaced by a text that accounts for it.
LEMMA ExactReplace ==
    ASSUME NEW o \in Seq(Nat), NEW l \in Seq(Nat), NEW t \in Seq(Nat), NEW d, NEW e, NEW p, NEW x,
           Exact(o \o l, d, e, p, x), ToSet(t) \subseteq 1 .. p, ToSet(l) \subseteq ToSet(t) \cup e,
           "repeated" \notin x => Beginning(t, l)
    PROVE  Exact(o \o t, d, e, p, x)
<1>1. ToSet(o \o l) = ToSet(o) \cup ToSet(l) /\ ToSet(o \o t) = ToSet(o) \cup ToSet(t)
 BY ToSetConcat
<1>2. ASSUME "repeated" \notin x PROVE Increasing(o \o t) /\ ToSet(o \o t) \cap d = {}
 <2>1. PICK v \in Seq(Nat) : l = t \o v
  BY <1>2 DEF Beginning
 <2>2. o \o l = (o \o t) \o v /\ o \o t \in Seq(Nat)
  BY <2>1, Associative, ConcatProperties
 <2>3. Increasing((o \o t) \o v) /\ ToSet((o \o t) \o v) \cap d = {}
  BY <2>2, <1>2 DEF Exact
 <2> QED BY <2>2, <2>3, OrderDrop, ToSetConcat
<1>3. ToSet(o \o t) \cup d \cup e = 1 .. p
 BY <1>1 DEF Exact
<1> QED BY <1>2, <1>3 DEF Exact

--------------------
(* The steps of output: what they do to the stack, and to what is printed. *)

\* The calls the actions make.
LEMMA FrameKinds ==
    /\ \A a, b \in BOOLEAN : [fn |-> "end", send |-> a, flush |-> b] \in Frames
    /\ \A a, b \in BOOLEAN, t \in Seq(Nat) :
         [fn |-> "ended", send |-> a, flush |-> b, text |-> t] \in Frames
    /\ \A t \in Seq(Nat) : [fn |-> "handler", text |-> t] \in Frames
    /\ \A f \in Loops : [fn |-> f] \in Frames
    /\ \A b \in Buffers : b.text = <<>> => [fn |-> "restore", buf |-> b] \in Frames
    /\ \A h \in Ids \cup {NULL}, d \in Dtors : [fn |-> d, holds |-> h] \in Frames
BY DEF Frames, Loops, Dtors

\* User code.
LEMMA UserFrame == \A c \in Codes : User(c) \in Frames /\ User(c).fn = "user"
BY DEF Frames, User

\* The arguments of a call.
LEMMA FrameFields ==
    ASSUME NEW f \in Frames
    PROVE  /\ f.fn \in {"end", "ended"} => f.send \in BOOLEAN /\ f.flush \in BOOLEAN
           /\ f.fn \in {"ended", "handler"} => f.text \in Seq(Nat)
           /\ f.fn = "ended" => \A t \in Seq(Nat) :
                /\ [f EXCEPT !.text = t] \in Frames /\ [f EXCEPT !.text = t].fn = "ended"
                /\ [f EXCEPT !.text = t].flush = f.flush /\ [f EXCEPT !.text = t].text = t
           /\ f.fn = "restore" => f.buf \in Buffers /\ f.buf.text = <<>>
           /\ f.fn \in Dtors => f.holds \in Ids \cup {NULL}
<1>1. CASE f \in [fn : {"user"}, code : Codes]
 BY <1>1 DEF Dtors
<1>2. CASE f \in [fn : {"end"}, send : BOOLEAN, flush : BOOLEAN]
 BY <1>2 DEF Dtors
<1>3. CASE f \in [fn : {"ended"}, send : BOOLEAN, flush : BOOLEAN, text : Seq(Nat)]
 <2>1. ASSUME NEW t \in Seq(Nat)
       PROVE  /\ [f EXCEPT !.text = t] \in Frames /\ [f EXCEPT !.text = t].fn = "ended"
              /\ [f EXCEPT !.text = t].flush = f.flush /\ [f EXCEPT !.text = t].text = t
  BY <1>3 DEF Frames
 <2> QED BY <1>3, <2>1 DEF Dtors
<1>4. CASE f \in [fn : {"handler"}, text : Seq(Nat)]
 BY <1>4 DEF Dtors
<1>5. CASE f \in [fn : Loops]
 BY <1>5 DEF Dtors, Loops
<1>6. CASE f \in [fn : {"restore"}, buf : {b \in Buffers : b.text = <<>>}]
 BY <1>6 DEF Dtors
<1>7. CASE f \in [fn : Dtors, holds : Ids \cup {NULL}]
 BY <1>7 DEF Dtors
<1> QED BY <1>1, <1>2, <1>3, <1>4, <1>5, <1>6, <1>7 DEF Frames

--------------------
(* The texts that wait on the stack.                                       *)

NoHandler(s) == \A i \in 1 .. Len(s) : s[i].fn # "handler"

\* None waits when no buffer is half ended.
LEMMA TextsCalm ==
    ASSUME NEW s, Calm(s), NEW b, NEW e, NEW p, NEW x
    PROVE  TextsOK(s, b, e, p, x) /\ NoHandler(s)
BY DEF TextsOK, Calm, NoHandler

\* A function returns, unless it opens its buffer again.
LEMMA TextsPop ==
    ASSUME NEW s \in Seq(Frames), s # <<>>, NEW b, NEW e, NEW p, NEW x, TextsOK(s, b, e, p, x)
    PROVE  /\ s[1].fn # "restore" => TextsOK(Tail(s), b, e, p, x)
           /\ s[1].fn # "end" /\ "repeated" \notin x => NoHandler(Tail(s))
<1> DEFINE t == Tail(s)
<1>1. /\ Len(s) \in Nat /\ Len(s) >= 1 /\ Len(t) = Len(s) - 1
      /\ \A i \in 1 .. Len(s) - 1 : t[i] = s[i + 1]
 BY Popped
<1> HIDE DEF t
<1>2. ASSUME NEW i \in 1 .. Len(t)
      PROVE  i + 1 \in 1 .. Len(s) /\ t[i] = s[i + 1] /\ 1 \in 1 .. (i + 1) - 1
 BY <1>1
<1>3. s[1].fn # "end" /\ "repeated" \notin x => NoHandler(t)
 BY <1>2 DEF TextsOK, NoHandler
<1>4. ASSUME NEW i \in 1 .. Len(t), NEW j \in 1 .. (i + 1) - 1, j # 1
      PROVE  j - 1 \in 1 .. i - 1 /\ s[j] = t[j - 1]
 <2>1. j - 1 \in 1 .. i - 1 /\ j - 1 \in 1 .. Len(s) - 1 /\ (j - 1) + 1 = j
  BY <1>1, <1>4
 <2> QED BY <2>1, <1>1
<1>5. ASSUME NEW i \in 1 .. Len(t), NEW j \in 1 .. i - 1
      PROVE  j + 1 \in 1 .. (i + 1) - 1 /\ s[j + 1] = t[j]
 BY <1>1
<1>6. ASSUME s[1].fn # "restore", NEW i \in 1 .. Len(t)
      PROVE  /\ t[i].fn \in {"handler", "ended"} => ToSet(t[i].text) \subseteq 1 .. p
             /\ t[i].fn = "handler" =>
                  /\ (\A j \in 1 .. i - 1 : t[j].fn # "restore") => Owed(t[i], b, e, x)
                  /\ "repeated" \notin x => \A j \in 1 .. i - 1 : t[j].fn = "end"
 <2>1. t[i].fn \in {"handler", "ended"} => ToSet(t[i].text) \subseteq 1 .. p
  BY <1>2 DEF TextsOK
 <2>2. ASSUME t[i].fn = "handler", \A j \in 1 .. i - 1 : t[j].fn # "restore"
       PROVE  Owed(t[i], b, e, x)
  <3>1. \A j \in 1 .. (i + 1) - 1 : s[j].fn # "restore"
   BY <2>2, <1>4, <1>6
  <3> QED BY <3>1, <2>2, <1>2 DEF TextsOK
 <2>3. ASSUME t[i].fn = "handler", "repeated" \notin x, NEW j \in 1 .. i - 1
       PROVE  t[j].fn = "end"
  <3>1. i + 1 \in 1 .. Len(s) /\ s[i + 1].fn = "handler"
   BY <2>3, <1>2
  <3>2. \A k \in 1 .. (i + 1) - 1 : s[k].fn = "end"
   BY <3>1, <2>3 DEF TextsOK
  <3> QED BY <3>2, <1>5
 <2> QED BY <2>1, <2>2, <2>3
<1>7. s[1].fn # "restore" => TextsOK(t, b, e, p, x)
 BY <1>6 DEF TextsOK
<1> QED BY <1>3, <1>7 DEF t

\* One that takes the buffer away, or leaves it, is called.
LEMMA TextsPush ==
    ASSUME NEW s \in Seq(Frames), NEW b, NEW c, NEW e, NEW p, NEW x, TextsOK(s, b, e, p, x),
           NEW f \in Frames, f.fn = "end" \/ "repeated" \in x \/ NoHandler(s),
           f.fn \in {"handler", "ended"} => ToSet(f.text) \subseteq 1 .. p,
           f.fn = "handler" => Owed(f, b, e, x), f.fn = "restore" \/ c = b
    PROVE  TextsOK(<<f>> \o s, c, e, p, x)
<1> DEFINE r == <<f>> \o s
<1>1. /\ Len(s) \in Nat /\ Len(r) = Len(s) + 1 /\ r[1] = f
      /\ \A i \in 2 .. Len(s) + 1 : r[i] = s[i - 1]
 BY Pushed
<1> HIDE DEF r
<1>2. ASSUME NEW i \in 1 .. Len(r)
      PROVE  /\ r[i].fn \in {"handler", "ended"} => ToSet(r[i].text) \subseteq 1 .. p
             /\ r[i].fn = "handler" =>
                  /\ (\A j \in 1 .. i - 1 : r[j].fn # "restore") => Owed(r[i], c, e, x)
                  /\ "repeated" \notin x => \A j \in 1 .. i - 1 : r[j].fn = "end"
 <2>1. CASE i = 1
  <3>1. \A j \in 1 .. 1 - 1 : FALSE
   OBVIOUS
  <3> QED BY <2>1, <3>1, <1>1
 <2>2. CASE i # 1
  <3>1. i - 1 \in 1 .. Len(s) /\ r[i] = s[i - 1] /\ 1 \in 1 .. i - 1
   BY <2>2, <1>1
  <3>2. ASSUME NEW j \in 1 .. (i - 1) - 1 PROVE j + 1 \in 1 .. i - 1 /\ r[j + 1] = s[j]
   <4>1. j + 1 \in 2 .. Len(s) + 1 /\ j + 1 \in 1 .. i - 1 /\ (j + 1) - 1 = j
    BY <3>1
   <4> QED BY <4>1, <1>1
  <3>3. r[i].fn \in {"handler", "ended"} => ToSet(r[i].text) \subseteq 1 .. p
   BY <3>1 DEF TextsOK
  <3>4. ASSUME r[i].fn = "handler", \A j \in 1 .. i - 1 : r[j].fn # "restore"
        PROVE  Owed(r[i], c, e, x)
   <4>1. c = b
    BY <3>1, <3>4, <1>1
   <4>2. \A j \in 1 .. (i - 1) - 1 : s[j].fn # "restore"
    BY <3>2, <3>4
   <4> QED BY <4>1, <4>2, <3>1, <3>4 DEF TextsOK
  <3>5. ASSUME r[i].fn = "handler", "repeated" \notin x, NEW j \in 1 .. i - 1
        PROVE  r[j].fn = "end"
   <4>1. CASE j = 1
    BY <4>1, <3>1, <3>5, <1>1 DEF NoHandler
   <4>2. CASE j # 1
    <5>1. j - 1 \in 1 .. (i - 1) - 1 /\ (j - 1) + 1 = j
     BY <3>1, <4>2
    <5>2. s[j - 1].fn = "end"
     BY <5>1, <3>1, <3>5 DEF TextsOK
    <5> QED BY <5>1, <5>2, <3>2
   <4> QED BY <4>1, <4>2
  <3> QED BY <3>3, <3>4, <3>5
 <2> QED BY <2>1, <2>2
<1>3. TextsOK(r, c, e, p, x)
 BY <1>2 DEF TextsOK
<1> QED BY <1>3 DEF r

\* A handler prints v.
LEMMA TextsMore ==
    ASSUME NEW s \in Seq(Frames), NEW b, NEW c, NEW e, NEW e2, NEW p \in Nat, NEW x,
           TextsOK(s, b, e, p, x), Last(b).text \in Seq(Nat), NEW v \in Seq(Nat),
           Last(c).text = Last(b).text \o v, ToSet(v) \subseteq e2, e \subseteq e2
    PROVE  TextsOK(s, c, e2, p + 1, x)
<1>1. ASSUME NEW i \in 1 .. Len(s), s[i].fn = "handler", Owed(s[i], b, e, x)
      PROVE  Owed(s[i], c, e2, x)
 <2>1. ToSet(Last(c).text) \subseteq ToSet(s[i].text) \cup e2
  BY <1>1, ToSetConcat DEF Owed
 <2>2. ASSUME "repeated" \notin x PROVE Beginning(s[i].text, Last(c).text)
  <3>1. PICK u \in Seq(Nat) : Last(b).text = s[i].text \o u
   BY <1>1, <2>2 DEF Owed, Beginning
  <3>2. s[i].text \in Seq(Nat)
   <4>1. s[i] \in Frames
    BY ElementOfSeq
   <4> QED BY <4>1, <1>1, FrameFields
  <3>3. Last(c).text = s[i].text \o (u \o v) /\ u \o v \in Seq(Nat)
   <4>1. PICK a \in Seq(Nat) : a = s[i].text
    BY <3>2
   <4>2. (a \o u) \o v = a \o (u \o v) /\ u \o v \in Seq(Nat)
    BY Associative, ConcatProperties
   <4>3. Last(c).text = (a \o u) \o v
    BY <3>1, <4>1
   <4> QED BY <4>1, <4>2, <4>3
  <3> QED BY <3>3 DEF Beginning
 <2> QED BY <2>1, <2>2 DEF Owed
<1>2. 1 .. p \subseteq 1 .. p + 1
 OBVIOUS
<1> QED BY <1>1, <1>2 DEF TextsOK

\* After a flush the buffer is empty.
LEMMA TextsRestored ==
    ASSUME NEW s \in Seq(Frames), s # <<>>, s[1].fn = "restore", NEW b, NEW c, NEW e, NEW p, NEW x,
           TextsOK(s, b, e, p, x), Last(c).text = <<>>
    PROVE  TextsOK(Tail(s), c, e, p, x)
<1>1. "repeated" \notin x => NoHandler(Tail(s))
 BY TextsPop
<1>2. \A i \in 1 .. Len(Tail(s)) : i + 1 \in 1 .. Len(s) /\ Tail(s)[i] = s[i + 1]
 BY Popped
<1>3. \A i \in 1 .. Len(Tail(s)) :
        Tail(s)[i].fn \in {"handler", "ended"} => ToSet(Tail(s)[i].text) \subseteq 1 .. p
 BY <1>2 DEF TextsOK
<1>4. ToSet(Last(c).text) = {}
 BY DEF ToSet
<1>5. CASE "repeated" \in x
 BY <1>3, <1>4, <1>5 DEF TextsOK, Owed
<1>6. CASE "repeated" \notin x
 BY <1>1, <1>3, <1>6 DEF TextsOK, NoHandler
<1> QED BY <1>5, <1>6

--------------------
(* The stack after a step.                                                 *)

\* A stack on which a call can be made in phase ph.
Base(s, ph) ==
    /\ StackOK(s, FALSE) /\ Calm(s) /\ PhaseOK(s, ph)
    /\ ph \notin {"headers", "done"}
    /\ ph \in {"end_buffers", "deactivate"} => s # <<>>

\* Which calls can be made on the stack, and on what a return leaves.
LEMMA BaseStack ==
    ASSUME StackInv, stack # <<>>
    PROVE  /\ stack \in Seq(Frames) /\ Head(stack) = stack[1] /\ stack[1] \in Frames
           /\ phase \notin {"headers", "done"}
           /\ phase = "deactivate" => stack[1].fn \in Dtors \cup {"destroy_list"}
           /\ stack[1].fn \notin Flushers => Base(stack, phase)
           /\ stack[1].fn \notin Loops \cup Flushers => Base(Tail(stack), phase)
           /\ stack[1].fn \in {"ended", "handler"} => ob # <<>>
<1>1. stack \in Seq(Frames) /\ StackOK(stack, ob # <<>>) /\ PhaseOK(stack, phase)
 BY DEF StackInv, StackOK
<1>2. Head(stack) = stack[1] /\ stack[1] \in Frames
 BY <1>1, Popped
<1>3. /\ phase \notin {"headers", "done"}
      /\ stack[1].fn \notin Loops =>
                /\ PhaseOK(Tail(stack), phase)
                /\ phase \in {"end_buffers", "deactivate"} => Tail(stack) # <<>>
      /\ phase = "deactivate" => stack[1].fn \in Dtors \cup {"destroy_list"}
 BY <1>1, PhasePop
<1>4. /\ stack[1].fn \notin Flushers => Calm(stack) /\ Calm(Tail(stack))
      /\ stack[1].fn \in {"ended", "handler"} => ob # <<>>
 BY <1>1, TopCalm
<1>5. StackOK(Tail(stack), TRUE)
 BY <1>1, PopOK
<1>6. Calm(stack) => StackOK(stack, FALSE)
 BY <1>1, CalmAny
<1>7. Calm(Tail(stack)) => StackOK(Tail(stack), FALSE)
 BY <1>5, CalmAny
<1> QED BY <1>1, <1>2, <1>3, <1>4, <1>6, <1>7 DEF Base

\* A call.
LEMMA BasePush ==
    ASSUME NEW s, NEW ph, Base(s, ph), NEW f \in Frames, f.fn \notin Loops \cup {"ended", "handler"},
           ph = "deactivate" => f.fn \in Dtors
    PROVE  Base(<<f>> \o s, ph)
<1>1. s \in Seq(Frames) /\ Calm(s)
 BY DEF Base, StackOK
<1>2. CanPush(f, s, FALSE, FALSE)
 <2>1. s # <<>> => s[1].fn # "ended"
  BY <1>1, Popped DEF Calm
 <2> QED BY <1>1, <2>1 DEF CanPush
<1>3. StackOK(<<f>> \o s, FALSE) /\ Calm(<<f>> \o s)
 BY <1>1, <1>2, PushOK, PushCalm DEF Base
<1>4. PhaseOK(<<f>> \o s, ph)
 BY <1>1, PhasePush DEF Base
<1>5. <<f>> \o s # <<>>
 BY <1>1, Pushed
<1> QED BY <1>3, <1>4, <1>5 DEF Base

\* A base is a good stack, with buffers or without.
LEMMA BaseInv ==
    ASSUME NEW s, Base(s, phase), NEW b \in BOOLEAN
    PROVE  StackOK(s, b) /\ PhaseOK(s, phase) /\ s \in Seq(Frames) /\ Calm(s)
<1>1. StackOK(s, FALSE) /\ Calm(s) /\ PhaseOK(s, phase)
 BY DEF Base
<1> QED BY <1>1, CalmAny DEF StackOK

\* What every step but those of resources does to the stack.
Effect ==
    /\ phase' = phase
    /\ StackOK(stack', ob' # <<>>) /\ PhaseOK(stack', phase)
    /\ Restoring(stack') => Restoring(stack) \/ ob # <<>>
    /\ Released(stack, stack')
    /\ phase = "end_buffers" /\ stack' = <<>> => ob' = <<>> \/ "output" \in excused'
    /\ phase \in Late /\ ob' # <<>> => ob # <<>> \/ Restoring(stack) \/ "output" \in excused'
    /\ headers_sent => headers_sent'
    /\ excused \subseteq excused' /\ ("held" \in excused' => "held" \in excused)

\* Such a step keeps the stack in shape and the flush complete.
LEMMA EffectStack ==
    ASSUME Effect
    PROVE  StackInv' /\ (FlushedInv => FlushedInv')
<1>1. StackInv'
 BY DEF Effect, StackInv
<1>2. FlushedInv => FlushedInv'
 BY DEF Effect, FlushedInv, Late
<1> QED BY <1>1, <1>2

\* It leaves resources alone, and forgets calls at most.
LEMMA EffectResources ==
    ASSUME Effect, ResourcesInv, StackInv, UNCHANGED resources,
           phase = "deactivate" /\ stack' = <<>> => Live = {}
    PROVE  ResourcesInv'
<1>1. UNCHANGED <<list, next_id, script, destroyed>> /\ phase' = phase
 BY DEF resources, Effect
<1>2. ResourcesTypeOK'
 BY <1>1 DEF ResourcesInv, ResourcesTypeOK
<1>3. Lifetimes' /\ Live' = Live
 BY <1>1 DEF ResourcesInv, Lifetimes, Live
<1>4. ("held" \notin excused => Counted(list, script, stack))
        => ("held" \notin excused' => Counted(list', script', stack'))
 <2> SUFFICES ASSUME Counted(list, script, stack) PROVE Counted(list, script, stack')
  BY <1>1 DEF Effect
 <2>1. stack \in Seq(Frames) /\ stack' \in Seq(Frames)
  BY DEF StackInv, StackOK, Effect
 <2>2. \A h \in Ids : list[h] # NULL => list[h].refs \in Nat
  BY DEF ResourcesInv, ResourcesTypeOK
 <2>3. script \in [Ids -> Nat]
  BY DEF ResourcesInv, ResourcesTypeOK
 <2> QED BY <2>1, <2>2, <2>3, ReleasedCounted DEF Effect
<1>5. (\A id \in Ids : list[id] # NULL /\ list[id].holds # NULL => list[id].holds < id)'
 BY <1>1 DEF ResourcesInv
<1>6. (phase = "done" \/ (phase = "deactivate" /\ stack = <<>>) => Live = {})'
 BY <1>1, <1>3 DEF ResourcesInv
<1> QED BY <1>2, <1>3, <1>4, <1>5, <1>6 DEF ResourcesInv

\* Stack r is reached from the present one by returns and by calls that release
\* nothing; b says that there is a buffer.
Under(r, b) ==
    /\ StackOK(r, b) /\ PhaseOK(r, phase)
    /\ phase = "end_buffers" => r # <<>>
    /\ Released(stack, r)
    /\ Restoring(r) => Restoring(stack) \/ ob # <<>>

\* So is the present one.
LEMMA UnderAll ==
    ASSUME StackInv, stack # <<>>
    PROVE  Under(stack, ob # <<>>) /\ (stack[1].fn \notin Flushers => Calm(stack))
BY BaseStack, ReleasedEmpty DEF Under, StackInv, Base

\* A return,
LEMMA UnderPop ==
    ASSUME NEW r, NEW b \in BOOLEAN, Under(r, b), r # <<>>, r[1].fn \notin Loops, NEW c \in BOOLEAN,
           b \/ r[1].fn = "restore" => c
    PROVE  Under(Tail(r), c)
<1>1. StackOK(r, b) /\ PhaseOK(r, phase) /\ r \in Seq(Frames)
 BY DEF Under, StackOK
<1>2. StackOK(Tail(r), c)
 BY <1>1, PopOK
<1>3. PhaseOK(Tail(r), phase) /\ (phase = "end_buffers" => Tail(r) # <<>>)
 BY <1>1, PhasePop
<1>4. Released(stack, Tail(r))
 <2>1. Released(r, Tail(r))
  BY <1>1, ReleasedPop
 <2> QED BY <2>1 DEF Under, Released
<1>5. Restoring(Tail(r)) => Restoring(r)
 BY <1>1, RestoringPop
<1> QED BY <1>2, <1>3, <1>4, <1>5 DEF Under

\* and a call.
LEMMA UnderPush ==
    ASSUME phase \notin {"headers", "done", "deactivate"}, NEW r, NEW b \in BOOLEAN, Under(r, b),
           NEW f \in Frames, f.fn \notin Dtors, f.fn = "restore" => ob # <<>>,
           NEW c \in BOOLEAN, CanPush(f, r, b, c)
    PROVE  Under(<<f>> \o r, c) /\ <<f>> \o r # <<>>
<1>1. StackOK(r, b) /\ PhaseOK(r, phase) /\ r \in Seq(Frames)
 BY DEF Under, StackOK
<1>2. StackOK(<<f>> \o r, c)
 BY <1>1, PushOK
<1>3. PhaseOK(<<f>> \o r, phase)
 BY <1>1, PhasePush DEF Under
<1>4. Released(stack, <<f>> \o r)
 BY <1>1, ReleasedPush DEF Under
<1>5. Restoring(<<f>> \o r) => Restoring(stack) \/ ob # <<>>
 BY <1>1, RestoringPush DEF Under
<1>6. <<f>> \o r # <<>>
 BY <1>1, Pushed
<1> QED BY <1>2, <1>3, <1>4, <1>5, <1>6 DEF Under

\* The stack after a step that ends so.
LEMMA UnderEffect ==
    ASSUME Under(stack', ob' # <<>>), phase' = phase, headers_sent => headers_sent',
           excused \subseteq excused', "held" \in excused' => "held" \in excused,
           phase \in Late /\ ob' # <<>> => ob # <<>> \/ Restoring(stack) \/ "output" \in excused'
    PROVE  Effect
BY DEF Effect, Under

\* A bailout, with the buffers as they are or forgotten.
LEMMA BailoutEffect ==
    ASSUME Bailout, phase' = phase, headers_sent => headers_sent', ob' # <<>> => ob # <<>>
    PROVE  Effect /\ Calm(stack')
<1>1. stack' = <<>> /\ excused \subseteq excused' /\ ("held" \in excused' => "held" \in excused)
 BY DEF Bailout
<1>2. phase = "end_buffers" => "output" \in excused'
 BY DEF Bailout
<1>3. PhaseOK(<<>>, phase)
 BY DEF PhaseOK
<1>4. StackOK(<<>>, ob' # <<>>) /\ ~Restoring(<<>>) /\ Calm(<<>>)
 BY EmptyOK
<1> QED BY <1>1, <1>2, <1>3, <1>4, ReleasedEmpty DEF Effect

\* What php_body_write does to what is printed.
LEMMA WriteOutput ==
    ASSUME NEW text \in Seq(Nat), NEW b \in Seq(Buffers), NEW w \in {"buffer", "direct"}, NEW rest,
           w = "buffer" <=> b # <<>>, sent \in Seq(Nat), headers_sent \in BOOLEAN,
           sent # <<>> => headers_sent, Write(text, b, w, rest)
    PROVE  /\ ob' \in Seq(Buffers) /\ writer' = w /\ (ob' # <<>> <=> b # <<>>)
           /\ sent' \in Seq(Nat) /\ headers_sent' \in BOOLEAN
           /\ headers_sent => headers_sent'
           /\ sent' # <<>> => headers_sent'
           /\ \/ /\ sent' \o Texts(ob') = (sent \o Texts(b)) \o text
                 /\ dropped' = dropped
              \/ /\ sent' \o Texts(ob') = sent \o Texts(b)
                 /\ dropped' = dropped \cup ToSet(text)
           /\ w = "buffer" => Last(ob').text = Last(b).text \o text
<1>1. CASE w = "buffer"
 <2> DEFINE top == Last(b)
            full == [top EXCEPT !.text = @ \o text]
            x == top.text
 <2>1. /\ Front(b) \in Seq(Buffers) /\ top \in Buffers
       /\ Texts(b) = Texts(Front(b)) \o top.text
  BY <1>1, ActiveBuffer
 <2>2. full \in Buffers /\ full.text = x \o text /\ x \in Seq(Nat)
  <3> HIDE DEF top
  <3>1. top.text \in Seq(Nat) /\ top.text \o text \in Seq(Nat)
   BY <2>1, ConcatProperties DEF Buffers
  <3> QED BY <2>1, <3>1 DEF Buffers
 <2>3. /\ ob' = Front(b) \o <<full>> /\ writer' = w
       /\ headers_sent' = headers_sent /\ sent' = sent /\ dropped' = dropped
  BY <1>1 DEF Write
 <2> HIDE DEF full, top
 <2>4. ob' = Append(Front(b), full) /\ ob' \in Seq(Buffers) /\ ob' # <<>>
  BY <2>1, <2>2, <2>3, AppendIsConcat, AppendProperties
 <2>5. Texts(ob') = Texts(Front(b)) \o full.text
  BY <2>1, <2>2, <2>4, TextsAppend
 <2>6. Texts(Front(b)) \in Seq(Nat) /\ Texts(b) \in Seq(Nat)
  BY <2>1, TextsType
 <2>7. Texts(ob') = Texts(b) \o text
  <3>1. (Texts(Front(b)) \o x) \o text = Texts(Front(b)) \o (x \o text)
   <4> HIDE DEF x
   <4> QED BY <2>2, <2>6, Associative
  <3> QED BY <2>1, <2>2, <2>5, <3>1
 <2>8. sent' \o Texts(ob') = (sent \o Texts(b)) \o text
  <3>1. (sent \o Texts(b)) \o text = sent \o (Texts(b) \o text)
   BY <2>6, Associative
  <3> QED BY <2>3, <2>7, <3>1
 <2>9. Last(ob').text = Last(b).text \o text
  <3>1. Last(ob') = full
   BY <2>1, <2>2, <2>4, AppendProperties DEF Last
  <3> QED BY <3>1, <2>2 DEF top
 <2> QED BY <1>1, <2>3, <2>4, <2>8, <2>9
<1>2. CASE w = "direct"
 <2>1. b = <<>> /\ Texts(b) = <<>> /\ sent \o Texts(b) = sent
  BY <1>2, TextsType, ConcatEmptySeq
 <2>2. ob' = b /\ writer' = w /\ headers_sent' = TRUE
  BY <1>2 DEF Write
 <2>3. CASE headers_only
  <3>1. sent' = sent /\ dropped' = dropped \cup ToSet(text)
   BY <1>2, <2>3 DEF Write
  <3> QED BY <1>2, <2>1, <2>2, <3>1
 <2>4. CASE ~headers_only
  <3>1. sent' = sent \o text /\ dropped' = dropped
   BY <1>2, <2>4 DEF Write
  <3>2. sent' \in Seq(Nat) /\ sent' \o <<>> = sent'
   BY <3>1, ConcatProperties, ConcatEmptySeq
  <3> QED BY <1>2, <2>1, <2>2, <3>1, <3>2
 <2> QED BY <2>3, <2>4
<1> QED BY <1>1, <1>2

\* A flush of a full chunk.
ChunkEnd == [fn |-> "end", send |-> TRUE, flush |-> TRUE]

\* What it does to the stack.
LEMMA WriteStack ==
    ASSUME NEW text, NEW b, NEW w, NEW rest, Write(text, b, w, rest),
           phase \notin {"headers", "done", "deactivate"},
           NEW c \in BOOLEAN, Under(rest, c), rest # <<>> => rest[1].fn # "ended"
    PROVE  \/ /\ stack' = rest \/ (stack' = <<ChunkEnd>> \o rest /\ w = "buffer")
              /\ Under(stack', c) /\ excused' = excused
           \/ Bailout
<1>1. ChunkEnd \in Frames /\ ChunkEnd.fn = "end" /\ Flushing(ChunkEnd)
 BY FrameKinds DEF ChunkEnd, Flushing
<1>2. \/ stack' = rest /\ excused' = excused
      \/ stack' = <<ChunkEnd>> \o rest /\ excused' = excused /\ w = "buffer"
      \/ Bailout
 BY DEF Write, ChunkEnd
<1>3. CASE stack' = <<ChunkEnd>> \o rest /\ excused' = excused /\ w = "buffer"
 <2>1. CanPush(ChunkEnd, rest, c, c)
  BY <1>1 DEF CanPush, Loops
 <2>2. ChunkEnd.fn \notin Dtors
  BY <1>1 DEF Dtors
 <2>3. Under(<<ChunkEnd>> \o rest, c)
  BY <1>1, <2>1, <2>2, UnderPush
 <2> QED BY <1>3, <2>3
<1> QED BY <1>2, <1>3

\* A step of user code, output handlers or buffers.
OutputStep ==
    /\ Effect
    /\ OutputInv' /\ TextInv'
    /\ phase # "deactivate"
    /\ UNCHANGED resources

\* What the invariant says of output before a step,
LEMMA OutputFacts ==
    ASSUME OutputInv
    PROVE  /\ ob \in Seq(Buffers) /\ writer \in {"buffer", "direct"} /\ sent \in Seq(Nat)
           /\ printed \in Nat /\ headers_sent \in BOOLEAN
           /\ writer = "buffer" <=> ob # <<>>
           /\ Exact(sent \o Texts(ob), dropped, echoed, printed, excused)
           /\ sent # <<>> => headers_sent
           /\ Texts(ob) \in Seq(Nat) /\ sent \o Texts(ob) \in Seq(Nat)
<1>1. ob \in Seq(Buffers) /\ sent \in Seq(Nat)
 BY DEF OutputInv, OutputTypeOK
<1>2. Texts(ob) \in Seq(Nat) /\ sent \o Texts(ob) \in Seq(Nat)
 BY <1>1, TextsType, ConcatProperties
<1>3. Exact(sent \o Texts(ob), dropped, echoed, printed, excused)
 BY DEF OutputInv, OutputExact, Exact, Increasing
<1> QED BY <1>1, <1>2, <1>3 DEF OutputInv, OutputTypeOK, WriterMatchesLevel

\* what shows that it holds after it,
LEMMA OutputNext ==
    ASSUME ob' \in Seq(Buffers), writer' \in {"buffer", "direct"}, sent' \in Seq(Nat),
           printed' \in Nat, headers_sent' \in BOOLEAN, writer' = "buffer" <=> ob' # <<>>,
           Exact(sent' \o Texts(ob'), dropped', echoed', printed', excused),
           excused \subseteq excused', sent' # <<>> => headers_sent'
    PROVE  OutputInv'
<1>1. OutputExact'
 BY DEF OutputExact, Exact, Increasing, Texts
<1> QED BY <1>1 DEF OutputInv, OutputTypeOK, WriterMatchesLevel

\* and a step that leaves output alone.
LEMMA OutputSame ==
    ASSUME OutputInv, UNCHANGED <<ob, writer, headers_sent, sent, printed, dropped, echoed>>,
           excused \subseteq excused'
    PROVE  OutputInv'
<1>1. Texts(ob') = Texts(ob)
 BY DEF Texts
<1> QED BY <1>1, OutputFacts, OutputNext

\* No text waits.
LEMMA TextsNext ==
    ASSUME Calm(stack')
    PROVE  TextInv'
<1>1. TextsOK(stack', ob', echoed', printed', excused')
 BY TextsCalm
<1> QED BY <1>1 DEF TextInv, Calm

\* User code, and a handler, on top.
LEMMA UserTop ==
    ASSUME StackInv, UserCode
    PROVE  /\ stack # <<>> /\ stack[1].fn = "user" /\ phase \notin {"headers", "done", "deactivate"}
           /\ stack \in Seq(Frames) /\ Base(stack, phase) /\ Base(Tail(stack), phase)
           /\ Calm(stack) /\ Calm(Tail(stack))
<1>1. stack # <<>> /\ Head(stack).fn = "user"
 BY DEF UserCode, Running
<1>2. stack[1].fn = "user"
 BY <1>1, BaseStack
<1> QED BY <1>1, <1>2, BaseStack, BaseInv DEF Loops, Dtors, Flushers

LEMMA HandlerTop ==
    ASSUME StackInv, Running("handler")
    PROVE  /\ stack # <<>> /\ stack[1].fn = "handler" /\ stack \in Seq(Frames) /\ Top = stack[1]
           /\ phase \notin {"headers", "done", "deactivate"} /\ ob # <<>>
<1>1. stack # <<>> /\ Head(stack).fn = "handler"
 BY DEF Running
<1> QED BY <1>1, BaseStack DEF Dtors, Top

\* One more thing is printed.
LEMMA EchoStep ==
    ASSUME StackInv, OutputInv, TextInv, Echo
    PROVE  OutputStep
<1> DEFINE v == <<printed + 1>>
<1>1. /\ UserCode \/ Running("handler")
      /\ printed' = printed + 1
      /\ echoed' = IF UserCode THEN echoed ELSE echoed \cup {printed + 1}
      /\ Write(v, ob, writer, stack)
      /\ phase' = phase /\ UNCHANGED resources
 BY DEF Echo
<1>2. /\ stack # <<>> /\ stack \in Seq(Frames) /\ stack[1].fn \in {"user", "handler"}
      /\ phase \notin {"headers", "done", "deactivate"}
      /\ UserCode => Calm(stack)
      /\ ~UserCode => stack[1].fn = "handler" /\ ob # <<>>
 BY <1>1, UserTop, HandlerTop
<1>3. v \in Seq(Nat) /\ ToSet(v) = {printed + 1} /\ printed' \in Nat
 BY <1>1, OutputFacts DEF ToSet
<1> HIDE DEF v
<1>4. /\ ob' \in Seq(Buffers) /\ writer' = writer /\ (ob' # <<>> <=> ob # <<>>)
      /\ sent' \in Seq(Nat) /\ headers_sent' \in BOOLEAN
      /\ headers_sent => headers_sent'
      /\ sent' # <<>> => headers_sent'
      /\ \/ /\ sent' \o Texts(ob') = (sent \o Texts(ob)) \o v
            /\ dropped' = dropped
         \/ /\ sent' \o Texts(ob') = sent \o Texts(ob)
            /\ dropped' = dropped \cup ToSet(v)
      /\ writer = "buffer" => Last(ob').text = Last(ob).text \o v
 BY <1>1, <1>3, OutputFacts, WriteOutput
<1>5. Exact(sent' \o Texts(ob'), dropped', echoed', printed', excused)
 <2>1. /\ Exact((sent \o Texts(ob)) \o v, dropped, echoed', printed + 1, excused)
       /\ Exact(sent \o Texts(ob), dropped \cup {printed + 1}, echoed', printed + 1, excused)
  BY <1>1, OutputFacts, ExactPrint DEF v
 <2> QED BY <2>1, <1>1, <1>3, <1>4
<1>6. Under(stack, ob' # <<>>)
 BY <1>2, <1>4, UnderAll
<1>7. \/ /\ stack' = stack \/ (stack' = <<ChunkEnd>> \o stack /\ writer = "buffer")
         /\ Under(stack', ob' # <<>>) /\ excused' = excused
      \/ Bailout
 BY <1>1, <1>2, <1>6, WriteStack
<1>8. Effect /\ excused \subseteq excused'
 <2>1. Bailout => excused \subseteq excused'
  BY DEF Bailout
 <2>2. CASE Bailout
  BY <2>1, <2>2, <1>1, <1>4, BailoutEffect
 <2>3. CASE Under(stack', ob' # <<>>) /\ excused' = excused
  BY <2>3, <1>1, <1>4, UnderEffect
 <2> QED BY <1>7, <2>2, <2>3
<1>9. OutputInv'
 BY <1>3, <1>4, <1>5, <1>8, OutputFacts, OutputNext
<1>10. ChunkEnd \in Frames /\ ChunkEnd.fn = "end"
 BY FrameKinds DEF ChunkEnd
<1>11. TextInv'
 <2>1. CASE Bailout
  BY <2>1, TextsNext, EmptyOK DEF Bailout
 <2>2. CASE UserCode /\ ~Bailout
  <3>1. Calm(stack')
   BY <2>2, <1>2, <1>7, <1>10, PushCalm
  <3> QED BY <3>1, TextsNext
 <2>3. CASE ~UserCode /\ ~Bailout
  <3>1. TextsOK(stack, ob', echoed', printed', excused)
   <4>1. Last(ob).text \in Seq(Nat)
    BY <2>3, <1>2, OutputFacts, ActiveBuffer DEF Buffers
   <4>2. /\ Last(ob').text = Last(ob).text \o v
         /\ echoed' = echoed \cup {printed + 1}
    BY <2>3, <1>1, <1>2, <1>4, OutputFacts
   <4>3. TextsOK(stack, ob, echoed, printed, excused)
    BY DEF TextInv
   <4>4. TextsOK(stack, ob', echoed', printed + 1, excused)
    BY <4>1, <4>2, <4>3, <1>2, <1>3, OutputFacts, TextsMore
   <4> QED BY <4>4, <1>1
  <3>2. TextsOK(stack', ob', echoed', printed', excused')
   <4>1. CASE stack' = stack
    BY <4>1, <3>1, <2>3, <1>7
   <4>2. CASE stack' = <<ChunkEnd>> \o stack
    BY <4>2, <3>1, <2>3, <1>2, <1>7, <1>10, TextsPush
   <4> QED BY <4>1, <4>2, <2>3, <1>7
  <3>3. \A i \in 1 .. Len(stack') : i = 1 => stack'[i].fn # "ended"
   BY <2>3, <1>2, <1>7, <1>10, Pushed
  <3> QED BY <3>2, <3>3 DEF TextInv
 <2> QED BY <2>1, <2>2, <2>3
<1> QED BY <1>1, <1>2, <1>8, <1>9, <1>11 DEF OutputStep

\* A buffer is opened.
LEMMA ObStartStep ==
    ASSUME StackInv, OutputInv, ObStart
    PROVE  OutputStep
<1>1. PICK h \in BOOLEAN, c \in ChunkSizes :
        ob' = Append(ob, [text |-> <<>>, handler |-> h, chunk |-> c])
 BY DEF ObStart
<1>2. /\ UserCode /\ writer' = "buffer" /\ stack' = stack /\ phase' = phase
      /\ excused' = IF phase \in {"modules", "symbols"} THEN excused \cup {"output"} ELSE excused
      /\ UNCHANGED <<headers_sent, sent, printed, dropped, echoed>> /\ UNCHANGED resources
 BY DEF ObStart, Acts
<1> DEFINE x == [text |-> <<>>, handler |-> h, chunk |-> c]
<1>3. x \in Buffers /\ x.text = <<>>
 BY ChunkAssumption DEF Buffers
<1> HIDE DEF x
<1>4. ob' = Append(ob, x)
 BY <1>1 DEF x
<1>5. ob' \in Seq(Buffers) /\ ob' # <<>>
 BY <1>3, <1>4, OutputFacts, AppendProperties
<1>6. Texts(ob') = Texts(ob)
 <2>1. Texts(ob') = Texts(ob) \o x.text
  BY <1>3, <1>4, OutputFacts, TextsAppend
 <2>2. Texts(ob) \o <<>> = Texts(ob)
  BY OutputFacts, ConcatEmptySeq
 <2> QED BY <2>1, <2>2, <1>3
<1>7. OutputInv'
 BY <1>2, <1>5, <1>6, OutputFacts, OutputNext
<1>8. Base(stack, phase) /\ Calm(stack) /\ phase \notin {"headers", "done", "deactivate"} /\ stack # <<>>
 BY <1>2, UserTop
<1>9. StackOK(stack', ob' # <<>>) /\ PhaseOK(stack', phase)
 BY <1>2, <1>8, BaseInv
<1>10. Effect
 BY <1>2, <1>8, <1>9, ReleasedEmpty DEF Effect, Late
<1> QED BY <1>2, <1>7, <1>8, <1>10, TextsNext DEF OutputStep

\* The error in a handler: the buffers are forgotten.
LEMMA ObStartLockedStep ==
    ASSUME StackInv, OutputInv, ObStartLocked
    PROVE  OutputStep
<1>1. /\ UserCode \/ Running("handler")
      /\ ob' = <<>> /\ writer' = "direct"
      /\ dropped' = dropped \cup ToSet(Texts(ob))
      /\ Bailout /\ phase' = phase
      /\ UNCHANGED <<headers_sent, sent, printed, echoed>> /\ UNCHANGED resources
 BY DEF ObStartLocked
<1>2. ob' \in Seq(Buffers) /\ Texts(ob') = <<>> /\ sent' \o Texts(ob') = sent
 BY <1>1, OutputFacts, TextsType, ConcatEmptySeq
<1>3. Exact(sent, dropped', echoed, printed, excused)
 BY <1>1, OutputFacts, ExactDrop
<1>4. OutputInv'
 <2>1. excused \subseteq excused'
  BY <1>1 DEF Bailout
 <2> QED BY <2>1, <1>1, <1>2, <1>3, OutputFacts, OutputNext
<1>5. Effect /\ TextInv'
 BY <1>1, BailoutEffect, TextsNext
<1> QED BY <1>1, <1>4, <1>5, UserTop, HandlerTop DEF OutputStep

\* User code exits.
LEMMA ExitStep ==
    ASSUME StackInv, OutputInv, Exit
    PROVE  OutputStep
<1>1. /\ UserCode \/ Running("handler")
      /\ Bailout /\ phase' = phase
      /\ UNCHANGED <<ob, writer, headers_sent, sent, printed, dropped, echoed>>
      /\ UNCHANGED resources
 BY DEF Exit, output
<1>2. OutputInv'
 BY <1>1, OutputSame DEF Bailout
<1>3. Effect /\ TextInv'
 BY <1>1, BailoutEffect, TextsNext
<1> QED BY <1>1, <1>2, <1>3, UserTop, HandlerTop DEF OutputStep

\* A call that has nothing to release, by a function that flushes nothing.
LEMMA CallEffect ==
    ASSUME StackInv, stack # <<>>, stack[1].fn \notin Flushers, NEW f \in Frames,
           f.fn \notin Loops \cup Dtors \cup {"ended", "handler", "restore"},
           stack' = <<f>> \o stack, phase' = phase, phase # "deactivate",
           headers_sent' = headers_sent, excused' = excused, ob' = ob
    PROVE  Effect /\ Calm(stack') /\ TextInv'
<1>1. Base(stack, phase) /\ stack \in Seq(Frames)
 BY BaseStack
<1>2. Base(<<f>> \o stack, phase)
 BY <1>1, BasePush
<1>3. StackOK(stack', ob' # <<>>) /\ PhaseOK(stack', phase) /\ Calm(stack')
 BY <1>2, BaseInv
<1>4. phase = "end_buffers" => stack' # <<>>
 BY <1>2 DEF Base
<1>5. (Restoring(stack') => Restoring(stack)) /\ Released(stack, stack')
 BY <1>1, RestoringPush, ReleasedPush, ReleasedEmpty
<1> QED BY <1>3, <1>4, <1>5, TextsNext DEF Effect

\* User code ends a buffer or flushes it.
LEMMA ObEndStep ==
    ASSUME StackInv, OutputInv, ObEnd
    PROVE  OutputStep
<1>1. PICK a \in BOOLEAN, b \in BOOLEAN :
        stack' = <<[fn |-> "end", send |-> a, flush |-> b]>> \o stack
 BY DEF ObEnd
<1>2. UserCode /\ phase' = phase /\ excused' = excused
 BY DEF ObEnd, Acts
<1>3. UNCHANGED <<ob, writer, headers_sent, sent, printed, dropped, echoed>> /\ UNCHANGED resources
 BY DEF ObEnd, output
<1> DEFINE f == [fn |-> "end", send |-> a, flush |-> b]
<1>4. f \in Frames /\ f.fn = "end"
 BY FrameKinds
<1> HIDE DEF f
<1>5. stack' = <<f>> \o stack
 BY <1>1 DEF f
<1>6. Effect /\ TextInv'
 BY <1>2, <1>3, <1>4, <1>5, UserTop, CallEffect DEF Loops, Dtors, Flushers
<1> QED BY <1>2, <1>3, <1>6, UserTop, OutputSame DEF OutputStep

\* User code returns.
LEMMA UserReturnsStep ==
    ASSUME StackInv, OutputInv, UserReturns
    PROVE  OutputStep
<1>1. UserCode /\ phase' = phase /\ excused' = excused /\ stack' = Tail(stack)
 BY DEF UserReturns, Return
<1>2. UNCHANGED <<ob, writer, headers_sent, sent, printed, dropped, echoed>> /\ UNCHANGED resources
 BY DEF UserReturns, output
<1>3. Effect
 <2>1. Under(Tail(stack), ob # <<>>)
  BY <1>1, UserTop, UnderAll, UnderPop DEF Loops
 <2> QED BY <2>1, <1>1, <1>2, UnderEffect
<1> QED BY <1>1, <1>2, <1>3, UserTop, OutputSame, TextsNext DEF OutputStep

\* Which functions run when the phase has an executor.
LEMMA RunningTop ==
    ASSUME StackInv, NEW fn, Running(fn)
    PROVE  /\ stack # <<>> /\ stack \in Seq(Frames) /\ Top = stack[1] /\ stack[1].fn = fn
           /\ stack[1] \in Frames /\ 1 \in 1 .. Len(stack)
           /\ phase \notin {"headers", "done"}
           /\ fn \notin Dtors \cup {"destroy_list"} => phase # "deactivate"
<1>1. stack # <<>> /\ Head(stack).fn = fn
 BY DEF Running
<1> QED BY <1>1, BaseStack, Popped DEF Top

\* A buffer begins to end, its handler first.
LEMMA EndBufferStep ==
    ASSUME StackInv, OutputInv, TextInv, EndBuffer
    PROVE  OutputStep
<1> DEFINE text == Last(ob).text
           ended == [fn |-> "ended", send |-> Top.send, flush |-> Top.flush, text |-> text]
           handler == [fn |-> "handler", text |-> text]
           t == Tail(stack)
<1>1. /\ Running("end") /\ phase' = phase
      /\ excused' = IF InHandler THEN excused \cup {"repeated"} ELSE excused
      /\ UNCHANGED <<ob, writer, headers_sent, sent, printed, dropped, echoed>>
      /\ UNCHANGED resources
      /\ IF ob = <<>> THEN stack' = t
         ELSE stack' = <<handler, ended>> \o t \/ stack' = <<ended>> \o t
 BY DEF EndBuffer, Return, Call
<1>2. /\ stack # <<>> /\ stack \in Seq(Frames) /\ Top = stack[1] /\ stack[1].fn = "end"
      /\ stack[1] \in Frames /\ phase \notin {"headers", "done", "deactivate"} /\ 1 \in 1 .. Len(stack)
 BY <1>1, RunningTop DEF Dtors
<1>3. excused \subseteq excused' /\ ("held" \in excused' => "held" \in excused)
 BY <1>1
<1>4. OutputInv'
 BY <1>1, <1>3, OutputSame
<1>5. Under(t, ob # <<>>) /\ t \in Seq(Frames) /\ (~Flushing(stack[1]) => Calm(t))
 BY <1>2, UnderAll, UnderPop, TopCalm, Popped DEF Loops, StackInv
<1>6. t # <<>> => t[1].fn # "ended"
 <2>1. t # <<>> => 2 \in 1 .. Len(stack) /\ t[1] = stack[2] /\ 2 - 1 = 1
  <3>1. t # <<>> => Len(t) \in Nat \ {0}
   BY <1>5, EmptySeq
  <3> QED BY <3>1, <1>2, Popped
 <2> QED BY <2>1, <1>2 DEF StackInv, StackOK
<1>7. TextsOK(t, ob, echoed, printed, excused')
 <2>1. TextsOK(t, ob, echoed, printed, excused)
  BY <1>2, TextsPop DEF TextInv
 <2> QED BY <2>1, <1>3 DEF TextsOK, Owed
<1>8. "repeated" \in excused' \/ NoHandler(t)
 <2>1. CASE InHandler
  BY <2>1, <1>1
 <2>2. CASE ~InHandler
  <3>1. DOMAIN stack = 1 .. Len(stack)
   BY <1>2
  <3> QED BY <2>2, <3>1, <1>2, Popped DEF InHandler, NoHandler
 <2> QED BY <2>1, <2>2
<1>9. CASE ob = <<>>
 <2>1. stack' = t
  BY <1>1, <1>9
 <2>2. Effect
  BY <2>1, <1>1, <1>3, <1>5, UnderEffect
 <2>3. TextInv'
  <3>1. \A i \in 1 .. Len(t) : i = 1 => t[i].fn # "ended"
   <4>1. t = <<>> => 1 .. Len(t) = {}
    BY EmptySeq
   <4> HIDE DEF t
   <4> QED BY <4>1, <1>6
  <3>2. TextsOK(stack', ob', echoed', printed', excused')
   BY ONLY <2>1, <1>1, <1>7
  <3> QED BY <3>1, <3>2, <2>1 DEF TextInv
 <2> QED BY <2>2, <2>3, <1>1, <1>2, <1>4 DEF OutputStep
<1>10. CASE ob # <<>>
 <2>1. text \in Seq(Nat)
  BY <1>10, OutputFacts, ActiveBuffer DEF Buffers
 <2>2. ToSet(text) \subseteq 1 .. printed
  <3>1. /\ Texts(ob) = Texts(Front(ob)) \o text /\ Texts(Front(ob)) \in Seq(Nat)
        /\ ToSet(sent \o Texts(ob)) \subseteq 1 .. printed /\ sent \in Seq(Nat)
        /\ Texts(ob) \in Seq(Nat)
   BY <1>10, OutputFacts, ActiveBuffer, TextsType DEF Exact
  <3> HIDE DEF text
  <3> QED BY <3>1, <2>1, ToSetConcat
 <2>3. /\ ended \in Frames /\ ended.fn = "ended" /\ ended.flush = stack[1].flush
       /\ ended.text = text
       /\ handler \in Frames /\ handler.fn = "handler" /\ handler.text = text
  BY <1>2, <2>1, FrameFields, FrameKinds
 <2>4. \A f \in {ended, handler} : Owed(f, ob, echoed, excused')
  <3>1. text = text \o <<>> /\ <<>> \in Seq(Nat)
   BY <2>1, ConcatEmptySeq
  <3> QED BY <3>1, <2>3 DEF Owed, Beginning
 <2> HIDE DEF ended, handler, t
 <2>5. Calm(t) \/ Flushing(ended)
  BY <1>2, <1>5, <2>3 DEF Flushing
 <2> DEFINE r == <<ended>> \o t
 <2>6. Under(r, TRUE) /\ r # <<>> /\ r \in Seq(Frames) /\ r[1] = ended
  <3>1. CanPush(ended, t, TRUE, TRUE) /\ Under(t, TRUE)
   BY <1>5, <1>6, <1>10, <2>3, <2>5 DEF CanPush, Loops
  <3> QED BY <3>1, <1>2, <1>5, <2>3, UnderPush, Pushed DEF Dtors
 <2>7. TextsOK(r, ob, echoed, printed, excused') /\ ("repeated" \in excused' \/ NoHandler(r))
  <3>1. TextsOK(r, ob, echoed, printed, excused')
   BY <1>5, <1>7, <1>8, <2>2, <2>3, TextsPush
  <3>2. NoHandler(t) => NoHandler(r)
   <4>1. \A i \in 1 .. Len(r) : i = 1 \/ (i - 1 \in 1 .. Len(t) /\ r[i] = t[i - 1])
    BY <1>5, <2>3, Pushed
   <4> QED BY <4>1, <2>3, <2>6 DEF NoHandler
  <3> QED BY <3>1, <3>2, <1>8
 <2> HIDE DEF r
 <2>8. CASE stack' = r
  <3>1. Effect
   BY <2>6, <2>8, <1>1, <1>3, <1>10, UnderEffect
  <3>2. TextInv'
   BY <2>4, <2>6, <2>7, <2>8, <1>1 DEF TextInv
  <3> QED BY <3>1, <3>2, <1>1, <1>2, <1>4 DEF OutputStep
 <2>9. CASE stack' = <<handler, ended>> \o t
  <3>1. stack' = <<handler>> \o r
   BY <2>3, <2>9, <1>5, PushTwo DEF r
  <3>2. CanPush(handler, r, TRUE, TRUE)
   BY <2>3, <2>6 DEF CanPush, Loops, Flushing
  <3>3. Under(stack', TRUE) /\ stack' \in Seq(Frames) /\ stack'[1] = handler
   BY <2>3, <2>6, <3>1, <3>2, <1>2, UnderPush, Pushed DEF Dtors
  <3>4. Effect
   BY <3>3, <1>1, <1>3, <1>10, UnderEffect
  <3>5. TextsOK(stack', ob, echoed, printed, excused')
   BY <2>2, <2>3, <2>4, <2>6, <2>7, <3>1, TextsPush
  <3>6. TextInv'
   BY <3>3, <3>5, <2>3, <1>1 DEF TextInv
  <3> QED BY <3>4, <3>6, <1>1, <1>2, <1>4 DEF OutputStep
 <2> QED BY <2>8, <2>9, <1>1, <1>10 DEF r
<1> QED BY <1>9, <1>10

\* The handler returns.
LEMMA HandlerReturnsStep ==
    ASSUME StackInv, OutputInv, TextInv, HandlerReturns
    PROVE  OutputStep
<1>1. PICK text \in {Top.text, Last(ob).text} :
        stack' = <<[stack[2] EXCEPT !.text = text]>> \o Tail(Tail(stack))
 BY DEF HandlerReturns
<1>2. /\ Running("handler") /\ phase' = phase /\ excused' = excused
      /\ UNCHANGED <<ob, writer, headers_sent, sent, printed, dropped, echoed>>
      /\ UNCHANGED resources
 BY DEF HandlerReturns
<1>3. /\ stack # <<>> /\ stack \in Seq(Frames) /\ stack[1].fn = "handler" /\ Top = stack[1]
      /\ phase \notin {"headers", "done", "deactivate"} /\ ob # <<>> /\ stack[1] \in Frames
      /\ 1 \in 1 .. Len(stack)
 BY <1>2, HandlerTop, RunningTop
<1> DEFINE t == Tail(stack)
           u == Tail(t)
           ended == [stack[2] EXCEPT !.text = text]
<1>4. t # <<>> /\ t[1].fn = "ended" /\ t[1] = stack[2] /\ t \in Seq(Frames)
 BY <1>3, TopCalm, Popped DEF StackInv
<1>5. Under(t, TRUE)
 BY <1>3, UnderAll, UnderPop DEF Loops
<1>6. /\ Under(u, TRUE) /\ u \in Seq(Frames) /\ t[1] \in Frames
      /\ Calm(u) \/ Flushing(t[1])
      /\ u # <<>> => u[1].fn # "ended"
 <2>1. Under(u, TRUE) /\ u \in Seq(Frames) /\ t[1] \in Frames
  BY <1>4, <1>5, UnderPop, Popped DEF Loops
 <2>2. Calm(u) \/ Flushing(t[1])
  BY <1>4, <1>5, TopCalm DEF Under
 <2>3. u # <<>> => 2 \in 1 .. Len(t) /\ u[1] = t[2] /\ 2 - 1 = 1
  <3>1. u # <<>> => Len(u) \in Nat \ {0}
   BY <2>1, EmptySeq
  <3> QED BY <3>1, <1>4, Popped
 <2>4. StackOK(t, TRUE)
  BY <1>5 DEF Under
 <2>5. u # <<>> => u[1].fn # "ended"
  BY <2>3, <2>4, <1>4 DEF StackOK
 <2> QED BY <2>1, <2>2, <2>5
<1>7. /\ text \in Seq(Nat) /\ ToSet(text) \subseteq 1 .. printed
      /\ ToSet(Last(ob).text) \subseteq ToSet(text) \cup echoed
      /\ "repeated" \notin excused => Beginning(text, Last(ob).text)
 <2>1. Last(ob).text \in Seq(Nat) /\ ToSet(Last(ob).text) \subseteq 1 .. printed
  <3> DEFINE l == Last(ob).text
  <3>1. l \in Seq(Nat)
   BY <1>3, OutputFacts, ActiveBuffer DEF Buffers
  <3>2. /\ Texts(ob) = Texts(Front(ob)) \o l /\ Texts(Front(ob)) \in Seq(Nat)
        /\ ToSet(sent \o Texts(ob)) \subseteq 1 .. printed /\ sent \in Seq(Nat)
        /\ Texts(ob) \in Seq(Nat)
   BY <1>3, OutputFacts, ActiveBuffer, TextsType DEF Exact
  <3>3. PICK m \in Seq(Nat) : m = Texts(Front(ob))
   BY <3>2
  <3>4. PICK k \in Seq(Nat) : k = Texts(ob)
   BY <3>2
  <3> HIDE DEF l
  <3>5. ToSet(k) = ToSet(m) \cup ToSet(l) /\ ToSet(sent \o k) = ToSet(sent) \cup ToSet(k)
   <4>1. k = m \o l
    BY <3>2, <3>3, <3>4
   <4> QED BY <4>1, <3>1, <3>2, ToSetConcat
  <3>6. ToSet(l) \subseteq 1 .. printed
   BY <3>2, <3>4, <3>5
  <3> QED BY <3>1, <3>6 DEF l
 <2>2. CASE text = Last(ob).text
  <3>1. text = text \o <<>> /\ <<>> \in Seq(Nat)
   BY <2>1, <2>2, ConcatEmptySeq
  <3> QED BY <2>1, <2>2, <3>1 DEF Beginning
 <2>3. CASE text = Top.text
  <3>1. \A j \in 1 .. 1 - 1 : FALSE
   OBVIOUS
  <3>2. ToSet(Top.text) \subseteq 1 .. printed /\ Owed(Top, ob, echoed, excused)
   BY <3>1, <1>3 DEF TextInv, TextsOK
  <3> QED BY <2>3, <3>2, <1>3, FrameFields DEF Owed
 <2> QED BY <2>2, <2>3
<1>8. /\ ended \in Frames /\ ended.fn = "ended" /\ ended.flush = t[1].flush /\ ended.text = text
 BY <1>4, <1>6, <1>7, FrameFields
<1> HIDE DEF ended, t, u
<1>9. stack' = <<ended>> \o u
 BY <1>1 DEF ended, t, u
<1>10. Under(stack', TRUE) /\ stack'[1] = ended /\ stack' \in Seq(Frames)
 <2>1. Calm(u) \/ Flushing(ended)
  BY <1>4, <1>6, <1>8 DEF Flushing
 <2>2. CanPush(ended, u, TRUE, TRUE)
  BY <2>1, <1>6, <1>8 DEF CanPush, Loops
 <2> QED BY <2>2, <1>3, <1>6, <1>8, <1>9, UnderPush, Pushed DEF Dtors
<1>11. Effect
 BY <1>2, <1>3, <1>10, UnderEffect
<1>12. TextsOK(stack', ob, echoed, printed, excused)
 <2>1. TextsOK(t, ob, echoed, printed, excused) /\ ("repeated" \notin excused => NoHandler(t))
  BY <1>3, TextsPop DEF TextInv, t
 <2>2. TextsOK(u, ob, echoed, printed, excused) /\ ("repeated" \notin excused => NoHandler(u))
  BY <2>1, <1>4, TextsPop DEF u
 <2> QED BY <2>2, <1>6, <1>7, <1>8, <1>9, TextsPush
<1>13. TextInv'
 BY <1>2, <1>7, <1>8, <1>10, <1>12 DEF TextInv, Owed
<1> QED BY <1>2, <1>3, <1>11, <1>13, OutputSame DEF OutputStep

\* After a flush the buffer is back, empty.
LEMMA RestoreStep ==
    ASSUME StackInv, OutputInv, TextInv, Restore
    PROVE  OutputStep
<1>1. /\ Running("restore") /\ phase' = phase /\ excused' = excused /\ stack' = Tail(stack)
      /\ ob' = Append(ob, Top.buf) /\ writer' = "buffer"
      /\ UNCHANGED <<headers_sent, sent, printed, dropped, echoed>> /\ UNCHANGED resources
 BY DEF Restore, Return
<1>2. /\ stack # <<>> /\ stack \in Seq(Frames) /\ stack[1].fn = "restore" /\ phase # "deactivate"
      /\ Top = stack[1] /\ stack[1] \in Frames /\ 1 \in 1 .. Len(stack)
 BY <1>1, RunningTop DEF Dtors
<1> DEFINE x == Top.buf
<1>3. x \in Buffers /\ x.text = <<>>
 BY <1>2, FrameFields
<1> HIDE DEF x
<1>4. ob' = Append(ob, x)
 BY <1>1 DEF x
<1>5. ob' \in Seq(Buffers) /\ ob' # <<>> /\ Last(ob') = x
 BY <1>3, <1>4, OutputFacts, AppendProperties DEF Last
<1>6. Texts(ob') = Texts(ob)
 <2>1. Texts(ob') = Texts(ob) \o x.text
  BY <1>3, <1>4, OutputFacts, TextsAppend
 <2>2. Texts(ob) \o <<>> = Texts(ob)
  BY OutputFacts, ConcatEmptySeq
 <2> QED BY <2>1, <2>2, <1>3
<1>7. OutputInv'
 BY <1>1, <1>5, <1>6, OutputFacts, OutputNext
<1>8. Restoring(stack)
 BY <1>2 DEF Restoring
<1>9. Under(Tail(stack), TRUE)
 BY <1>2, UnderAll, UnderPop DEF Loops
<1>10. Effect
 BY <1>1, <1>5, <1>8, <1>9, UnderEffect
<1>11. TextInv'
 <2>1. TextsOK(stack', ob', echoed', printed', excused')
  BY <1>1, <1>2, <1>3, <1>5, TextsRestored DEF TextInv
 <2>2. \A i \in 1 .. Len(stack') : i = 1 => 2 \in 1 .. Len(stack) /\ stack'[i] = stack[2] /\ 2 - 1 = 1
  BY <1>1, <1>2, Popped
 <2>3. \A i \in 1 .. Len(stack') : i = 1 => stack'[i].fn # "ended"
  BY <2>2, <1>2 DEF StackInv, StackOK
 <2> QED BY <2>1, <2>3 DEF TextInv
<1> QED BY <1>1, <1>2, <1>7, <1>10, <1>11 DEF OutputStep

\* The flush of all buffers: one more, or the loop is over.
LEMMA EndBuffersStep ==
    ASSUME StackInv, OutputInv, EndBuffers
    PROVE  OutputStep
<1>1. Running("end_buffers") /\ phase' = phase /\ excused' = excused
 BY DEF EndBuffers
<1>2. UNCHANGED <<ob, writer, headers_sent, sent, printed, dropped, echoed>> /\ UNCHANGED resources
 BY DEF EndBuffers, output
<1>3. /\ stack # <<>> /\ stack \in Seq(Frames) /\ stack[1].fn = "end_buffers" /\ phase # "deactivate"
      /\ Base(stack, phase)
 BY <1>1, RunningTop, BaseStack DEF Dtors, Flushers
<1>4. CASE ob = <<>>
 <2>1. stack' = Tail(stack)
  BY <1>4 DEF EndBuffers
 <2>2. StackOK(Tail(stack), FALSE) /\ Calm(Tail(stack))
  BY <1>3, PopOK, CalmPop DEF Base
 <2>3. PhaseOK(Tail(stack), phase)
  BY <1>3, PhasePop DEF StackInv
 <2>4. (Restoring(Tail(stack)) => Restoring(stack)) /\ Released(stack, Tail(stack))
  BY <1>3, RestoringPop, ReleasedPop
 <2>5. Effect
  <3>1. (ob' # <<>>) = FALSE
   BY <1>2, <1>4
  <3> QED BY <1>1, <1>2, <1>4, <2>1, <2>2, <2>3, <2>4, <3>1 DEF Effect
 <2> QED BY <2>1, <2>2, <2>5, <1>1, <1>2, <1>3, OutputSame, TextsNext DEF OutputStep
<1>5. CASE ob # <<>>
 <2> DEFINE f == [fn |-> "end", send |-> ~headers_only, flush |-> FALSE]
 <2>1. stack' = <<f>> \o stack
  BY <1>5 DEF EndBuffers
 <2>2. f \in Frames /\ f.fn = "end"
  BY FrameKinds
 <2> HIDE DEF f
 <2>3. Effect /\ TextInv'
  BY <1>1, <1>2, <1>3, <2>1, <2>2, CallEffect DEF Loops, Dtors, Flushers
 <2> QED BY <2>3, <1>1, <1>2, <1>3, OutputSame DEF OutputStep
<1> QED BY <1>4, <1>5

\* A buffer has ended: its text goes below, to the client or nowhere.
LEMMA EndedStep ==
    ASSUME StackInv, OutputInv, TextInv, Ended
    PROVE  OutputStep
<1> DEFINE buf == Last(ob)
           below == Front(ob)
           w == IF below = <<>> THEN "direct" ELSE writer
           empty == [buf EXCEPT !.text = <<>>]
           restore == [fn |-> "restore", buf |-> empty]
           rest == (IF Top.flush THEN <<restore>> ELSE <<>>) \o Tail(stack)
           l == buf.text
           x == Top.text
<1>1. /\ Running("ended") /\ phase' = phase
      /\ UNCHANGED <<printed, echoed>> /\ UNCHANGED resources
      /\ IF Top.send
         THEN Write(x, below, w, rest)
         ELSE /\ ob' = below
              /\ writer' = w
              /\ dropped' = dropped \cup ToSet(l)
              /\ stack' = rest
              /\ UNCHANGED <<headers_sent, sent, excused>>
 BY DEF Ended
<1>2. /\ stack # <<>> /\ stack \in Seq(Frames) /\ stack[1].fn = "ended" /\ Top = stack[1]
      /\ phase \notin {"headers", "done", "deactivate"} /\ stack[1] \in Frames
      /\ 1 \in 1 .. Len(stack) /\ StackOK(stack, ob # <<>>)
 BY <1>1, RunningTop DEF Dtors, StackInv
<1>3. ob # <<>> /\ x \in Seq(Nat)
 BY <1>2, BaseStack, FrameFields
<1>4. below \in Seq(Buffers) /\ buf \in Buffers /\ Texts(ob) = Texts(below) \o l /\ l \in Seq(Nat)
 BY <1>3, OutputFacts, ActiveBuffer DEF Buffers
<1>5. /\ TextsOK(stack, ob, echoed, printed, excused) /\ ToSet(x) \subseteq 1 .. printed
      /\ ToSet(l) \subseteq ToSet(x) \cup echoed
      /\ "repeated" \notin excused => Beginning(x, l)
 BY <1>2 DEF TextInv, TextsOK, Owed
<1> HIDE DEF buf, below
<1>6. empty \in Buffers /\ empty.text = <<>>
 <2>1. <<>> \in Seq(Nat)
  OBVIOUS
 <2> QED BY <1>4, <2>1 DEF Buffers
<1>7. w \in {"buffer", "direct"} /\ (w = "buffer" <=> below # <<>>)
 BY <1>3, OutputFacts
<1>8. restore \in Frames /\ restore.fn = "restore"
 BY <1>6, FrameKinds
<1> HIDE DEF empty, restore, l, x, w
<1>9. /\ \A c \in BOOLEAN : Under(rest, c)
      /\ rest \in Seq(Frames) /\ (rest # <<>> => rest[1].fn # "ended")
      /\ \A c : TextsOK(rest, c, echoed, printed, excused)
 <2> DEFINE t == Tail(stack)
 <2>1. /\ Under(t, TRUE) /\ t \in Seq(Frames)
       /\ TextsOK(t, ob, echoed, printed, excused)
       /\ "repeated" \in excused \/ NoHandler(t)
  BY <1>2, <1>5, UnderAll, UnderPop, TextsPop, Popped DEF Loops
 <2>2. t # <<>> => t[1].fn # "ended"
  <3>1. t # <<>> => 2 \in 1 .. Len(stack) /\ t[1] = stack[2] /\ 2 - 1 = 1
   <4>1. t # <<>> => Len(t) \in Nat \ {0}
    BY <2>1, EmptySeq
   <4> QED BY <4>1, <1>2, Popped
  <3> QED BY <3>1, <1>2 DEF StackOK
 <2>3. ~Top.flush => Calm(t)
  BY <1>2, TopCalm DEF Flushing
 <2> HIDE DEF t
 <2>4. CASE Top.flush
  <3>1. rest = <<restore>> \o t
   BY <2>4 DEF t
  <3>2. ASSUME NEW c \in BOOLEAN PROVE Under(rest, c)
   <4>1. CanPush(restore, t, TRUE, c)
    BY <1>8, <2>2 DEF CanPush, Loops, Flushing
   <4> QED BY <4>1, <3>1, <1>2, <1>3, <1>8, <2>1, UnderPush DEF Dtors
  <3>3. ASSUME NEW c PROVE TextsOK(rest, c, echoed, printed, excused)
   BY <3>1, <1>8, <2>1, TextsPush
  <3>4. rest \in Seq(Frames) /\ rest[1] = restore
   <4>1. <<restore>> \o t \in Seq(Frames) /\ (<<restore>> \o t)[1] = restore
    BY ONLY <1>8, <2>1, Pushed
   <4> QED BY ONLY <3>1, <4>1
  <3> QED BY <3>2, <3>3, <3>4, <1>8
 <2>5. CASE ~Top.flush
  <3>1. rest = t
   BY <2>1, <2>5, ConcatEmptySeq DEF t
  <3>2. \A c \in BOOLEAN : Under(t, c)
   BY <2>1, <2>3, <2>5, CalmAny DEF Under
  <3>3. \A c : TextsOK(t, c, echoed, printed, excused)
   BY <2>3, <2>5, TextsCalm
  <3> QED BY <3>1, <3>2, <3>3, <2>1, <2>2
 <2> QED BY <2>4, <2>5
<1>10. Texts(below) \in Seq(Nat) /\ sent \o Texts(below) \in Seq(Nat)
 BY <1>4, OutputFacts, TextsType, ConcatProperties
<1>11. Exact((sent \o Texts(below)) \o l, dropped, echoed, printed, excused)
 <2>1. sent \in Seq(Nat)
  BY OutputFacts
 <2>2. (sent \o Texts(below)) \o l = sent \o (Texts(below) \o l)
  BY <2>1, <1>4, <1>10, Associative
 <2> QED BY <2>2, <1>4, OutputFacts
<1>12. Exact((sent \o Texts(below)) \o x, dropped, echoed, printed, excused)
 BY <1>3, <1>4, <1>5, <1>10, <1>11, ExactReplace
<1> HIDE DEF rest
<1>13. CASE Top.send
 <2>1. Write(x, below, w, rest)
  BY <1>1, <1>13
 <2>2. /\ ob' \in Seq(Buffers) /\ writer' = w /\ (ob' # <<>> <=> below # <<>>)
       /\ sent' \in Seq(Nat) /\ headers_sent' \in BOOLEAN
       /\ headers_sent => headers_sent'
       /\ sent' # <<>> => headers_sent'
       /\ \/ /\ sent' \o Texts(ob') = (sent \o Texts(below)) \o x
             /\ dropped' = dropped
          \/ /\ sent' \o Texts(ob') = sent \o Texts(below)
             /\ dropped' = dropped \cup ToSet(x)
  BY <2>1, <1>3, <1>4, <1>7, OutputFacts, WriteOutput
 <2>3. Exact(sent' \o Texts(ob'), dropped', echoed, printed, excused)
  <3>1. Exact(sent \o Texts(below), dropped \cup ToSet(x), echoed, printed, excused)
   BY <1>3, <1>10, <1>12, ExactDrop
  <3> QED BY <3>1, <2>2, <1>12
 <2>4. \/ /\ stack' = rest \/ (stack' = <<ChunkEnd>> \o rest /\ w = "buffer")
          /\ Under(stack', ob' # <<>>) /\ excused' = excused
       \/ Bailout
  BY <2>1, <1>2, <1>9, WriteStack
 <2>5. Effect /\ excused \subseteq excused'
  <3>1. Bailout => excused \subseteq excused'
   BY DEF Bailout
  <3>2. CASE Bailout
   BY <3>1, <3>2, <2>2, <1>1, <1>3, BailoutEffect
  <3>3. CASE Under(stack', ob' # <<>>) /\ excused' = excused
   BY <3>3, <2>2, <1>1, <1>3, UnderEffect
  <3> QED BY <2>4, <3>2, <3>3
 <2>6. OutputInv'
  BY <2>2, <2>3, <2>5, <1>1, <1>7, OutputFacts, OutputNext
 <2>7. TextInv'
  <3>1. CASE Bailout
   BY <3>1, TextsNext, EmptyOK DEF Bailout
  <3>2. CASE ~Bailout
   <4>1. ChunkEnd \in Frames /\ ChunkEnd.fn = "end"
    BY FrameKinds DEF ChunkEnd
   <4>2. TextsOK(rest, ob', echoed, printed, excused)
    BY <1>9
   <4>3. CASE stack' = rest
    <5>1. \A i \in 1 .. Len(rest) : i = 1 => rest # <<>>
     OBVIOUS
    <5> QED BY <5>1, <4>2, <4>3, <3>2, <2>4, <1>1, <1>9 DEF TextInv
   <4>4. CASE stack' = <<ChunkEnd>> \o rest
    <5>1. TextsOK(stack', ob', echoed, printed, excused)
     BY <4>1, <4>2, <4>4, <1>9, TextsPush
    <5>2. stack'[1] = ChunkEnd
     BY <4>1, <4>4, <1>9, Pushed
    <5> QED BY <5>1, <5>2, <4>1, <3>2, <2>4, <1>1 DEF TextInv
   <4> QED BY <4>3, <4>4, <3>2, <2>4
  <3> QED BY <3>1, <3>2
 <2> QED BY <2>5, <2>6, <2>7, <1>1, <1>2 DEF OutputStep
<1>14. CASE ~Top.send
 <2>1. /\ ob' = below /\ writer' = w /\ dropped' = dropped \cup ToSet(l) /\ stack' = rest
       /\ UNCHANGED <<headers_sent, sent, excused>>
  BY <1>1, <1>14
 <2>2. OutputInv'
  <3>1. Exact(sent \o Texts(below), dropped \cup ToSet(l), echoed, printed, excused)
   BY <1>4, <1>10, <1>11, ExactDrop
  <3> QED BY <3>1, <2>1, <1>1, <1>4, <1>7, OutputFacts, OutputNext
 <2>3. Effect
  BY <2>1, <1>1, <1>3, <1>9, UnderEffect
 <2>4. TextInv'
  <3>1. \A i \in 1 .. Len(rest) : i = 1 => rest # <<>>
   OBVIOUS
  <3> QED BY <3>1, <2>1, <1>1, <1>9 DEF TextInv
 <2> QED BY <2>2, <2>3, <2>4, <1>1, <1>2 DEF OutputStep
<1> QED BY <1>13, <1>14

--------------------
(* The steps of resources.                                                 *)

Resource == [refs : Nat \ {0}, holds : Ids \cup {NULL}]

\* What the invariant says of resources before a step.
LEMMA ResourceFacts ==
    ASSUME ResourcesInv
    PROVE  /\ list \in [Ids -> {NULL} \cup Resource] /\ NULL \notin Resource /\ NULL \notin Ids
           /\ next_id \in 1 .. MaxResources + 1 /\ script \in [Ids -> Nat]
           /\ destroyed \in Seq(Ids)
           /\ Lifetimes /\ Live \subseteq Ids
           /\ \A id \in Ids : list[id] # NULL => /\ list[id].refs \in Nat \ {0}
                                                 /\ list[id].holds \in Ids \cup {NULL}
           /\ \A id \in Ids : list[id] # NULL /\ list[id].holds # NULL => list[id].holds < id
<1>1. list \in [Ids -> {NULL} \cup Resource]
 BY DEF ResourcesInv, ResourcesTypeOK, Resource
<1>2. NULL \notin Resource /\ NULL \notin Ids
 BY ResourceAssumption DEF Resource
<1>3. \A id \in Ids : list[id] # NULL => list[id] \in Resource
 BY <1>1
<1>4. \A r \in Resource : r.refs \in Nat \ {0} /\ r.holds \in Ids \cup {NULL}
 BY DEF Resource
<1> QED BY <1>1, <1>2, <1>3, <1>4 DEF ResourcesInv, ResourcesTypeOK, Live

\* A resource leaves the list.
LEMMA KillList ==
    ASSUME ResourcesInv, NEW id \in Live,
           list' = [list EXCEPT ![id] = NULL], destroyed' = Append(destroyed, id), next_id' = next_id
    PROVE  /\ list' \in [Ids -> {NULL} \cup Resource]
           /\ destroyed' \in Seq(Ids)
           /\ Lifetimes'
           /\ \A k \in Ids : list'[k] # NULL /\ list'[k].holds # NULL => list'[k].holds < k
           /\ Live' = Live \ {id}
<1>1. id \in Ids /\ list[id] # NULL
 BY DEF Live
<1>2. /\ list' \in [Ids -> {NULL} \cup Resource] /\ list'[id] = NULL
      /\ \A k \in Ids \ {id} : list'[k] = list[k]
 BY <1>1, ResourceFacts
<1>3. Live' = Live \ {id}
 BY <1>2 DEF Live
<1>4. destroyed' \in Seq(Ids)
 BY <1>1, ResourceFacts, AppendProperties
<1>5. \A k \in Ids : list'[k] # NULL /\ list'[k].holds # NULL => list'[k].holds < k
 BY <1>2, ResourceFacts
<1>6. /\ DOMAIN destroyed = 1 .. Len(destroyed) /\ Len(destroyed) \in Nat
      /\ DOMAIN destroyed' = 1 .. Len(destroyed) + 1
      /\ \A i \in 1 .. Len(destroyed) : destroyed'[i] = destroyed[i]
      /\ destroyed'[Len(destroyed) + 1] = id
 BY <1>1, ResourceFacts, AppendProperties, LenProperties
<1>7. ToSet(destroyed') = ToSet(destroyed) \cup {id}
 <2>1. \A i \in 1 .. Len(destroyed) + 1 : i \in 1 .. Len(destroyed) \/ i = Len(destroyed) + 1
  BY <1>6
 <2>2. \A i \in 1 .. Len(destroyed) : i \in 1 .. Len(destroyed) + 1
  BY <1>6
 <2>3. Len(destroyed) + 1 \in 1 .. Len(destroyed) + 1
  BY <1>6
 <2>4. ASSUME NEW v \in ToSet(destroyed') PROVE v \in ToSet(destroyed) \cup {id}
  BY <1>6, <2>1 DEF ToSet
 <2>5. ASSUME NEW v \in ToSet(destroyed) \cup {id} PROVE v \in ToSet(destroyed')
  <3>1. CASE v = id
   BY <1>6, <2>3, <3>1 DEF ToSet
  <3>2. CASE v # id
   <4>1. PICK i \in 1 .. Len(destroyed) : v = destroyed[i]
    BY <1>6, <2>5, <3>2 DEF ToSet
   <4> QED BY <4>1, <1>6, <2>2 DEF ToSet
  <3> QED BY <3>1, <3>2
 <2> QED BY <2>4, <2>5
<1>8. id \notin ToSet(destroyed)
 BY ResourceFacts DEF Lifetimes
<1>9. \A i, j \in DOMAIN destroyed' : i # j => destroyed'[i] # destroyed'[j]
 <2> SUFFICES ASSUME NEW i \in 1 .. Len(destroyed) + 1, NEW j \in 1 .. Len(destroyed) + 1, i # j
              PROVE  destroyed'[i] # destroyed'[j]
  BY <1>6
 <2>1. \A k \in 1 .. Len(destroyed) : destroyed[k] # id
  BY <1>6, <1>8 DEF ToSet
 <2>2. CASE i \in 1 .. Len(destroyed) /\ j \in 1 .. Len(destroyed)
  BY <2>2, <1>6, ResourceFacts DEF Lifetimes
 <2>3. CASE i = Len(destroyed) + 1
  <3>1. j \in 1 .. Len(destroyed)
   BY <2>3, <1>6
  <3> QED BY <3>1, <2>1, <2>3, <1>6
 <2>4. CASE j = Len(destroyed) + 1
  <3>1. i \in 1 .. Len(destroyed)
   BY <2>4, <1>6
  <3> QED BY <3>1, <2>1, <2>4, <1>6
 <2> QED BY <2>2, <2>3, <2>4, <1>6
<1>10. Lifetimes'
 <2>1. Live \cup ToSet(destroyed) = 1 .. next_id - 1 /\ Live \cap ToSet(destroyed) = {}
  BY ResourceFacts DEF Lifetimes
 <2>2. (Live \ {id}) \cup (ToSet(destroyed) \cup {id}) = 1 .. next_id - 1
  BY <2>1
 <2>3. (Live \ {id}) \cap (ToSet(destroyed) \cup {id}) = {}
  BY <2>1, <1>8
 <2> QED BY <2>2, <2>3, <1>3, <1>7, <1>9 DEF Lifetimes
<1> QED BY <1>2, <1>3, <1>4, <1>5, <1>10

\* Its references are accounted for when nothing refers to it: the one it holds is
\* now held by its destructor.
LEMMA KillCounted ==
    ASSUME NEW l \in [Ids -> {NULL} \cup Resource], NULL \notin Resource, NULL \notin Ids,
           NEW refs \in [Ids -> Nat], NEW refs2,
           NEW s \in Seq(Frames), NEW rest \in Seq(Frames), NEW id \in Ids,
           l[id] # NULL, l[id].holds # id, Counted(l, refs, s),
           Holders(l, id) = {}, HeldAt(rest, id) = {},
           \A h \in Ids \ {id} : refs2[h] = refs[h] /\ HeldAt(rest, h) = HeldAt(s, h)
    PROVE  Counted([l EXCEPT ![id] = NULL], refs2, <<[fn |-> "dtor", holds |-> l[id].holds]>> \o rest)
<1> DEFINE m == [l EXCEPT ![id] = NULL]
           d == l[id].holds
           f == [fn |-> "dtor", holds |-> d]
           r == <<f>> \o rest
<1>1. d \in Ids \cup {NULL} /\ d # id
 <2>1. l[id] \in Resource
  OBVIOUS
 <2> QED BY <2>1 DEF Resource
<1>2. f \in Frames /\ f.fn \in Dtors /\ f.holds = d
 BY <1>1, FrameKinds DEF Dtors
<1>3. m[id] = NULL /\ \A k \in Ids \ {id} : m[k] = l[k]
 OBVIOUS
<1> HIDE DEF m, d, f
<1>4. r \in Seq(Frames) /\ Len(rest) \in Nat
 BY <1>2, Pushed
<1>5. /\ \A h \in Ids \ {d} : HeldAt(r, h) = HeldAt(rest, h)
      /\ Cardinality(HeldAt(r, d)) = Cardinality(HeldAt(rest, d)) + 1
 BY <1>2, HeldPush
<1>6. \A h : Holders(m, h) = Holders(l, h) \ {id}
 BY <1>3 DEF Holders
<1>7. \A h \in Ids \ {d} : id \notin Holders(l, h)
 BY DEF Holders, d
<1>8. d \in Ids => id \in Holders(l, d)
 BY DEF Holders, d
<1> HIDE DEF r
<1>9. Counted(m, refs2, r)
 <2> SUFFICES ASSUME NEW h \in Ids
              PROVE  IF m[h] = NULL THEN Holders(m, h) = {} /\ HeldAt(r, h) = {}
                     ELSE m[h].refs >= refs2[h] + Cardinality(Holders(m, h))
                                                + Cardinality(HeldAt(r, h))
  BY DEF Counted
 <2>1. CASE h = id
  BY <2>1, <1>1, <1>3, <1>5, <1>6
 <2>2. CASE h # id /\ h # d
  <3>1. Holders(m, h) = Holders(l, h) /\ HeldAt(r, h) = HeldAt(s, h)
   <4>1. h \in Ids \ {d} /\ h \in Ids \ {id}
    BY <2>2
   <4>2. Holders(m, h) = Holders(l, h)
    <5>1. id \notin Holders(l, h)
     BY <4>1, <1>7
    <5>2. Holders(m, h) = Holders(l, h) \ {id}
     BY <1>6
    <5> QED BY <5>1, <5>2
   <4>3. HeldAt(r, h) = HeldAt(rest, h)
    BY <4>1, <1>5
   <4> QED BY <4>1, <4>2, <4>3
  <3> QED BY <3>1, <2>2, <1>3 DEF Counted
 <2>3. CASE h # id /\ h = d
  <3>1. l[h] # NULL
   BY <2>3, <1>8 DEF Counted
  <3>2. l[h].refs >= refs[h] + Cardinality(Holders(l, h)) + Cardinality(HeldAt(s, h))
   BY <3>1 DEF Counted
  <3>3. /\ IsFiniteSet(Holders(l, h)) /\ Cardinality(Holders(l, h)) \in Nat
        /\ IsFiniteSet(HeldAt(s, h)) /\ Cardinality(HeldAt(s, h)) \in Nat
   BY HoldersBound, HeldBound
  <3>4. Cardinality(Holders(m, h)) = Cardinality(Holders(l, h)) - 1
   BY <2>3, <3>3, <1>6, <1>8, FS_RemoveElement
  <3>5. Cardinality(HeldAt(r, h)) = Cardinality(HeldAt(s, h)) + 1
   <4>1. h \in Ids \ {id}
    BY <2>3
   <4> QED BY <4>1, <2>3, <1>5
  <3>6. refs[h] \in Nat /\ l[h].refs \in Nat
   <4>1. l[h] \in Resource
    BY <3>1
   <4> QED BY <4>1 DEF Resource
  <3>7. m[h] = l[h] /\ refs2[h] = refs[h]
   BY <2>3, <1>3
  <3> QED BY <3>1, <3>2, <3>3, <3>4, <3>5, <3>6, <3>7
 <2> QED BY <2>1, <2>2, <2>3
<1> QED BY <1>9 DEF m, d, f, r

\* One reference less.
LEMMA DropCounted ==
    ASSUME NEW l \in [Ids -> {NULL} \cup Resource], NULL \notin Resource,
           NEW refs \in [Ids -> Nat], NEW refs2 \in [Ids -> Nat],
           NEW s \in Seq(Frames), NEW rest \in Seq(Frames), NEW id \in Ids,
           l[id] # NULL, l[id].refs > 1, Counted(l, refs, s),
           refs2[id] + Cardinality(HeldAt(rest, id)) + 1 = refs[id] + Cardinality(HeldAt(s, id)),
           \A h \in Ids \ {id} : refs2[h] = refs[h] /\ HeldAt(rest, h) = HeldAt(s, h)
    PROVE  Counted([l EXCEPT ![id].refs = @ - 1], refs2, rest)
<1> DEFINE m == [l EXCEPT ![id].refs = @ - 1]
<1>1. l[id] \in Resource
 OBVIOUS
<1>2. /\ m[id] \in Resource /\ m[id].refs = l[id].refs - 1 /\ m[id].holds = l[id].holds
      /\ \A k \in Ids \ {id} : m[k] = l[k]
 <2>1. m[id] = [l[id] EXCEPT !.refs = @ - 1] /\ \A k \in Ids \ {id} : m[k] = l[k]
  OBVIOUS
 <2> HIDE DEF m
 <2>2. l[id].refs - 1 \in Nat \ {0}
  BY <1>1 DEF Resource
 <2> QED BY <1>1, <2>1, <2>2 DEF Resource
<1>3. m[id] # NULL
 BY <1>2
<1> HIDE DEF m
<1>4. \A h : Holders(m, h) = Holders(l, h)
 BY <1>2, <1>3 DEF Holders
<1>5. Counted(m, refs2, rest)
 <2> SUFFICES ASSUME NEW h \in Ids
              PROVE  IF m[h] = NULL THEN Holders(m, h) = {} /\ HeldAt(rest, h) = {}
                     ELSE m[h].refs >= refs2[h] + Cardinality(Holders(m, h))
                                                + Cardinality(HeldAt(rest, h))
  BY DEF Counted
 <2>1. CASE h = id
  <3>1. l[h].refs >= refs[h] + Cardinality(Holders(l, h)) + Cardinality(HeldAt(s, h))
   BY <2>1 DEF Counted
  <3>2. /\ Cardinality(Holders(l, h)) \in Nat /\ Cardinality(HeldAt(s, h)) \in Nat
        /\ Cardinality(HeldAt(rest, h)) \in Nat /\ refs[h] \in Nat /\ refs2[h] \in Nat
        /\ l[h].refs \in Nat
   BY <2>1, <1>1, HoldersBound, HeldBound DEF Resource
  <3>3. Holders(m, h) = Holders(l, h) /\ m[h].refs = l[h].refs - 1
   BY <2>1, <1>2, <1>4
  <3> QED BY <2>1, <3>1, <3>2, <3>3, <1>3
 <2>2. CASE h # id
  BY <2>2, <1>2, <1>4 DEF Counted
 <2> QED BY <2>1, <2>2
<1> QED BY <1>5 DEF m

\* zend_list_delete on the list, whoever calls it.
LEMMA DeleteList ==
    ASSUME ResourcesInv, NEW id \in Ids \cup {NULL}, NEW rest, Delete(id, rest), next_id' = next_id
    PROVE  /\ list' \in [Ids -> {NULL} \cup Resource]
           /\ destroyed' \in Seq(Ids)
           /\ Lifetimes'
           /\ \A k \in Ids : list'[k] # NULL /\ list'[k].holds # NULL => list'[k].holds < k
           /\ \/ stack' = rest
              \/ \E h \in Ids \cup {NULL} : stack' = <<[fn |-> "dtor", holds |-> h]>> \o rest
<1>1. CASE id = NULL \/ list[id] = NULL
 <2>1. list' = list /\ stack' = rest /\ destroyed' = destroyed
  BY <1>1 DEF Delete, Unreferenced, Dies
 <2>2. Lifetimes'
  BY <2>1, ResourceFacts DEF Lifetimes, Live
 <2> QED BY <2>1, <2>2, ResourceFacts
<1>2. CASE id # NULL /\ list[id] # NULL /\ list[id].refs > 1
 <2>1. /\ list' = [list EXCEPT ![id].refs = @ - 1] /\ stack' = rest /\ destroyed' = destroyed
       /\ id \in Ids
  BY <1>2, ResourceFacts DEF Delete, Unreferenced, Dies
 <2>2. list[id] \in Resource
  BY <1>2, <2>1, ResourceFacts
 <2>3. /\ list'[id] \in Resource /\ list'[id].holds = list[id].holds
       /\ \A k \in Ids \ {id} : list'[k] = list[k]
  <3>1. /\ list'[id] = [list[id] EXCEPT !.refs = @ - 1]
        /\ \A k \in Ids \ {id} : list'[k] = list[k]
   BY <2>1, ResourceFacts
  <3>2. list[id].refs - 1 \in Nat \ {0}
   BY <1>2, <2>2 DEF Resource
  <3> QED BY <2>2, <3>1, <3>2 DEF Resource
 <2>4. list' \in [Ids -> {NULL} \cup Resource]
  <3>1. DOMAIN list' = Ids /\ list' = [k \in Ids |-> list'[k]]
   BY <2>1, ResourceFacts
  <3> QED BY <3>1, <2>3, ResourceFacts
 <2>5. Live' = Live
  BY <1>2, <2>1, <2>3, ResourceFacts DEF Live
 <2>6. Lifetimes'
  BY <2>1, <2>5, ResourceFacts DEF Lifetimes
 <2>7. \A k \in Ids : list'[k] # NULL /\ list'[k].holds # NULL => list'[k].holds < k
  BY <1>2, <2>1, <2>3, ResourceFacts
 <2> QED BY <2>1, <2>4, <2>6, <2>7, ResourceFacts
<1>3. CASE id # NULL /\ list[id] # NULL /\ ~(list[id].refs > 1)
 <2>1. id \in Ids /\ id \in Live
  BY <1>3 DEF Live
 <2>2. list[id].refs <= 1
  BY <1>3, <2>1, ResourceFacts
 <2>3. Dies(id)
  BY <1>3, <2>2 DEF Dies
 <2>4. /\ list' = [list EXCEPT ![id] = NULL]
       /\ stack' = <<[fn |-> "dtor", holds |-> list[id].holds]>> \o rest
       /\ destroyed' = Append(destroyed, id)
  BY <1>3, <2>3 DEF Delete, Unreferenced
 <2>5. list[id].holds \in Ids \cup {NULL}
  BY <1>3, <2>1, ResourceFacts
 <2> QED BY <2>1, <2>4, <2>5, KillList
<1> QED BY <1>1, <1>2, <1>3

\* It takes away one of the references that are counted.
LEMMA DeleteCounted ==
    ASSUME ResourcesInv, NEW id \in Ids, NEW refs2 \in [Ids -> Nat], NEW rest \in Seq(Frames),
           Delete(id, rest), list[id] # NULL, stack \in Seq(Frames), Counted(list, script, stack),
           refs2[id] + Cardinality(HeldAt(rest, id)) + 1 = script[id] + Cardinality(HeldAt(stack, id)),
           \A h \in Ids \ {id} : refs2[h] = script[h] /\ HeldAt(rest, h) = HeldAt(stack, h)
    PROVE  Counted(list', refs2, stack')
<1>0. /\ list \in [Ids -> {NULL} \cup Resource] /\ NULL \notin Resource /\ NULL \notin Ids
      /\ script \in [Ids -> Nat] /\ list[id].refs \in Nat \ {0}
 BY ResourceFacts
<1>1. CASE list[id].refs > 1
 <2>1. list' = [list EXCEPT ![id].refs = @ - 1] /\ stack' = rest
  BY <1>0, <1>1 DEF Delete, Unreferenced, Dies
 <2> QED BY <2>1, <1>0, <1>1, DropCounted
<1>2. CASE ~(list[id].refs > 1)
 <2>1. list[id].refs = 1 /\ list[id].refs <= 1
  BY <1>0, <1>2
 <2>2. Dies(id) /\ id # NULL
  BY <1>0, <2>1 DEF Dies
 <2>3. /\ list' = [list EXCEPT ![id] = NULL]
       /\ stack' = <<[fn |-> "dtor", holds |-> list[id].holds]>> \o rest
  BY <1>2, <2>2 DEF Delete, Unreferenced
 <2>4. list[id].refs >= script[id] + Cardinality(Holders(list, id)) + Cardinality(HeldAt(stack, id))
  BY DEF Counted
 <2>5. /\ Cardinality(Holders(list, id)) \in Nat /\ Cardinality(HeldAt(stack, id)) \in Nat
       /\ Cardinality(HeldAt(rest, id)) \in Nat
       /\ script[id] \in Nat /\ refs2[id] \in Nat
  BY <1>0, HoldersBound, HeldBound
 <2>6. Cardinality(Holders(list, id)) = 0 /\ Cardinality(HeldAt(rest, id)) = 0
  BY <2>1, <2>4, <2>5
 <2>7. Holders(list, id) = {} /\ HeldAt(rest, id) = {}
  BY <2>6, HoldersBound, HeldBound
 <2>8. list[id].holds # id
  <3>1. list[id].holds # NULL => list[id].holds < id
   BY ResourceFacts
  <3>2. id \in Int
   BY DEF Ids
  <3> QED BY <3>1, <3>2, <1>0
 <2> QED BY <2>3, <2>7, <2>8, <1>0, KillCounted
<1> QED BY <1>1, <1>2

\* What a step of resources does to the stack.
ResourceEffect ==
    /\ phase' = phase
    /\ StackOK(stack', FALSE) /\ Calm(stack') /\ PhaseOK(stack', phase)
    /\ Restoring(stack') => Restoring(stack)
    /\ phase \in {"end_buffers", "deactivate"} => stack' # <<>>
    /\ phase # "done"

ResourceStep ==
    /\ StackInv' /\ OutputInv' /\ TextInv' /\ (FlushedInv => FlushedInv')
    /\ ResourcesInv'
    /\ phase' = phase

\* A step of resources keeps the rest of the invariant.
LEMMA ResourceEffectInv ==
    ASSUME ResourceEffect, OutputInv, UNCHANGED output, excused \subseteq excused'
    PROVE  StackInv' /\ OutputInv' /\ TextInv' /\ (FlushedInv => FlushedInv')
<1>1. /\ UNCHANGED <<ob, writer, headers_sent, sent, printed, dropped, echoed>>
      /\ stack' \in Seq(Frames)
 BY DEF output, ResourceEffect, StackOK
<1>2. OutputInv'
 BY <1>1, OutputSame
<1>3. StackInv'
 <2>1. StackOK(stack', ob' # <<>>)
  BY CalmAny DEF ResourceEffect
 <2> QED BY <2>1 DEF ResourceEffect, StackInv
<1>4. FlushedInv => FlushedInv'
 BY <1>1 DEF FlushedInv, ResourceEffect
<1>5. TextInv'
 BY TextsNext DEF ResourceEffect
<1> QED BY <1>2, <1>3, <1>4, <1>5

\* The call is on top of rest, or nothing is.
LEMMA DeleteEffect ==
    ASSUME NEW rest, Base(rest, phase), Restoring(rest) => Restoring(stack), phase' = phase,
           \/ stack' = rest
           \/ \E h \in Ids \cup {NULL} : stack' = <<[fn |-> "dtor", holds |-> h]>> \o rest
    PROVE  ResourceEffect
<1>1. CASE stack' = rest
 BY <1>1 DEF ResourceEffect, Base
<1>2. ASSUME NEW h \in Ids \cup {NULL}, stack' = <<[fn |-> "dtor", holds |-> h]>> \o rest
      PROVE  ResourceEffect
 <2> DEFINE f == [fn |-> "dtor", holds |-> h]
 <2>1. f \in Frames /\ f.fn = "dtor"
  BY FrameKinds DEF Dtors
 <2> HIDE DEF f
 <2>2. stack' = <<f>> \o rest
  BY <1>2 DEF f
 <2>3. Base(stack', phase) /\ rest \in Seq(Frames)
  BY <2>1, <2>2, BasePush, BaseInv DEF Loops, Dtors
 <2>4. Restoring(stack') => Restoring(rest)
  BY <2>1, <2>2, <2>3, RestoringPush
 <2> QED BY <2>3, <2>4, <1>2 DEF ResourceEffect, Base
<1> QED BY <1>1, <1>2

\* The parts of the invariant of resources together.
LEMMA ResourcesNext ==
    ASSUME list' \in [Ids -> {NULL} \cup Resource], next_id' \in 1 .. MaxResources + 1,
           script' \in [Ids -> Nat], destroyed' \in Seq(Ids), Lifetimes',
           \A k \in Ids : list'[k] # NULL /\ list'[k].holds # NULL => list'[k].holds < k,
           "held" \notin excused' => Counted(list', script', stack'),
           ResourceEffect
    PROVE  ResourcesInv'
<1>1. ResourcesTypeOK'
 BY DEF ResourcesTypeOK, Resource
<1>2. (phase = "done" \/ (phase = "deactivate" /\ stack = <<>>) => Live = {})'
 BY DEF ResourceEffect
<1> QED BY <1>1, <1>2 DEF ResourcesInv

\* The stack stays.
LEMMA SameStack ==
    ASSUME StackInv, UserCode, stack' = stack, phase' = phase
    PROVE  ResourceEffect
<1>1. Base(stack, phase) /\ phase # "done"
 BY UserTop
<1> QED BY <1>1 DEF ResourceEffect, Base

\* A resource is registered, and may hold another.
LEMMA OpenStep ==
    ASSUME StackInv, OutputInv, ResourcesInv, Open
    PROVE  ResourceStep
<1>1. PICK h \in Live \cup {NULL} :
        list' = [id \in Ids |-> IF id = next_id THEN [refs |-> 1, holds |-> h]
                                ELSE IF id = h THEN [list[id] EXCEPT !.refs = @ + 1] ELSE list[id]]
 BY DEF Open
<1>2. PICK n \in {0, 1} : script' = [script EXCEPT ![next_id] = n]
 BY DEF Open
<1>3. /\ UserCode /\ next_id \in Ids /\ next_id' = next_id + 1
      /\ stack' = stack /\ phase' = phase /\ destroyed' = destroyed /\ excused' = excused
      /\ UNCHANGED output
 BY DEF Open, Acts
<1>4. /\ Live \subseteq Ids /\ Live \cup ToSet(destroyed) = 1 .. next_id - 1
      /\ Live \cap ToSet(destroyed) = {}
      /\ \A i, j \in DOMAIN destroyed : i # j => destroyed[i] # destroyed[j]
      /\ NULL \notin Resource /\ NULL \notin Ids /\ list \in [Ids -> {NULL} \cup Resource]
      /\ script \in [Ids -> Nat]
 BY ResourceFacts DEF Lifetimes
<1>5. next_id \in Nat \ {0} /\ next_id <= MaxResources /\ MaxResources \in Nat
 BY <1>3, ResourceAssumption DEF Ids
<1>6. next_id \notin Live /\ next_id \notin ToSet(destroyed) /\ list[next_id] = NULL
 <2>1. next_id \notin 1 .. next_id - 1
  BY <1>5
 <2>2. next_id \notin Live \cup ToSet(destroyed)
  BY <2>1, <1>4
 <2> QED BY <2>2, <1>3 DEF Live
<1>7. /\ h \in Ids \cup {NULL} /\ h # next_id
      /\ h # NULL => h \in Ids /\ list[h] \in Resource /\ h < next_id
 <2>1. h # NULL => h \in Live /\ h \in 1 .. next_id - 1
  BY <1>4
 <2> QED BY <2>1, <1>3, <1>4, <1>5, <1>6 DEF Live
<1>8. /\ list'[next_id] = [refs |-> 1, holds |-> h]
      /\ list'[next_id] \in Resource /\ list'[next_id].refs = 1 /\ list'[next_id].holds = h
 <2>1. list'[next_id] = [refs |-> 1, holds |-> h]
  BY <1>1, <1>3
 <2> QED BY <2>1, <1>7 DEF Resource
<1>9. h # NULL => /\ list'[h] \in Resource /\ list'[h].refs = list[h].refs + 1
                  /\ list'[h].holds = list[h].holds
 <2> SUFFICES ASSUME h # NULL
              PROVE  /\ list'[h] \in Resource /\ list'[h].refs = list[h].refs + 1
                     /\ list'[h].holds = list[h].holds
  OBVIOUS
 <2>1. list'[h] = [list[h] EXCEPT !.refs = @ + 1]
  BY <1>1, <1>7
 <2>2. list[h] \in Resource
  BY <1>7
 <2> QED BY <2>1, <2>2 DEF Resource
<1>10. \A k \in Ids \ {next_id, h} : list'[k] = list[k]
 BY <1>1
<1>11. list' \in [Ids -> {NULL} \cup Resource]
 <2>1. \A k \in Ids : list'[k] \in {NULL} \cup Resource
  BY <1>4, <1>7, <1>8, <1>9, <1>10
 <2>2. list' = [k \in Ids |-> list'[k]]
  BY <1>1
 <2> QED BY <2>1, <2>2
<1>12. next_id' \in 1 .. MaxResources + 1
 BY <1>3, <1>5
<1>13. /\ script' \in [Ids -> Nat] /\ script'[next_id] \in {0, 1}
       /\ \A k \in Ids \ {next_id} : script'[k] = script[k]
 BY <1>2, <1>3, <1>4
<1>14. \A k \in Ids : list'[k] # NULL /\ list'[k].holds # NULL => list'[k].holds < k
 <2>1. \A k \in Ids : list[k] # NULL /\ list[k].holds # NULL => list[k].holds < k
  BY ResourceFacts
 <2>2. h # NULL => list[h] # NULL
  BY <1>4, <1>7
 <2> SUFFICES ASSUME NEW k \in Ids, list'[k] # NULL, list'[k].holds # NULL
              PROVE  list'[k].holds < k
  OBVIOUS
 <2>3. CASE k = next_id
  BY <2>3, <1>7, <1>8
 <2>4. CASE k = h
  BY <2>1, <2>2, <2>4, <1>4, <1>9
 <2>5. CASE k # next_id /\ k # h
  BY <2>1, <2>5, <1>10
 <2> QED BY <2>3, <2>4, <2>5
<1>15. Lifetimes'
 <2>1. Live' = Live \cup {next_id}
  <3>1. ASSUME NEW k \in Ids PROVE list'[k] # NULL <=> (list[k] # NULL \/ k = next_id)
   <4>1. CASE k = next_id
    BY <4>1, <1>4, <1>8
   <4>2. CASE k = h
    BY <4>2, <1>4, <1>7, <1>9
   <4>3. CASE k # next_id /\ k # h
    BY <4>3, <1>10
   <4> QED BY <4>1, <4>2, <4>3
  <3> QED BY <3>1, <1>3 DEF Live
 <2>2. next_id' - 1 = next_id /\ 1 .. next_id = 1 .. next_id - 1 \cup {next_id}
  BY <1>3, <1>5
 <2> QED BY <2>1, <2>2, <1>3, <1>4, <1>6 DEF Lifetimes
<1>16. Counted(list, script, stack) => Counted(list', script', stack)
 <2> SUFFICES ASSUME Counted(list, script, stack), NEW g \in Ids
              PROVE  IF list'[g] = NULL THEN Holders(list', g) = {} /\ HeldAt(stack, g) = {}
                     ELSE list'[g].refs >= script'[g] + Cardinality(Holders(list', g))
                                                      + Cardinality(HeldAt(stack, g))
  BY DEF Counted
 <2>0. stack \in Seq(Frames)
  BY <1>3, UserTop
 <2>1. ASSUME NEW k \in Ids
       PROVE  k \in Holders(list', g) <=> \/ k \in Holders(list, g)
                                          \/ k = next_id /\ g = h
  <3>1. CASE k = next_id
   BY <3>1, <1>4, <1>6, <1>8 DEF Holders
  <3>2. CASE k = h
   BY <3>2, <1>4, <1>7, <1>9 DEF Holders
  <3>3. CASE k # next_id /\ k # h
   BY <3>3, <1>10 DEF Holders
  <3> QED BY <3>1, <3>2, <3>3
 <2>2. Holders(list', g) \subseteq Ids /\ Holders(list, g) \subseteq Ids
  BY HoldersBound
 <2>3. CASE g = h
  <3>1. h # NULL /\ list[g] # NULL /\ g # next_id /\ list'[g] # NULL
   BY <2>3, <1>4, <1>7, <1>9
  <3>2. next_id \notin Holders(list, g)
   BY <1>6 DEF Holders
  <3>3. Holders(list', g) = Holders(list, g) \cup {next_id}
   BY <2>1, <2>2, <2>3, <1>3
  <3>4. Cardinality(Holders(list', g)) = Cardinality(Holders(list, g)) + 1
   <4>1. IsFiniteSet(Holders(list, g))
    BY HoldersBound
   <4> QED BY <3>2, <3>3, <4>1, FS_AddElement
  <3>5. list[g].refs >= script[g] + Cardinality(Holders(list, g)) + Cardinality(HeldAt(stack, g))
   BY <3>1 DEF Counted
  <3>6. /\ list'[g].refs = list[g].refs + 1 /\ script'[g] = script[g]
        /\ list[g].refs \in Nat /\ script[g] \in Nat
   <4>1. list[g] \in Resource
    BY <2>3, <3>1, <1>7
   <4> QED BY <4>1, <2>3, <3>1, <1>4, <1>9, <1>13 DEF Resource
  <3>7. Cardinality(Holders(list, g)) \in Nat /\ Cardinality(HeldAt(stack, g)) \in Nat
   BY <2>0, HoldersBound, HeldBound
  <3> QED BY <3>1, <3>4, <3>5, <3>6, <3>7
 <2>4. CASE g # h
  <3>1. Holders(list', g) = Holders(list, g)
   BY <2>1, <2>2, <2>4
  <3>2. CASE g = next_id
   <4>1. Holders(list, g) = {} /\ HeldAt(stack, g) = {}
    BY <3>2, <1>6 DEF Counted
   <4>2. Cardinality(Holders(list', g)) = 0 /\ Cardinality(HeldAt(stack, g)) = 0
    BY <3>1, <4>1, FS_EmptySet
   <4> QED BY <3>2, <4>2, <1>4, <1>8, <1>13
  <3>3. CASE g # next_id
   <4>1. list'[g] = list[g] /\ script'[g] = script[g]
    BY <2>4, <3>3, <1>10, <1>13
   <4> QED BY <3>1, <4>1 DEF Counted
  <3> QED BY <3>2, <3>3
 <2> QED BY <2>3, <2>4
<1>17. "held" \notin excused' => Counted(list', script', stack')
 BY <1>3, <1>16 DEF ResourcesInv
<1>18. ResourceEffect
 BY <1>3, SameStack
<1>19. destroyed' \in Seq(Ids)
 BY <1>3, ResourceFacts
<1>20. ResourcesInv'
 BY <1>11, <1>12, <1>13, <1>14, <1>15, <1>17, <1>18, <1>19, ResourcesNext
<1> QED BY <1>3, <1>18, <1>20, ResourceEffectInv DEF ResourceStep

\* One more variable refers to a resource.
LEMMA CopyRefStep ==
    ASSUME StackInv, OutputInv, ResourcesInv, CopyRef
    PROVE  ResourceStep
<1>1. PICK id \in Live : /\ list' = [list EXCEPT ![id].refs = @ + 1]
                         /\ script' = [script EXCEPT ![id] = @ + 1]
 BY DEF CopyRef
<1>2. /\ UserCode /\ next_id' = next_id
      /\ stack' = stack /\ phase' = phase /\ destroyed' = destroyed /\ excused' = excused
      /\ UNCHANGED output
 BY DEF CopyRef, Acts
<1>3. /\ id \in Ids /\ list[id] # NULL /\ list[id] \in Resource
      /\ NULL \notin Resource /\ list \in [Ids -> {NULL} \cup Resource]
      /\ script \in [Ids -> Nat]
 BY ResourceFacts DEF Live
<1>4. /\ list'[id] \in Resource /\ list'[id].refs = list[id].refs + 1
      /\ list'[id].holds = list[id].holds
      /\ \A k \in Ids \ {id} : list'[k] = list[k]
 <2>1. list'[id] = [list[id] EXCEPT !.refs = @ + 1] /\ \A k \in Ids \ {id} : list'[k] = list[k]
  BY <1>1, <1>3
 <2> QED BY <2>1, <1>3 DEF Resource
<1>5. list' \in [Ids -> {NULL} \cup Resource]
 <2>1. list' = [k \in Ids |-> list'[k]]
  BY <1>1, <1>3
 <2> QED BY <2>1, <1>3, <1>4
<1>6. /\ script' \in [Ids -> Nat] /\ script'[id] = script[id] + 1
      /\ \A k \in Ids \ {id} : script'[k] = script[k]
 BY <1>1, <1>3
<1>7. Lifetimes'
 <2>1. Live' = Live
  BY <1>3, <1>4 DEF Live
 <2> QED BY <2>1, <1>2, ResourceFacts DEF Lifetimes
<1>8. \A k \in Ids : list'[k] # NULL /\ list'[k].holds # NULL => list'[k].holds < k
 BY <1>3, <1>4, ResourceFacts
<1>9. Counted(list, script, stack) => Counted(list', script', stack)
 <2> SUFFICES ASSUME Counted(list, script, stack), NEW g \in Ids
              PROVE  IF list'[g] = NULL THEN Holders(list', g) = {} /\ HeldAt(stack, g) = {}
                     ELSE list'[g].refs >= script'[g] + Cardinality(Holders(list', g))
                                                      + Cardinality(HeldAt(stack, g))
  BY DEF Counted
 <2>0. stack \in Seq(Frames)
  BY <1>2, UserTop
 <2>1. Holders(list', g) = Holders(list, g)
  <3>1. \A k \in Ids : /\ list'[k] # NULL <=> list[k] # NULL
                       /\ list[k] # NULL => list'[k].holds = list[k].holds
   BY <1>3, <1>4
  <3> QED BY <3>1 DEF Holders
 <2>2. CASE g = id
  <3>1. list[g].refs >= script[g] + Cardinality(Holders(list, g)) + Cardinality(HeldAt(stack, g))
   BY <2>2, <1>3 DEF Counted
  <3>2. Cardinality(Holders(list, g)) \in Nat /\ Cardinality(HeldAt(stack, g)) \in Nat
   BY <2>0, HoldersBound, HeldBound
  <3>3. list[g].refs \in Nat /\ script[g] \in Nat
   BY <2>2, <1>3 DEF Resource
  <3>4. list'[g] # NULL /\ list'[g].refs = list[g].refs + 1 /\ script'[g] = script[g] + 1
   BY <2>2, <1>3, <1>4, <1>6
  <3> QED BY <2>1, <3>1, <3>2, <3>3, <3>4
 <2>3. CASE g # id
  <3>1. list'[g] = list[g] /\ script'[g] = script[g]
   BY <2>3, <1>4, <1>6
  <3> QED BY <2>1, <3>1 DEF Counted
 <2> QED BY <2>2, <2>3
<1>10. "held" \notin excused' => Counted(list', script', stack')
 BY <1>2, <1>9 DEF ResourcesInv
<1>11. ResourceEffect
 BY <1>2, SameStack
<1>12. destroyed' \in Seq(Ids) /\ next_id' \in 1 .. MaxResources + 1
 BY <1>2, ResourceFacts
<1>13. ResourcesInv'
 BY <1>5, <1>6, <1>7, <1>8, <1>10, <1>11, <1>12, ResourcesNext
<1> QED BY <1>2, <1>11, <1>13, ResourceEffectInv DEF ResourceStep

\* zval_dtor of a variable, by user code or by shutdown_executor.
LEMMA ReleaseStep ==
    ASSUME StackInv, OutputInv, ResourcesInv, NEW id \in Ids, Release(id, stack),
           stack # <<>>, stack[1].fn \notin Flushers
    PROVE  ResourceStep
<1>1. /\ script[id] > 0 /\ script' = [script EXCEPT ![id] = @ - 1] /\ Delete(id, stack)
      /\ phase' = phase /\ next_id' = next_id /\ excused' = excused /\ UNCHANGED output
 BY DEF Release
<1>2. Base(stack, phase) /\ stack \in Seq(Frames)
 BY BaseStack
<1>3. script \in [Ids -> Nat] /\ next_id \in 1 .. MaxResources + 1
 BY ResourceFacts
<1>4. /\ script' \in [Ids -> Nat] /\ script'[id] + 1 = script[id]
      /\ \A k \in Ids \ {id} : script'[k] = script[k]
 BY <1>1, <1>3
<1>5. /\ list' \in [Ids -> {NULL} \cup Resource]
      /\ destroyed' \in Seq(Ids)
      /\ Lifetimes'
      /\ \A k \in Ids : list'[k] # NULL /\ list'[k].holds # NULL => list'[k].holds < k
      /\ \/ stack' = stack
         \/ \E h \in Ids \cup {NULL} : stack' = <<[fn |-> "dtor", holds |-> h]>> \o stack
 BY <1>1, DeleteList
<1>6. ResourceEffect
 BY <1>1, <1>2, <1>5, DeleteEffect
<1>7. ASSUME Counted(list, script, stack) PROVE Counted(list', script', stack')
 <2>1. CASE list[id] # NULL
  <3>1. Cardinality(HeldAt(stack, id)) \in Nat /\ script[id] \in Nat /\ script'[id] \in Nat
   BY <1>2, <1>3, <1>4, HeldBound
  <3>2. script'[id] + Cardinality(HeldAt(stack, id)) + 1 = script[id] + Cardinality(HeldAt(stack, id))
   BY <3>1, <1>4
  <3> QED BY <2>1, <3>2, <1>1, <1>2, <1>4, <1>7, DeleteCounted
 <2>2. CASE list[id] = NULL
  <3>1. list' = list /\ stack' = stack
   BY <2>2, <1>1 DEF Delete, Unreferenced, Dies
  <3> QED BY <3>1, <2>2, <1>4, <1>7 DEF Counted
 <2> QED BY <2>1, <2>2
<1>8. "held" \notin excused' => Counted(list', script', stack')
 BY <1>1, <1>7 DEF ResourcesInv
<1>9. ResourcesInv'
 BY <1>1, <1>3, <1>4, <1>5, <1>6, <1>8, ResourcesNext
<1> QED BY <1>1, <1>6, <1>9, ResourceEffectInv DEF ResourceStep

\* A resource is released over the heads of its variables.
LEMMA CloseResourceStep ==
    ASSUME StackInv, OutputInv, ResourcesInv, CloseResource
    PROVE  ResourceStep
<1>1. PICK id \in Live : Delete(id, stack)
 BY DEF CloseResource
<1>2. /\ UserCode /\ excused' = excused \cup {"held"} /\ phase' = phase /\ next_id' = next_id
      /\ script' = script /\ UNCHANGED output
 BY DEF CloseResource, Acts
<1>3. Base(stack, phase)
 BY <1>2, UserTop
<1>4. id \in Ids
 BY DEF Live
<1>5. /\ list' \in [Ids -> {NULL} \cup Resource]
      /\ destroyed' \in Seq(Ids)
      /\ Lifetimes'
      /\ \A k \in Ids : list'[k] # NULL /\ list'[k].holds # NULL => list'[k].holds < k
      /\ \/ stack' = stack
         \/ \E h \in Ids \cup {NULL} : stack' = <<[fn |-> "dtor", holds |-> h]>> \o stack
 BY <1>1, <1>2, <1>4, DeleteList
<1>6. ResourceEffect
 BY <1>2, <1>3, <1>5, DeleteEffect
<1>7. script' \in [Ids -> Nat] /\ next_id' \in 1 .. MaxResources + 1 /\ "held" \in excused'
 BY <1>2, ResourceFacts
<1>8. ResourcesInv'
 BY <1>5, <1>6, <1>7, ResourcesNext
<1> QED BY <1>2, <1>6, <1>8, ResourceEffectInv DEF ResourceStep

\* A destructor runs, and may call user code.
LEMMA DtorStep ==
    ASSUME StackInv, OutputInv, ResourcesInv, Dtor
    PROVE  ResourceStep
<1> DEFINE e == [fn |-> "dtor_end", holds |-> Top.holds]
           t == Tail(stack)
           rest == <<e>> \o t
           u == User("close")
<1>1. /\ Running("dtor") /\ phase' = phase /\ excused' = excused
      /\ UNCHANGED output /\ UNCHANGED resources
      /\ \/ phase # "deactivate" /\ stack' = <<u>> \o rest
         \/ stack' = rest
 BY DEF Dtor
<1>2. /\ stack # <<>> /\ stack \in Seq(Frames) /\ Top = stack[1] /\ stack[1].fn = "dtor"
      /\ stack[1] \in Frames
 BY <1>1, RunningTop
<1>3. Top.holds \in Ids \cup {NULL} /\ Top.holds = stack[1].holds
 BY <1>2, FrameFields DEF Dtors
<1>4. e \in Frames /\ e.fn = "dtor_end" /\ e.holds = stack[1].holds
 BY <1>3, FrameKinds DEF Dtors
<1>5. u \in Frames /\ u.fn = "user"
 BY UserFrame DEF Codes
<1>6. Base(t, phase) /\ t \in Seq(Frames)
 BY <1>2, BaseStack, BaseInv DEF Loops, Flushers
<1> HIDE DEF e, t, u
<1>7. Base(rest, phase) /\ rest \in Seq(Frames)
 BY <1>4, <1>6, BasePush, BaseInv DEF Loops, Dtors
<1>8. Restoring(rest) => Restoring(stack)
 <2>1. Restoring(rest) => Restoring(t)
  BY <1>4, <1>6, RestoringPush
 <2> QED BY <2>1, <1>2, RestoringPop DEF t
<1>9. \A h \in Ids : Cardinality(HeldAt(rest, h)) = Cardinality(HeldAt(stack, h))
 <2> SUFFICES ASSUME NEW h \in Ids
              PROVE  Cardinality(HeldAt(rest, h)) = Cardinality(HeldAt(stack, h))
  OBVIOUS
 <2>1. CASE stack[1].holds = h
  <3>1. Cardinality(HeldAt(stack, h)) = Cardinality(HeldAt(t, h)) + 1
   BY <2>1, <1>2, HeldPop DEF t, Dtors
  <3>2. Cardinality(HeldAt(rest, h)) = Cardinality(HeldAt(t, h)) + 1
   BY <2>1, <1>4, <1>6, HeldPush DEF Dtors
  <3> QED BY <3>1, <3>2
 <2>2. CASE stack[1].holds # h
  <3>1. HeldAt(stack, h) = HeldAt(t, h)
   BY <2>2, <1>2, HeldPop DEF t
  <3>2. HeldAt(rest, h) = HeldAt(t, h)
   BY <2>2, <1>4, <1>6, HeldPush
  <3> QED BY <3>1, <3>2
 <2> QED BY <2>1, <2>2
<1> HIDE DEF rest
<1>10. /\ ResourceEffect /\ stack' \in Seq(Frames)
       /\ \A h \in Ids : HeldAt(stack', h) = HeldAt(rest, h)
 <2>1. CASE stack' = rest
  BY <2>1, <1>1, <1>7, <1>8 DEF ResourceEffect, Base
 <2>2. CASE phase # "deactivate" /\ stack' = <<u>> \o rest
  <3>1. Base(stack', phase) /\ stack' \in Seq(Frames)
   BY <2>2, <1>5, <1>7, BasePush, BaseInv DEF Loops
  <3>2. Restoring(stack') => Restoring(rest)
   BY <2>2, <1>5, <1>7, RestoringPush
  <3>3. \A h \in Ids : HeldAt(stack', h) = HeldAt(rest, h)
   BY <2>2, <1>5, <1>7, HeldPush DEF Dtors
  <3> QED BY <3>1, <3>2, <3>3, <1>1, <1>8 DEF ResourceEffect, Base
 <2> QED BY <2>1, <2>2, <1>1
<1>11. /\ list' = list /\ next_id' = next_id /\ script' = script /\ destroyed' = destroyed
 BY <1>1 DEF resources
<1>12. ASSUME Counted(list, script, stack) PROVE Counted(list', script', stack')
 <2> SUFFICES ASSUME NEW h \in Ids
              PROVE  IF list[h] = NULL THEN Holders(list, h) = {} /\ HeldAt(stack', h) = {}
                     ELSE list[h].refs >= script[h] + Cardinality(Holders(list, h))
                                                    + Cardinality(HeldAt(stack', h))
  BY <1>11 DEF Counted
 <2>1. Cardinality(HeldAt(stack', h)) = Cardinality(HeldAt(stack, h))
  BY <1>9, <1>10
 <2>2. HeldAt(stack, h) = {} => HeldAt(stack', h) = {}
  BY <2>1, <1>2, <1>10, HeldBound
 <2> QED BY <2>1, <2>2, <1>12 DEF Counted
<1>13. "held" \notin excused' => Counted(list', script', stack')
 BY <1>1, <1>12 DEF ResourcesInv
<1>14. Lifetimes'
 BY <1>11, ResourceFacts DEF Lifetimes, Live
<1>15. ResourcesInv'
 BY <1>10, <1>11, <1>13, <1>14, ResourceFacts, ResourcesNext
<1> QED BY <1>1, <1>10, <1>15, ResourceEffectInv DEF ResourceStep

\* It releases what its resource held.
LEMMA DtorEndStep ==
    ASSUME StackInv, OutputInv, ResourcesInv, DtorEnd
    PROVE  ResourceStep
<1> DEFINE id == Top.holds
           t == Tail(stack)
<1>1. /\ Running("dtor_end") /\ Delete(id, t) /\ phase' = phase /\ next_id' = next_id
      /\ script' = script /\ excused' = excused /\ UNCHANGED output
 BY DEF DtorEnd
<1>2. /\ stack # <<>> /\ stack \in Seq(Frames) /\ Top = stack[1] /\ stack[1].fn = "dtor_end"
      /\ stack[1] \in Frames
 BY <1>1, RunningTop
<1>3. id \in Ids \cup {NULL} /\ stack[1].holds = id
 BY <1>2, FrameFields DEF Dtors
<1>4. Base(t, phase) /\ t \in Seq(Frames) /\ (Restoring(t) => Restoring(stack))
 BY <1>2, BaseStack, BaseInv, RestoringPop DEF Loops, Flushers
<1>5. /\ \A h \in Ids \ {id} : HeldAt(t, h) = HeldAt(stack, h)
      /\ Cardinality(HeldAt(stack, id)) = Cardinality(HeldAt(t, id)) + 1
 BY <1>2, <1>3, HeldPop DEF Dtors
<1> HIDE DEF id, t
<1>6. /\ list' \in [Ids -> {NULL} \cup Resource]
      /\ destroyed' \in Seq(Ids)
      /\ Lifetimes'
      /\ \A k \in Ids : list'[k] # NULL /\ list'[k].holds # NULL => list'[k].holds < k
      /\ \/ stack' = t
         \/ \E h \in Ids \cup {NULL} : stack' = <<[fn |-> "dtor", holds |-> h]>> \o t
 BY <1>1, <1>3, DeleteList
<1>7. ResourceEffect
 BY <1>1, <1>4, <1>6, DeleteEffect
<1>8. script \in [Ids -> Nat] /\ next_id' \in 1 .. MaxResources + 1 /\ NULL \notin Ids
 BY <1>1, ResourceFacts
<1>9. ASSUME Counted(list, script, stack) PROVE Counted(list', script', stack')
 <2>1. CASE id = NULL
  <3>1. list' = list /\ stack' = t
   BY <2>1, <1>1 DEF Delete, Unreferenced, Dies
  <3>2. \A h \in Ids : HeldAt(t, h) = HeldAt(stack, h)
   BY <2>1, <1>5, <1>8
  <3> QED BY <3>1, <3>2, <1>1, <1>9 DEF Counted
 <2>2. CASE id \in Ids
  <3>1. Cardinality(HeldAt(t, id)) \in Nat /\ script[id] \in Nat
   BY <2>2, <1>4, <1>8, HeldBound
  <3>2. HeldAt(stack, id) # {}
   BY <3>1, <1>2, <1>5, HeldBound
  <3>3. list[id] # NULL
   BY <2>2, <3>2, <1>9 DEF Counted
  <3>4. script[id] + Cardinality(HeldAt(t, id)) + 1 = script[id] + Cardinality(HeldAt(stack, id))
   BY <3>1, <1>5
  <3>5. Counted(list', script, stack')
   BY <2>2, <3>3, <3>4, <1>1, <1>2, <1>4, <1>5, <1>8, <1>9, DeleteCounted
  <3> QED BY <3>5, <1>1
 <2> QED BY <2>1, <2>2, <1>3
<1>10. "held" \notin excused' => Counted(list', script', stack')
 BY <1>1, <1>9 DEF ResourcesInv
<1>11. ResourcesInv'
 BY <1>1, <1>6, <1>7, <1>8, <1>10, ResourcesNext
<1> QED BY <1>1, <1>7, <1>11, ResourceEffectInv DEF ResourceStep

\* A loop is over; not the one that flushes the buffers.
LEMMA LoopReturn ==
    ASSUME StackInv, stack # <<>>, stack[1].fn \in Loops \ {"end_buffers"},
           stack' = Tail(stack), phase' = phase, headers_sent' = headers_sent,
           excused' = excused, ob' = ob
    PROVE  Effect /\ Calm(stack')
<1>1. stack \in Seq(Frames)
 BY BaseStack
<1>2. Tail(stack) = <<>> /\ phase # "end_buffers" /\ PhaseOK(<<>>, phase)
 <2>1. StackOK(stack, ob # <<>>) /\ PhaseOK(stack, phase)
  BY DEF StackInv
 <2>2. Tail(stack) = <<>> /\ phase # "end_buffers" /\ PhaseOK(Tail(stack), phase)
  BY <2>1, PhasePop
 <2> QED BY <2>2
<1>3. StackOK(<<>>, ob' # <<>>) /\ ~Restoring(<<>>) /\ Calm(<<>>)
 BY EmptyOK
<1> QED BY <1>2, <1>3, ReleasedEmpty DEF Effect

\* A step that leaves resources alone.
LEMMA EffectStep ==
    ASSUME StackInv, OutputInv, ResourcesInv, Effect, UNCHANGED resources,
           UNCHANGED <<ob, writer, headers_sent, sent, printed, dropped, echoed>>,
           phase = "deactivate" /\ stack' = <<>> => Live = {}, Calm(stack')
    PROVE  ResourceStep
BY EffectStack, EffectResources, OutputSame, TextsNext DEF ResourceStep, Effect

\* A variable is destroyed, or none is left.
LEMMA DestroySymbolsStep ==
    ASSUME StackInv, OutputInv, ResourcesInv, DestroySymbols
    PROVE  ResourceStep
<1>1. /\ Running("symbols")
      /\ IF \A id \in Ids : script[id] = 0
         THEN /\ Return
              /\ UNCHANGED <<phase, headers_only, functions, output, resources, excused>>
         ELSE \E id \in Ids : Release(id, stack)
 BY DEF DestroySymbols
<1>2. /\ stack # <<>> /\ stack[1].fn = "symbols" /\ phase # "deactivate"
 BY <1>1, RunningTop DEF Dtors
<1>3. CASE \A id \in Ids : script[id] = 0
 <2>1. /\ stack' = Tail(stack) /\ phase' = phase /\ excused' = excused
       /\ UNCHANGED <<ob, writer, headers_sent, sent, printed, dropped, echoed>> /\ UNCHANGED resources
  BY <1>1, <1>3 DEF Return, output
 <2>2. Effect /\ Calm(stack')
  BY <2>1, <1>2, LoopReturn DEF Loops
 <2> QED BY <2>1, <2>2, <1>2, EffectStep
<1>4. CASE ~ \A id \in Ids : script[id] = 0
 <2>1. PICK id \in Ids : Release(id, stack)
  BY <1>1, <1>4
 <2> QED BY <2>1, <1>2, ReleaseStep DEF Flushers
<1> QED BY <1>3, <1>4

\* The largest of some numbers up to n.
LEMMA Greatest ==
    ASSUME NEW n \in Nat, NEW T \in SUBSET (1 .. n), T # {}
    PROVE  \E i \in T : \A j \in T : j <= i
<1> DEFINE S == {n - i : i \in T}
<1>0. \A i \in T : n - i \in Nat
 OBVIOUS
<1>1. S \in SUBSET Nat /\ S # {}
 BY <1>0
<1> HIDE DEF S
<1>2. PICK x \in S : \A y \in S : x <= y
 BY <1>1, Least
<1>3. PICK i \in T : x = n - i
 BY DEF S
<1>4. ASSUME NEW j \in T PROVE j <= i
 <2>1. n - j \in S
  BY DEF S
 <2>2. x <= n - j
  BY <2>1, <1>2
 <2> QED BY <2>2, <1>3
<1> QED BY <1>4

\* The last resource of the list is destroyed: none holds it.
LEMMA DestroyListStep ==
    ASSUME StackInv, OutputInv, ResourcesInv, DestroyList
    PROVE  ResourceStep
<1> DEFINE id == CHOOSE i \in Live : \A j \in Live : j <= i
<1>1. /\ Running("destroy_list") /\ phase' = phase /\ next_id' = next_id
      /\ script' = script /\ excused' = excused /\ UNCHANGED output
      /\ IF Live = {}
         THEN Return /\ UNCHANGED <<list, destroyed>>
         ELSE /\ list' = [list EXCEPT ![id] = NULL]
              /\ destroyed' = Append(destroyed, id)
              /\ stack' = <<[fn |-> "dtor", holds |-> list[id].holds]>> \o stack
 BY DEF DestroyList
<1>2. /\ stack # <<>> /\ stack \in Seq(Frames) /\ stack[1].fn = "destroy_list"
      /\ Base(stack, phase)
 BY <1>1, RunningTop, BaseStack DEF Flushers
<1>3. CASE Live = {}
 <2>1. /\ stack' = Tail(stack) /\ UNCHANGED resources
       /\ UNCHANGED <<ob, writer, headers_sent, sent, printed, dropped, echoed>>
  BY <1>1, <1>3 DEF Return, output, resources
 <2>2. Effect /\ Calm(stack')
  BY <2>1, <1>1, <1>2, LoopReturn DEF Loops
 <2> QED BY <2>1, <2>2, <1>3, EffectStep
<1>4. CASE Live # {}
 <2>1. id \in Live /\ \A j \in Live : j <= id
  <3>1. Live \in SUBSET (1 .. MaxResources) /\ MaxResources \in Nat
   BY ResourceAssumption, ResourceFacts DEF Ids
  <3>2. \E i \in Live : \A j \in Live : j <= i
   BY <3>1, <1>4, Greatest
  <3> QED BY <3>2
 <2> HIDE DEF id
 <2>2. /\ list' = [list EXCEPT ![id] = NULL]
       /\ destroyed' = Append(destroyed, id)
       /\ stack' = <<[fn |-> "dtor", holds |-> list[id].holds]>> \o stack
  BY <1>1, <1>4 DEF id
 <2>3. /\ id \in Ids /\ list[id] # NULL /\ list[id].holds \in Ids \cup {NULL}
       /\ list \in [Ids -> {NULL} \cup Resource] /\ NULL \notin Resource /\ NULL \notin Ids
       /\ script \in [Ids -> Nat] /\ next_id \in 1 .. MaxResources + 1
  BY <2>1, ResourceFacts DEF Live
 <2>4. /\ list' \in [Ids -> {NULL} \cup Resource]
       /\ destroyed' \in Seq(Ids)
       /\ Lifetimes'
       /\ \A k \in Ids : list'[k] # NULL /\ list'[k].holds # NULL => list'[k].holds < k
  BY <2>1, <2>2, <1>1, KillList
 <2>5. ResourceEffect
  BY <2>2, <2>3, <1>1, <1>2, DeleteEffect
 <2>6. \A h \in Ids : HeldAt(stack, h) = {}
  <3>1. Len(stack) \in Nat /\ Len(stack) >= 1
   BY <1>2, Popped
  <3>2. \A i \in 1 .. Len(stack) : stack[i].fn \in Loops => i = Len(stack)
   BY <1>2 DEF Base, StackOK
  <3>3. 1 \in 1 .. Len(stack) /\ stack[1].fn \in Loops
   BY <3>1, <1>2 DEF Loops
  <3>4. Len(stack) = 1
   BY <3>2, <3>3
  <3>5. \A j \in 1 .. 1 : 1 + 1 - j = 1
   OBVIOUS
  <3> QED BY <3>4, <3>5, <1>2 DEF HeldAt, Dtors
 <2>7. Holders(list, id) = {}
  <3> SUFFICES ASSUME NEW k \in Ids, list[k] # NULL, list[k].holds = id PROVE FALSE
   BY DEF Holders
  <3>1. id < k
   BY <2>3, ResourceFacts
  <3>2. k \in Live /\ k <= id
   BY <2>1 DEF Live
  <3>3. k \in Int /\ id \in Int
   BY <2>3 DEF Ids
  <3> QED BY <3>1, <3>2, <3>3
 <2>8. list[id].holds # id
  <3>1. list[id].holds # NULL => list[id].holds < id
   BY <2>3, ResourceFacts
  <3>2. id \in Int
   BY <2>3 DEF Ids
  <3> QED BY <3>1, <3>2, <2>3
 <2>9. Counted(list, script, stack) => Counted(list', script, stack')
  <3>1. /\ HeldAt(stack, id) = {}
        /\ \A h \in Ids \ {id} : script[h] = script[h] /\ HeldAt(stack, h) = HeldAt(stack, h)
   BY <2>3, <2>6
  <3> QED BY <3>1, <1>2, <2>2, <2>3, <2>7, <2>8, KillCounted
 <2>10. "held" \notin excused' => Counted(list', script', stack')
  BY <1>1, <2>9 DEF ResourcesInv
 <2>11. ResourcesInv'
  BY <1>1, <2>3, <2>4, <2>5, <2>10, ResourcesNext
 <2> QED BY <1>1, <2>5, <2>11, ResourceEffectInv DEF ResourceStep
<1> QED BY <1>3, <1>4

--------------------
(* The phases.                                                             *)

\* A shutdown function is registered.
LEMMA RegisterFunctionStep ==
    ASSUME StackInv, OutputInv, ResourcesInv, RegisterFunction
    PROVE  ResourceStep
<1>1. /\ UserCode /\ stack' = stack /\ phase' = phase /\ excused' = excused
      /\ UNCHANGED output /\ UNCHANGED resources
 BY DEF RegisterFunction, Acts
<1>2. Base(stack, phase) /\ phase # "deactivate"
 BY <1>1, UserTop
<1>3. UNCHANGED <<ob, writer, headers_sent, sent, printed, dropped, echoed>>
 BY <1>1 DEF output
<1>4. StackOK(stack', ob' # <<>>) /\ PhaseOK(stack', phase)
 BY <1>1, <1>2, BaseInv
<1>5. Effect /\ Calm(stack')
 BY <1>1, <1>2, <1>3, <1>4, ReleasedEmpty DEF Effect, Base
<1> QED BY <1>1, <1>2, <1>3, <1>5, EffectStep

\* One is called.
LEMMA CallFunctionsStep ==
    ASSUME StackInv, OutputInv, ResourcesInv, CallFunctions
    PROVE  ResourceStep
<1>1. /\ Running("functions") /\ phase' = phase /\ excused' = excused
      /\ UNCHANGED output /\ UNCHANGED resources
      /\ stack' = Tail(stack) \/ stack' = <<User("function")>> \o stack
 BY DEF CallFunctions, Return
<1>2. stack # <<>> /\ stack[1].fn = "functions" /\ phase # "deactivate"
 BY <1>1, RunningTop DEF Dtors
<1>3. UNCHANGED <<ob, writer, headers_sent, sent, printed, dropped, echoed>>
 BY <1>1 DEF output
<1>4. Effect /\ Calm(stack')
 <2>1. CASE stack' = Tail(stack)
  BY <2>1, <1>1, <1>2, <1>3, LoopReturn DEF Loops
 <2>2. CASE stack' = <<User("function")>> \o stack
  <3>1. User("function") \in Frames /\ User("function").fn = "user"
   BY UserFrame DEF Codes
  <3> QED BY <2>2, <3>1, <1>1, <1>2, <1>3, CallEffect DEF Loops, Dtors, Flushers
 <2> QED BY <2>1, <2>2, <1>1
<1> QED BY <1>1, <1>2, <1>3, <1>4, EffectStep

\* The order of the phases.
LEMMA AfterIs ==
    /\ After("script") = "functions" /\ After("functions") = "destructors"
    /\ After("destructors") = "end_buffers" /\ After("end_buffers") = "headers"
    /\ After("headers") = "modules" /\ After("modules") = "symbols"
    /\ After("symbols") = "deactivate" /\ After("deactivate") = "done"
<1>1. /\ DOMAIN Order = 1 .. 9
      /\ Order[1] = "script" /\ Order[2] = "functions" /\ Order[3] = "destructors"
      /\ Order[4] = "end_buffers" /\ Order[5] = "headers" /\ Order[6] = "modules"
      /\ Order[7] = "symbols" /\ Order[8] = "deactivate" /\ Order[9] = "done"
 BY DEF Order
<1>2. \A i \in 1 .. 9 : i \in {1, 2, 3, 4, 5, 6, 7, 8, 9}
 OBVIOUS
<1>3. ASSUME NEW k \in 1 .. 9, \A i \in 1 .. 9 : Order[i] = Order[k] => i = k
      PROVE  After(Order[k]) = Order[k + 1]
 <2>1. (CHOOSE i \in DOMAIN Order : Order[i] = Order[k]) = k
  BY <1>1, <1>3
 <2> QED BY <2>1 DEF After
<1>4. \A k \in 1 .. 9 : \A i \in 1 .. 9 : Order[i] = Order[k] => i = k
 BY <1>1, <1>2
<1>5. \A k \in 1 .. 9 : After(Order[k]) = Order[k + 1]
 BY <1>3, <1>4
<1>6. /\ After(Order[1]) = Order[2] /\ After(Order[2]) = Order[3] /\ After(Order[3]) = Order[4]
      /\ After(Order[4]) = Order[5] /\ After(Order[5]) = Order[6] /\ After(Order[6]) = Order[7]
      /\ After(Order[7]) = Order[8] /\ After(Order[8]) = Order[9]
 BY <1>5
<1> QED BY <1>1, <1>6

\* The frame a phase begins with.
LEMMA SingleFrame ==
    ASSUME NEW f \in Frames, f.fn \notin Dtors \cup {"ended", "handler", "restore"},
           NEW ph \in Phases \ {"headers", "done"},
           ph = "end_buffers" => f.fn = "end_buffers",
           ph = "deactivate" => f.fn = "destroy_list"
    PROVE  /\ \A b \in BOOLEAN : StackOK(<<f>>, b) /\ Calm(<<f>>)
           /\ PhaseOK(<<f>>, ph) /\ ~Restoring(<<f>>) /\ <<f>> # <<>> /\ <<f>> \in Seq(Frames)
           /\ Released(<<>>, <<f>>)
<1>1. <<f>> \in Seq(Frames) /\ Len(<<f>>) = 1 /\ <<f>>[1] = f /\ \A i \in 1 .. 1 : i = 1
 OBVIOUS
<1>2. Calm(<<f>>) /\ ~Restoring(<<f>>)
 BY <1>1 DEF Calm, Restoring
<1>3. \A b \in BOOLEAN : StackOK(<<f>>, b)
 BY <1>1, <1>2 DEF StackOK
<1>4. PhaseOK(<<f>>, ph)
 BY <1>1 DEF PhaseOK
<1>5. \A h : HeldAt(<<f>>, h) = {}
 <2>1. \A j \in 1 .. 1 : 1 + 1 - j = 1
  OBVIOUS
 <2> QED BY <1>1, <2>1 DEF HeldAt
<1> QED BY <1>1, <1>2, <1>3, <1>4, <1>5 DEF Released

\* The next phase begins.
LEMMA NextPhaseStep ==
    ASSUME phase \in Phases, StackInv, OutputInv, FlushedInv, ResourcesInv, NextPhase
    PROVE  phase' \in Phases /\ StackInv' /\ OutputInv' /\ TextInv' /\ FlushedInv' /\ ResourcesInv'
<1>1. /\ stack = <<>> /\ phase # "done" /\ phase' = After(phase) /\ stack' \in Begins(phase')
      /\ headers_sent' = (headers_sent \/ phase' = "headers")
      /\ UNCHANGED <<ob, writer, sent, printed, dropped, echoed, excused>>
      /\ UNCHANGED <<list, next_id, script, destroyed>>
 BY DEF NextPhase, resources
<1>2. /\ phase' \in Phases \ {"script"}
      /\ phase' = "headers" => phase = "end_buffers"
      /\ phase' \in Late \ {"headers"} => phase \in Late
      /\ phase' = "done" => phase = "deactivate"
 BY <1>1, AfterIs DEF Phases, Late
<1>3. /\ \A b \in BOOLEAN : StackOK(stack', b) /\ Calm(stack')
      /\ PhaseOK(stack', phase') /\ ~Restoring(stack')
      /\ Released(<<>>, stack')
      /\ phase' \in {"end_buffers", "deactivate"} => stack' # <<>>
      /\ stack' \in Seq(Frames)
 <2>1. CASE phase' \in {"destructors", "modules"}
  <3>1. stack' = <<>> \/ stack' = <<User(phase')>>
   BY <1>1, <2>1 DEF Begins
  <3>2. User(phase') \in Frames /\ User(phase').fn = "user"
   BY <2>1, UserFrame DEF Codes
  <3>3. PhaseOK(<<>>, phase')
   BY DEF PhaseOK
  <3>4. CASE stack' = <<>>
   BY <2>1, <3>3, <3>4, EmptyOK, ReleasedEmpty
  <3>5. CASE stack' = <<User(phase')>>
   BY <1>2, <2>1, <3>2, <3>5, SingleFrame DEF Dtors
  <3> QED BY <3>1, <3>4, <3>5
 <2>2. CASE phase' \in {"functions", "end_buffers", "symbols"}
  <3> DEFINE f == [fn |-> phase']
  <3>1. stack' = <<f>>
   BY <1>1, <2>2 DEF Begins
  <3>2. f \in Frames /\ f.fn = phase'
   BY <2>2, FrameKinds DEF Loops
  <3> HIDE DEF f
  <3> QED BY <1>2, <2>2, <3>1, <3>2, SingleFrame DEF Dtors
 <2>3. CASE phase' = "deactivate"
  <3> DEFINE f == [fn |-> "destroy_list"]
  <3>1. stack' = <<f>>
   BY <1>1, <2>3 DEF Begins
  <3>2. f \in Frames /\ f.fn = "destroy_list"
   BY FrameKinds DEF Loops
  <3> HIDE DEF f
  <3> QED BY <1>2, <2>3, <3>1, <3>2, SingleFrame DEF Dtors
 <2>4. CASE phase' \in {"headers", "done"}
  <3>1. stack' = <<>>
   BY <1>1, <2>4 DEF Begins
  <3>2. PhaseOK(<<>>, phase')
   BY DEF PhaseOK
  <3> QED BY <2>4, <3>1, <3>2, EmptyOK, ReleasedEmpty
 <2> QED BY <1>2, <2>1, <2>2, <2>3, <2>4 DEF Phases
<1>4. StackInv' /\ TextInv'
 BY <1>3, TextsNext DEF StackInv
<1>5. OutputInv'
 <2>1. headers_sent' \in BOOLEAN /\ (headers_sent => headers_sent')
  BY <1>1, OutputFacts
 <2>2. Texts(ob') = Texts(ob)
  BY <1>1
 <2> QED BY <1>1, <2>1, <2>2, OutputFacts, OutputNext
<1>6. FlushedInv'
 BY <1>1, <1>2, <1>3 DEF FlushedInv, Late
<1>7. ResourcesInv'
 <2>1. ResourcesTypeOK'
  BY <1>1 DEF ResourcesInv, ResourcesTypeOK
 <2>2. Lifetimes' /\ Live' = Live
  BY <1>1 DEF ResourcesInv, Lifetimes, Live
 <2>3. (\A id \in Ids : list[id] # NULL /\ list[id].holds # NULL => list[id].holds < id)'
  BY <1>1 DEF ResourcesInv
 <2>4. ("held" \notin excused => Counted(list, script, stack))'
  <3> SUFFICES ASSUME Counted(list, script, <<>>) PROVE Counted(list, script, stack')
   BY <1>1 DEF ResourcesInv
  <3>1. <<>> \in Seq(Frames) /\ script \in [Ids -> Nat]
   BY ResourceFacts
  <3>2. \A h \in Ids : list[h] # NULL => list[h].refs \in Nat
   BY ResourceFacts
  <3> QED BY <3>1, <3>2, <1>3, ReleasedCounted
 <2>5. (phase = "done" \/ (phase = "deactivate" /\ stack = <<>>) => Live = {})'
  BY <1>1, <1>2, <1>3, <2>2 DEF ResourcesInv
 <2> QED BY <2>1, <2>2, <2>3, <2>4, <2>5 DEF ResourcesInv
<1> QED BY <1>2, <1>4, <1>5, <1>6, <1>7

--------------------
(* The inductive invariant, and what it gives.                             *)

\* The request begins: the script runs,
LEMMA InitStack == Init => phase \in Phases /\ StackInv /\ TextInv /\ FlushedInv
<1> SUFFICES ASSUME Init PROVE phase \in Phases /\ StackInv /\ TextInv /\ FlushedInv
 OBVIOUS
<1>1. phase = "script" /\ stack = <<User("script")>> /\ ob = <<>>
 BY DEF Init
<1>2. phase \in Phases \ {"headers", "done", "end_buffers", "deactivate"}
 BY <1>1 DEF Phases
<1>3. User("script") \in Frames /\ User("script").fn = "user"
 BY UserFrame DEF Codes
<1>4. /\ \A b \in BOOLEAN : StackOK(<<User("script")>>, b) /\ Calm(<<User("script")>>)
      /\ PhaseOK(<<User("script")>>, phase)
 BY <1>2, <1>3, SingleFrame DEF Dtors
<1>5. StackInv /\ TextInv
 <2>1. TextsOK(stack, ob, echoed, printed, excused)
  BY <1>1, <1>4, TextsCalm
 <2> QED BY <2>1, <1>1, <1>4 DEF StackInv, TextInv, Calm
<1>6. FlushedInv
 BY <1>1 DEF FlushedInv, Late
<1> QED BY <1>2, <1>5, <1>6

\* nothing is printed,
LEMMA InitOutput == Init => OutputInv
<1> SUFFICES ASSUME Init PROVE OutputInv
 OBVIOUS
<1>1. /\ ob = <<>> /\ writer = "direct" /\ headers_sent = FALSE /\ sent = <<>>
      /\ printed = 0 /\ dropped = {} /\ echoed = {}
 BY DEF Init
<1>2. OutputTypeOK /\ WriterMatchesLevel
 <2>1. <<>> \in Seq(Buffers) /\ <<>> \in Seq(Nat) /\ 0 \in Nat
  OBVIOUS
 <2>2. OutputTypeOK
  BY <1>1, <2>1 DEF OutputTypeOK
 <2>3. WriterMatchesLevel
  BY <1>1 DEF WriterMatchesLevel
 <2> QED BY <2>2, <2>3
<1>3. sent \o Texts(ob) = <<>>
 <2>1. <<>> \in Seq(Buffers) /\ <<>> \o <<>> = <<>>
  OBVIOUS
 <2> QED BY <1>1, <2>1, TextsType
<1>4. ToSet(<<>>) = {} /\ DOMAIN <<>> = {} /\ 1 .. 0 = {}
 BY DEF ToSet
<1>5. OutputExact
 BY <1>1, <1>3, <1>4 DEF OutputExact
<1> QED BY <1>1, <1>2, <1>5 DEF OutputInv

\* and no resource is open.
LEMMA InitResources == Init => ResourcesInv
<1> SUFFICES ASSUME Init PROVE ResourcesInv
 OBVIOUS
<1>1. /\ phase = "script" /\ stack = <<User("script")>>
      /\ list = [id \in Ids |-> NULL] /\ next_id = 1 /\ script = [id \in Ids |-> 0]
      /\ destroyed = <<>>
 BY DEF Init
<1>2. Live = {} /\ \A h \in Ids : Holders(list, h) = {}
 BY <1>1 DEF Live, Holders
<1>3. ResourcesTypeOK
 BY <1>1, ResourceAssumption DEF ResourcesTypeOK
<1>4. Lifetimes
 <2>1. ToSet(<<>>) = {} /\ DOMAIN <<>> = {} /\ 1 .. 0 = {}
  BY DEF ToSet
 <2> QED BY <1>1, <1>2, <2>1 DEF Lifetimes
<1>5. \A h \in Ids : HeldAt(stack, h) = {}
 <2>1. Len(stack) = 1 /\ stack[1].fn = "user" /\ \A j \in 1 .. 1 : 1 + 1 - j = 1
  BY <1>1 DEF User
 <2> QED BY <2>1 DEF HeldAt, Dtors
<1>6. Counted(list, script, stack)
 BY <1>1, <1>2, <1>5 DEF Counted
<1> QED BY <1>1, <1>2, <1>3, <1>4, <1>6 DEF ResourcesInv

\* A step of output keeps the invariant.
LEMMA OutputStepInv ==
    ASSUME phase \in Phases, StackInv, FlushedInv, ResourcesInv, OutputStep
    PROVE  phase' \in Phases /\ StackInv' /\ OutputInv' /\ TextInv' /\ FlushedInv' /\ ResourcesInv'
<1>1. Effect /\ OutputInv' /\ TextInv' /\ phase # "deactivate" /\ UNCHANGED resources /\ phase' = phase
 BY DEF OutputStep, Effect
<1>2. StackInv' /\ FlushedInv'
 BY <1>1, EffectStack
<1>3. ResourcesInv'
 BY <1>1, EffectResources
<1> QED BY <1>1, <1>2, <1>3

\* A variable of the script goes.
LEMMA UnsetStep ==
    ASSUME StackInv, OutputInv, ResourcesInv, Unset
    PROVE  ResourceStep
<1>1. PICK id \in Ids : Release(id, stack)
 BY DEF Unset
<1>2. UserCode
 BY DEF Unset, Acts
<1>3. stack # <<>> /\ stack[1].fn = "user"
 BY <1>2, UserTop
<1> QED BY <1>1, <1>3, ReleaseStep DEF Flushers

\* Nothing happens.
LEMMA StutterStep ==
    ASSUME IInv, UNCHANGED vars
    PROVE  IInv'
<1>1. /\ UNCHANGED <<phase, stack, ob, writer, headers_sent, sent, printed, dropped, echoed, excused>>
      /\ UNCHANGED <<list, next_id, script, destroyed>>
 BY DEF vars
<1>2. phase' \in Phases /\ StackInv' /\ TextInv' /\ FlushedInv'
 BY <1>1 DEF IInv, StackInv, TextInv, FlushedInv
<1>3. OutputInv'
 BY <1>1, OutputSame DEF IInv
<1>4. ResourcesInv'
 <2>1. ResourcesTypeOK'
  BY <1>1 DEF IInv, ResourcesInv, ResourcesTypeOK
 <2>2. Lifetimes' /\ Live' = Live
  BY <1>1 DEF IInv, ResourcesInv, Lifetimes, Live
 <2> QED BY <1>1, <2>1, <2>2 DEF IInv, ResourcesInv
<1> QED BY <1>2, <1>3, <1>4 DEF IInv

\* No step of Next, whoever takes it, breaks the invariant.
LEMMA NextInv == IInv /\ [Next]_vars => IInv'
<1> SUFFICES ASSUME IInv, [Next]_vars PROVE IInv'
 OBVIOUS
<1>1. phase \in Phases /\ StackInv /\ OutputInv /\ TextInv /\ FlushedInv /\ ResourcesInv
 BY DEF IInv
<1>2. ASSUME OutputStep PROVE IInv'
 BY <1>1, <1>2, OutputStepInv DEF IInv
<1>3. ASSUME ResourceStep PROVE IInv'
 BY <1>1, <1>3 DEF IInv, ResourceStep
<1>4. CASE Output
 <2>1. CASE Echo BY <2>1, <1>1, <1>2, EchoStep
 <2>2. CASE ObStart BY <2>2, <1>1, <1>2, ObStartStep
 <2>3. CASE ObStartLocked BY <2>3, <1>1, <1>2, ObStartLockedStep
 <2>4. CASE ObEnd BY <2>4, <1>1, <1>2, ObEndStep
 <2>5. CASE EndBuffer BY <2>5, <1>1, <1>2, EndBufferStep
 <2>6. CASE HandlerReturns BY <2>6, <1>1, <1>2, HandlerReturnsStep
 <2>7. CASE Ended BY <2>7, <1>1, <1>2, EndedStep
 <2>8. CASE Restore BY <2>8, <1>1, <1>2, RestoreStep
 <2>9. CASE EndBuffers BY <2>9, <1>1, <1>2, EndBuffersStep
 <2> QED BY <1>4, <2>1, <2>2, <2>3, <2>4, <2>5, <2>6, <2>7, <2>8, <2>9 DEF Output
<1>5. CASE Resources
 <2>1. CASE Open BY <2>1, <1>1, <1>3, OpenStep
 <2>2. CASE CopyRef BY <2>2, <1>1, <1>3, CopyRefStep
 <2>3. CASE Unset BY <2>3, <1>1, <1>3, UnsetStep
 <2>4. CASE CloseResource BY <2>4, <1>1, <1>3, CloseResourceStep
 <2>5. CASE Dtor BY <2>5, <1>1, <1>3, DtorStep
 <2>6. CASE DtorEnd BY <2>6, <1>1, <1>3, DtorEndStep
 <2>7. CASE DestroySymbols BY <2>7, <1>1, <1>3, DestroySymbolsStep
 <2>8. CASE DestroyList BY <2>8, <1>1, <1>3, DestroyListStep
 <2> QED BY <1>5, <2>1, <2>2, <2>3, <2>4, <2>5, <2>6, <2>7, <2>8 DEF Resources
<1>6. CASE RegisterFunction
 BY <1>6, <1>1, <1>3, RegisterFunctionStep
<1>7. CASE UserReturns
 BY <1>7, <1>1, <1>2, UserReturnsStep
<1>8. CASE Exit
 BY <1>8, <1>1, <1>2, ExitStep
<1>9. CASE CallFunctions
 BY <1>9, <1>1, <1>3, CallFunctionsStep
<1>10. CASE NextPhase
 BY <1>10, <1>1, NextPhaseStep DEF IInv
<1>11. CASE Done
 BY <1>11, StutterStep DEF Done
<1>12. CASE UNCHANGED vars
 BY <1>12, StutterStep
<1> QED BY <1>4, <1>5, <1>6, <1>7, <1>8, <1>9, <1>10, <1>11, <1>12 DEF Next

\* In every request, however often it is cut short by exit or an error, and in
\* whichever user code: the call stack has the shape of its phase, the output is
\* accounted for, and every reference to a resource is counted.
THEOREM Inductive == Spec => []IInv
<1>1. Init => IInv
 BY InitStack, InitOutput, InitResources DEF IInv
<1> QED BY <1>1, NextInv, PTL DEF Spec

\* php_body_write appends to a buffer exactly when there is one: it never writes
\* past a buffer to the client, nor to the one that php_end_ob_buffer has taken away,
\* whatever bailed out of a handler or a flush.
THEOREM WriterFollowsLevel == Spec => []WriterMatchesLevel
<1>1. IInv => WriterMatchesLevel
 BY DEF IInv, OutputInv
<1> QED BY <1>1, Inductive, PTL

\* Each thing printed outside an output handler is sent, or waits in a buffer, or was
\* thrown away on purpose, and is sent once and in order unless a buffer was flushed
\* under its own handler: through nested flushes, full chunks and bailouts.
THEOREM NothingLost == Spec => []OutputExact
<1>1. IInv => OutputExact
 BY DEF IInv, OutputInv
<1> QED BY <1>1, Inductive, PTL

\* When php_request_shutdown is over the headers are sent, and so are all buffers
\* unless a handler bailed out of the flush or user code opened one after it.
THEOREM AllFlushed == Spec => []AllSent
<1>1. IInv => AllSent
 BY DEF IInv, OutputInv, FlushedInv, Late, AllSent
<1> QED BY <1>1, Inductive, PTL

\* A resource is destroyed once, never before one that refers to it, and by the end
\* of the request.
THEOREM ReleasedOnce == Spec => []ResourcesExact
<1>1. IInv => ResourcesExact
 <2> SUFFICES ASSUME IInv PROVE ResourcesExact
  OBVIOUS
 <2>1. ResourcesInv
  BY DEF IInv
 <2>2. ASSUME NEW id \in Live, "held" \notin excused
       PROVE  list[id].holds \in Live \cup {NULL}
  <3>1. id \in Ids /\ list[id] # NULL /\ list[id].holds \in Ids \cup {NULL}
   BY <2>1, ResourceFacts DEF Live
  <3>2. CASE list[id].holds \in Ids
   <4>1. Holders(list, list[id].holds) # {}
    BY <3>1 DEF Holders
   <4>2. Counted(list, script, stack)
    BY <2>1, <2>2 DEF ResourcesInv
   <4>3. list[list[id].holds] # NULL
    BY <3>2, <4>1, <4>2 DEF Counted
   <4> QED BY <3>2, <4>3 DEF Live
  <3> QED BY <3>1, <3>2
 <2>3. Lifetimes /\ (phase = "done" => Live = {})
  BY <2>1 DEF ResourcesInv
 <2> QED BY <2>2, <2>3 DEF ResourcesExact, Lifetimes
<1> QED BY <1>1, Inductive, PTL
=============================================================================
