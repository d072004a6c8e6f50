------------------------- MODULE SessionFilesProofs -------------------------
(***************************************************************************)
(* Theorems about sessions kept in files, for any number of processes,     *)
(* session ids, requests, calls, faults and bailouts.                      *)
(***************************************************************************)
EXTENDS SessionFiles, TLAPS, FiniteSetTheorems, SequenceTheorems

\* The functions that write the session.
Writing == {"flush", "shutdown"}

\* What the session globals of one process say among themselves.
GlobalsOK(r) ==
    /\ r.pc = "idle" => r = Idle
    /\ r.op = "none" <=> r.pc \in {"idle", "script", "gc", "gc_unlink"}
    /\ r.active \/ r.fd # NULL => r.mod
    /\ r.mod => r.id \in Keys
    /\ r.pc \in {"gc", "gc_unlink"} \/ r.op = "regenerate" => r.active
    /\ r.pc \in {"open", "lock", "read", "write", "pwrite", "unlink"} => r.mod
    /\ r.pc = "open" /\ r.op = "start" => r.fd = NULL
    /\ r.op = "regenerate" \/ r.pc = "gc_unlink" => r.name \in Keys
    /\ r.op \in {"destroy", "regenerate"} => r.fd = NULL
    /\ r.pc = "unlink" => r.op \in {"destroy", "regenerate"}
    /\ r.pc = "close" => r.op \in Writing \cup {"destroy", "regenerate"}
    /\ r.pc \in {"write", "pwrite"} => r.op \in Writing
    /\ r.pc = "open" \/ r.pc = "lock" => r.op \in Writing \cup {"start"}
    /\ r.op \in Writing /\ r.pc # "close" => r.val \in Contents
    /\ r.val # NULL => r.op \in Writing
    /\ r.pc \in {"lock", "pwrite"} => r.fd # NULL
    /\ r.pc = "read" => r.op = "start"

\* A process holds the lock of its open file, unless it waits for it: for another
\* process, or for a lock that was leaked.
HoldsOK(p, r, own, lost) ==
    /\ r.fd # NULL /\ r.pc # "lock" => own[r.fd] = p /\ r.fd \notin lost
    /\ r.pc = "lock" => own[r.fd] # p \/ r.fd \in lost

\* How the file a session was read from goes from the value read to the value
\* written.
FileOK(r, d) ==
    r.seen # NULL =>
        /\ r.fd # NULL /\ r.pc # "lock"
        /\ r.st_size = Len(r.seen.data)
        /\ r.pc \in {"script", "gc", "gc_unlink", "open", "write"} => d[r.fd] = r.seen.data
        /\ r.pc = "pwrite" => Len(d[r.fd]) <= Len(r.val)
        /\ r.pc = "close" /\ r.val # NULL => d[r.fd] = r.val

\* A lock belongs to the process that has the file open, or was leaked.
OwnersOK == \A i \in Inodes : /\ owner[i] # NULL => ps[owner[i]].fd = i \/ i \in leaked
                              /\ i \in leaked => owner[i] # NULL

\* The locks of p are that of its open file and leaked ones; a leaked lock is held.
LocksOf(p) == \A i \in Inodes : /\ owner[i] = p => ps[p].fd = i \/ i \in leaked
                                /\ i \in leaked => owner[i] # NULL

\* The scripts that a bailout has left with an open file and no session.
Left == {p \in Procs : At(p, "script") /\ ~ps[p].active /\ ps[p].fd # NULL}

\* Every lock that is leaked, or is about to be, is due to a bailout of its own.
CountOK ==
    /\ used \in [requests : Nat, calls : Nat, faults : Nat, bailouts : Nat]
    /\ Cardinality(leaked) + Cardinality(Left) <= used.bailouts
    /\ used.bailouts <= MaxBailouts

\* The inductive invariant is this and CountOK.
IInv ==
    /\ TypeOK
    /\ OwnersOK
    /\ \A p \in Procs : GlobalsOK(ps[p]) /\ HoldsOK(p, ps[p], owner, leaked) /\ FileOK(ps[p], data)

\* A process that waits for a lock holds none but leaked ones, and unless the lock
\* it waits for was leaked, the process that holds it does not wait.
WaitersHoldNothing ==
    \A p \in Procs : At(p, "lock") =>
        /\ \A i \in Inodes \ leaked : owner[i] # p
        /\ ~Stuck(p) /\ owner[ps[p].fd] # NULL => ~At(owner[ps[p].fd], "lock")

--------------------
(* Contents of a file.                                                     *)

\* A value that is written has a content's type, and the length asked for.
LEMMA ValueOK ==
    ASSUME NEW p \in Procs, NEW n \in Sizes
    PROVE  Value(p, n) \in Contents
<1>1. n \in Nat
 BY SizesAssumption
<1>2. Value(p, n) \in Seq(Procs \X Sizes) /\ Len(Value(p, n)) = n
 BY <1>1 DEF Value
<1> QED BY <1>1, <1>2 DEF Contents

\* So has a file that was just created or truncated.
LEMMA EmptyOK == <<>> \in Contents
<1>1. <<>> \in Seq(Procs \X Sizes) /\ Len(<<>>) = 0 /\ 0 \in Sizes \cup {0}
 OBVIOUS
<1> QED BY <1>1 DEF Contents

\* Contents have a length.
LEMMA ContentsLen ==
    ASSUME NEW s \in Contents
    PROVE  s \in Seq(Procs \X Sizes) /\ Len(s) \in Nat
BY DEF Contents

\* Writing over a file leaves no cell that was in neither, and a value as long
\* as the file replaces it.
LEMMA WrittenOK ==
    ASSUME NEW d \in Contents, NEW val \in Contents
    PROVE  /\ Written(d, val) \in Contents
           /\ Len(d) <= Len(val) => Written(d, val) = val
<1> DEFINE rest == SubSeq(d, Len(val) + 1, Len(d))
<1>0. /\ d \in Seq(Procs \X Sizes) /\ Len(d) \in Nat
      /\ val \in Seq(Procs \X Sizes) /\ Len(val) \in Nat
 BY ContentsLen
<1>1. /\ rest \in Seq(Procs \X Sizes)
      /\ Len(rest) = IF Len(val) < Len(d) THEN Len(d) - Len(val) ELSE 0
 BY <1>0
<1>2. /\ val \o rest \in Seq(Procs \X Sizes)
      /\ Len(val \o rest) = Len(val) + Len(rest)
 BY <1>0, <1>1
<1>3. val \o rest \in Contents
 <2>1. Len(val \o rest) = Len(val) \/ Len(val \o rest) = Len(d)
  BY <1>0, <1>1, <1>2
 <2> QED BY <2>1, <1>2 DEF Contents
<1>4. ASSUME Len(d) <= Len(val) PROVE val \o rest = val
 <2>1. rest = <<>>
  BY <1>0, <1>1, <1>4
 <2> QED BY <2>1, <1>0, ConcatEmptySeq
<1> QED BY <1>3, <1>4 DEF Written

--------------------
(* An inode for a new file.                                                *)

\* There are as many inodes as directory entries, open files and leaked ones.
LEMMA InodesFinite ==
    /\ Cardinality(Keys) \in Nat /\ Cardinality(Procs) \in Nat
    /\ IsFiniteSet(Inodes) /\ Inodes \subseteq Nat
    /\ Cardinality(Inodes) = Cardinality(Keys) + Cardinality(Procs) + MaxBailouts
<1>1. Cardinality(Keys) \in Nat /\ Cardinality(Procs) \in Nat
 BY ProcsAssumption, FS_CardinalityType
<1>2. /\ IsFiniteSet(1 .. Cardinality(Keys) + Cardinality(Procs) + MaxBailouts)
      /\ Cardinality(1 .. Cardinality(Keys) + Cardinality(Procs) + MaxBailouts)
            = Cardinality(Keys) + Cardinality(Procs) + MaxBailouts
 <2>1. 1 \in Int /\ Cardinality(Keys) + Cardinality(Procs) + MaxBailouts \in Int
  BY <1>1, BailoutsAssumption
 <2>2. \A m \in Int : /\ IsFiniteSet(1 .. m)
                       /\ Cardinality(1 .. m) = IF 1 > m THEN 0 ELSE m - 1 + 1
  BY FS_Interval, 1 \in Int
 <2> QED BY <2>1, <2>2, <1>1, BailoutsAssumption
<1> QED BY <1>1, <1>2 DEF Inodes

\* What a function gives on a finite set is finite, and no larger.
LEMMA ImageBound ==
    ASSUME NEW S, IsFiniteSet(S), NEW f
    PROVE  /\ IsFiniteSet({f[x] : x \in S})
           /\ Cardinality({f[x] : x \in S}) <= Cardinality(S)
<1> DEFINE g == [x \in S |-> f[x]]
           T == {f[x] : x \in S}
<1>1. g \in Surjection(S, T)
 <2>1. g \in [S -> T]
  OBVIOUS
 <2>2. \A t \in T : \E x \in S : g[x] = t
  OBVIOUS
 <2> QED BY <2>1, <2>2 DEF Surjection
<1>2. IsFiniteSet(T) /\ Cardinality(T) <= Cardinality(S)
 <2> HIDE DEF T, g
 <2> QED BY <1>1, FS_Surjection
<1> QED BY <1>2

\* There are no more inodes in two sets than in each.
LEMMA UnionBound ==
    ASSUME NEW S, NEW T, IsFiniteSet(S), IsFiniteSet(T)
    PROVE  /\ IsFiniteSet(S \cup T) /\ Cardinality(S) \in Nat /\ Cardinality(T) \in Nat
           /\ Cardinality(S \cup T) \in Nat
           /\ Cardinality(S \cup T) <= Cardinality(S) + Cardinality(T)
<1>1. /\ IsFiniteSet(S \cup T) /\ IsFiniteSet(S \cap T)
      /\ Cardinality(S \cup T) = Cardinality(S) + Cardinality(T) - Cardinality(S \cap T)
 <2>1. IsFiniteSet(S \cap T)
  BY FS_Intersection
 <2> QED BY <2>1, FS_Union
<1>2. /\ Cardinality(S) \in Nat /\ Cardinality(T) \in Nat
      /\ Cardinality(S \cap T) \in Nat
 BY <1>1, FS_CardinalityType
<1>3. Cardinality(S \cup T) \in Nat
 BY <1>1, FS_CardinalityType
<1> QED BY <1>1, <1>2, <1>3

\* The leaked locks and the scripts a bailout has left are finitely many.
LEMMA Finite ==
    ASSUME TypeOK
    PROVE  /\ IsFiniteSet(leaked) /\ IsFiniteSet(Left)
           /\ Cardinality(leaked) \in Nat /\ Cardinality(Left) \in Nat
<1>1. leaked \subseteq Inodes /\ Left \subseteq Procs
 BY DEF TypeOK, Left
<1>2. IsFiniteSet(leaked) /\ IsFiniteSet(Left)
 BY <1>1, InodesFinite, ProcsAssumption, FS_Subset
<1> QED BY <1>2, FS_CardinalityType

\* While a session has no file, some inode is neither linked, nor open, nor
\* locked.
LEMMA FreeInodeOK ==
    ASSUME TypeOK, OwnersOK, CountOK, NEW k \in Keys, path[k] = NULL
    PROVE  /\ FreeInode \in Inodes /\ owner[FreeInode] = NULL
           /\ \A j \in Keys : path[j] # FreeInode
           /\ \A p \in Procs : ps[p].fd # FreeInode
<1> DEFINE Others == Keys \ {k}
           Linked == {path[j] : j \in Others}
           fds == [p \in Procs |-> ps[p].fd]
           Opened2 == {fds[p] : p \in Procs}
<1>1. /\ IsFiniteSet(Others) /\ Cardinality(Others) = Cardinality(Keys) - 1
 BY ProcsAssumption, FS_RemoveElement
<1>2. IsFiniteSet(Linked) /\ Cardinality(Linked) <= Cardinality(Others)
 BY <1>1, ImageBound
<1>3. IsFiniteSet(Opened2) /\ Cardinality(Opened2) <= Cardinality(Procs)
 BY ProcsAssumption, ImageBound
<1>4. IsFiniteSet(leaked) /\ Cardinality(leaked) <= MaxBailouts
 <2>1. used.bailouts \in Nat
  BY DEF CountOK
 <2> QED BY <2>1, Finite, BailoutsAssumption DEF CountOK
<1> DEFINE Taken == (Linked \cup Opened2) \cup leaked
<1>5. IsFiniteSet(Taken) /\ Cardinality(Taken) \in Nat /\ Cardinality(Taken) < Cardinality(Inodes)
 <2> HIDE DEF Linked, Opened2
 <2>1. /\ IsFiniteSet(Linked \cup Opened2)
       /\ Cardinality(Linked) \in Nat /\ Cardinality(Opened2) \in Nat
       /\ Cardinality(Linked \cup Opened2) \in Nat
       /\ Cardinality(Linked \cup Opened2) <= Cardinality(Linked) + Cardinality(Opened2)
  BY <1>2, <1>3, UnionBound
 <2>2. /\ IsFiniteSet(Taken) /\ Cardinality(leaked) \in Nat /\ Cardinality(Taken) \in Nat
       /\ Cardinality(Taken) <= Cardinality(Linked \cup Opened2) + Cardinality(leaked)
  BY <2>1, <1>4, UnionBound
 <2> QED BY <2>1, <2>2, <1>1, <1>2, <1>3, <1>4, InodesFinite, BailoutsAssumption
<1>6. ~(Inodes \subseteq Taken)
 <2> HIDE DEF Taken
 <2> SUFFICES ASSUME Inodes \in SUBSET Taken PROVE FALSE
  OBVIOUS
 <2>1. Cardinality(Inodes) <= Cardinality(Taken)
  BY <1>5, FS_Subset
 <2>2. Cardinality(Inodes) \in Nat
  BY InodesFinite, FS_CardinalityType
 <2> QED BY <1>5, <2>1, <2>2
<1>7. PICK i \in Inodes : i \notin Taken
 BY <1>6
<1>8. /\ \A j \in Keys : path[j] # i
      /\ \A p \in Procs : ps[p].fd # i
      /\ i \notin leaked
 BY <1>7, NullAssumption
<1>9. owner[i] = NULL
 BY <1>8 DEF OwnersOK, TypeOK
<1> QED BY <1>8, <1>9 DEF FreeInode

--------------------
(* One process takes a step.                                               *)

\* What every step of a process p does to the others: their globals stay, p
\* takes only locks that are free and releases or leaks only its own, and writes
\* no file that another process has locked.
Undisturbed(p) ==
    /\ \A q \in Procs \ {p} : ps'[q] = ps[q]
    /\ \A i \in Inodes : owner'[i] # owner[i] => /\ owner'[i] \in {p, NULL}
                                                 /\ owner[i] \in {p, NULL}
    /\ \A i \in Inodes : data'[i] # data[i] => owner[i] \in {p, NULL}
    /\ \A i \in Inodes : (i \in leaked' /\ i \notin leaked) \/ (i \in leaked /\ i \notin leaked')
                            => owner[i] = p

\* Such a step keeps the invariant when it keeps it for p.
LEMMA StepOfOne ==
    ASSUME IInv, NEW p \in Procs, TypeOK', Undisturbed(p),
           GlobalsOK(ps[p])', HoldsOK(p, ps[p], owner, leaked)', FileOK(ps[p], data)',
           LocksOf(p)'
    PROVE  IInv'
<1>1. OwnersOK'
 <2> SUFFICES ASSUME NEW i \in Inodes, owner'[i] # NULL
              PROVE  ps'[owner'[i]].fd = i \/ i \in leaked'
  BY DEF OwnersOK, LocksOf
 <2>1. CASE owner'[i] = p
  BY <2>1 DEF LocksOf
 <2>2. CASE owner'[i] # p
  <3>1. owner'[i] = owner[i]
   BY <2>2 DEF Undisturbed
  <3>2. owner[i] \in Procs \ {p}
   BY <2>2, <3>1 DEF IInv, TypeOK
  <3>3. ps[owner[i]].fd = i \/ i \in leaked
   BY <3>2, NullAssumption DEF IInv, OwnersOK
  <3>4. ps'[owner[i]] = ps[owner[i]] /\ (i \in leaked => i \in leaked')
   BY <3>2 DEF Undisturbed
  <3> QED BY <3>1, <3>3, <3>4
 <2> QED BY <2>1, <2>2
<1>2. ASSUME NEW q \in Procs \ {p}
      PROVE  GlobalsOK(ps[q])' /\ HoldsOK(q, ps[q], owner, leaked)' /\ FileOK(ps[q], data)'
 <2>1. /\ ps'[q] = ps[q] /\ q # NULL /\ ps[q].fd \in Inodes \cup {NULL}
       /\ GlobalsOK(ps[q]) /\ HoldsOK(q, ps[q], owner, leaked) /\ FileOK(ps[q], data)
  BY NullAssumption DEF IInv, Undisturbed, TypeOK, Record
 <2>2. HoldsOK(q, ps[q], owner', leaked')
  BY <2>1 DEF Undisturbed, HoldsOK, GlobalsOK
 <2>3. FileOK(ps[q], data')
  <3> SUFFICES ASSUME ps[q].seen # NULL PROVE data'[ps[q].fd] = data[ps[q].fd]
   BY <2>1 DEF FileOK
  <3>1. ps[q].fd \in Inodes /\ owner[ps[q].fd] = q
   BY <2>1 DEF FileOK, HoldsOK
  <3> QED BY <3>1, <2>1 DEF Undisturbed
 <2> QED BY <2>1, <2>2, <2>3
<1> QED BY <1>1, <1>2 DEF IInv

\* ps_files_close releases the lock of the open file and no other.
LEMMA ReleasedByOK ==
    ASSUME IInv, NEW p \in Procs, ~At(p, "lock"), owner' = ReleasedBy(p), leaked' = leaked
    PROVE  /\ owner' \in [Inodes -> Procs \cup {NULL}]
           /\ \A i \in Inodes : /\ owner'[i] = p => i \in leaked'
                                /\ owner'[i] # owner[i] => owner[i] = p /\ owner'[i] = NULL
                                /\ i \in leaked' => owner'[i] # NULL
           /\ LocksOf(p)'
<1>1. /\ owner \in [Inodes -> Procs \cup {NULL}] /\ p # NULL
      /\ \A i \in Inodes : /\ owner[i] = p => ps[p].fd = i \/ i \in leaked
                           /\ i \in leaked => owner[i] # NULL
 BY NullAssumption DEF IInv, TypeOK, OwnersOK
<1>2. /\ ps[p].fd = NULL => \A i \in Inodes \ leaked : owner[i] # p
      /\ ps[p].fd # NULL => ps[p].fd \in Inodes \ leaked /\ owner[ps[p].fd] = p
 BY <1>1, NullAssumption DEF IInv, TypeOK, Record, HoldsOK, At
<1>3. /\ owner' \in [Inodes -> Procs \cup {NULL}]
      /\ \A i \in Inodes : /\ owner'[i] = p => i \in leaked'
                           /\ owner'[i] # owner[i] => owner[i] = p /\ owner'[i] = NULL
                           /\ i \in leaked' => owner'[i] # NULL
 BY <1>1, <1>2 DEF ReleasedBy
<1> QED BY <1>3 DEF LocksOf

--------------------
(* The steps that change nothing but the globals of their process.         *)

\* Such a step has to keep the invariant for that process only.
LEMMA StepOfGlobals ==
    ASSUME IInv, NEW p \in Procs, ps' \in [Procs -> Record],
           \A q \in Procs \ {p} : ps'[q] = ps[q],
           UNCHANGED <<path, data, old, owner, leaked>>, issued' \subseteq NewIds,
           GlobalsOK(ps'[p]), HoldsOK(p, ps'[p], owner, leaked), FileOK(ps'[p], data),
           ps'[p].fd = ps[p].fd
    PROVE  IInv'
<1>1. TypeOK' /\ Undisturbed(p)
 BY DEF IInv, TypeOK, Undisturbed
<1>2. LocksOf(p)'
 BY NullAssumption DEF IInv, TypeOK, OwnersOK, LocksOf
<1>3. GlobalsOK(ps[p])' /\ HoldsOK(p, ps[p], owner, leaked)' /\ FileOK(ps[p], data)'
 OBVIOUS
<1> QED BY <1>1, <1>2, <1>3, StepOfOne

\* A request begins: PHP_RINIT_FUNCTION(session).
LEMMA BeginRequestKeeps ==
    ASSUME IInv, NEW p \in Procs, BeginRequest(p)
    PROVE  IInv'
<1> USE DEF IInv, TypeOK, BeginRequest, At
<1>1. ps[p] = Idle /\ ps[p] \in Record
 BY DEF GlobalsOK
<1>2. ps'[p] = [Idle EXCEPT !.pc = "script"] /\ ps' \in [Procs -> Record]
 BY <1>1 DEF Record
<1>3. \A q \in Procs \ {p} : ps'[q] = ps[q]
 OBVIOUS
<1>4. GlobalsOK(ps'[p]) /\ HoldsOK(p, ps'[p], owner, leaked) /\ FileOK(ps'[p], data)
 BY <1>2 DEF Idle, GlobalsOK, HoldsOK, FileOK, Writing
<1>5. ps'[p].fd = ps[p].fd
 BY <1>1, <1>2 DEF Idle
<1> QED BY <1>2, <1>3, <1>4, <1>5, StepOfGlobals

\* A session is started: the file that will be opened is not open yet.
LEMMA SessionStartKeeps ==
    ASSUME IInv, NEW p \in Procs, SessionStart(p)
    PROVE  IInv'
<1>1. PICK k \in IdsFor(ps[p].id) :
         /\ ps' = [ps EXCEPT ![p] = [Idle EXCEPT !.pc = "open", !.op = "start",
                                                 !.id = k, !.mod = TRUE]]
         /\ issued' = issued \cup ({k} \cap NewIds)
 BY DEF SessionStart
<1>2. k \in Keys /\ ps \in [Procs -> Record] /\ issued \subseteq NewIds
 BY DEF IInv, TypeOK, IdsFor, Known, Keys, Record
<1>3. /\ ps'[p] = [Idle EXCEPT !.pc = "open", !.op = "start", !.id = k, !.mod = TRUE]
      /\ \A q \in Procs \ {p} : ps'[q] = ps[q]
 BY <1>1, <1>2
<1>4. ps' \in [Procs -> Record]
 BY <1>1, <1>2 DEF Record, Idle
<1>5. GlobalsOK(ps'[p])
 BY <1>2, <1>3 DEF Idle, GlobalsOK, Writing
<1>6. ps[p].fd # NULL => ps[p].fd \in Inodes /\ owner[ps[p].fd] = p
 BY DEF IInv, TypeOK, Record, HoldsOK, SessionStart, MayCall, At
<1>7. /\ issued' \subseteq NewIds /\ UNCHANGED <<path, data, old, owner>>
      /\ leaked' = leaked \cup ({ps[p].fd} \cap Inodes)
 BY <1>1, <1>2 DEF SessionStart
<1>8. /\ \A i \in Inodes : owner[i] = p => i \in leaked'
      /\ \A i \in leaked' : owner[i] # NULL
      /\ leaked' \subseteq Inodes
 BY <1>6, <1>7, NullAssumption DEF IInv, TypeOK, OwnersOK
<1>9. TypeOK' /\ Undisturbed(p)
 BY <1>3, <1>4, <1>6, <1>7, <1>8, NullAssumption DEF IInv, TypeOK, Undisturbed
<1>10. HoldsOK(p, ps'[p], owner', leaked') /\ FileOK(ps'[p], data')
 BY <1>3, <1>7 DEF Idle, HoldsOK, FileOK
<1>11. GlobalsOK(ps[p])' /\ HoldsOK(p, ps[p], owner, leaked)' /\ FileOK(ps[p], data)'
 BY <1>5, <1>10
<1>12. LocksOf(p)'
 BY <1>7, <1>8 DEF LocksOf
<1> QED BY <1>9, <1>11, <1>12, StepOfOne

\* session_id and session_regenerate_id(): only the id changes.
LEMMA NewIdKeeps ==
    ASSUME IInv, NEW p \in Procs, SessionId(p) \/ SessionRegenerateId(p)
    PROVE  IInv'
<1>1. PICK k \in Keys : ps' = [ps EXCEPT ![p].id = k] /\ issued' \in {issued, issued \cup {k}}
 BY DEF IInv, TypeOK, SessionId, SessionRegenerateId, Known, Keys
<1>2. ps \in [Procs -> Record] /\ GlobalsOK(ps[p]) /\ At(p, "script")
 BY DEF IInv, TypeOK, SessionId, SessionRegenerateId, MayCall
<1>3. /\ ps'[p] = [ps[p] EXCEPT !.id = k] /\ \A q \in Procs \ {p} : ps'[q] = ps[q]
      /\ ps' \in [Procs -> Record]
 BY <1>1, <1>2 DEF Record
<1>4. GlobalsOK(ps'[p])
 BY <1>2, <1>3 DEF GlobalsOK, At, Writing, Record
<1>5. HoldsOK(p, ps'[p], owner, leaked) /\ FileOK(ps'[p], data)
 BY <1>2, <1>3 DEF IInv, HoldsOK, FileOK, Record
<1>6. ps'[p].fd = ps[p].fd
 BY <1>2, <1>3 DEF Record
<1>7. issued' \subseteq NewIds /\ UNCHANGED <<path, data, old, owner, leaked>>
 BY <1>1 DEF IInv, TypeOK, SessionId, SessionRegenerateId
<1> QED BY <1>3, <1>4, <1>5, <1>6, <1>7, StepOfGlobals

\* php_session_flush.
LEMMA FlushKeeps ==
    ASSUME IInv, NEW p \in Procs, At(p, "script"),
           NEW op \in Writing, Flush(p, op)
    PROVE  IInv'
<1>1. /\ ps \in [Procs -> Record] /\ ps[p] \in Record /\ GlobalsOK(ps[p])
      /\ HoldsOK(p, ps[p], owner, leaked) /\ FileOK(ps[p], data)
      /\ ps[p].active /\ ps[p].pc = "script" /\ ps[p].val = NULL /\ ps[p].mod
 BY DEF IInv, TypeOK, Flush, At, GlobalsOK, Writing
<1>2. issued' \subseteq NewIds /\ UNCHANGED <<path, data, old, owner, leaked>>
 BY DEF IInv, TypeOK, Flush
<1>3. PICK n \in Sizes :
         ps' = [ps EXCEPT ![p] = [@ EXCEPT !.active = FALSE, !.op = op, !.pc = "open",
                                           !.val = Value(p, n)]]
 BY DEF Flush
<1>4. Value(p, n) \in Contents
 BY ValueOK
<1>5. /\ ps'[p] = [ps[p] EXCEPT !.active = FALSE, !.op = op, !.pc = "open",
                                !.val = Value(p, n)]
      /\ \A q \in Procs \ {p} : ps'[q] = ps[q]
      /\ ps'[p].fd = ps[p].fd
 BY <1>1, <1>3 DEF Record
<1>6. ps' \in [Procs -> Record]
 <2>1. [ps[p] EXCEPT !.active = FALSE, !.op = op, !.pc = "open", !.val = Value(p, n)] \in Record
  <3>1. ps[p] \in Record /\ op \in {"flush", "shutdown"}
   BY <1>1 DEF Writing
  <3> QED BY ONLY <1>4, <3>1 DEF Record
 <2> QED BY <1>1, <1>3, <2>1
<1>7. GlobalsOK(ps'[p])
 BY <1>1, <1>4, <1>5 DEF GlobalsOK, Writing, Record
<1>8. HoldsOK(p, ps'[p], owner, leaked) /\ FileOK(ps'[p], data)
 BY <1>1, <1>5 DEF HoldsOK, FileOK, Record
<1> QED BY <1>2, <1>5, <1>6, <1>7, <1>8, StepOfGlobals

\* php_session_flush ends a bailout out of encoding, and leaves the file open.
LEMMA EncodeBailsOutKeeps ==
    ASSUME IInv, NEW p \in Procs, EncodeBailsOut(p)
    PROVE  IInv'
<1>1. /\ ps \in [Procs -> Record] /\ ps[p] \in Record /\ GlobalsOK(ps[p])
      /\ HoldsOK(p, ps[p], owner, leaked) /\ FileOK(ps[p], data)
      /\ ps[p].active /\ ps[p].pc = "script" /\ ps[p].val = NULL /\ ps[p].op = "none"
 BY DEF IInv, TypeOK, EncodeBailsOut, MayCall, At, GlobalsOK, Writing
<1>2. issued' \subseteq NewIds /\ UNCHANGED <<path, data, old, owner, leaked>>
 BY DEF IInv, TypeOK, EncodeBailsOut
<1>3. CASE ps' = [ps EXCEPT ![p].active = FALSE]
 <2>1. /\ ps'[p] = [ps[p] EXCEPT !.active = FALSE]
       /\ \A q \in Procs \ {p} : ps'[q] = ps[q]
       /\ ps'[p].fd = ps[p].fd
       /\ ps' \in [Procs -> Record]
  <3>1. [ps[p] EXCEPT !.active = FALSE] \in Record
   <4>1. ps[p] \in Record
    BY <1>1
   <4> QED BY ONLY <4>1 DEF Record
  <3> QED BY <1>1, <1>3, <3>1
 <2>2. GlobalsOK(ps'[p])
  BY <1>1, <2>1 DEF GlobalsOK, Writing, Record
 <2>3. HoldsOK(p, ps'[p], owner, leaked) /\ FileOK(ps'[p], data)
  BY <1>1, <2>1 DEF HoldsOK, FileOK, Record
 <2> QED BY <1>2, <2>1, <2>2, <2>3, StepOfGlobals
<1>4. CASE ps' = [ps EXCEPT ![p] = [@ EXCEPT !.active = FALSE, !.op = "shutdown", !.pc = "close"]]
 <2>1. /\ ps'[p] = [ps[p] EXCEPT !.active = FALSE, !.op = "shutdown", !.pc = "close"]
       /\ \A q \in Procs \ {p} : ps'[q] = ps[q]
       /\ ps'[p].fd = ps[p].fd
       /\ ps' \in [Procs -> Record]
  <3>1. [ps[p] EXCEPT !.active = FALSE, !.op = "shutdown", !.pc = "close"] \in Record
   <4>1. ps[p] \in Record
    BY <1>1
   <4> QED BY ONLY <4>1 DEF Record
  <3> QED BY <1>1, <1>4, <3>1
 <2>2. GlobalsOK(ps'[p])
  BY <1>1, <2>1 DEF GlobalsOK, Writing, Record
 <2>3. HoldsOK(p, ps'[p], owner, leaked) /\ FileOK(ps'[p], data)
  BY <1>1, <2>1 DEF HoldsOK, FileOK, Record
 <2> QED BY <1>2, <2>1, <2>2, <2>3, StepOfGlobals
<1> QED BY <1>3, <1>4 DEF EncodeBailsOut

\* PHP_RSHUTDOWN_FUNCTION(session) without an active session.
LEMMA EndRequestKeeps ==
    ASSUME IInv, NEW p \in Procs, EndRequest(p)
    PROVE  IInv'
<1>1. CASE ps[p].active
 BY <1>1, FlushKeeps DEF EndRequest, Writing
<1>2. CASE ~ps[p].active
 <2>1. /\ ps \in [Procs -> Record] /\ ps[p] \in Record /\ GlobalsOK(ps[p])
       /\ HoldsOK(p, ps[p], owner, leaked) /\ FileOK(ps[p], data) /\ ps[p].pc = "script"
       /\ ps[p].val = NULL /\ ps[p].op = "none"
  BY <1>2 DEF IInv, TypeOK, EndRequest, At, GlobalsOK, Writing
 <2>2. /\ ps' = [ps EXCEPT ![p] = [@ EXCEPT !.op = "shutdown", !.pc = "close"]]
       /\ issued' \subseteq NewIds /\ UNCHANGED <<path, data, old, owner, leaked>>
  BY <1>2 DEF IInv, TypeOK, EndRequest
 <2>3. /\ ps'[p] = [ps[p] EXCEPT !.op = "shutdown", !.pc = "close"]
       /\ \A q \in Procs \ {p} : ps'[q] = ps[q]
       /\ ps'[p].fd = ps[p].fd
       /\ ps' \in [Procs -> Record]
  <3>1. [ps[p] EXCEPT !.op = "shutdown", !.pc = "close"] \in Record
   <4>1. ps[p] \in Record
    BY <2>1
   <4> QED BY ONLY <4>1 DEF Record
  <3> QED BY <2>1, <2>2, <3>1
 <2>4. GlobalsOK(ps'[p])
  BY <1>2, <2>1, <2>3 DEF GlobalsOK, Writing, Record
 <2>5. HoldsOK(p, ps'[p], owner, leaked) /\ FileOK(ps'[p], data)
  BY <2>1, <2>3 DEF HoldsOK, FileOK, Record
 <2> QED BY <2>2, <2>3, <2>4, <2>5, StepOfGlobals
<1> QED BY <1>1, <1>2

\* session_regenerate_id(TRUE) after s_destroy.
LEMMA RegeneratedKeeps ==
    ASSUME IInv, NEW p \in Procs, Regenerated(p)
    PROVE  IInv'
<1>1. /\ ps \in [Procs -> Record] /\ ps[p] \in Record /\ GlobalsOK(ps[p])
      /\ HoldsOK(p, ps[p], owner, leaked) /\ FileOK(ps[p], data)
      /\ ps[p].pc = "close" /\ ps[p].op = "regenerate" /\ ps[p].name \in Keys
      /\ ps[p].active /\ ps[p].val = NULL /\ ps[p].fd = NULL
 BY DEF IInv, TypeOK, Regenerated, At, GlobalsOK, Writing
<1>2. /\ ps' = [ps EXCEPT ![p] = [@ EXCEPT !.id = ps[p].name, !.name = NULL,
                                           !.op = "none", !.pc = "script"]]
      /\ issued' \subseteq NewIds /\ UNCHANGED <<path, data, old, owner, leaked>>
 BY DEF IInv, TypeOK, Regenerated
<1>3. /\ ps'[p] = [ps[p] EXCEPT !.id = ps[p].name, !.name = NULL, !.op = "none", !.pc = "script"]
      /\ \A q \in Procs \ {p} : ps'[q] = ps[q]
      /\ ps'[p].fd = ps[p].fd
      /\ ps' \in [Procs -> Record]
 BY <1>1, <1>2 DEF Record
<1>4. GlobalsOK(ps'[p])
 BY <1>1, <1>3 DEF GlobalsOK, Writing, Record
<1>5. HoldsOK(p, ps'[p], owner, leaked) /\ FileOK(ps'[p], data)
 BY <1>1, <1>3 DEF HoldsOK, FileOK, Record
<1> QED BY <1>2, <1>3, <1>4, <1>5, StepOfGlobals

\* The garbage collector finds an expired file, or has met them all.
LEMMA GcKeeps ==
    ASSUME IInv, NEW p \in Procs, Gc(p)
    PROVE  IInv'
<1>1. /\ ps \in [Procs -> Record] /\ ps[p] \in Record /\ GlobalsOK(ps[p])
      /\ HoldsOK(p, ps[p], owner, leaked) /\ FileOK(ps[p], data)
      /\ ps[p].pc = "gc"
 BY DEF IInv, TypeOK, Gc, GcStat, GcEnd, At
<1>2. issued' \subseteq NewIds /\ UNCHANGED <<path, data, old, owner, leaked>>
 BY DEF IInv, TypeOK, Gc, GcStat, GcEnd
<1>3. CASE \E k \in Keys : ps' = [ps EXCEPT ![p] = [@ EXCEPT !.name = k, !.pc = "gc_unlink"]]
 <2>1. PICK k \in Keys : ps' = [ps EXCEPT ![p] = [@ EXCEPT !.name = k, !.pc = "gc_unlink"]]
  BY <1>3
 <2>2. /\ ps'[p] = [ps[p] EXCEPT !.name = k, !.pc = "gc_unlink"]
       /\ \A q \in Procs \ {p} : ps'[q] = ps[q]
       /\ ps'[p].fd = ps[p].fd
       /\ ps' \in [Procs -> Record]
  BY <1>1, <2>1 DEF Record
 <2>3. GlobalsOK(ps'[p])
  BY <1>1, <2>2 DEF GlobalsOK, Writing, Record
 <2>4. HoldsOK(p, ps'[p], owner, leaked) /\ FileOK(ps'[p], data)
  BY <1>1, <2>2 DEF HoldsOK, FileOK, Record
 <2> QED BY <1>2, <2>2, <2>3, <2>4, StepOfGlobals
<1>4. CASE ps' = [ps EXCEPT ![p].pc = "script"]
 <2>1. /\ ps'[p] = [ps[p] EXCEPT !.pc = "script"]
       /\ \A q \in Procs \ {p} : ps'[q] = ps[q]
       /\ ps'[p].fd = ps[p].fd
       /\ ps' \in [Procs -> Record]
  BY <1>1, <1>4 DEF Record
 <2>2. GlobalsOK(ps'[p])
  BY <1>1, <2>1 DEF GlobalsOK, Writing, Record
 <2>3. HoldsOK(p, ps'[p], owner, leaked) /\ FileOK(ps'[p], data)
  BY <1>1, <2>1 DEF HoldsOK, FileOK, Record
 <2> QED BY <1>2, <2>1, <2>2, <2>3, StepOfGlobals
<1> QED BY <1>3, <1>4 DEF Gc, GcStat, GcEnd

--------------------
(* The save handler.                                                       *)

\* s_destroy: the lock goes before the file does.
LEMMA DestroyKeeps ==
    ASSUME IInv, NEW p \in Procs, At(p, "script"),
           NEW op, NEW new, Destroy(p, op, new), issued' \subseteq NewIds,
           \/ op = "destroy" /\ new = NULL
           \/ op = "regenerate" /\ new \in Keys
    PROVE  IInv'
<1>1. /\ ps \in [Procs -> Record] /\ ps[p] \in Record /\ GlobalsOK(ps[p])
      /\ ps[p].pc = "script" /\ ps[p].active /\ ps[p].val = NULL
 BY DEF IInv, TypeOK, Destroy, At, GlobalsOK, Writing
<1>2. /\ ps' = [ps EXCEPT ![p] = [@ EXCEPT !.op = op, !.fd = NULL, !.seen = NULL, !.name = new,
                                           !.pc = IF ps[p].fd = NULL THEN "close" ELSE "unlink"]]
      /\ owner' = ReleasedBy(p) /\ UNCHANGED <<path, data, old, leaked>>
 BY DEF Destroy
<1>3. /\ ps'[p] = [ps[p] EXCEPT !.op = op, !.fd = NULL, !.seen = NULL, !.name = new,
                                !.pc = IF ps[p].fd = NULL THEN "close" ELSE "unlink"]
      /\ \A q \in Procs \ {p} : ps'[q] = ps[q]
      /\ ps' \in [Procs -> Record]
 <2>1. [ps[p] EXCEPT !.op = op, !.fd = NULL, !.seen = NULL, !.name = new,
                     !.pc = IF ps[p].fd = NULL THEN "close" ELSE "unlink"] \in Record
  <3>1. PICK c \in {"close", "unlink"} : c = IF ps[p].fd = NULL THEN "close" ELSE "unlink"
   OBVIOUS
  <3>2. ps[p] \in Record /\ op \in {"destroy", "regenerate"} /\ new \in Keys \cup {NULL}
   BY <1>1
  <3>3. [ps[p] EXCEPT !.op = op, !.fd = NULL, !.seen = NULL, !.name = new, !.pc = c] \in Record
   BY ONLY <3>2, c \in {"close", "unlink"} DEF Record
  <3> QED BY <3>1, <3>3
 <2> QED BY <1>1, <1>2, <2>1
<1>4. GlobalsOK(ps'[p]) /\ HoldsOK(p, ps'[p], owner', leaked') /\ FileOK(ps'[p], data')
 BY <1>1, <1>3 DEF GlobalsOK, HoldsOK, FileOK, Writing, Record
<1>7. /\ owner' \in [Inodes -> Procs \cup {NULL}] /\ LocksOf(p)'
      /\ \A i \in Inodes : owner'[i] # owner[i] => owner[i] = p /\ owner'[i] = NULL
 BY <1>1, <1>2, ReleasedByOK DEF At
<1>5. TypeOK' /\ Undisturbed(p) /\ LocksOf(p)'
 BY <1>2, <1>3, <1>7 DEF IInv, TypeOK, Undisturbed
<1>6. GlobalsOK(ps[p])' /\ HoldsOK(p, ps[p], owner, leaked)' /\ FileOK(ps[p], data)'
 BY <1>4
<1> QED BY <1>5, <1>6, StepOfOne

\* ps_files_open keeps the file that is open under the session's id.
LEMMA OpenKept ==
    ASSUME IInv, NEW p \in Procs, At(p, "open"),
           ps[p].fd # NULL, ps' = [ps EXCEPT ![p].pc = Opened(p)],
           UNCHANGED <<path, data, old, owner, leaked, issued>>
    PROVE  IInv'
<1>1. /\ ps \in [Procs -> Record] /\ ps[p] \in Record /\ GlobalsOK(ps[p])
      /\ HoldsOK(p, ps[p], owner, leaked) /\ FileOK(ps[p], data)
      /\ ps[p].pc = "open" /\ ps[p].op \in Writing /\ Opened(p) = "write"
 BY DEF IInv, TypeOK, At, GlobalsOK, Writing, Opened
<1>2. /\ ps'[p] = [ps[p] EXCEPT !.pc = "write"]
      /\ \A q \in Procs \ {p} : ps'[q] = ps[q]
      /\ ps'[p].fd = ps[p].fd
      /\ ps' \in [Procs -> Record]
 BY <1>1 DEF Record
<1>3. GlobalsOK(ps'[p])
 BY <1>1, <1>2 DEF GlobalsOK, Writing, Record
<1>4. HoldsOK(p, ps'[p], owner, leaked) /\ FileOK(ps'[p], data)
 BY <1>1, <1>2 DEF HoldsOK, FileOK, Record
<1>5. issued' \subseteq NewIds
 BY DEF IInv, TypeOK
<1> QED BY <1>2, <1>3, <1>4, <1>5, StepOfGlobals

\* It closes another one and opens, or creates, the file of the id; a new file
\* gets an inode nobody uses.
LEMMA OpenAnew ==
    ASSUME IInv, CountOK, NEW p \in Procs, At(p, "open"), NEW i, NEW k,
           k = ps[p].id, i = IF path[k] = NULL THEN FreeInode ELSE path[k],
           owner' = ReleasedBy(p), path' = [path EXCEPT ![k] = i],
           data' = IF path[k] = NULL THEN [data EXCEPT ![i] = <<>>] ELSE data,
           old' = IF path[k] = NULL THEN old \ {i} ELSE old,
           ps' = [ps EXCEPT ![p] = [@ EXCEPT !.lastkey = k, !.fd = i, !.pc = "lock", !.seen = NULL]],
           UNCHANGED <<leaked, issued>>
    PROVE  IInv'
<1>1. /\ ps \in [Procs -> Record] /\ ps[p] \in Record /\ GlobalsOK(ps[p])
      /\ ps[p].pc = "open" /\ k \in Keys /\ ps[p].mod
 BY DEF IInv, TypeOK, At, GlobalsOK
<1>2. /\ i \in Inodes /\ i # NULL
      /\ path[k] = NULL => owner[i] = NULL
 BY <1>1, FreeInodeOK, NullAssumption DEF IInv, TypeOK
<1>3. /\ ps'[p] = [ps[p] EXCEPT !.lastkey = k, !.fd = i, !.pc = "lock", !.seen = NULL]
      /\ \A q \in Procs \ {p} : ps'[q] = ps[q]
      /\ ps' \in [Procs -> Record]
 BY <1>1, <1>2 DEF Record
<1>4. /\ ps'[p].pc = "lock" /\ ps'[p].fd = i /\ ps'[p].seen = NULL
      /\ \A f \in {"op", "active", "id", "mod", "val", "name"} : ps'[p][f] = ps[p][f]
 BY <1>1, <1>3 DEF Record
<1>5. GlobalsOK(ps'[p])
 <2>1. ps[p].op \in Writing \cup {"start"} /\ (ps[p].op \in Writing => ps[p].val \in Contents)
  BY <1>1 DEF GlobalsOK
 <2> QED BY <1>1, <1>2, <1>4, <2>1 DEF GlobalsOK, Writing
<1>10. /\ owner' \in [Inodes -> Procs \cup {NULL}] /\ LocksOf(p)'
       /\ \A j \in Inodes : /\ owner'[j] = p => j \in leaked'
                            /\ owner'[j] # owner[j] => owner[j] = p /\ owner'[j] = NULL
 BY <1>1, ReleasedByOK DEF At
<1>6. HoldsOK(p, ps'[p], owner', leaked') /\ FileOK(ps'[p], data')
 BY <1>2, <1>4, <1>10 DEF HoldsOK, FileOK
<1>7. Undisturbed(p)
 BY <1>2, <1>3, <1>10 DEF IInv, TypeOK, Undisturbed
<1>8. TypeOK'
 BY <1>1, <1>2, <1>3, <1>10, EmptyOK DEF IInv, TypeOK
<1>9. GlobalsOK(ps[p])' /\ HoldsOK(p, ps[p], owner, leaked)' /\ FileOK(ps[p], data)'
 BY <1>5, <1>6
<1> QED BY <1>7, <1>8, <1>9, <1>10, StepOfOne

\* When open fails no file is open.
LEMMA OpenFailed ==
    ASSUME IInv, NEW p \in Procs, At(p, "open"), owner' = ReleasedBy(p),
           ps' = [ps EXCEPT ![p] = [@ EXCEPT !.lastkey = ps[p].id, !.fd = NULL,
                                             !.pc = Opened(p), !.seen = NULL]],
           UNCHANGED <<path, data, old, leaked, issued>>
    PROVE  IInv'
<1>1. /\ ps \in [Procs -> Record] /\ ps[p] \in Record /\ GlobalsOK(ps[p])
      /\ ps[p].pc = "open" /\ Opened(p) \in {"read", "write"} /\ ps[p].id \in Keys
      /\ Opened(p) = "write" <=> ps[p].op \in Writing
      /\ ps[p].mod /\ ps[p].op \in Writing \cup {"start"}
 BY DEF IInv, TypeOK, At, GlobalsOK, Opened, Writing
<1>2. /\ ps'[p] = [ps[p] EXCEPT !.lastkey = ps[p].id, !.fd = NULL, !.pc = Opened(p), !.seen = NULL]
      /\ \A q \in Procs \ {p} : ps'[q] = ps[q]
      /\ ps' \in [Procs -> Record]
 BY <1>1 DEF Record
<1>3. GlobalsOK(ps'[p])
 BY <1>1, <1>2 DEF GlobalsOK, Writing, Record
<1>4. HoldsOK(p, ps'[p], owner', leaked') /\ FileOK(ps'[p], data')
 BY <1>1, <1>2 DEF HoldsOK, FileOK, Record
<1>7. /\ owner' \in [Inodes -> Procs \cup {NULL}] /\ LocksOf(p)'
      /\ \A i \in Inodes : owner'[i] # owner[i] => owner[i] = p /\ owner'[i] = NULL
 BY <1>1, ReleasedByOK DEF At
<1>5. TypeOK' /\ Undisturbed(p) /\ LocksOf(p)'
 BY <1>2, <1>7 DEF IInv, TypeOK, Undisturbed
<1>6. GlobalsOK(ps[p])' /\ HoldsOK(p, ps[p], owner, leaked)' /\ FileOK(ps[p], data)'
 BY <1>3, <1>4
<1> QED BY <1>5, <1>6, StepOfOne

\* ps_files_open.
LEMMA OpenKeeps ==
    ASSUME IInv, CountOK, NEW p \in Procs, Open(p)
    PROVE  IInv'
<1>1. CASE /\ ps[p].fd # NULL /\ ps' = [ps EXCEPT ![p].pc = Opened(p)]
           /\ UNCHANGED <<path, data, old, owner, used>>
 BY <1>1, OpenKept DEF Open
<1>2. CASE /\ owner' = ReleasedBy(p)
           /\ ps' = [ps EXCEPT ![p] = [@ EXCEPT !.lastkey = ps[p].id, !.fd = NULL,
                                                !.pc = Opened(p), !.seen = NULL]]
           /\ UNCHANGED <<path, data, old>>
 BY <1>2, OpenFailed DEF Open
<1> QED BY <1>1, <1>2, OpenAnew DEF Open

\* flock: the lock was free.
LEMMA LockKeeps ==
    ASSUME IInv, NEW p \in Procs, Lock(p)
    PROVE  IInv'
<1>1. /\ ps \in [Procs -> Record] /\ ps[p] \in Record /\ GlobalsOK(ps[p])
      /\ HoldsOK(p, ps[p], owner, leaked) /\ FileOK(ps[p], data) /\ OwnersOK
      /\ ps[p].pc = "lock" /\ ps[p].fd \in Inodes /\ ps[p].op \in Writing \cup {"start"}
      /\ Opened(p) = IF ps[p].op = "start" THEN "read" ELSE "write"
      /\ owner \in [Inodes -> Procs \cup {NULL}] /\ p # NULL
      /\ ps[p].seen = NULL
 BY NullAssumption DEF IInv, TypeOK, Lock, At, GlobalsOK, Record, Opened, FileOK
<1>2. /\ owner[ps[p].fd] = NULL /\ owner' = [owner EXCEPT ![ps[p].fd] = p]
      /\ ps' = [ps EXCEPT ![p].pc = Opened(p)]
      /\ UNCHANGED <<path, data, old, leaked, issued>>
 BY DEF Lock
<1>3. /\ ps'[p] = [ps[p] EXCEPT !.pc = Opened(p)]
      /\ \A q \in Procs \ {p} : ps'[q] = ps[q]
      /\ ps' \in [Procs -> Record]
 BY <1>1, <1>2 DEF Record
<1>4. GlobalsOK(ps'[p])
 BY <1>1, <1>3 DEF GlobalsOK, Writing, Record
<1>5. HoldsOK(p, ps'[p], owner', leaked') /\ FileOK(ps'[p], data')
 <2>1. ps'[p].pc = Opened(p) /\ ps'[p].fd = ps[p].fd /\ ps'[p].seen = NULL
  BY <1>1, <1>3 DEF Record
 <2>2. owner'[ps[p].fd] = p /\ ps[p].fd \notin leaked
  BY <1>1, <1>2 DEF OwnersOK
 <2> QED BY <1>1, <1>2, <2>1, <2>2 DEF HoldsOK, FileOK
<1>6. Undisturbed(p) /\ LocksOf(p)'
 BY <1>1, <1>2, <1>3 DEF Undisturbed, OwnersOK, Record, LocksOf
<1>7. TypeOK'
 BY <1>1, <1>2, <1>3 DEF IInv, TypeOK
<1>8. GlobalsOK(ps[p])' /\ HoldsOK(p, ps[p], owner, leaked)' /\ FileOK(ps[p], data)'
 BY <1>4, <1>5
<1> QED BY <1>6, <1>7, <1>8, StepOfOne

\* PS_READ_FUNC(files): what the session holds is what the file holds, whether
\* decoding it bails out or not.
LEMMA ReadKeeps ==
    ASSUME IInv, NEW p \in Procs, Read(p) \/ DecodeBailsOut(p)
    PROVE  IInv'
<1>1. /\ ps \in [Procs -> Record] /\ ps[p] \in Record /\ GlobalsOK(ps[p])
      /\ HoldsOK(p, ps[p], owner, leaked)
      /\ ps[p].pc = "read" /\ ps[p].op = "start" /\ ps[p].id \in Keys /\ ps[p].mod
      /\ ps[p].val = NULL
      /\ ps[p].fd \in Inodes \cup {NULL} /\ data \in [Inodes -> Contents]
 BY DEF IInv, TypeOK, Read, DecodeBailsOut, At, GlobalsOK, Writing, Record
<1> DEFINE i == ps[p].fd
           size == IF i = NULL THEN ps[p].st_size ELSE Len(data[i])
           seen == IF i = NULL THEN NULL ELSE [key |-> ps[p].id, data |-> data[i]]
<1>2. PICK r : /\ ps' = [ps EXCEPT ![p] = r]
               /\ \/ \E next \in {"script", "gc"} :
                        r = [HasRead(p) EXCEPT !.active = TRUE, !.pc = next]
                  \/ r = HasRead(p)
 BY DEF Read, DecodeBailsOut
<1>3. size \in Nat /\ seen \in [key : Keys, data : Contents] \cup {NULL}
 BY <1>1, ContentsLen DEF Record
<1>4. HasRead(p) = [ps[p] EXCEPT !.op = "none", !.pc = "script", !.st_size = size, !.seen = seen]
 BY DEF HasRead
<1> HIDE DEF size, seen
<1>5. /\ r \in Record /\ r.pc \in {"script", "gc"} /\ (r.pc = "gc" => r.active)
      /\ r.op = "none" /\ r.st_size = size /\ r.seen = seen
      /\ r.id = ps[p].id /\ r.mod = ps[p].mod /\ r.fd = ps[p].fd
      /\ r.val = ps[p].val /\ r.name = ps[p].name
 <2>1. PICK h : h = HasRead(p)
  OBVIOUS
 <2>2. /\ h \in Record /\ h.pc = "script" /\ h.op = "none" /\ h.st_size = size
       /\ h.seen = seen /\ h.id = ps[p].id /\ h.mod = ps[p].mod /\ h.fd = ps[p].fd
       /\ h.val = ps[p].val /\ h.name = ps[p].name
  <3>1. PICK g \in Record : g = ps[p]
   BY <1>1
  <3>2. h = [g EXCEPT !.op = "none", !.pc = "script", !.st_size = size, !.seen = seen]
   BY <1>4, <2>1, <3>1
  <3>3. /\ h \in Record /\ h.pc = "script" /\ h.op = "none" /\ h.st_size = size
        /\ h.seen = seen /\ h.id = g.id /\ h.mod = g.mod /\ h.fd = g.fd
        /\ h.val = g.val /\ h.name = g.name
   BY ONLY <1>3, <3>2, g \in Record DEF Record
  <3> QED BY <3>1, <3>3
 <2>3. CASE r = h
  BY <2>2, <2>3
 <2>4. ASSUME NEW next \in {"script", "gc"}, r = [h EXCEPT !.active = TRUE, !.pc = next]
       PROVE  <1>5!:
  BY <2>2, <2>4 DEF Record
 <2> QED BY <1>2, <2>1, <2>3, <2>4
<1>6. ps'[p] = r /\ (\A q \in Procs \ {p} : ps'[q] = ps[q]) /\ ps' \in [Procs -> Record]
 BY <1>1, <1>2, <1>5
<1>7. GlobalsOK(r) /\ HoldsOK(p, r, owner, leaked)
 BY <1>1, <1>5 DEF GlobalsOK, HoldsOK, Writing
<1>8. FileOK(r, data)
 <2>1. CASE i = NULL
  BY <1>5, <2>1 DEF FileOK, seen
 <2>2. CASE i # NULL
  BY <1>1, <1>5, <2>2 DEF FileOK, seen, size
 <2> QED BY <2>1, <2>2
<1>9. issued' \subseteq NewIds /\ UNCHANGED <<path, data, old, owner, leaked>>
 BY DEF IInv, TypeOK, Read, DecodeBailsOut
<1> QED BY <1>5, <1>6, <1>7, <1>8, <1>9, StepOfGlobals

\* PS_WRITE_FUNC(files) up to pwrite: a file that is longer than the value is
\* emptied first.
LEMMA TruncateKeeps ==
    ASSUME IInv, NEW p \in Procs, Truncate(p)
    PROVE  IInv'
<1> DEFINE i == ps[p].fd
           cut == i # NULL /\ Len(ps[p].val) < ps[p].st_size
<1>1. /\ ps \in [Procs -> Record] /\ ps[p] \in Record /\ GlobalsOK(ps[p])
      /\ HoldsOK(p, ps[p], owner, leaked) /\ FileOK(ps[p], data)
      /\ ps[p].pc = "write" /\ ps[p].op \in Writing /\ ps[p].val \in Contents
      /\ i # NULL => i \in Inodes /\ owner[i] = p
      /\ data \in [Inodes -> Contents] /\ ps[p].st_size \in Nat
      /\ Len(ps[p].val) \in Nat
 BY ContentsLen DEF IInv, TypeOK, Truncate, At, GlobalsOK, HoldsOK, Record
<1>2. /\ data' = IF cut THEN [data EXCEPT ![i] = <<>>] ELSE data
      /\ old' = IF cut THEN old \ {i} ELSE old
      /\ ps' = [ps EXCEPT ![p].pc = IF i = NULL THEN "close" ELSE "pwrite"]
      /\ UNCHANGED <<path, owner, leaked, issued>>
 BY DEF Truncate
<1>3. /\ ps'[p] = [ps[p] EXCEPT !.pc = IF i = NULL THEN "close" ELSE "pwrite"]
      /\ \A q \in Procs \ {p} : ps'[q] = ps[q]
      /\ ps' \in [Procs -> Record]
 BY <1>1, <1>2 DEF Record
<1>4. GlobalsOK(ps'[p]) /\ HoldsOK(p, ps'[p], owner, leaked)
 BY <1>1, <1>3 DEF GlobalsOK, HoldsOK, Writing, Record
<1>5. FileOK(ps'[p], data')
 <2>1. /\ ps'[p].pc = IF i = NULL THEN "close" ELSE "pwrite"
       /\ \A f \in {"fd", "seen", "val", "st_size"} : ps'[p][f] = ps[p][f]
  BY <1>1, <1>3 DEF Record
 <2>2. CASE cut
  <3>1. data'[i] = <<>>
   BY <1>1, <1>2, <2>2
  <3> QED BY <1>1, <2>1, <2>2, <3>1 DEF FileOK
 <2>3. CASE ~cut
  BY <1>1, <1>2, <2>1, <2>3 DEF FileOK
 <2> QED BY <2>2, <2>3
<1>6. Undisturbed(p) /\ LocksOf(p)'
 BY <1>1, <1>2, <1>3, NullAssumption DEF IInv, OwnersOK, Undisturbed, Record, LocksOf
<1>7. TypeOK'
 BY <1>1, <1>2, <1>3, EmptyOK DEF IInv, TypeOK
<1>8. GlobalsOK(ps[p])' /\ HoldsOK(p, ps[p], owner, leaked)' /\ FileOK(ps[p], data)'
 BY <1>2, <1>4, <1>5
<1> QED BY <1>6, <1>7, <1>8, StepOfOne

\* pwrite: nothing of a shorter value is left.
LEMMA WriteKeeps ==
    ASSUME IInv, NEW p \in Procs, Write(p)
    PROVE  IInv'
<1> DEFINE i == ps[p].fd
<1>1. /\ ps \in [Procs -> Record] /\ ps[p] \in Record /\ GlobalsOK(ps[p])
      /\ HoldsOK(p, ps[p], owner, leaked) /\ FileOK(ps[p], data)
      /\ ps[p].pc = "pwrite" /\ ps[p].op \in Writing /\ ps[p].val \in Contents
      /\ i \in Inodes /\ owner[i] = p /\ data \in [Inodes -> Contents]
 BY DEF IInv, TypeOK, Write, At, GlobalsOK, HoldsOK, Record
<1>2. /\ data' = [data EXCEPT ![i] = Written(data[i], ps[p].val)]
      /\ old' = old \ {i}
      /\ ps' = [ps EXCEPT ![p].pc = "close"]
      /\ UNCHANGED <<path, owner, leaked, issued>>
 BY DEF Write
<1>3. /\ ps'[p] = [ps[p] EXCEPT !.pc = "close"]
      /\ \A q \in Procs \ {p} : ps'[q] = ps[q]
      /\ ps' \in [Procs -> Record]
 BY <1>1, <1>2 DEF Record
<1>4. GlobalsOK(ps'[p]) /\ HoldsOK(p, ps'[p], owner, leaked)
 BY <1>1, <1>3 DEF GlobalsOK, HoldsOK, Writing, Record
<1>5. /\ Written(data[i], ps[p].val) \in Contents
      /\ Len(data[i]) <= Len(ps[p].val) => Written(data[i], ps[p].val) = ps[p].val
 BY <1>1, WrittenOK
<1>6. FileOK(ps'[p], data')
 <2>1. /\ ps'[p].pc = "close"
       /\ \A f \in {"fd", "seen", "val", "st_size"} : ps'[p][f] = ps[p][f]
  BY <1>1, <1>3 DEF Record
 <2>2. data'[i] = Written(data[i], ps[p].val)
  BY <1>1, <1>2
 <2> QED BY <1>1, <1>5, <2>1, <2>2 DEF FileOK
<1>7. Undisturbed(p) /\ LocksOf(p)'
 BY <1>1, <1>2, <1>3, NullAssumption DEF IInv, OwnersOK, Undisturbed, Record, LocksOf
<1>8. TypeOK'
 BY <1>1, <1>2, <1>3, <1>5 DEF IInv, TypeOK
<1>9. GlobalsOK(ps[p])' /\ HoldsOK(p, ps[p], owner, leaked)' /\ FileOK(ps[p], data)'
 BY <1>2, <1>4, <1>6
<1> QED BY <1>7, <1>8, <1>9, StepOfOne

\* PS_DESTROY_FUNC(files) and the garbage collector unlink a file, whoever has
\* it open: the name goes, the file stays for who holds it.
LEMMA UnlinkKeeps ==
    ASSUME IInv, NEW p \in Procs, Unlink(p) \/ GcUnlink(p)
    PROVE  IInv'
<1>1. /\ ps \in [Procs -> Record] /\ ps[p] \in Record /\ GlobalsOK(ps[p])
      /\ HoldsOK(p, ps[p], owner, leaked) /\ FileOK(ps[p], data)
 BY DEF IInv, TypeOK
<1>2. UNCHANGED <<data, old, owner, leaked, issued>>
 BY DEF Unlink, GcUnlink
<1>3. CASE Unlink(p)
 <2>1. /\ ps[p].pc = "unlink" /\ ps[p].id \in Keys /\ ps[p].fd = NULL
       /\ ps' = [ps EXCEPT ![p].pc = "close"]
       /\ path' = [path EXCEPT ![ps[p].id] = NULL]
  BY <1>1, <1>3 DEF Unlink, At, GlobalsOK
 <2>2. /\ ps'[p] = [ps[p] EXCEPT !.pc = "close"]
       /\ \A q \in Procs \ {p} : ps'[q] = ps[q]
       /\ ps' \in [Procs -> Record] /\ ps'[p].fd = ps[p].fd
  BY <1>1, <2>1 DEF Record
 <2>3. GlobalsOK(ps'[p])
  BY <1>1, <2>1, <2>2 DEF GlobalsOK, Writing, Record
 <2>4. HoldsOK(p, ps'[p], owner, leaked) /\ FileOK(ps'[p], data)
  BY <1>1, <2>1, <2>2 DEF HoldsOK, FileOK, Record
 <2>5. TypeOK' /\ Undisturbed(p) /\ LocksOf(p)'
  BY <1>2, <2>1, <2>2, NullAssumption DEF IInv, TypeOK, OwnersOK, Undisturbed, LocksOf
 <2>6. GlobalsOK(ps[p])' /\ HoldsOK(p, ps[p], owner, leaked)' /\ FileOK(ps[p], data)'
  BY <1>2, <2>3, <2>4
 <2> QED BY <2>5, <2>6, StepOfOne
<1>4. CASE GcUnlink(p)
 <2>1. /\ ps[p].pc = "gc_unlink" /\ ps[p].name \in Keys
       /\ ps' = [ps EXCEPT ![p] = [@ EXCEPT !.name = NULL, !.pc = "gc"]]
       /\ path' = [path EXCEPT ![ps[p].name] = NULL]
  BY <1>1, <1>4 DEF GcUnlink, At, GlobalsOK
 <2>2. /\ ps'[p] = [ps[p] EXCEPT !.name = NULL, !.pc = "gc"]
       /\ \A q \in Procs \ {p} : ps'[q] = ps[q]
       /\ ps' \in [Procs -> Record] /\ ps'[p].fd = ps[p].fd
  BY <1>1, <2>1 DEF Record
 <2>3. GlobalsOK(ps'[p])
  BY <1>1, <2>1, <2>2 DEF GlobalsOK, Writing, Record
 <2>4. HoldsOK(p, ps'[p], owner, leaked) /\ FileOK(ps'[p], data)
  BY <1>1, <2>1, <2>2 DEF HoldsOK, FileOK, Record
 <2>5. TypeOK' /\ Undisturbed(p) /\ LocksOf(p)'
  BY <1>2, <2>1, <2>2, NullAssumption DEF IInv, TypeOK, OwnersOK, Undisturbed, LocksOf
 <2>6. GlobalsOK(ps[p])' /\ HoldsOK(p, ps[p], owner, leaked)' /\ FileOK(ps[p], data)'
  BY <1>2, <2>3, <2>4
 <2> QED BY <2>5, <2>6, StepOfOne
<1> QED BY <1>3, <1>4

\* The globals of a process start afresh, at most with an id, and its lock is
\* released: what PS_CLOSE_FUNC(files) and the death of a process have in common.
LEMMA FreshKeeps ==
    ASSUME IInv, NEW p \in Procs, NEW r,
           \/ r = Idle
           \/ r = [Idle EXCEPT !.pc = "script"]
           \/ \E k \in Keys \cup {NULL} : r = [Idle EXCEPT !.pc = "script", !.id = k],
           ps' = [ps EXCEPT ![p] = r],
           owner' \in [Inodes -> Procs \cup {NULL}],
           \A i \in Inodes : /\ owner'[i] = p => i \in leaked'
                             /\ owner'[i] # owner[i] => owner[i] = p /\ owner'[i] = NULL
                             /\ i \in leaked' => owner'[i] # NULL
                             /\ i \in leaked /\ i \notin leaked' => owner[i] = p,
           leaked' \subseteq leaked, UNCHANGED <<path, data, old, issued>>
    PROVE  IInv'
<1>1. ps \in [Procs -> Record]
 BY DEF IInv, TypeOK
<1>2. ps'[p] = r /\ \A q \in Procs \ {p} : ps'[q] = ps[q]
 BY <1>1
<1>3. r \in Record /\ GlobalsOK(r) /\ HoldsOK(p, r, owner', leaked') /\ FileOK(r, data')
 <2>1. CASE r = Idle
  BY <2>1 DEF Record, Idle, GlobalsOK, HoldsOK, FileOK, Writing
 <2>2. CASE \E k \in Keys \cup {NULL} : r = [Idle EXCEPT !.pc = "script", !.id = k]
  <3>1. PICK k \in Keys \cup {NULL} : r = [Idle EXCEPT !.pc = "script", !.id = k]
   BY <2>2
  <3>2. r \in Record
   BY <3>1 DEF Record, Idle
  <3> QED BY <3>1, <3>2 DEF Idle, GlobalsOK, HoldsOK, FileOK, Writing
 <2>3. CASE r = [Idle EXCEPT !.pc = "script"]
  <3>1. r \in Record
   BY <2>3 DEF Record, Idle
  <3> QED BY <2>3, <3>1 DEF Idle, GlobalsOK, HoldsOK, FileOK, Writing
 <2> QED BY <2>1, <2>2, <2>3
<1>4. TypeOK' /\ Undisturbed(p)
 BY <1>1, <1>2, <1>3 DEF IInv, TypeOK, Undisturbed
<1>5. GlobalsOK(ps[p])' /\ HoldsOK(p, ps[p], owner, leaked)' /\ FileOK(ps[p], data)'
 BY <1>2, <1>3
<1>6. LocksOf(p)'
 BY DEF LocksOf
<1> QED BY <1>4, <1>5, <1>6, StepOfOne

\* PS_CLOSE_FUNC(files).
LEMMA CloseKeeps ==
    ASSUME IInv, NEW p \in Procs, Close(p)
    PROVE  IInv'
<1> DEFINE r == CASE ps[p].op = "flush" -> [Idle EXCEPT !.pc = "script", !.id = ps[p].id]
                  [] ps[p].op = "destroy" -> [Idle EXCEPT !.pc = "script"]
                  [] ps[p].op = "shutdown" -> Idle
<1>1. ps[p].id \in Keys \cup {NULL} /\ ps[p].op \in {"flush", "shutdown", "destroy"}
 BY DEF IInv, TypeOK, Close, At, GlobalsOK, Record, Writing
<1>2. /\ owner' \in [Inodes -> Procs \cup {NULL}]
      /\ \A i \in Inodes : /\ owner'[i] = p => i \in leaked
                           /\ owner'[i] # owner[i] => owner[i] = p /\ owner'[i] = NULL
                           /\ i \in leaked => owner'[i] # NULL
      /\ UNCHANGED <<path, data, old, leaked, issued>>
 BY ReleasedByOK DEF Close, At
<1>3. \/ r = Idle
      \/ r = [Idle EXCEPT !.pc = "script"]
      \/ \E k \in Keys \cup {NULL} : r = [Idle EXCEPT !.pc = "script", !.id = k]
 BY <1>1
<1>4. ps' = [ps EXCEPT ![p] = r]
 BY DEF Close
<1> HIDE DEF r
<1> QED BY <1>2, <1>3, <1>4, FreshKeeps

\* A process is killed.
LEMMA KilledKeeps ==
    ASSUME IInv, NEW p \in Procs, Killed(p)
    PROVE  IInv'
<1>1. /\ owner' \in [Inodes -> Procs \cup {NULL}]
      /\ \A i \in Inodes : /\ owner'[i] # p
                           /\ owner'[i] # owner[i] => owner[i] = p /\ owner'[i] = NULL
                           /\ i \in leaked' => owner'[i] # NULL
                           /\ i \in leaked /\ i \notin leaked' => owner[i] = p
      /\ leaked' \subseteq leaked
 BY NullAssumption DEF Killed, IInv, TypeOK, OwnersOK
<1>2. ps' = [ps EXCEPT ![p] = Idle] /\ UNCHANGED <<path, data, old, issued>>
 BY DEF Killed
<1> QED BY <1>1, <1>2, FreshKeeps

--------------------
(* The leaked locks are counted by the bailouts.                           *)

\* The script of p has been left by a bailout with an open file.
LeftBy(p) == At(p, "script") /\ ~ps[p].active /\ ps[p].fd # NULL

\* A step without a bailout leaves no script so, and leaks no lock but that of a
\* script that was.
LEMMA CountKept ==
    ASSUME IInv, IInv', CountOK, NEW p \in Procs, \A q \in Procs \ {p} : ps'[q] = ps[q],
           LeftBy(p)' => LeftBy(p), leaked' \subseteq leaked,
           used' \in [requests : Nat, calls : Nat, faults : Nat, bailouts : Nat],
           used'.bailouts = used.bailouts
    PROVE  CountOK'
<1>1. Left' \subseteq Left
 BY DEF Left, LeftBy, At
<1>2. /\ IsFiniteSet(leaked) /\ IsFiniteSet(Left)
      /\ Cardinality(leaked) \in Nat /\ Cardinality(Left) \in Nat
 BY Finite DEF IInv
<1>3. /\ Cardinality(leaked') <= Cardinality(leaked) /\ Cardinality(leaked') \in Nat
      /\ Cardinality(Left') <= Cardinality(Left) /\ Cardinality(Left') \in Nat
 BY <1>1, <1>2, FS_Subset, FS_CardinalityType
<1>4. used.bailouts \in Nat
 BY DEF CountOK
<1> QED BY <1>2, <1>3, <1>4, BailoutsAssumption DEF CountOK

\* A bailout leaves one script so.
LEMMA CountBailout ==
    ASSUME IInv, CountOK, NEW p \in Procs, \A q \in Procs \ {p} : ps'[q] = ps[q],
           leaked' = leaked, used.bailouts < MaxBailouts,
           used' \in [requests : Nat, calls : Nat, faults : Nat, bailouts : Nat],
           used'.bailouts = used.bailouts + 1
    PROVE  CountOK'
<1>1. Left' \subseteq Left \cup {p}
 BY DEF Left, At
<1>2. /\ IsFiniteSet(leaked) /\ IsFiniteSet(Left)
      /\ Cardinality(leaked) \in Nat /\ Cardinality(Left) \in Nat
 BY Finite DEF IInv
<1>3. /\ IsFiniteSet(Left \cup {p}) /\ Cardinality(Left \cup {p}) \in Nat
      /\ Cardinality(Left \cup {p}) <= Cardinality(Left) + 1
 <2>1. IsFiniteSet({p}) /\ Cardinality({p}) = 1
  BY FS_Singleton
 <2> QED BY <2>1, <1>2, UnionBound
<1>4. Cardinality(Left') <= Cardinality(Left \cup {p}) /\ Cardinality(Left') \in Nat
 BY <1>1, <1>3, FS_Subset, FS_CardinalityType
<1>5. used.bailouts \in Nat
 BY DEF CountOK
<1> QED BY <1>2, <1>3, <1>4, <1>5, BailoutsAssumption DEF CountOK

\* session_start in a script that was left so leaks the lock of its file.
LEMMA CountStart ==
    ASSUME IInv, CountOK, NEW p \in Procs, SessionStart(p)
    PROVE  CountOK'
<1>1. /\ ps \in [Procs -> Record] /\ \A q \in Procs \ {p} : ps'[q] = ps[q]
      /\ ps'[p].pc = "open" /\ ps[p].pc = "script" /\ ~ps[p].active
      /\ leaked' = leaked \cup ({ps[p].fd} \cap Inodes)
      /\ ps[p].fd \in Inodes \cup {NULL}
 BY DEF IInv, TypeOK, SessionStart, MayCall, At, Idle, Record
<1>2. Left' = Left \ {p}
 BY <1>1 DEF Left, At
<1>3. used' \in [requests : Nat, calls : Nat, faults : Nat, bailouts : Nat]
      /\ used'.bailouts = used.bailouts /\ used.bailouts \in Nat
 BY DEF SessionStart, Count, CountOK
<1>4. /\ IsFiniteSet(leaked) /\ IsFiniteSet(Left)
      /\ Cardinality(leaked) \in Nat /\ Cardinality(Left) \in Nat
 BY Finite DEF IInv
<1>5. CASE ps[p].fd = NULL
 <2>1. leaked' = leaked /\ p \notin Left
  BY <1>1, <1>5, NullAssumption DEF Left
 <2>2. Left' = Left
  BY <1>2, <2>1
 <2> QED BY <1>3, <2>1, <2>2 DEF CountOK
<1>6. CASE ps[p].fd # NULL
 <2>1. leaked' = leaked \cup {ps[p].fd} /\ p \in Left
  BY <1>1, <1>6 DEF Left, At
 <2>2. /\ Cardinality(leaked') <= Cardinality(leaked) + 1
       /\ Cardinality(leaked') \in Nat
  <3>1. IsFiniteSet({ps[p].fd}) /\ Cardinality({ps[p].fd}) = 1
   BY FS_Singleton
  <3> QED BY <3>1, <2>1, <1>4, UnionBound
 <2>3. Cardinality(Left') = Cardinality(Left) - 1
  BY <1>2, <1>4, <2>1, FS_RemoveElement
 <2> QED BY <1>3, <1>4, <2>2, <2>3, BailoutsAssumption DEF CountOK
<1> QED BY <1>5, <1>6

\* The process that an action is about does not go back to its script with a file
\* and without a session, unless a bailout leaves it so.
LEMMA ActionLeaves ==
    ASSUME IInv, NEW p \in Procs,
           \/ BeginRequest(p) \/ SessionId(p) \/ SessionWriteClose(p) \/ SessionDestroy(p)
           \/ RegenerateDelete(p) \/ SessionRegenerateId(p) \/ EndRequest(p)
           \/ Handler(p) \/ Lock(p) \/ Gc(p) \/ Killed(p)
    PROVE  /\ \A q \in Procs \ {p} : ps'[q] = ps[q]
           /\ LeftBy(p)' => LeftBy(p)
           /\ leaked' \subseteq leaked
<1>1. ps \in [Procs -> Record] /\ ps[p] \in Record /\ GlobalsOK(ps[p])
 BY DEF IInv, TypeOK
<1>2. CASE BeginRequest(p)
 BY <1>1, <1>2 DEF BeginRequest, GlobalsOK, Idle, LeftBy, At, Record
<1>3. CASE SessionId(p) \/ SessionRegenerateId(p)
 <2>1. PICK k : ps' = [ps EXCEPT ![p].id = k]
  BY <1>3 DEF SessionId, SessionRegenerateId
 <2>2. leaked' = leaked
  BY <1>3 DEF SessionId, SessionRegenerateId
 <2> QED BY <1>1, <2>1, <2>2 DEF LeftBy, At, Record
<1>4. CASE SessionWriteClose(p) \/ (EndRequest(p) /\ ps[p].active)
 <2>1. PICK op, n : ps' = [ps EXCEPT ![p] = [@ EXCEPT !.active = FALSE, !.op = op, !.pc = "open",
                                                      !.val = Value(p, n)]]
  BY <1>4 DEF SessionWriteClose, EndRequest, Flush
 <2>2. leaked' = leaked
  BY <1>4 DEF SessionWriteClose, EndRequest, Flush
 <2> QED BY <1>1, <2>1, <2>2 DEF LeftBy, At, Record
<1>5. CASE SessionDestroy(p) \/ RegenerateDelete(p)
 <2>1. PICK op, new : Destroy(p, op, new)
  BY <1>5 DEF SessionDestroy, RegenerateDelete
 <2>2. /\ ps' = [ps EXCEPT ![p] = [@ EXCEPT !.op = op, !.fd = NULL, !.seen = NULL, !.name = new,
                                            !.pc = IF ps[p].fd = NULL THEN "close" ELSE "unlink"]]
       /\ leaked' = leaked
  BY <2>1 DEF Destroy
 <2>3. ps'[p].fd = NULL
  BY <1>1, <2>2 DEF Record
 <2> QED BY <1>1, <2>2, <2>3 DEF LeftBy
<1>6. CASE EndRequest(p) /\ ~ps[p].active
 <2>1. ps' = [ps EXCEPT ![p] = [@ EXCEPT !.op = "shutdown", !.pc = "close"]] /\ leaked' = leaked
  BY <1>6 DEF EndRequest
 <2> QED BY <1>1, <2>1 DEF LeftBy, At, Record
<1>7. CASE Open(p) \/ Lock(p)
 <2>1. /\ \/ ps' = [ps EXCEPT ![p].pc = Opened(p)]
          \/ \E i : ps' = [ps EXCEPT ![p] = [@ EXCEPT !.lastkey = ps[p].id, !.fd = i,
                                                       !.pc = "lock", !.seen = NULL]]
          \/ ps' = [ps EXCEPT ![p] = [@ EXCEPT !.lastkey = ps[p].id, !.fd = NULL,
                                               !.pc = Opened(p), !.seen = NULL]]
       /\ leaked' = leaked
  BY <1>7 DEF Open, Lock
 <2>2. Opened(p) # "script"
  BY DEF Opened
 <2>3. ps'[p].pc # "script" /\ \A q \in Procs \ {p} : ps'[q] = ps[q]
  BY <1>1, <2>1, <2>2 DEF Record
 <2> QED BY <2>1, <2>3 DEF LeftBy, At
<1>8. CASE Read(p)
 <2>1. PICK next : ps' = [ps EXCEPT ![p] = [HasRead(p) EXCEPT !.active = TRUE, !.pc = next]]
  BY <1>8 DEF Read
 <2>2. ps'[p].active /\ leaked' = leaked
  <3>1. PICK g \in Record : g = ps[p]
   BY <1>1
  <3>2. PICK s, e : HasRead(p) = [g EXCEPT !.op = "none", !.pc = "script", !.st_size = s, !.seen = e]
   BY <3>1 DEF HasRead
  <3>3. [HasRead(p) EXCEPT !.active = TRUE, !.pc = next].active
   BY ONLY <3>2, g \in Record DEF Record
  <3> QED BY <1>1, <1>8, <2>1, <3>3 DEF Read
 <2> QED BY <1>1, <2>1, <2>2 DEF LeftBy
<1>9. CASE Truncate(p) \/ Write(p) \/ Unlink(p) \/ GcUnlink(p)
 <2>1. /\ \/ \E pc \in {"close", "pwrite"} : ps' = [ps EXCEPT ![p].pc = pc]
          \/ ps' = [ps EXCEPT ![p] = [@ EXCEPT !.name = NULL, !.pc = "gc"]]
       /\ leaked' = leaked
  BY <1>9 DEF Truncate, Write, Unlink, GcUnlink
 <2>2. ps'[p].pc # "script" /\ \A q \in Procs \ {p} : ps'[q] = ps[q]
  BY <1>1, <2>1 DEF Record
 <2> QED BY <2>1, <2>2 DEF LeftBy, At
<1>10. CASE Close(p)
 <2>1. ps[p].op \in {"flush", "destroy", "shutdown"}
  BY <1>1, <1>10 DEF Close, At, GlobalsOK, Writing
 <2>2. ps'[p].fd = NULL
  BY <1>1, <1>10, <2>1 DEF Close, Idle
 <2> QED BY <1>1, <1>10, <2>2 DEF Close, LeftBy, At
<1>11. CASE Regenerated(p) \/ Gc(p)
 <2>1. ps[p].active
  BY <1>1, <1>11 DEF Regenerated, Gc, GcStat, GcEnd, GlobalsOK, At
 <2>2. /\ \/ ps' = [ps EXCEPT ![p] = [@ EXCEPT !.id = ps[p].name, !.name = NULL,
                                               !.op = "none", !.pc = "script"]]
          \/ \E k : ps' = [ps EXCEPT ![p] = [@ EXCEPT !.name = k, !.pc = "gc_unlink"]]
          \/ ps' = [ps EXCEPT ![p].pc = "script"]
       /\ leaked' = leaked
  BY <1>11 DEF Regenerated, Gc, GcStat, GcEnd
 <2>3. \A q \in Procs \ {p} : ps'[q] = ps[q]
  BY <1>1, <2>2
 <2>4. ps'[p].active = ps[p].active
  <3>1. PICK g \in Record : g = ps[p]
   BY <1>1
  <3>2. CASE ps' = [ps EXCEPT ![p] = [@ EXCEPT !.id = ps[p].name, !.name = NULL,
                                               !.op = "none", !.pc = "script"]]
   <4>1. [g EXCEPT !.id = g.name, !.name = NULL, !.op = "none", !.pc = "script"].active = g.active
    BY ONLY g \in Record DEF Record
   <4> QED BY <1>1, <3>1, <3>2, <4>1
  <3>3. CASE \E k : ps' = [ps EXCEPT ![p] = [@ EXCEPT !.name = k, !.pc = "gc_unlink"]]
   BY <1>1, <3>3 DEF Record
  <3>4. CASE ps' = [ps EXCEPT ![p].pc = "script"]
   BY <1>1, <3>4 DEF Record
  <3> QED BY <2>2, <3>2, <3>3, <3>4
 <2> QED BY <2>1, <2>2, <2>3, <2>4 DEF LeftBy
<1>12. CASE Killed(p)
 BY <1>1, <1>12 DEF Killed, Idle, LeftBy, At
<1> QED BY <1>2, <1>3, <1>4, <1>5, <1>6, <1>7, <1>8, <1>9, <1>10, <1>11, <1>12 DEF Handler

\* Every step keeps the count.
LEMMA CountKeeps ==
    ASSUME IInv, IInv', CountOK, [Next]_vars
    PROVE  CountOK'
<1>1. /\ used \in [requests : Nat, calls : Nat, faults : Nat, bailouts : Nat]
      /\ \A what \in {"requests", "calls", "faults"} : Count(what) =>
            /\ used' \in [requests : Nat, calls : Nat, faults : Nat, bailouts : Nat]
            /\ used'.bailouts = used.bailouts
      /\ used' = used =>
            /\ used' \in [requests : Nat, calls : Nat, faults : Nat, bailouts : Nat]
            /\ used'.bailouts = used.bailouts
 BY DEF CountOK, Count
<1>2. ASSUME NEW p \in Procs,
             \/ BeginRequest(p) \/ SessionId(p) \/ SessionWriteClose(p) \/ SessionDestroy(p)
             \/ RegenerateDelete(p) \/ SessionRegenerateId(p) \/ EndRequest(p)
             \/ Handler(p) \/ Lock(p) \/ Gc(p) \/ Killed(p)
      PROVE  CountOK'
 <2>1. (\E what \in {"requests", "calls", "faults"} : Count(what)) \/ used' = used
  BY <1>2 DEF BeginRequest, SessionId, SessionWriteClose, SessionDestroy, RegenerateDelete,
     SessionRegenerateId, EndRequest, Handler, Lock, Gc, Killed, Destroy, Open, Read, Truncate,
     Write, Unlink, Close, Regenerated, GcUnlink, GcStat, GcEnd
 <2>2. /\ used' \in [requests : Nat, calls : Nat, faults : Nat, bailouts : Nat]
       /\ used'.bailouts = used.bailouts
  BY <1>1, <2>1
 <2>3. /\ \A q \in Procs \ {p} : ps'[q] = ps[q]
       /\ LeftBy(p)' => LeftBy(p)
       /\ leaked' \subseteq leaked
  BY ONLY <1>2, IInv, ActionLeaves
 <2> QED BY ONLY <2>2, <2>3, IInv, IInv', CountOK, p \in Procs, CountKept
<1>3. ASSUME NEW p \in Procs, EncodeBailsOut(p) \/ DecodeBailsOut(p)
      PROVE  CountOK'
 <2>1. /\ ps \in [Procs -> Record] /\ leaked' = leaked
       /\ \A q \in Procs \ {p} : ps'[q] = ps[q]
  BY <1>3 DEF IInv, TypeOK, EncodeBailsOut, DecodeBailsOut
 <2>2. CASE /\ used.bailouts < MaxBailouts
            /\ \/ used' = [used EXCEPT !.calls = @ + 1, !.bailouts = @ + 1]
               \/ Count("bailouts")
  <3>1. /\ used' \in [requests : Nat, calls : Nat, faults : Nat, bailouts : Nat]
        /\ used'.bailouts = used.bailouts + 1
   <4>1. CASE Count("bailouts")
    BY ONLY <1>1, <4>1 DEF Count
   <4>2. CASE used' = [used EXCEPT !.calls = @ + 1, !.bailouts = @ + 1]
    <5>1. PICK u \in [requests : Nat, calls : Nat, faults : Nat, bailouts : Nat] : u = used
     BY <1>1
    <5>2. used' = [u EXCEPT !.calls = u.calls + 1, !.bailouts = u.bailouts + 1]
     BY <4>2, <5>1
    <5>3. PICK c \in Nat, b \in Nat : c = u.calls + 1 /\ b = u.bailouts + 1
     OBVIOUS
    <5>4. used' = [u EXCEPT !.calls = c, !.bailouts = b]
     BY <5>2, <5>3
    <5>5. /\ used' \in [requests : Nat, calls : Nat, faults : Nat, bailouts : Nat]
          /\ used'.bailouts = b
     BY ONLY <5>4, c \in Nat, b \in Nat,
             u \in [requests : Nat, calls : Nat, faults : Nat, bailouts : Nat]
    <5> QED BY <5>1, <5>3, <5>5
   <4> QED BY <2>2, <4>1, <4>2
  <3> QED BY <2>1, <2>2, <3>1, CountBailout
 <2>3. CASE /\ ps' = [ps EXCEPT ![p] = [@ EXCEPT !.active = FALSE, !.op = "shutdown", !.pc = "close"]]
            /\ used' = used
  <3>1. LeftBy(p)' => LeftBy(p)
   BY <2>1, <2>3 DEF LeftBy, At, Record
  <3> QED BY <1>1, <2>1, <2>3, <3>1, CountKept
 <2> QED BY <1>3, <2>2, <2>3 DEF EncodeBailsOut, DecodeBailsOut
<1>4. CASE UNCHANGED <<leaked, ps, used>>
 BY <1>4 DEF CountOK, Left, At
<1> QED BY <1>2, <1>3, <1>4, CountStart DEF Next, Script, Expire, Finished, vars

--------------------
(* The theorems.                                                           *)

\* The steps of all processes keep the inductive invariant.
LEMMA StepKeeps ==
    ASSUME IInv, CountOK, [Next]_vars
    PROVE  IInv'
<1>1. ASSUME NEW p \in Procs, Script(p)
      PROVE  IInv'
 <2>1. CASE SessionWriteClose(p)
  BY <1>1, <2>1, FlushKeeps DEF SessionWriteClose, MayCall, Writing
 <2>2. CASE SessionDestroy(p)
  BY <1>1, <2>2, DestroyKeeps DEF SessionDestroy, MayCall, IInv, TypeOK
 <2>3. CASE RegenerateDelete(p)
  <3>1. PICK k \in NewIds \ issued : /\ At(p, "script") /\ Destroy(p, "regenerate", k)
                                     /\ issued' = issued \cup {k}
   BY <2>3 DEF RegenerateDelete, MayCall
  <3>2. k \in Keys /\ issued' \subseteq NewIds
   BY <3>1 DEF IInv, TypeOK, Keys
  <3> QED BY <1>1, <3>1, <3>2, DestroyKeeps
 <2> QED BY <1>1, <2>1, <2>2, <2>3, SessionStartKeeps, NewIdKeeps,
               EncodeBailsOutKeeps DEF Script
<1>2. ASSUME NEW p \in Procs, Handler(p)
      PROVE  IInv'
 BY <1>2, OpenKeeps, ReadKeeps, TruncateKeeps, WriteKeeps, UnlinkKeeps, CloseKeeps,
    RegeneratedKeeps DEF Handler
<1>3. CASE Expire
 <2>1. old' \subseteq Inodes /\ UNCHANGED <<path, data, owner, ps, leaked, issued>>
  BY <1>3 DEF Expire, IInv, TypeOK
 <2> QED BY <2>1 DEF IInv, TypeOK, OwnersOK, GlobalsOK, HoldsOK, FileOK
<1>4. CASE UNCHANGED vars
 BY <1>4 DEF vars, IInv, TypeOK, OwnersOK, GlobalsOK, HoldsOK, FileOK
<1> QED BY <1>1, <1>2, <1>3, <1>4, BeginRequestKeeps, EndRequestKeeps, ReadKeeps, LockKeeps,
           GcKeeps, KilledKeeps DEF Next, Finished

\* No file is linked and no process runs at first.
LEMMA InitOK == Init => IInv
<1> SUFFICES ASSUME Init PROVE IInv
 OBVIOUS
<1>1. Idle \in Record
 BY DEF Idle, Record
<1>2. TypeOK
 BY <1>1, EmptyOK DEF Init, TypeOK
<1>3. OwnersOK
 BY DEF Init, OwnersOK
<1>4. GlobalsOK(Idle)
 BY DEF Idle, GlobalsOK, Writing
<1>5. \A p \in Procs : HoldsOK(p, Idle, owner, leaked) /\ FileOK(Idle, data)
 BY DEF Idle, HoldsOK, FileOK
<1> QED BY <1>2, <1>3, <1>4, <1>5 DEF Init, IInv

\* The inductive invariant of the specification.
THEOREM Inductive == Spec => [](IInv /\ CountOK)
<1>1. Init => IInv /\ CountOK
 <2> SUFFICES ASSUME Init PROVE CountOK
  BY InitOK
 <2>1. leaked = {} /\ Left = {}
  BY DEF Init, Left, Idle
 <2>2. Cardinality(leaked) = 0 /\ Cardinality(Left) = 0
  BY <2>1, FS_EmptySet
 <2> QED BY <2>2, BailoutsAssumption DEF Init, CountOK
<1>2. IInv /\ CountOK /\ [Next]_vars => (IInv /\ CountOK)'
 BY StepKeeps, CountKeeps
<1> QED BY <1>1, <1>2, PTL DEF Spec

\* The variables have their types.
THEOREM TypeCorrect == Spec => []TypeOK
<1>1. IInv => TypeOK
 BY DEF IInv
<1> QED BY <1>1, Inductive, PTL

\* A locked file is the open file of the process that locked it, which has the
\* ps_files that will close it; a lock that was leaked has cost a bailout out of
\* encoding or decoding a session, and no two of them the same.
THEOREM LocksAccounted == Spec => []LocksHeld
<1>1. IInv /\ CountOK => LocksHeld
 <2> SUFFICES ASSUME IInv, CountOK PROVE LocksHeld
  OBVIOUS
 <2>1. ASSUME NEW i \in Inodes, owner[i] # NULL, i \notin leaked
       PROVE  ps[owner[i]].fd = i /\ ps[owner[i]].mod
  <3>1. owner[i] \in Procs /\ ps[owner[i]].fd = i
   BY <2>1 DEF IInv, TypeOK, OwnersOK
  <3>2. GlobalsOK(ps[owner[i]])
   BY <3>1 DEF IInv
  <3> QED BY <3>1, <3>2, NullAssumption DEF GlobalsOK
 <2>2. Cardinality(leaked) <= used.bailouts
  <3>1. Cardinality(leaked) \in Nat /\ Cardinality(Left) \in Nat /\ used.bailouts \in Nat
   BY Finite DEF IInv, CountOK
  <3> QED BY <3>1 DEF CountOK
 <2> QED BY <2>1, <2>2 DEF LocksHeld
<1> QED BY <1>1, Inductive, PTL

\* From reading a session until it writes it, a request sees the file unchanged.
THEOREM NoLostUpdate == Spec => []ReadsAreCurrent
<1>1. IInv => ReadsAreCurrent
 BY DEF IInv, ReadsAreCurrent, HoldsOK, FileOK
<1> QED BY <1>1, Inductive, PTL

\* A session written to the file it was read from is written whole, whatever was
\* in the file.
THEOREM NoMixedSession == Spec => []WritesAreWhole
<1>1. IInv => WritesAreWhole
 BY DEF IInv, WritesAreWhole, WroteWhole, FileOK
<1> QED BY <1>1, Inductive, PTL

\* A process that waits in flock holds no lock but leaked ones, and waits for one
\* that does not wait, unless the lock was leaked: what has leaked aside, no chain of
\* processes waits in a circle.
THEOREM NoHoldAndWait == Spec => []WaitersHoldNothing
<1>1. IInv => WaitersHoldNothing
 <2> SUFFICES ASSUME IInv, NEW p \in Procs, At(p, "lock")
              PROVE  /\ \A i \in Inodes \ leaked : owner[i] # p
                     /\ ~Stuck(p) /\ owner[ps[p].fd] # NULL => ~At(owner[ps[p].fd], "lock")
  BY DEF WaitersHoldNothing
 <2>1. ASSUME NEW q \in Procs, At(q, "lock"), NEW i \in Inodes \ leaked
       PROVE  owner[i] # q
  BY <2>1, NullAssumption DEF IInv, At, OwnersOK, HoldsOK
 <2>2. ps[p].fd \in Inodes /\ owner[ps[p].fd] \in Procs \cup {NULL}
  BY DEF IInv, TypeOK, GlobalsOK, Record, At
 <2> QED BY <2>1, <2>2 DEF Stuck
<1> QED BY <1>1, Inductive, PTL
=============================================================================
