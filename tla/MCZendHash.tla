------------------------------ MODULE MCZendHash ------------------------------
(* Instances of the hash table for TLC.  The keys hash into the same slots:   *)
(* two strings have hash 1, -1 is a negative index and LongMax the largest.   *)
EXTENDS ZendHash

CONSTANTS a1, a2, a3, a4, d1, d2, d3, d4

Str(h, n, s) == [h |-> h, nKeyLength |-> n, arKey |-> s]

OperationsKeys == {Numeric(-1), Numeric(LongMax), Str(1, 2, "s"), Str(1, 2, "t")}

OrderKeys == {Numeric(-1), Str(1, 2, "s"), Str(1, 3, "uu")}

Symmetry == Permutations(Addr) \cup Permutations(Data)
=============================================================================
