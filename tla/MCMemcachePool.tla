--------------------------- MODULE MCMemcachePool ---------------------------
(* Two servers, and the keys that belong to the first of them; a failover tries *)
(* that one, then the other, then the first again.                              *)
EXTENDS MemcachePool, TLC

CONSTANTS a, b, key1

HomeOf == key1 :> a
OrderOf == key1 :> <<a, b, a>>
=============================================================================
