--------------------------- MODULE MCObjectsStore ---------------------------
(* Instances of the objects store for TLC. *)
EXTENDS ObjectsStore, TLC

=============================================================================
