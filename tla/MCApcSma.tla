------------------------------- MODULE MCApcSma -------------------------------
(* Instances of ApcSma for TLC. *)
EXTENDS ApcSma, TLC

=============================================================================
