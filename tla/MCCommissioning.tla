--------------------------- MODULE MCCommissioning ---------------------------
(* Instances of Commissioning for TLC. *)
EXTENDS Commissioning
=============================================================================
