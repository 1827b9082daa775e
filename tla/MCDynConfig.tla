---------------------------- MODULE MCDynConfig ----------------------------
(* Instances of DynConfig for TLC. *)
EXTENDS DynConfig
=============================================================================
