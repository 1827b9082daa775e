--------------------------- MODULE MCCommandLink ---------------------------
(* Instances of CommandLink for TLC. *)
EXTENDS CommandLinkInv, TLC

CallerSymmetry == Permutations(Caller)
=============================================================================
