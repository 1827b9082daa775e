--------------------------- MODULE MCSessionStore ---------------------------
(* Instances of SessionStore for TLC. *)
EXTENDS SessionStore
=============================================================================
