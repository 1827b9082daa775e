----------------------------- MODULE SerialLink -----------------------------
(***************************************************************************)
(* What the daemon promises of the serial link to the modem: operations    *)
(* (a command and its answer, or one interactive SMS exchange) run one at  *)
(* a time, nothing an operation transmits reaches the wire before or after *)
(* its turn, and every operation ends with one result, which claims an     *)
(* answer only if the operation really was the last to transmit.           *)
(***************************************************************************)
EXTENDS Integers

CONSTANTS MaxOps,      \* operations 1 .. MaxOps, numbered in the order they begin
          Result,      \* how an operation can end
          Answered     \* the results that claim an answer of the modem

VARIABLES begun,       \* the number of operations that have begun
          owner,       \* the operation whose turn it is, 0 if none
          wire,        \* the last operation that transmitted, 0 if none
          result       \* the result of each operation that has ended

linkVars == <<begun, owner, wire, result>>

LinkInit ==
  /\ begun = 0
  /\ owner = 0
  /\ wire = 0
  /\ result = [o \in 1 .. MaxOps |-> "none"]

Begin ==
  /\ owner = 0
  /\ begun < MaxOps
  /\ begun' = begun + 1
  /\ owner' = begun'
  /\ UNCHANGED <<wire, result>>

Transmit ==
  /\ owner # 0
  /\ wire' = owner
  /\ UNCHANGED <<begun, owner, result>>

End(r) ==
  /\ owner # 0
  /\ r \in Answered => wire = owner
  /\ result' = [result EXCEPT ![owner] = r]
  /\ owner' = 0
  /\ UNCHANGED <<begun, wire>>

LinkNext == Begin \/ Transmit \/ \E r \in Result : End(r)

LinkSpec == LinkInit /\ [][LinkNext]_linkVars
=============================================================================
