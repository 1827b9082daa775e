----------------------------- MODULE MCSmsSend -----------------------------
(***************************************************************************)
(* Instances of SmsSend for TLC, and of Formats: from an initial state the *)
(* run either sends messages or, from one of them, looks at a sample of    *)
(* what the bytes of the messages, of their frames and of the answers go   *)
(* through.                                                                *)
(***************************************************************************)
EXTENDS SmsSend, Formats, TLC

MCInit == Init /\ FormatsInit

MCNext ==
  \/ Next /\ sample = None /\ UNCHANGED sample
  \/ Init /\ mode = "pdu" /\ FormatsNext /\ UNCHANGED vars

MCSpec == MCInit /\ [][MCNext]_<<vars, sample>>

SenderSymmetry == Permutations(Sender)
=============================================================================
