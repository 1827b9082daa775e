--------------------------- MODULE CommandLinkInv ---------------------------
(***************************************************************************)
(* The inductive invariant of CommandLink: what its safety properties rest *)
(* on, stated as predicates of one state so that TLC can check them and    *)
(* CommandLinkProofs can prove them.                                       *)
(***************************************************************************)
EXTENDS CommandLink, Functions

\* The frames on their way to the readers of session s.
Owed(s) == Range(responseChan[s]) \cup Range(pending[s])

Connected == {"drain", "register"} \cup Writing \cup Waiting
SmsPlace  == {"cmgs", "prompt", "pdu", "confirm", "close"}

\* One operation has the turn, and the inner mutex is its or free.
Turn ==
  /\ \A c \in Caller : op[c] = 0 <=> pc[c] \in {"idle", "lockDaemon"}
  /\ \A c \in Caller : op[c] # 0 => op[c] = cmdMutex
  /\ \A c, d \in Caller : op[c] # 0 /\ op[c] = op[d] => c = d
  /\ cmdMutex \in {0, ops}
  /\ cmdMu \in {0, cmdMutex}
  /\ wire <= ops

\* What each place of a call says of cmdMu and of the interactive session.
PlaceOK(c) ==
  /\ pc[c] \in {"drain", "register", "send", "wait", "unlock"} => cmdMu = op[c]
  /\ pc[c] \in {"lockClient", "release"} => cmdMu = 0
  /\ pc[c] \in {"send", "wait", "unlock"} => kind[c] = "cmd"
  /\ pc[c] \in {"register"} \cup SmsPlace => kind[c] = "sms"
  /\ pc[c] \in {"lockClient", "drain", "register", "send", "wait", "unlock"} =>
       closeOnce[op[c]] = "none"
  /\ pc[c] \in SmsPlace => closeOnce[op[c]] # "none"
  /\ pc[c] = "release" => closeOnce[op[c]] \in {"none", "closed"}

Places == \A c \in Caller : PlaceOK(c)

\* An interactive session that is not closed belongs to the operation whose turn it is.
Interactive ==
  /\ \A o \in Op : closeOnce[o] \in {"live", "closing"} => o = cmdMutex
  /\ \A o \in Op : closeOnce[o] = "live" => cmdMu = o
  /\ \A o \in Op : closeOnce[o] \in {"closing", "closed"} /\ o = cmdMutex => cmdMu = 0
  /\ ActiveIsCurrent
  /\ loop = "close" => target # 0

\* Sessions exist before anybody uses them.
Dialled ==
  /\ session <= dialled
  /\ loop \in {"install", "read", "clean"} => dialled # 0
  /\ \A o \in Op : sess[o] <= dialled
  /\ \A c \in Caller : pc[c] \in Connected => sess[op[c]] # 0
  /\ \A o \in clean : sess[o] # 0

\* Nothing is known of an operation before it begins.
Untouched ==
  \A o \in Op : o > ops =>
    /\ closeOnce[o] = "none" /\ outcome[o] = "none" /\ got[o] = {} /\ sess[o] = 0
    /\ o \notin clean /\ o \notin accepted

\* Until its drain is done an operation has consumed nothing and has no result.
Starting ==
  \A c \in Caller :
    /\ pc[c] \in {"lockClient", "drain"} =>
         got[op[c]] = {} /\ outcome[op[c]] = "none" /\ op[c] \notin clean
    /\ pc[c] = "lockClient" => sess[op[c]] = 0

\* A result is there when the call gives its locks back, and claims an answer only if
\* the operation was the last to write.
Results ==
  /\ \A c \in Caller : pc[c] \in {"unlock", "close", "release"} => outcome[op[c]] # "none"
  /\ \A c \in Caller : pc[c] \in Waiting => wire = op[c]
  /\ \A c \in Caller : op[c] # 0 /\ outcome[op[c]] \in {"answered", "sent"} => wire = op[c]
  /\ \A o \in Op : got[o] # {} => sess[o] # 0

\* Frames travel on the session of the operation they answer.
Origin == \A s \in Session : \A f \in Owed(s) : sess[f.op] = s

\* Every frame on the session of a clean operation in progress answers that operation,
\* and an OK for an SMS is there only after the modem accepted the part.
CleanQueue(c) ==
  op[c] \in clean =>
    \A f \in Owed(sess[op[c]]) :
      f.op = op[c] /\ (kind[c] = "sms" /\ f.kind = "ok" => op[c] \in accepted)

CleanQueues == \A c \in Caller : CleanQueue(c)

IInv ==
  /\ TypeOK
  /\ Turn /\ Places /\ Interactive /\ Dialled
  /\ Untouched /\ Starting /\ Results
  /\ Origin /\ CleanQueues
  /\ FreshAnswers /\ AnswersStayOnTheirConnection /\ ConfirmedMeansAccepted
=============================================================================
