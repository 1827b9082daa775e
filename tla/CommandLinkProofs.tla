------------------------- MODULE CommandLinkProofs -------------------------
(***************************************************************************)
(* The safety properties of CommandLink, proved for every set of callers,  *)
(* every number of operations and sessions, and every buffer capacity.     *)
(***************************************************************************)
EXTENDS CommandLinkInv, SequenceTheorems, TLAPS

Reply == CommandReply \cup PromptReply \cup PduReply

-----------------------------------------------------------------------------
(* The steps of CommandLink, flattened for the proofs below.               *)

CallerStep(c) ==
  \/ \E k \in {"cmd", "sms"} : Call(c, k)
  \/ LockDaemon(c) \/ LockClient(c) \/ DrainFrame(c) \/ DrainDone(c) \/ Register(c)
  \/ Send(c) \/ WriteCmgs(c) \/ WritePdu(c) \/ WriteFails(c)
  \/ ReceiveAnswer(c) \/ ReceivePrompt(c) \/ ReceiveConfirm(c)
  \/ SeesDisconnect(c) \/ TimesOut(c)
  \/ UnlockClient(c) \/ CloseReturns(c) \/ UnlockDaemon(c) \/ BeyondBound(c)

\* The connection manager, the link and the shutdown: nothing of a call changes.
ManagerStep ==
  \/ LoopTop \/ DialSucceeds \/ DialFails \/ Backoff \/ Install \/ ReadFrame
  \/ ReaderStops \/ Cleanup \/ LoopCloseReturns
  \/ LinkLost \/ Cancel \/ CloserRuns
  \/ UNCHANGED vars

\* Every step is one of a caller, the beginning or the end of a close, or one of the
\* connection manager; what SenderCloses, IdleFires and LoopCloses do is BeginClose.
LEMMA StepCases ==
  ASSUME TypeOK, Turn, Interactive, [Next]_vars
  PROVE  \/ \E c \in Caller : CallerStep(c)
         \/ \E o \in Op : BeginClose(o) \/ FinishClose(o)
         \/ ManagerStep
<1>1. \A c \in Caller : pc[c] = "close" => op[c] \in Op
  BY BoundsAssumption DEF TypeOK, CallerTypes, Turn, Op
<1>2. loop = "close" => target \in Op
  BY BoundsAssumption DEF TypeOK, LoopTypes, Interactive, Op
<1>3. CASE \E c \in Caller : CallerNext(c)
  BY <1>1, <1>3 DEF CallerNext, Work, Receive, CallerStep, SenderCloses
<1>4. CASE LoopNext
  BY <1>2, <1>4 DEF LoopNext, LoopCloses, ManagerStep
<1>5. CASE \E o \in Op : IdleFires(o) \/ FinishClose(o)
  BY <1>5 DEF IdleFires
<1>6. CASE LinkLost \/ Cancel \/ CloserRuns \/ AllQuiet \/ UNCHANGED vars
  BY <1>6 DEF ManagerStep, AllQuiet
<1> QED
  BY <1>3, <1>4, <1>5, <1>6 DEF Next

\* The manager touches neither the calls nor the locks nor the history.
LEMMA ManagerFrame ==
  ASSUME ManagerStep
  PROVE  UNCHANGED <<callerVars, lockVars, historyVars>>
BY DEF ManagerStep, LoopTop, DialSucceeds, DialFails, Backoff, Install, ReadFrame,
       ReaderStops, Cleanup, LoopCloseReturns, LinkLost, Cancel, CloserRuns, vars,
       callerVars, lockVars, historyVars

-----------------------------------------------------------------------------
(* Frames and queues.                                                      *)

\* The modem answers operation o with frames for o, and with an OK only if the reply it
\* chose holds one.
LEMMA FramesOfReply ==
  ASSUME NEW o \in Op, NEW reply \in Reply
  PROVE  /\ Frames(o, reply) \in Seq(Frame)
         /\ \A f \in Range(Frames(o, reply)) :
              f.op = o /\ (f.kind = "ok" => \E i \in DOMAIN reply : reply[i] = "ok")
<1>1. reply \in Seq(FrameKind)
  <2>1. \A x \in FrameKind : <<x>> \in Seq(FrameKind)
    OBVIOUS
  <2>2. <<>> \in Seq(FrameKind)
    OBVIOUS
  <2>3. <<"data", "ok">> \in Seq(FrameKind)
    BY DEF FrameKind
  <2> QED
    BY <2>1, <2>2, <2>3 DEF Reply, CommandReply, PromptReply, PduReply, Short, FrameKind
<1>2. \A i \in DOMAIN reply : [op |-> o, kind |-> reply[i]] \in Frame
  BY <1>1 DEF Frame
<1>3. DOMAIN reply = 1 .. Len(reply) /\ Len(reply) \in Nat
  BY <1>1
<1>4. Frames(o, reply) \in Seq(Frame)
  BY <1>2, <1>3 DEF Frames
<1> QED
  BY <1>4 DEF Frames, Range

\* What taking from, appending to and joining queues of frames does to their elements.
LEMMA QueueRanges ==
  ASSUME NEW q \in Seq(Frame)
  PROVE  /\ q # <<>> => /\ Tail(q) \in Seq(Frame)
                        /\ Head(q) \in Range(q)
                        /\ Range(Tail(q)) \subseteq Range(q)
         /\ \A f \in Frame : /\ Append(q, f) \in Seq(Frame)
                              /\ Range(Append(q, f)) = Range(q) \cup {f}
         /\ \A r \in Seq(Frame) : /\ q \o r \in Seq(Frame)
                                   /\ Range(q \o r) = Range(q) \cup Range(r)
         /\ Range(q) \subseteq Frame
<1>1. ASSUME q # <<>>
      PROVE  /\ Tail(q) \in Seq(Frame)
             /\ Head(q) \in Range(q)
             /\ Range(Tail(q)) \subseteq Range(q)
  <2>1. Len(q) \in Nat \ {0} /\ DOMAIN q = 1 .. Len(q)
    BY <1>1
  <2>2. Head(q) \in Range(q)
    BY <2>1 DEF Range
  <2>3. /\ Tail(q) \in Seq(Frame)
        /\ Len(Tail(q)) = Len(q) - 1
        /\ \A i \in 1 .. Len(Tail(q)) : Tail(q)[i] = q[i + 1]
    BY <1>1, HeadTailProperties
  <2>4. DOMAIN Tail(q) = 1 .. Len(q) - 1
    BY <2>3
  <2>5. Range(Tail(q)) \subseteq Range(q)
    BY <2>1, <2>3, <2>4 DEF Range
  <2> QED
    BY <2>2, <2>3, <2>5
<1>2. ASSUME NEW f \in Frame
      PROVE  Append(q, f) \in Seq(Frame) /\ Range(Append(q, f)) = Range(q) \cup {f}
  <2>1. /\ Append(q, f) \in Seq(Frame)
        /\ Len(Append(q, f)) = Len(q) + 1
        /\ \A i \in 1 .. Len(q) : Append(q, f)[i] = q[i]
        /\ Append(q, f)[Len(q) + 1] = f
    BY AppendProperties
  <2>2. DOMAIN q = 1 .. Len(q) /\ DOMAIN Append(q, f) = 1 .. Len(q) + 1 /\ Len(q) \in Nat
    BY <2>1
  <2> QED
    BY <2>1, <2>2 DEF Range
<1>3. ASSUME NEW r \in Seq(Frame)
      PROVE  q \o r \in Seq(Frame) /\ Range(q \o r) = Range(q) \cup Range(r)
  BY RangeConcatenation
<1>4. Range(q) \subseteq Frame
  BY RangeOfSeq
<1> QED
  BY <1>1, <1>2, <1>3, <1>4

-----------------------------------------------------------------------------
(* Type correctness.                                                       *)

\* A caller inside a call has an operation, and one that exchanges frames a session.
LEMMA UseOfSession ==
  ASSUME TypeOK, Turn, Dialled, NEW c \in Caller
  PROVE  /\ pc[c] \notin {"idle", "lockDaemon"} => op[c] \in Op
         /\ pc[c] \in Connected => sess[op[c]] \in Session
<1>1. pc[c] \notin {"idle", "lockDaemon"} => op[c] \in Op
  BY BoundsAssumption DEF TypeOK, CallerTypes, Turn, Op
<1>2. pc[c] \in Connected => pc[c] \notin {"idle", "lockDaemon"}
  BY DEF Connected, Writing, Waiting
<1> QED
  BY <1>1, <1>2, BoundsAssumption DEF TypeOK, HistoryTypes, Dialled, Session, Op

\* A write adds to its own session only, and only frames that answer it.
LEMMA WriteEffect ==
  ASSUME TypeOK, NEW o \in Op, sess[o] \in Session, NEW reply \in Reply,
         Write(o, reply)
  PROVE  /\ pending' \in [Session -> Seq(Frame)]
         /\ \A s \in Session \ {sess[o]} : pending'[s] = pending[s]
         /\ Range(pending'[sess[o]]) \subseteq Range(pending[sess[o]]) \cup Range(Frames(o, reply))
         /\ wire' = o
         /\ UNCHANGED <<conn, disconnectChan, responseChan>>
<1>1. Frames(o, reply) \in Seq(Frame) /\ pending[sess[o]] \in Seq(Frame)
  BY FramesOfReply DEF TypeOK, LinkTypes
<1>2. /\ pending[sess[o]] \o Frames(o, reply) \in Seq(Frame)
      /\ Range(pending[sess[o]] \o Frames(o, reply)) =
           Range(pending[sess[o]]) \cup Range(Frames(o, reply))
  BY <1>1, QueueRanges
<1>3. CASE pending' = [pending EXCEPT ![sess[o]] = @ \o Frames(o, reply)]
  BY <1>2, <1>3 DEF Write, TypeOK, LinkTypes
<1>4. CASE pending' = pending
  BY <1>4 DEF Write, TypeOK, LinkTypes
<1> QED
  BY <1>3, <1>4 DEF Write

\* Every step keeps the types.
LEMMA TypeStep ==
  ASSUME IInv, [Next]_vars
  PROVE  TypeOK'
<1> USE BoundsAssumption DEF Op, Session, Outcome, Place
<1>c. TypeOK /\ Turn /\ Dialled /\ Interactive
  BY DEF IInv
<1>1. ASSUME NEW c \in Caller, NEW k \in {"cmd", "sms"}, Call(c, k)
      PROVE  TypeOK'
  <2>1. LockTypes' /\ LoopTypes' /\ LinkTypes' /\ HistoryTypes'
    BY <1>c, <1>1 DEF Call, TypeOK, LockTypes, LoopTypes, LinkTypes, HistoryTypes, lockVars,
         loopVars, linkVars, historyVars
  <2>2. CallerTypes'
    BY <1>c, <1>1 DEF Call, Goto, TypeOK, CallerTypes, callerVars
  <2> QED
    BY <2>1, <2>2 DEF TypeOK
<1>2. ASSUME NEW c \in Caller, LockDaemon(c)
      PROVE  TypeOK'
  <2>1. ops' \in Op
    BY <1>c, <1>2 DEF LockDaemon, TypeOK, HistoryTypes
  <2>2. LoopTypes' /\ LinkTypes'
    BY <1>c, <1>2 DEF LockDaemon, TypeOK, LoopTypes, LinkTypes, loopVars, linkVars
  <2>3. CallerTypes'
    BY <1>c, <1>2, <2>1 DEF LockDaemon, Goto, TypeOK, CallerTypes, callerVars
  <2>4. LockTypes'
    BY <1>c, <1>2, <2>1 DEF LockDaemon, Goto, TypeOK, LockTypes, lockVars
  <2>5. HistoryTypes'
    BY <1>c, <1>2, <2>1 DEF LockDaemon, Goto, TypeOK, HistoryTypes, historyVars
  <2> QED
    BY <2>2, <2>3, <2>4, <2>5 DEF TypeOK
<1>3. ASSUME NEW c \in Caller, LockClient(c)
      PROVE  TypeOK'
  <2>1. op[c] \in Op
    BY <1>c, <1>3, UseOfSession DEF LockClient
  <2>2. LoopTypes' /\ LinkTypes'
    BY <1>c, <1>3 DEF LockClient, TypeOK, LoopTypes, LinkTypes, loopVars, linkVars
  <2>3. CallerTypes'
    BY <1>c, <1>3, <2>1 DEF LockClient, Finish, Goto, TypeOK, CallerTypes, callerVars
  <2>4. LockTypes'
    BY <1>c, <1>3, <2>1 DEF LockClient, Finish, Goto, TypeOK, LockTypes, lockVars
  <2>5. HistoryTypes'
    BY <1>c, <1>3, <2>1 DEF LockClient, Finish, Goto, TypeOK, HistoryTypes, historyVars, LoopTypes
  <2> QED
    BY <2>2, <2>3, <2>4, <2>5 DEF TypeOK
<1>4. ASSUME NEW c \in Caller, DrainFrame(c)
      PROVE  TypeOK'
  <2>1. op[c] \in Op /\ sess[op[c]] \in Session
    BY <1>c, <1>4, UseOfSession DEF DrainFrame, Connected
  <2>2. Tail(responseChan[sess[op[c]]]) \in Seq(Frame)
    BY <1>c, <1>4, <2>1, QueueRanges DEF TypeOK, LinkTypes, DrainFrame
  <2>3. CallerTypes' /\ LockTypes' /\ LoopTypes' /\ HistoryTypes'
    BY <1>c, <1>4 DEF DrainFrame, TypeOK, CallerTypes, LockTypes, LoopTypes, HistoryTypes,
         callerVars, lockVars, loopVars, historyVars
  <2>4. LinkTypes'
    BY <1>c, <1>4, <2>1, <2>2 DEF DrainFrame, Goto, TypeOK, LinkTypes, linkVars
  <2> QED
    BY <2>3, <2>4 DEF TypeOK
<1>5. ASSUME NEW c \in Caller, DrainDone(c)
      PROVE  TypeOK'
  <2>1. op[c] \in Op /\ sess[op[c]] \in Session
    BY <1>c, <1>5, UseOfSession DEF DrainDone, Connected
  <2>2. LockTypes' /\ LoopTypes' /\ LinkTypes'
    BY <1>c, <1>5 DEF DrainDone, TypeOK, LockTypes, LoopTypes, LinkTypes, lockVars, loopVars,
         linkVars
  <2>3. CallerTypes'
    BY <1>c, <1>5, <2>1 DEF DrainDone, Goto, TypeOK, CallerTypes, callerVars
  <2>4. HistoryTypes'
    BY <1>c, <1>5, <2>1 DEF DrainDone, Goto, TypeOK, HistoryTypes, historyVars
  <2> QED
    BY <2>2, <2>3, <2>4 DEF TypeOK
<1>6. ASSUME NEW c \in Caller, Register(c)
      PROVE  TypeOK'
  <2>1. op[c] \in Op /\ sess[op[c]] \in Session
    BY <1>c, <1>6, UseOfSession DEF Register, Connected
  <2>2. LoopTypes' /\ LinkTypes' /\ HistoryTypes'
    BY <1>c, <1>6 DEF Register, TypeOK, LoopTypes, LinkTypes, HistoryTypes, loopVars, linkVars,
         historyVars
  <2>3. CallerTypes'
    BY <1>c, <1>6, <2>1 DEF Register, Goto, TypeOK, CallerTypes, callerVars
  <2>4. LockTypes'
    BY <1>c, <1>6, <2>1 DEF Register, Goto, TypeOK, LockTypes, lockVars
  <2> QED
    BY <2>2, <2>3, <2>4 DEF TypeOK
<1>7. ASSUME NEW c \in Caller, Send(c)
      PROVE  TypeOK'
  <2>1. op[c] \in Op /\ sess[op[c]] \in Session
    BY <1>c, <1>7, UseOfSession DEF Send, Connected, Writing
  <2>2. PICK reply \in CommandReply : Write(op[c], reply)
    BY <1>7 DEF Send
  <2>3. /\ pending' \in [Session -> Seq(Frame)]
        /\ wire' = op[c]
        /\ UNCHANGED <<conn, disconnectChan, responseChan>>
    BY <1>c, <2>1, <2>2, WriteEffect DEF Reply
  <2>4. LockTypes' /\ LoopTypes'
    BY <1>c, <1>7 DEF Send, TypeOK, LockTypes, LoopTypes, lockVars, loopVars
  <2>5. CallerTypes'
    BY <1>c, <1>7, <2>1, <2>3 DEF Send, Goto, TypeOK, CallerTypes, callerVars
  <2>6. LinkTypes'
    BY <1>c, <1>7, <2>1, <2>3 DEF Send, Goto, TypeOK, LinkTypes, linkVars
  <2>7. HistoryTypes'
    BY <1>c, <1>7, <2>1, <2>3 DEF Send, Goto, TypeOK, HistoryTypes, historyVars
  <2> QED
    BY <2>4, <2>5, <2>6, <2>7 DEF TypeOK
<1>8. ASSUME NEW c \in Caller, WriteCmgs(c)
      PROVE  TypeOK'
  <2>1. op[c] \in Op /\ sess[op[c]] \in Session
    BY <1>c, <1>8, UseOfSession DEF WriteCmgs, Connected, Writing
  <2>2. PICK reply \in PromptReply : Write(op[c], reply)
    BY <1>8 DEF WriteCmgs
  <2>3. /\ pending' \in [Session -> Seq(Frame)]
        /\ wire' = op[c]
        /\ UNCHANGED <<conn, disconnectChan, responseChan>>
    BY <1>c, <2>1, <2>2, WriteEffect DEF Reply
  <2>4. LockTypes' /\ LoopTypes'
    BY <1>c, <1>8 DEF WriteCmgs, TypeOK, LockTypes, LoopTypes, lockVars, loopVars
  <2>5. CallerTypes'
    BY <1>c, <1>8, <2>1, <2>3 DEF WriteCmgs, Goto, TypeOK, CallerTypes, callerVars
  <2>6. LinkTypes'
    BY <1>c, <1>8, <2>1, <2>3 DEF WriteCmgs, Goto, TypeOK, LinkTypes, linkVars
  <2>7. HistoryTypes'
    BY <1>c, <1>8, <2>1, <2>3 DEF WriteCmgs, Goto, TypeOK, HistoryTypes, historyVars
  <2> QED
    BY <2>4, <2>5, <2>6, <2>7 DEF TypeOK
<1>9. ASSUME NEW c \in Caller, WritePdu(c)
      PROVE  TypeOK'
  <2>1. op[c] \in Op /\ sess[op[c]] \in Session
    BY <1>c, <1>9, UseOfSession DEF WritePdu, Connected, Writing
  <2>2. PICK reply \in PduReply : Write(op[c], reply)
    BY <1>9 DEF WritePdu
  <2>3. /\ pending' \in [Session -> Seq(Frame)]
        /\ wire' = op[c]
        /\ UNCHANGED <<conn, disconnectChan, responseChan>>
    BY <1>c, <2>1, <2>2, WriteEffect DEF Reply
  <2>4. /\ accepted' \subseteq accepted \cup {op[c]}
        /\ UNCHANGED <<ops, sess, outcome, got, clean>>
    BY <1>9 DEF WritePdu
  <2>5. LockTypes' /\ LoopTypes'
    BY <1>c, <1>9 DEF WritePdu, TypeOK, LockTypes, LoopTypes, lockVars, loopVars
  <2>6. CallerTypes'
    BY <1>c, <1>9, <2>1, <2>3, <2>4 DEF WritePdu, Goto, TypeOK, CallerTypes, callerVars
  <2>7. LinkTypes'
    BY <1>c, <1>9, <2>1, <2>3, <2>4 DEF WritePdu, Goto, TypeOK, LinkTypes, linkVars
  <2>8. HistoryTypes'
    BY <1>c, <1>9, <2>1, <2>3, <2>4 DEF Goto, TypeOK, HistoryTypes, historyVars
  <2> QED
    BY <2>5, <2>6, <2>7, <2>8 DEF TypeOK
<1>10. ASSUME NEW c \in Caller, WriteFails(c)
      PROVE  TypeOK'
  <2>1. op[c] \in Op
    BY <1>c, <1>10, UseOfSession DEF WriteFails, Writing
  <2>2. LockTypes' /\ LoopTypes' /\ LinkTypes'
    BY <1>c, <1>10 DEF WriteFails, Fail, TypeOK, LockTypes, LoopTypes, LinkTypes, lockVars,
         loopVars, linkVars
  <2>3. CallerTypes'
    BY <1>c, <1>10, <2>1 DEF WriteFails, Fail, Finish, GiveBack, Writing, Goto, TypeOK,
         CallerTypes, callerVars
  <2>4. HistoryTypes'
    BY <1>c, <1>10, <2>1 DEF WriteFails, Fail, Finish, GiveBack, Writing, Goto, TypeOK,
         HistoryTypes, historyVars
  <2> QED
    BY <2>2, <2>3, <2>4 DEF TypeOK
<1>11. ASSUME NEW c \in Caller, ReceiveAnswer(c)
      PROVE  TypeOK'
  <2>1. op[c] \in Op /\ sess[op[c]] \in Session
    BY <1>c, <1>11, UseOfSession DEF ReceiveAnswer, Connected, Waiting
  <2>2. responseChan[sess[op[c]]] \in Seq(Frame) /\ responseChan[sess[op[c]]] # <<>>
    BY <1>c, <1>11, <2>1 DEF TypeOK, LinkTypes, ReceiveAnswer
  <2>3. /\ Tail(responseChan[sess[op[c]]]) \in Seq(Frame)
        /\ Head(responseChan[sess[op[c]]]).op \in Op
    BY <2>2, QueueRanges DEF Frame
  <2>4. LockTypes' /\ LoopTypes'
    BY <1>c, <1>11 DEF ReceiveAnswer, TypeOK, LockTypes, LoopTypes, lockVars, loopVars
  <2>5. CallerTypes'
    BY <1>c, <1>11, <2>1, <2>3 DEF ReceiveAnswer, Finish, IsTerminalResponse, Goto, TypeOK,
         CallerTypes, callerVars
  <2>6. LinkTypes'
    BY <1>c, <1>11, <2>1, <2>3 DEF ReceiveAnswer, Finish, IsTerminalResponse, Goto, TypeOK,
         LinkTypes, linkVars
  <2>7. HistoryTypes'
    BY <1>c, <1>11, <2>1, <2>3 DEF ReceiveAnswer, Finish, IsTerminalResponse, Goto, TypeOK,
         HistoryTypes, historyVars
  <2> QED
    BY <2>4, <2>5, <2>6, <2>7 DEF TypeOK
<1>12. ASSUME NEW c \in Caller, ReceivePrompt(c)
      PROVE  TypeOK'
  <2>1. op[c] \in Op /\ sess[op[c]] \in Session
    BY <1>c, <1>12, UseOfSession DEF ReceivePrompt, Connected, Waiting
  <2>2. responseChan[sess[op[c]]] \in Seq(Frame) /\ responseChan[sess[op[c]]] # <<>>
    BY <1>c, <1>12, <2>1 DEF TypeOK, LinkTypes, ReceivePrompt
  <2>3. /\ Tail(responseChan[sess[op[c]]]) \in Seq(Frame)
        /\ Head(responseChan[sess[op[c]]]).op \in Op
    BY <2>2, QueueRanges DEF Frame
  <2>4. LockTypes' /\ LoopTypes'
    BY <1>c, <1>12 DEF ReceivePrompt, TypeOK, LockTypes, LoopTypes, lockVars, loopVars
  <2>5. CallerTypes'
    BY <1>c, <1>12, <2>1, <2>3 DEF ReceivePrompt, Finish, IsTerminalResponse, Goto, TypeOK,
         CallerTypes, callerVars
  <2>6. LinkTypes'
    BY <1>c, <1>12, <2>1, <2>3 DEF ReceivePrompt, Finish, IsTerminalResponse, Goto, TypeOK,
         LinkTypes, linkVars
  <2>7. HistoryTypes'
    BY <1>c, <1>12, <2>1, <2>3 DEF ReceivePrompt, Finish, IsTerminalResponse, Goto, TypeOK,
         HistoryTypes, historyVars
  <2> QED
    BY <2>4, <2>5, <2>6, <2>7 DEF TypeOK
<1>13. ASSUME NEW c \in Caller, ReceiveConfirm(c)
      PROVE  TypeOK'
  <2>1. op[c] \in Op /\ sess[op[c]] \in Session
    BY <1>c, <1>13, UseOfSession DEF ReceiveConfirm, Connected, Waiting
  <2>2. responseChan[sess[op[c]]] \in Seq(Frame) /\ responseChan[sess[op[c]]] # <<>>
    BY <1>c, <1>13, <2>1 DEF TypeOK, LinkTypes, ReceiveConfirm
  <2>3. /\ Tail(responseChan[sess[op[c]]]) \in Seq(Frame)
        /\ Head(responseChan[sess[op[c]]]).op \in Op
    BY <2>2, QueueRanges DEF Frame
  <2>4. LockTypes' /\ LoopTypes'
    BY <1>c, <1>13 DEF ReceiveConfirm, TypeOK, LockTypes, LoopTypes, lockVars, loopVars
  <2>5. CallerTypes'
    BY <1>c, <1>13, <2>1, <2>3 DEF ReceiveConfirm, Finish, Goto, TypeOK, CallerTypes, callerVars
  <2>6. LinkTypes'
    BY <1>c, <1>13, <2>1, <2>3 DEF ReceiveConfirm, Finish, Goto, TypeOK, LinkTypes, linkVars
  <2>7. HistoryTypes'
    BY <1>c, <1>13, <2>1, <2>3 DEF ReceiveConfirm, Finish, Goto, TypeOK, HistoryTypes, historyVars
  <2> QED
    BY <2>4, <2>5, <2>6, <2>7 DEF TypeOK
<1>14. ASSUME NEW c \in Caller, SeesDisconnect(c)
      PROVE  TypeOK'
  <2>1. op[c] \in Op
    BY <1>c, <1>14, UseOfSession DEF SeesDisconnect, Waiting
  <2>2. LockTypes' /\ LoopTypes' /\ LinkTypes'
    BY <1>c, <1>14 DEF SeesDisconnect, Fail, TypeOK, LockTypes, LoopTypes, LinkTypes, lockVars,
         loopVars, linkVars
  <2>3. CallerTypes'
    BY <1>c, <1>14, <2>1 DEF SeesDisconnect, Fail, Finish, GiveBack, Waiting, Goto, TypeOK,
         CallerTypes, callerVars
  <2>4. HistoryTypes'
    BY <1>c, <1>14, <2>1 DEF SeesDisconnect, Fail, Finish, GiveBack, Waiting, Goto, TypeOK,
         HistoryTypes, historyVars
  <2> QED
    BY <2>2, <2>3, <2>4 DEF TypeOK
<1>15. ASSUME NEW c \in Caller, TimesOut(c)
      PROVE  TypeOK'
  <2>1. op[c] \in Op
    BY <1>c, <1>15, UseOfSession DEF TimesOut, Waiting
  <2>2. LockTypes' /\ LoopTypes' /\ LinkTypes'
    BY <1>c, <1>15 DEF TimesOut, Fail, TypeOK, LockTypes, LoopTypes, LinkTypes, lockVars,
         loopVars, linkVars
  <2>3. CallerTypes'
    BY <1>c, <1>15, <2>1 DEF TimesOut, Fail, Finish, GiveBack, Waiting, Goto, TypeOK,
         CallerTypes, callerVars
  <2>4. HistoryTypes'
    BY <1>c, <1>15, <2>1 DEF TimesOut, Fail, Finish, GiveBack, Waiting, Goto, TypeOK,
         HistoryTypes, historyVars
  <2> QED
    BY <2>2, <2>3, <2>4 DEF TypeOK
<1>16. ASSUME NEW c \in Caller, UnlockClient(c)
      PROVE  TypeOK'
  <2>1. op[c] \in Op
    BY <1>c, <1>16, UseOfSession DEF UnlockClient
  <2>2. LoopTypes' /\ LinkTypes' /\ HistoryTypes'
    BY <1>c, <1>16 DEF UnlockClient, TypeOK, LoopTypes, LinkTypes, HistoryTypes, loopVars,
         linkVars, historyVars
  <2>3. CallerTypes'
    BY <1>c, <1>16, <2>1 DEF UnlockClient, Goto, TypeOK, CallerTypes, callerVars
  <2>4. LockTypes'
    BY <1>c, <1>16, <2>1 DEF UnlockClient, Goto, TypeOK, LockTypes, lockVars
  <2> QED
    BY <2>2, <2>3, <2>4 DEF TypeOK
<1>17. ASSUME NEW c \in Caller, CloseReturns(c)
      PROVE  TypeOK'
  <2>1. op[c] \in Op
    BY <1>c, <1>17, UseOfSession DEF CloseReturns
  <2>2. LockTypes' /\ LoopTypes' /\ LinkTypes' /\ HistoryTypes'
    BY <1>c, <1>17 DEF CloseReturns, TypeOK, LockTypes, LoopTypes, LinkTypes, HistoryTypes,
         lockVars, loopVars, linkVars, historyVars
  <2>3. CallerTypes'
    BY <1>c, <1>17, <2>1 DEF CloseReturns, Goto, TypeOK, CallerTypes, callerVars
  <2> QED
    BY <2>2, <2>3 DEF TypeOK
<1>18. ASSUME NEW c \in Caller, UnlockDaemon(c)
      PROVE  TypeOK'
  <2>1. op[c] \in Op
    BY <1>c, <1>18, UseOfSession DEF UnlockDaemon
  <2>2. LoopTypes' /\ LinkTypes' /\ HistoryTypes'
    BY <1>c, <1>18 DEF UnlockDaemon, TypeOK, LoopTypes, LinkTypes, HistoryTypes, loopVars,
         linkVars, historyVars
  <2>3. CallerTypes'
    BY <1>c, <1>18, <2>1 DEF UnlockDaemon, Goto, TypeOK, CallerTypes, callerVars
  <2>4. LockTypes'
    BY <1>c, <1>18, <2>1 DEF UnlockDaemon, Goto, TypeOK, LockTypes, lockVars
  <2> QED
    BY <2>2, <2>3, <2>4 DEF TypeOK
<1>19. ASSUME NEW c \in Caller, BeyondBound(c)
      PROVE  TypeOK'
  <2>1. LockTypes' /\ LoopTypes' /\ LinkTypes' /\ HistoryTypes'
    BY <1>c, <1>19 DEF BeyondBound, TypeOK, LockTypes, LoopTypes, LinkTypes, HistoryTypes,
         lockVars, loopVars, linkVars, historyVars
  <2>2. CallerTypes'
    BY <1>c, <1>19 DEF BeyondBound, Goto, TypeOK, CallerTypes, callerVars
  <2> QED
    BY <2>1, <2>2 DEF TypeOK
<1>20. ASSUME NEW o \in Op, BeginClose(o)
      PROVE  TypeOK'
  <2>1. CallerTypes' /\ LoopTypes' /\ LinkTypes' /\ HistoryTypes'
    BY <1>c, <1>20 DEF BeginClose, TypeOK, CallerTypes, LoopTypes, LinkTypes, HistoryTypes,
         callerVars, loopVars, linkVars, historyVars
  <2>2. LockTypes'
    BY <1>c, <1>20 DEF BeginClose, TypeOK, LockTypes, lockVars
  <2> QED
    BY <2>1, <2>2 DEF TypeOK
<1>21. ASSUME NEW o \in Op, FinishClose(o)
      PROVE  TypeOK'
  <2>1. CallerTypes' /\ LoopTypes' /\ LinkTypes' /\ HistoryTypes'
    BY <1>c, <1>21 DEF FinishClose, TypeOK, CallerTypes, LoopTypes, LinkTypes, HistoryTypes,
         callerVars, loopVars, linkVars, historyVars
  <2>2. LockTypes'
    BY <1>c, <1>21 DEF FinishClose, TypeOK, LockTypes, lockVars
  <2> QED
    BY <2>1, <2>2 DEF TypeOK
<1>22. CASE LoopTop
  <2>1. CallerTypes' /\ LockTypes' /\ LinkTypes' /\ HistoryTypes'
    BY <1>c, <1>22 DEF LoopTop, TypeOK, CallerTypes, LockTypes, LinkTypes, HistoryTypes,
         callerVars, lockVars, linkVars, historyVars
  <2>2. LoopTypes'
    BY <1>c, <1>22 DEF LoopTop, TypeOK, LoopTypes, loopVars
  <2> QED
    BY <2>1, <2>2 DEF TypeOK
<1>23. CASE DialSucceeds
  <2>1. dialled' \in Session
    BY <1>c, <1>23 DEF DialSucceeds, TypeOK, LoopTypes
  <2>2. CallerTypes' /\ LockTypes' /\ HistoryTypes'
    BY <1>c, <1>23 DEF DialSucceeds, TypeOK, CallerTypes, LockTypes, HistoryTypes, callerVars,
         lockVars, historyVars
  <2>3. LoopTypes'
    BY <1>c, <1>23, <2>1 DEF DialSucceeds, TypeOK, LoopTypes, loopVars
  <2>4. LinkTypes'
    BY <1>c, <1>23, <2>1 DEF DialSucceeds, TypeOK, LinkTypes, linkVars
  <2> QED
    BY <2>2, <2>3, <2>4 DEF TypeOK
<1>24. CASE DialFails
  <2>1. CallerTypes' /\ LockTypes' /\ LinkTypes' /\ HistoryTypes'
    BY <1>c, <1>24 DEF DialFails, TypeOK, CallerTypes, LockTypes, LinkTypes, HistoryTypes,
         callerVars, lockVars, linkVars, historyVars
  <2>2. LoopTypes'
    BY <1>c, <1>24 DEF DialFails, TypeOK, LoopTypes, loopVars
  <2> QED
    BY <2>1, <2>2 DEF TypeOK
<1>25. CASE Backoff
  <2>1. CallerTypes' /\ LockTypes' /\ LinkTypes' /\ HistoryTypes'
    BY <1>c, <1>25 DEF Backoff, TypeOK, CallerTypes, LockTypes, LinkTypes, HistoryTypes,
         callerVars, lockVars, linkVars, historyVars
  <2>2. LoopTypes'
    BY <1>c, <1>25 DEF Backoff, TypeOK, LoopTypes, loopVars
  <2> QED
    BY <2>1, <2>2 DEF TypeOK
<1>26. CASE Install
  <2>1. CallerTypes' /\ LockTypes' /\ LinkTypes' /\ HistoryTypes'
    BY <1>c, <1>26 DEF Install, TypeOK, CallerTypes, LockTypes, LinkTypes, HistoryTypes,
         callerVars, lockVars, linkVars, historyVars
  <2>2. LoopTypes'
    BY <1>c, <1>26 DEF Install, TypeOK, LoopTypes, loopVars
  <2> QED
    BY <2>1, <2>2 DEF TypeOK
<1>27. CASE ReadFrame
  <2>1. dialled \in Session
    BY <1>c, <1>27 DEF ReadFrame, TypeOK, LoopTypes, Dialled
  <2>2. /\ pending[dialled] \in Seq(Frame) /\ pending[dialled] # <<>>
        /\ responseChan[dialled] \in Seq(Frame)
    BY <1>c, <1>27, <2>1 DEF ReadFrame, TypeOK, LinkTypes
  <2>3. Tail(pending[dialled]) \in Seq(Frame) /\ Head(pending[dialled]) \in Frame
    BY <2>2, QueueRanges
  <2>4. Append(responseChan[dialled], Head(pending[dialled])) \in Seq(Frame)
    BY <2>2, <2>3, QueueRanges
  <2>5. CallerTypes' /\ LockTypes' /\ LoopTypes' /\ HistoryTypes'
    BY <1>c, <1>27 DEF ReadFrame, TypeOK, CallerTypes, LockTypes, LoopTypes, HistoryTypes,
         callerVars, lockVars, loopVars, historyVars
  <2>6. LinkTypes'
    BY <1>c, <1>27, <2>1, <2>3, <2>4 DEF ReadFrame, TypeOK, LinkTypes, linkVars
  <2> QED
    BY <2>5, <2>6 DEF TypeOK
<1>28. CASE ReaderStops
  <2>1. dialled \in Session
    BY <1>c, <1>28 DEF ReaderStops, TypeOK, LoopTypes, Dialled
  <2>2. CallerTypes' /\ LockTypes' /\ HistoryTypes'
    BY <1>c, <1>28 DEF ReaderStops, TypeOK, CallerTypes, LockTypes, HistoryTypes, callerVars,
         lockVars, historyVars
  <2>3. LoopTypes'
    BY <1>c, <1>28, <2>1 DEF ReaderStops, TypeOK, LoopTypes, loopVars
  <2>4. LinkTypes'
    BY <1>c, <1>28, <2>1 DEF ReaderStops, TypeOK, LinkTypes, linkVars
  <2> QED
    BY <2>2, <2>3, <2>4 DEF TypeOK
<1>29. CASE Cleanup
  <2>1. CallerTypes' /\ LockTypes' /\ LinkTypes' /\ HistoryTypes'
    BY <1>c, <1>29 DEF Cleanup, TypeOK, CallerTypes, LockTypes, LinkTypes, HistoryTypes,
         callerVars, lockVars, linkVars, historyVars
  <2>2. LoopTypes'
    BY <1>c, <1>29 DEF Cleanup, TypeOK, LoopTypes, loopVars, LockTypes
  <2> QED
    BY <2>1, <2>2 DEF TypeOK
<1>30. CASE LoopCloseReturns
  <2>1. CallerTypes' /\ LockTypes' /\ LinkTypes' /\ HistoryTypes'
    BY <1>c, <1>30 DEF LoopCloseReturns, TypeOK, CallerTypes, LockTypes, LinkTypes,
         HistoryTypes, callerVars, lockVars, linkVars, historyVars
  <2>2. LoopTypes'
    BY <1>c, <1>30 DEF LoopCloseReturns, TypeOK, LoopTypes, loopVars
  <2> QED
    BY <2>1, <2>2 DEF TypeOK
<1>31. CASE LinkLost
  <2>1. dialled \in Session
    BY <1>c, <1>31 DEF LinkLost, TypeOK, LoopTypes, Dialled
  <2>2. CallerTypes' /\ LockTypes' /\ LoopTypes' /\ HistoryTypes'
    BY <1>c, <1>31 DEF LinkLost, TypeOK, CallerTypes, LockTypes, LoopTypes, HistoryTypes,
         callerVars, lockVars, loopVars, historyVars
  <2>3. LinkTypes'
    BY <1>c, <1>31, <2>1 DEF LinkLost, TypeOK, LinkTypes, linkVars
  <2> QED
    BY <2>2, <2>3 DEF TypeOK
<1>32. CASE Cancel
  <2>1. CallerTypes' /\ LockTypes' /\ LinkTypes' /\ HistoryTypes'
    BY <1>c, <1>32 DEF Cancel, TypeOK, CallerTypes, LockTypes, LinkTypes, HistoryTypes,
         callerVars, lockVars, linkVars, historyVars
  <2>2. LoopTypes'
    BY <1>c, <1>32 DEF Cancel, TypeOK, LoopTypes, loopVars
  <2> QED
    BY <2>1, <2>2 DEF TypeOK
<1>33. CASE CloserRuns
  <2>1. CallerTypes' /\ LockTypes' /\ HistoryTypes'
    BY <1>c, <1>33 DEF CloserRuns, TypeOK, CallerTypes, LockTypes, HistoryTypes, callerVars,
         lockVars, historyVars
  <2>2. LoopTypes'
    BY <1>c, <1>33 DEF CloserRuns, TypeOK, LoopTypes, loopVars
  <2>3. LinkTypes'
    BY <1>c, <1>33 DEF CloserRuns, TypeOK, LinkTypes, linkVars
  <2> QED
    BY <2>1, <2>2, <2>3 DEF TypeOK
<1>34. CASE UNCHANGED vars
  BY <1>c, <1>34 DEF TypeOK, CallerTypes, LockTypes, LoopTypes, LinkTypes, HistoryTypes,
       vars, callerVars, lockVars, loopVars, linkVars, historyVars
<1> QED
  BY <1>c, StepCases, <1>1, <1>2, <1>3, <1>4, <1>5, <1>6, <1>7, <1>8, <1>9, <1>10, <1>11, <1>12,
       <1>13, <1>14, <1>15, <1>16, <1>17, <1>18, <1>19, <1>20, <1>21, <1>22, <1>23, <1>24,
       <1>25, <1>26, <1>27, <1>28, <1>29, <1>30, <1>31, <1>32, <1>33, <1>34 DEF CallerStep,
       ManagerStep

-----------------------------------------------------------------------------
(* The locks and the sessions.                                             *)

\* One operation keeps the turn until its caller gives it back.
LEMMA TurnStep ==
  ASSUME IInv, [Next]_vars
  PROVE  Turn'
<1>c. TypeOK /\ Turn /\ Places /\ Interactive /\ Dialled
  BY DEF IInv
<1>1. ASSUME NEW c \in Caller, NEW k \in {"cmd", "sms"}, Call(c, k)
      PROVE  Turn'
  BY <1>c, <1>1 DEF Call, Goto, TypeOK, CallerTypes, LockTypes, HistoryTypes, Turn, Places,
       PlaceOK, Interactive, Op, callerVars, lockVars, historyVars
<1>2. ASSUME NEW c \in Caller, LockDaemon(c)
      PROVE  Turn'
  BY <1>c, <1>2 DEF LockDaemon, Goto, TypeOK, CallerTypes, LockTypes, HistoryTypes, Turn,
       Places, PlaceOK, Interactive, Op, callerVars, lockVars, historyVars
<1>3. ASSUME NEW c \in Caller, LockClient(c)
      PROVE  Turn'
  <2>1. /\ pc[c] = "lockClient"
        /\ \E p \in {"release", "drain"} : pc' = [pc EXCEPT ![c] = p]
        /\ cmdMu' \in {cmdMu, op[c]}
        /\ UNCHANGED <<op, cmdMutex, ops, wire>>
    BY <1>3 DEF LockClient, Finish, Goto
  <2> QED
    BY <1>c, <2>1 DEF Turn, TypeOK, CallerTypes
<1>4. ASSUME NEW c \in Caller, DrainFrame(c)
      PROVE  Turn'
  BY <1>c, <1>4 DEF DrainFrame, Goto, TypeOK, CallerTypes, LockTypes, HistoryTypes, Turn,
       Places, PlaceOK, Interactive, Op, callerVars, lockVars, historyVars
<1>5. ASSUME NEW c \in Caller, DrainDone(c)
      PROVE  Turn'
  BY <1>c, <1>5 DEF DrainDone, Goto, TypeOK, CallerTypes, LockTypes, HistoryTypes, Turn, Places,
       PlaceOK, Interactive, Op, callerVars, lockVars, historyVars
<1>6. ASSUME NEW c \in Caller, Register(c)
      PROVE  Turn'
  BY <1>c, <1>6 DEF Register, Goto, TypeOK, CallerTypes, LockTypes, HistoryTypes, Turn, Places,
       PlaceOK, Interactive, Op, callerVars, lockVars, historyVars
<1>7. ASSUME NEW c \in Caller, Send(c)
      PROVE  Turn'
  BY <1>c, <1>7 DEF Send, Write, Goto, TypeOK, CallerTypes, LockTypes, HistoryTypes, Turn,
       Places, PlaceOK, Interactive, Op, callerVars, lockVars, historyVars
<1>8. ASSUME NEW c \in Caller, WriteCmgs(c)
      PROVE  Turn'
  BY <1>c, <1>8 DEF WriteCmgs, Write, Goto, TypeOK, CallerTypes, LockTypes, HistoryTypes, Turn,
       Places, PlaceOK, Interactive, Op, callerVars, lockVars, historyVars
<1>9. ASSUME NEW c \in Caller, WritePdu(c)
      PROVE  Turn'
  BY <1>c, <1>9 DEF WritePdu, Write, Goto, TypeOK, CallerTypes, LockTypes, HistoryTypes, Turn,
       Places, PlaceOK, Interactive, Op, callerVars, lockVars, historyVars
<1>10. ASSUME NEW c \in Caller, WriteFails(c)
      PROVE  Turn'
  BY <1>c, <1>10 DEF WriteFails, Fail, Finish, GiveBack, Writing, Goto, TypeOK, CallerTypes,
       LockTypes, HistoryTypes, Turn, Places, PlaceOK, Interactive, Op, callerVars, lockVars,
       historyVars
<1>11. ASSUME NEW c \in Caller, ReceiveAnswer(c)
      PROVE  Turn'
  BY <1>c, <1>11 DEF ReceiveAnswer, Finish, IsTerminalResponse, Goto, TypeOK, CallerTypes,
       LockTypes, HistoryTypes, Turn, Places, PlaceOK, Interactive, Op, callerVars, lockVars,
       historyVars
<1>12. ASSUME NEW c \in Caller, ReceivePrompt(c)
      PROVE  Turn'
  BY <1>c, <1>12 DEF ReceivePrompt, Finish, IsTerminalResponse, Goto, TypeOK, CallerTypes,
       LockTypes, HistoryTypes, Turn, Places, PlaceOK, Interactive, Op, callerVars, lockVars,
       historyVars
<1>13. ASSUME NEW c \in Caller, ReceiveConfirm(c)
      PROVE  Turn'
  BY <1>c, <1>13 DEF ReceiveConfirm, Finish, Goto, TypeOK, CallerTypes, LockTypes, HistoryTypes,
       Turn, Places, PlaceOK, Interactive, Op, callerVars, lockVars, historyVars
<1>14. ASSUME NEW c \in Caller, SeesDisconnect(c)
      PROVE  Turn'
  BY <1>c, <1>14 DEF SeesDisconnect, Fail, Finish, GiveBack, Waiting, Goto, TypeOK, CallerTypes,
       LockTypes, HistoryTypes, Turn, Places, PlaceOK, Interactive, Op, callerVars, lockVars,
       historyVars
<1>15. ASSUME NEW c \in Caller, TimesOut(c)
      PROVE  Turn'
  BY <1>c, <1>15 DEF TimesOut, Fail, Finish, GiveBack, Waiting, Goto, TypeOK, CallerTypes,
       LockTypes, HistoryTypes, Turn, Places, PlaceOK, Interactive, Op, callerVars, lockVars,
       historyVars
<1>16. ASSUME NEW c \in Caller, UnlockClient(c)
      PROVE  Turn'
  BY <1>c, <1>16 DEF UnlockClient, Goto, TypeOK, CallerTypes, LockTypes, HistoryTypes, Turn,
       Places, PlaceOK, Interactive, Op, callerVars, lockVars, historyVars
<1>17. ASSUME NEW c \in Caller, CloseReturns(c)
      PROVE  Turn'
  BY <1>c, <1>17 DEF CloseReturns, Goto, TypeOK, CallerTypes, LockTypes, HistoryTypes, Turn,
       Places, PlaceOK, Interactive, Op, callerVars, lockVars, historyVars
<1>18. ASSUME NEW c \in Caller, UnlockDaemon(c)
      PROVE  Turn'
  BY <1>c, <1>18 DEF UnlockDaemon, Goto, TypeOK, CallerTypes, LockTypes, HistoryTypes, Turn,
       Places, PlaceOK, Interactive, Op, callerVars, lockVars, historyVars
<1>19. ASSUME NEW c \in Caller, BeyondBound(c)
      PROVE  Turn'
  BY <1>c, <1>19 DEF BeyondBound, Goto, TypeOK, CallerTypes, LockTypes, HistoryTypes, Turn,
       Places, PlaceOK, Interactive, Op, callerVars, lockVars, historyVars
<1>20. ASSUME NEW o \in Op, BeginClose(o)
      PROVE  Turn'
  BY <1>c, <1>20 DEF BeginClose, TypeOK, CallerTypes, LockTypes, HistoryTypes, Turn, Places,
       PlaceOK, Interactive, Op, callerVars, lockVars, historyVars
<1>21. ASSUME NEW o \in Op, FinishClose(o)
      PROVE  Turn'
  BY <1>c, <1>21 DEF FinishClose, TypeOK, CallerTypes, LockTypes, HistoryTypes, Turn, Places,
       PlaceOK, Interactive, Op, callerVars, lockVars, historyVars
<1>22. CASE ManagerStep
  BY <1>c, <1>22, ManagerFrame DEF Turn, callerVars, lockVars, historyVars
<1> QED
  BY <1>c, StepCases, <1>1, <1>2, <1>3, <1>4, <1>5, <1>6, <1>7, <1>8, <1>9, <1>10, <1>11, <1>12,
       <1>13, <1>14, <1>15, <1>16, <1>17, <1>18, <1>19, <1>20, <1>21, <1>22 DEF CallerStep

\* Each place of a call finds the locks as it expects them.
LEMMA PlacesStep ==
  ASSUME IInv, [Next]_vars
  PROVE  Places'
<1>c. TypeOK /\ Turn /\ Places /\ Interactive /\ Dialled /\ Untouched
  BY DEF IInv
<1>1. ASSUME NEW c \in Caller, NEW k \in {"cmd", "sms"}, Call(c, k)
      PROVE  Places'
  BY <1>c, <1>1 DEF Call, Goto, TypeOK, CallerTypes, LockTypes, HistoryTypes, Turn, Places,
       PlaceOK, Interactive, SmsPlace, Op, callerVars, lockVars, historyVars
<1>2. ASSUME NEW c \in Caller, LockDaemon(c)
      PROVE  Places'
  <2>1. /\ ops' \in Op /\ closeOnce[ops'] = "none"
        /\ cmdMu = 0 /\ op' = [op EXCEPT ![c] = ops'] /\ UNCHANGED <<kind, cmdMu, closeOnce>>
    BY <1>c, <1>2, BoundsAssumption DEF LockDaemon, TypeOK, HistoryTypes, Turn, Untouched, Op
  <2>2. PlaceOK(c)'
    BY <1>c, <1>2, <2>1 DEF LockDaemon, Goto, TypeOK, CallerTypes, PlaceOK, SmsPlace
  <2>3. ASSUME NEW d \in Caller \ {c}
        PROVE  PlaceOK(d)'
    BY <1>c, <1>2, <2>1 DEF LockDaemon, Goto, TypeOK, CallerTypes, Places, PlaceOK, SmsPlace
  <2> QED
    BY <2>2, <2>3 DEF Places
<1>3. ASSUME NEW c \in Caller, LockClient(c)
      PROVE  Places'
  BY <1>c, <1>3 DEF LockClient, Finish, Goto, TypeOK, CallerTypes, LockTypes, HistoryTypes,
       Turn, Places, PlaceOK, Interactive, SmsPlace, Op, callerVars, lockVars, historyVars
<1>4. ASSUME NEW c \in Caller, DrainFrame(c)
      PROVE  Places'
  BY <1>c, <1>4 DEF DrainFrame, Goto, TypeOK, CallerTypes, LockTypes, HistoryTypes, Turn,
       Places, PlaceOK, Interactive, SmsPlace, Op, callerVars, lockVars, historyVars
<1>5. ASSUME NEW c \in Caller, DrainDone(c)
      PROVE  Places'
  BY <1>c, <1>5 DEF DrainDone, Goto, TypeOK, CallerTypes, LockTypes, HistoryTypes, Turn, Places,
       PlaceOK, Interactive, SmsPlace, Op, callerVars, lockVars, historyVars
<1>6. ASSUME NEW c \in Caller, Register(c)
      PROVE  Places'
  <2>1. op[c] \in Op
    BY <1>c, <1>6, UseOfSession DEF Register
  <2>2. PlaceOK(c)'
    BY <1>c, <1>6, <2>1 DEF Register, Goto, TypeOK, CallerTypes, LockTypes, Turn, Places, PlaceOK,
       Interactive, SmsPlace
  <2>3. ASSUME NEW d \in Caller \ {c}
        PROVE  PlaceOK(d)'
    <3>1. op[d] # op[c]
      BY <1>c, <2>1 DEF Turn, Op
    <3> QED
      BY <1>c, <1>6, <2>1, <3>1 DEF Register, Goto, TypeOK, CallerTypes, LockTypes, Turn,
           Places, PlaceOK,
         SmsPlace
  <2> QED
    BY <2>2, <2>3 DEF Places
<1>7. ASSUME NEW c \in Caller, Send(c)
      PROVE  Places'
  BY <1>c, <1>7 DEF Send, Write, Goto, TypeOK, CallerTypes, LockTypes, HistoryTypes, Turn,
       Places, PlaceOK, Interactive, SmsPlace, Op, callerVars, lockVars, historyVars
<1>8. ASSUME NEW c \in Caller, WriteCmgs(c)
      PROVE  Places'
  BY <1>c, <1>8 DEF WriteCmgs, Write, Goto, TypeOK, CallerTypes, LockTypes, HistoryTypes, Turn,
       Places, PlaceOK, Interactive, SmsPlace, Op, callerVars, lockVars, historyVars
<1>9. ASSUME NEW c \in Caller, WritePdu(c)
      PROVE  Places'
  BY <1>c, <1>9 DEF WritePdu, Write, Goto, TypeOK, CallerTypes, LockTypes, HistoryTypes, Turn,
       Places, PlaceOK, Interactive, SmsPlace, Op, callerVars, lockVars, historyVars
<1>10. ASSUME NEW c \in Caller, WriteFails(c)
      PROVE  Places'
  BY <1>c, <1>10 DEF WriteFails, Fail, Finish, GiveBack, Writing, Goto, TypeOK, CallerTypes,
       LockTypes, HistoryTypes, Turn, Places, PlaceOK, Interactive, SmsPlace, Op, callerVars,
       lockVars, historyVars
<1>11. ASSUME NEW c \in Caller, ReceiveAnswer(c)
      PROVE  Places'
  BY <1>c, <1>11 DEF ReceiveAnswer, Finish, IsTerminalResponse, Goto, TypeOK, CallerTypes,
       LockTypes, HistoryTypes, Turn, Places, PlaceOK, Interactive, SmsPlace, Op, callerVars,
       lockVars, historyVars
<1>12. ASSUME NEW c \in Caller, ReceivePrompt(c)
      PROVE  Places'
  BY <1>c, <1>12 DEF ReceivePrompt, Finish, IsTerminalResponse, Goto, TypeOK, CallerTypes,
       LockTypes, HistoryTypes, Turn, Places, PlaceOK, Interactive, SmsPlace, Op, callerVars,
       lockVars, historyVars
<1>13. ASSUME NEW c \in Caller, ReceiveConfirm(c)
      PROVE  Places'
  BY <1>c, <1>13 DEF ReceiveConfirm, Finish, Goto, TypeOK, CallerTypes, LockTypes, HistoryTypes,
       Turn, Places, PlaceOK, Interactive, SmsPlace, Op, callerVars, lockVars, historyVars
<1>14. ASSUME NEW c \in Caller, SeesDisconnect(c)
      PROVE  Places'
  BY <1>c, <1>14 DEF SeesDisconnect, Fail, Finish, GiveBack, Waiting, Goto, TypeOK, CallerTypes,
       LockTypes, HistoryTypes, Turn, Places, PlaceOK, Interactive, SmsPlace, Op, callerVars,
       lockVars, historyVars
<1>15. ASSUME NEW c \in Caller, TimesOut(c)
      PROVE  Places'
  BY <1>c, <1>15 DEF TimesOut, Fail, Finish, GiveBack, Waiting, Goto, TypeOK, CallerTypes,
       LockTypes, HistoryTypes, Turn, Places, PlaceOK, Interactive, SmsPlace, Op, callerVars,
       lockVars, historyVars
<1>16. ASSUME NEW c \in Caller, UnlockClient(c)
      PROVE  Places'
  BY <1>c, <1>16 DEF UnlockClient, Goto, TypeOK, CallerTypes, LockTypes, HistoryTypes, Turn,
       Places, PlaceOK, Interactive, SmsPlace, Op, callerVars, lockVars, historyVars
<1>17. ASSUME NEW c \in Caller, CloseReturns(c)
      PROVE  Places'
  <2>1. /\ pc[c] = "close" /\ pc' = [pc EXCEPT ![c] = "release"]
        /\ closeOnce[op[c]] = "closed" /\ UNCHANGED <<kind, op, closeOnce, cmdMu, cmdMutex>>
    BY <1>17 DEF CloseReturns, Goto, lockVars
  <2>2. op[c] \in Op /\ op[c] = cmdMutex /\ cmdMu \in {0, cmdMutex}
    BY <1>c, <2>1, UseOfSession DEF Turn, Op
  <2>3. cmdMu = 0
    BY <1>c, <1>17, <2>1, <2>2 DEF Places, PlaceOK, Interactive, TypeOK, LockTypes
  <2>4. PlaceOK(c)'
    BY <1>c, <2>1, <2>3 DEF TypeOK, CallerTypes, PlaceOK, SmsPlace
  <2>5. ASSUME NEW d \in Caller \ {c}
        PROVE  PlaceOK(d)'
    BY <1>c, <2>1 DEF TypeOK, CallerTypes, Places, PlaceOK, SmsPlace
  <2> QED
    BY <2>4, <2>5 DEF Places
<1>18. ASSUME NEW c \in Caller, UnlockDaemon(c)
      PROVE  Places'
  BY <1>c, <1>18 DEF UnlockDaemon, Goto, TypeOK, CallerTypes, LockTypes, HistoryTypes, Turn,
       Places, PlaceOK, Interactive, SmsPlace, Op, callerVars, lockVars, historyVars
<1>19. ASSUME NEW c \in Caller, BeyondBound(c)
      PROVE  Places'
  BY <1>c, <1>19 DEF BeyondBound, Goto, TypeOK, CallerTypes, LockTypes, HistoryTypes, Turn,
       Places, PlaceOK, Interactive, SmsPlace, Op, callerVars, lockVars, historyVars
<1>20. ASSUME NEW o \in Op, BeginClose(o)
      PROVE  Places'
  BY <1>c, <1>20 DEF BeginClose, TypeOK, CallerTypes, LockTypes, HistoryTypes, Turn, Places,
       PlaceOK, Interactive, SmsPlace, Op, callerVars, lockVars, historyVars
<1>21. ASSUME NEW o \in Op, FinishClose(o)
      PROVE  Places'
  BY <1>c, <1>21 DEF FinishClose, TypeOK, CallerTypes, LockTypes, HistoryTypes, Turn, Places,
       PlaceOK, Interactive, SmsPlace, Op, callerVars, lockVars, historyVars
<1>22. CASE ManagerStep
  BY <1>c, <1>22, ManagerFrame DEF Places, PlaceOK, callerVars, lockVars, historyVars
<1> QED
  BY <1>c, StepCases, <1>1, <1>2, <1>3, <1>4, <1>5, <1>6, <1>7, <1>8, <1>9, <1>10, <1>11, <1>12,
       <1>13, <1>14, <1>15, <1>16, <1>17, <1>18, <1>19, <1>20, <1>21, <1>22 DEF CallerStep

\* An open interactive session belongs to the operation whose turn it is.
LEMMA InteractiveStep ==
  ASSUME IInv, [Next]_vars
  PROVE  Interactive'
<1>c. TypeOK /\ Turn /\ Places /\ Interactive /\ Dialled
  BY DEF IInv
<1>1. ASSUME NEW c \in Caller, NEW k \in {"cmd", "sms"}, Call(c, k)
      PROVE  Interactive'
  BY <1>c, <1>1 DEF Call, Goto, TypeOK, CallerTypes, LockTypes, HistoryTypes, Turn, Places,
       PlaceOK, Interactive, ActiveIsCurrent, SmsPlace, Op, callerVars, lockVars, historyVars,
       loopVars
<1>2. ASSUME NEW c \in Caller, LockDaemon(c)
      PROVE  Interactive'
  BY <1>c, <1>2 DEF LockDaemon, Goto, TypeOK, CallerTypes, LockTypes, HistoryTypes, Turn,
       Places, PlaceOK, Interactive, ActiveIsCurrent, SmsPlace, Op, callerVars, lockVars,
       historyVars, loopVars
<1>3. ASSUME NEW c \in Caller, LockClient(c)
      PROVE  Interactive'
  BY <1>c, <1>3 DEF LockClient, Finish, Goto, TypeOK, CallerTypes, LockTypes, HistoryTypes,
       Turn, Places, PlaceOK, Interactive, ActiveIsCurrent, SmsPlace, Op, callerVars, lockVars,
       historyVars, loopVars
<1>4. ASSUME NEW c \in Caller, DrainFrame(c)
      PROVE  Interactive'
  BY <1>c, <1>4 DEF DrainFrame, Goto, TypeOK, CallerTypes, LockTypes, HistoryTypes, Turn,
       Places, PlaceOK, Interactive, ActiveIsCurrent, SmsPlace, Op, callerVars, lockVars,
       historyVars, loopVars
<1>5. ASSUME NEW c \in Caller, DrainDone(c)
      PROVE  Interactive'
  BY <1>c, <1>5 DEF DrainDone, Goto, TypeOK, CallerTypes, LockTypes, HistoryTypes, Turn, Places,
       PlaceOK, Interactive, ActiveIsCurrent, SmsPlace, Op, callerVars, lockVars, historyVars,
       loopVars
<1>6. ASSUME NEW c \in Caller, Register(c)
      PROVE  Interactive'
  BY <1>c, <1>6 DEF Register, Goto, TypeOK, CallerTypes, LockTypes, HistoryTypes, Turn, Places,
       PlaceOK, Interactive, ActiveIsCurrent, SmsPlace, Op, callerVars, lockVars, historyVars,
       loopVars
<1>7. ASSUME NEW c \in Caller, Send(c)
      PROVE  Interactive'
  BY <1>c, <1>7 DEF Send, Write, Goto, TypeOK, CallerTypes, LockTypes, HistoryTypes, Turn,
       Places, PlaceOK, Interactive, ActiveIsCurrent, SmsPlace, Op, callerVars, lockVars,
       historyVars, loopVars
<1>8. ASSUME NEW c \in Caller, WriteCmgs(c)
      PROVE  Interactive'
  BY <1>c, <1>8 DEF WriteCmgs, Write, Goto, TypeOK, CallerTypes, LockTypes, HistoryTypes, Turn,
       Places, PlaceOK, Interactive, ActiveIsCurrent, SmsPlace, Op, callerVars, lockVars,
       historyVars, loopVars
<1>9. ASSUME NEW c \in Caller, WritePdu(c)
      PROVE  Interactive'
  BY <1>c, <1>9 DEF WritePdu, Write, Goto, TypeOK, CallerTypes, LockTypes, HistoryTypes, Turn,
       Places, PlaceOK, Interactive, ActiveIsCurrent, SmsPlace, Op, callerVars, lockVars,
       historyVars, loopVars
<1>10. ASSUME NEW c \in Caller, WriteFails(c)
      PROVE  Interactive'
  BY <1>c, <1>10 DEF WriteFails, Fail, Finish, GiveBack, Writing, Goto, TypeOK, CallerTypes,
       LockTypes, HistoryTypes, Turn, Places, PlaceOK, Interactive, ActiveIsCurrent, SmsPlace,
       Op, callerVars, lockVars, historyVars, loopVars
<1>11. ASSUME NEW c \in Caller, ReceiveAnswer(c)
      PROVE  Interactive'
  BY <1>c, <1>11 DEF ReceiveAnswer, Finish, IsTerminalResponse, Goto, TypeOK, CallerTypes,
       LockTypes, HistoryTypes, Turn, Places, PlaceOK, Interactive, ActiveIsCurrent, SmsPlace,
       Op, callerVars, lockVars, historyVars, loopVars
<1>12. ASSUME NEW c \in Caller, ReceivePrompt(c)
      PROVE  Interactive'
  BY <1>c, <1>12 DEF ReceivePrompt, Finish, IsTerminalResponse, Goto, TypeOK, CallerTypes,
       LockTypes, HistoryTypes, Turn, Places, PlaceOK, Interactive, ActiveIsCurrent, SmsPlace,
       Op, callerVars, lockVars, historyVars, loopVars
<1>13. ASSUME NEW c \in Caller, ReceiveConfirm(c)
      PROVE  Interactive'
  BY <1>c, <1>13 DEF ReceiveConfirm, Finish, Goto, TypeOK, CallerTypes, LockTypes, HistoryTypes,
       Turn, Places, PlaceOK, Interactive, ActiveIsCurrent, SmsPlace, Op, callerVars, lockVars,
       historyVars, loopVars
<1>14. ASSUME NEW c \in Caller, SeesDisconnect(c)
      PROVE  Interactive'
  BY <1>c, <1>14 DEF SeesDisconnect, Fail, Finish, GiveBack, Waiting, Goto, TypeOK, CallerTypes,
       LockTypes, HistoryTypes, Turn, Places, PlaceOK, Interactive, ActiveIsCurrent, SmsPlace,
       Op, callerVars, lockVars, historyVars, loopVars
<1>15. ASSUME NEW c \in Caller, TimesOut(c)
      PROVE  Interactive'
  BY <1>c, <1>15 DEF TimesOut, Fail, Finish, GiveBack, Waiting, Goto, TypeOK, CallerTypes,
       LockTypes, HistoryTypes, Turn, Places, PlaceOK, Interactive, ActiveIsCurrent, SmsPlace,
       Op, callerVars, lockVars, historyVars, loopVars
<1>16. ASSUME NEW c \in Caller, UnlockClient(c)
      PROVE  Interactive'
  BY <1>c, <1>16 DEF UnlockClient, Goto, TypeOK, CallerTypes, LockTypes, HistoryTypes, Turn,
       Places, PlaceOK, Interactive, ActiveIsCurrent, SmsPlace, Op, callerVars, lockVars,
       historyVars, loopVars
<1>17. ASSUME NEW c \in Caller, CloseReturns(c)
      PROVE  Interactive'
  BY <1>c, <1>17 DEF CloseReturns, Goto, TypeOK, CallerTypes, LockTypes, HistoryTypes, Turn,
       Places, PlaceOK, Interactive, ActiveIsCurrent, SmsPlace, Op, callerVars, lockVars,
       historyVars, loopVars
<1>18. ASSUME NEW c \in Caller, UnlockDaemon(c)
      PROVE  Interactive'
  BY <1>c, <1>18 DEF UnlockDaemon, Goto, TypeOK, CallerTypes, LockTypes, HistoryTypes, Turn,
       Places, PlaceOK, Interactive, ActiveIsCurrent, SmsPlace, Op, callerVars, lockVars,
       historyVars, loopVars
<1>19. ASSUME NEW c \in Caller, BeyondBound(c)
      PROVE  Interactive'
  BY <1>c, <1>19 DEF BeyondBound, Goto, TypeOK, CallerTypes, LockTypes, HistoryTypes, Turn,
       Places, PlaceOK, Interactive, ActiveIsCurrent, SmsPlace, Op, callerVars, lockVars,
       historyVars, loopVars
<1>20. ASSUME NEW o \in Op, BeginClose(o)
      PROVE  Interactive'
  BY <1>c, <1>20 DEF BeginClose, TypeOK, CallerTypes, LockTypes, HistoryTypes, Turn, Places,
       PlaceOK, Interactive, ActiveIsCurrent, SmsPlace, Op, callerVars, lockVars, historyVars,
       loopVars
<1>21. ASSUME NEW o \in Op, FinishClose(o)
      PROVE  Interactive'
  BY <1>c, <1>21 DEF FinishClose, TypeOK, CallerTypes, LockTypes, HistoryTypes, Turn, Places,
       PlaceOK, Interactive, ActiveIsCurrent, SmsPlace, Op, callerVars, lockVars, historyVars,
       loopVars
<1>22. CASE LoopTop
  BY <1>c, <1>22 DEF LoopTop, TypeOK, CallerTypes, LockTypes, HistoryTypes, Turn, Places,
       PlaceOK, Interactive, ActiveIsCurrent, SmsPlace, Op, callerVars, lockVars, historyVars,
       loopVars
<1>23. CASE DialSucceeds
  BY <1>c, <1>23 DEF DialSucceeds, TypeOK, CallerTypes, LockTypes, HistoryTypes, Turn, Places,
       PlaceOK, Interactive, ActiveIsCurrent, SmsPlace, Op, callerVars, lockVars, historyVars,
       loopVars
<1>24. CASE DialFails
  BY <1>c, <1>24 DEF DialFails, TypeOK, CallerTypes, LockTypes, HistoryTypes, Turn, Places,
       PlaceOK, Interactive, ActiveIsCurrent, SmsPlace, Op, callerVars, lockVars, historyVars,
       loopVars
<1>25. CASE Backoff
  BY <1>c, <1>25 DEF Backoff, TypeOK, CallerTypes, LockTypes, HistoryTypes, Turn, Places,
       PlaceOK, Interactive, ActiveIsCurrent, SmsPlace, Op, callerVars, lockVars, historyVars,
       loopVars
<1>26. CASE Install
  BY <1>c, <1>26 DEF Install, TypeOK, CallerTypes, LockTypes, HistoryTypes, Turn, Places,
       PlaceOK, Interactive, ActiveIsCurrent, SmsPlace, Op, callerVars, lockVars, historyVars,
       loopVars
<1>27. CASE ReadFrame
  BY <1>c, <1>27 DEF ReadFrame, TypeOK, CallerTypes, LockTypes, HistoryTypes, Turn, Places,
       PlaceOK, Interactive, ActiveIsCurrent, SmsPlace, Op, callerVars, lockVars, historyVars,
       loopVars
<1>28. CASE ReaderStops
  BY <1>c, <1>28 DEF ReaderStops, TypeOK, CallerTypes, LockTypes, HistoryTypes, Turn, Places,
       PlaceOK, Interactive, ActiveIsCurrent, SmsPlace, Op, callerVars, lockVars, historyVars,
       loopVars
<1>29. CASE Cleanup
  BY <1>c, <1>29 DEF Cleanup, TypeOK, CallerTypes, LockTypes, HistoryTypes, Turn, Places,
       PlaceOK, Interactive, ActiveIsCurrent, SmsPlace, Op, callerVars, lockVars, historyVars,
       loopVars
<1>30. CASE LoopCloseReturns
  BY <1>c, <1>30 DEF LoopCloseReturns, TypeOK, CallerTypes, LockTypes, HistoryTypes, Turn,
       Places, PlaceOK, Interactive, ActiveIsCurrent, SmsPlace, Op, callerVars, lockVars,
       historyVars, loopVars
<1>31. CASE LinkLost
  BY <1>c, <1>31 DEF LinkLost, TypeOK, CallerTypes, LockTypes, HistoryTypes, Turn, Places,
       PlaceOK, Interactive, ActiveIsCurrent, SmsPlace, Op, callerVars, lockVars, historyVars,
       loopVars
<1>32. CASE Cancel
  BY <1>c, <1>32 DEF Cancel, TypeOK, CallerTypes, LockTypes, HistoryTypes, Turn, Places,
       PlaceOK, Interactive, ActiveIsCurrent, SmsPlace, Op, callerVars, lockVars, historyVars,
       loopVars
<1>33. CASE CloserRuns
  BY <1>c, <1>33 DEF CloserRuns, TypeOK, CallerTypes, LockTypes, HistoryTypes, Turn, Places,
       PlaceOK, Interactive, ActiveIsCurrent, SmsPlace, Op, callerVars, lockVars, historyVars,
       loopVars
<1>34. CASE UNCHANGED vars
  BY <1>c, <1>34 DEF vars, callerVars, lockVars, loopVars, linkVars, historyVars, Turn, Places,
       PlaceOK, Interactive, ActiveIsCurrent, SmsPlace, Op
<1> QED
  BY <1>c, StepCases, <1>1, <1>2, <1>3, <1>4, <1>5, <1>6, <1>7, <1>8, <1>9, <1>10, <1>11, <1>12,
       <1>13, <1>14, <1>15, <1>16, <1>17, <1>18, <1>19, <1>20, <1>21, <1>22, <1>23, <1>24,
       <1>25, <1>26, <1>27, <1>28, <1>29, <1>30, <1>31, <1>32, <1>33, <1>34 DEF CallerStep,
       ManagerStep

\* A session is dialled before it is used.
LEMMA DialledStep ==
  ASSUME IInv, [Next]_vars
  PROVE  Dialled'
<1>c. TypeOK /\ Turn /\ Places /\ Interactive /\ Dialled /\ Untouched
  BY DEF IInv
<1>1. ASSUME NEW c \in Caller, NEW k \in {"cmd", "sms"}, Call(c, k)
      PROVE  Dialled'
  BY <1>c, <1>1 DEF Call, Goto, TypeOK, CallerTypes, HistoryTypes, LoopTypes, Turn, Dialled,
       Untouched, Connected, Writing, Waiting, Op, Session, callerVars, historyVars, loopVars
<1>2. ASSUME NEW c \in Caller, LockDaemon(c)
      PROVE  Dialled'
  BY <1>c, <1>2 DEF LockDaemon, Goto, TypeOK, CallerTypes, HistoryTypes, LoopTypes, Turn,
       Dialled, Untouched, Connected, Writing, Waiting, Op, Session, callerVars, historyVars,
       loopVars
<1>3. ASSUME NEW c \in Caller, LockClient(c)
      PROVE  Dialled'
  <2>1. op[c] \in Op
    BY <1>c, <1>3, UseOfSession DEF LockClient
  <2>2. /\ UNCHANGED <<op, session, dialled, loop, clean>>
        /\ sess' \in {sess, [sess EXCEPT ![op[c]] = session]}
        /\ sess' # sess => session # 0
        /\ \/ pc' = [pc EXCEPT ![c] = "release"]
           \/ /\ pc' = [pc EXCEPT ![c] = "drain"] /\ session # 0
              /\ sess' = [sess EXCEPT ![op[c]] = session]
    BY <1>3 DEF LockClient, Finish, Goto, loopVars
  <2>3. sess' \in [Op -> 0 .. MaxSessions]
    BY <1>c, <2>2 DEF TypeOK, HistoryTypes, LoopTypes
  <2>4. \A o \in Op : sess'[o] <= dialled /\ (sess[o] # 0 => sess'[o] # 0)
    BY <1>c, <2>1, <2>2 DEF TypeOK, HistoryTypes, LoopTypes, Dialled
  <2>5. \A d \in Caller : pc'[d] \in Connected => sess'[op[d]] # 0
    <3> TAKE d \in Caller
    <3>1. CASE d = c
      BY <1>c, <2>1, <2>2, <3>1 DEF TypeOK, CallerTypes, HistoryTypes, Connected, Writing, Waiting
    <3>2. CASE d # c
      BY <1>c, <2>2, <2>4, <3>2, UseOfSession DEF TypeOK, CallerTypes, Dialled, Connected,
           Writing, Waiting
    <3> QED
      BY <3>1, <3>2
  <2>6. \A o \in clean : sess'[o] # 0
    BY <1>c, <2>4 DEF TypeOK, HistoryTypes, Dialled
  <2> QED
    BY <1>c, <2>2, <2>4, <2>5, <2>6 DEF Dialled
<1>4. ASSUME NEW c \in Caller, DrainFrame(c)
      PROVE  Dialled'
  BY <1>c, <1>4 DEF DrainFrame, Goto, TypeOK, CallerTypes, HistoryTypes, LoopTypes, Turn,
       Dialled, Untouched, Connected, Writing, Waiting, Op, Session, callerVars, historyVars,
       loopVars
<1>5. ASSUME NEW c \in Caller, DrainDone(c)
      PROVE  Dialled'
  BY <1>c, <1>5 DEF DrainDone, Goto, TypeOK, CallerTypes, HistoryTypes, LoopTypes, Turn,
       Dialled, Untouched, Connected, Writing, Waiting, Op, Session, callerVars, historyVars,
       loopVars
<1>6. ASSUME NEW c \in Caller, Register(c)
      PROVE  Dialled'
  BY <1>c, <1>6 DEF Register, Goto, TypeOK, CallerTypes, HistoryTypes, LoopTypes, Turn, Dialled,
       Untouched, Connected, Writing, Waiting, Op, Session, callerVars, historyVars, loopVars
<1>7. ASSUME NEW c \in Caller, Send(c)
      PROVE  Dialled'
  BY <1>c, <1>7 DEF Send, Write, Goto, TypeOK, CallerTypes, HistoryTypes, LoopTypes, Turn,
       Dialled, Untouched, Connected, Writing, Waiting, Op, Session, callerVars, historyVars,
       loopVars
<1>8. ASSUME NEW c \in Caller, WriteCmgs(c)
      PROVE  Dialled'
  BY <1>c, <1>8 DEF WriteCmgs, Write, Goto, TypeOK, CallerTypes, HistoryTypes, LoopTypes, Turn,
       Dialled, Untouched, Connected, Writing, Waiting, Op, Session, callerVars, historyVars,
       loopVars
<1>9. ASSUME NEW c \in Caller, WritePdu(c)
      PROVE  Dialled'
  BY <1>c, <1>9 DEF WritePdu, Write, Goto, TypeOK, CallerTypes, HistoryTypes, LoopTypes, Turn,
       Dialled, Untouched, Connected, Writing, Waiting, Op, Session, callerVars, historyVars,
       loopVars
<1>10. ASSUME NEW c \in Caller, WriteFails(c)
      PROVE  Dialled'
  BY <1>c, <1>10 DEF WriteFails, Fail, Finish, GiveBack, Writing, Goto, TypeOK, CallerTypes,
       HistoryTypes, LoopTypes, Turn, Dialled, Untouched, Connected, Waiting, Op, Session,
       callerVars, historyVars, loopVars
<1>11. ASSUME NEW c \in Caller, ReceiveAnswer(c)
      PROVE  Dialled'
  BY <1>c, <1>11 DEF ReceiveAnswer, Finish, IsTerminalResponse, Goto, TypeOK, CallerTypes,
       HistoryTypes, LoopTypes, Turn, Dialled, Untouched, Connected, Writing, Waiting, Op,
       Session, callerVars, historyVars, loopVars
<1>12. ASSUME NEW c \in Caller, ReceivePrompt(c)
      PROVE  Dialled'
  BY <1>c, <1>12 DEF ReceivePrompt, Finish, IsTerminalResponse, Goto, TypeOK, CallerTypes,
       HistoryTypes, LoopTypes, Turn, Dialled, Untouched, Connected, Writing, Waiting, Op,
       Session, callerVars, historyVars, loopVars
<1>13. ASSUME NEW c \in Caller, ReceiveConfirm(c)
      PROVE  Dialled'
  BY <1>c, <1>13 DEF ReceiveConfirm, Finish, Goto, TypeOK, CallerTypes, HistoryTypes, LoopTypes,
       Turn, Dialled, Untouched, Connected, Writing, Waiting, Op, Session, callerVars,
       historyVars, loopVars
<1>14. ASSUME NEW c \in Caller, SeesDisconnect(c)
      PROVE  Dialled'
  BY <1>c, <1>14 DEF SeesDisconnect, Fail, Finish, GiveBack, Waiting, Goto, TypeOK, CallerTypes,
       HistoryTypes, LoopTypes, Turn, Dialled, Untouched, Connected, Writing, Op, Session,
       callerVars, historyVars, loopVars
<1>15. ASSUME NEW c \in Caller, TimesOut(c)
      PROVE  Dialled'
  BY <1>c, <1>15 DEF TimesOut, Fail, Finish, GiveBack, Waiting, Goto, TypeOK, CallerTypes,
       HistoryTypes, LoopTypes, Turn, Dialled, Untouched, Connected, Writing, Op, Session,
       callerVars, historyVars, loopVars
<1>16. ASSUME NEW c \in Caller, UnlockClient(c)
      PROVE  Dialled'
  BY <1>c, <1>16 DEF UnlockClient, Goto, TypeOK, CallerTypes, HistoryTypes, LoopTypes, Turn,
       Dialled, Untouched, Connected, Writing, Waiting, Op, Session, callerVars, historyVars,
       loopVars
<1>17. ASSUME NEW c \in Caller, CloseReturns(c)
      PROVE  Dialled'
  BY <1>c, <1>17 DEF CloseReturns, Goto, TypeOK, CallerTypes, HistoryTypes, LoopTypes, Turn,
       Dialled, Untouched, Connected, Writing, Waiting, Op, Session, callerVars, historyVars,
       loopVars
<1>18. ASSUME NEW c \in Caller, UnlockDaemon(c)
      PROVE  Dialled'
  BY <1>c, <1>18 DEF UnlockDaemon, Goto, TypeOK, CallerTypes, HistoryTypes, LoopTypes, Turn,
       Dialled, Untouched, Connected, Writing, Waiting, Op, Session, callerVars, historyVars,
       loopVars
<1>19. ASSUME NEW c \in Caller, BeyondBound(c)
      PROVE  Dialled'
  BY <1>c, <1>19 DEF BeyondBound, Goto, TypeOK, CallerTypes, HistoryTypes, LoopTypes, Turn,
       Dialled, Untouched, Connected, Writing, Waiting, Op, Session, callerVars, historyVars,
       loopVars
<1>20. ASSUME NEW o \in Op, BeginClose(o)
      PROVE  Dialled'
  BY <1>c, <1>20 DEF BeginClose, TypeOK, CallerTypes, HistoryTypes, LoopTypes, Turn, Dialled,
       Untouched, Connected, Writing, Waiting, Op, Session, callerVars, historyVars, loopVars
<1>21. ASSUME NEW o \in Op, FinishClose(o)
      PROVE  Dialled'
  BY <1>c, <1>21 DEF FinishClose, TypeOK, CallerTypes, HistoryTypes, LoopTypes, Turn, Dialled,
       Untouched, Connected, Writing, Waiting, Op, Session, callerVars, historyVars, loopVars
<1>22. CASE LoopTop
  BY <1>c, <1>22 DEF LoopTop, TypeOK, CallerTypes, HistoryTypes, LoopTypes, Turn, Dialled,
       Untouched, Connected, Writing, Waiting, Op, Session, callerVars, historyVars, loopVars
<1>23. CASE DialSucceeds
  <2>1. /\ dialled' = dialled + 1 /\ dialled' # 0 /\ session <= dialled'
        /\ \A o \in Op : sess[o] <= dialled'
    BY <1>c, <1>23 DEF DialSucceeds, TypeOK, LoopTypes, HistoryTypes, Dialled
  <2> QED
    BY <1>c, <1>23, <2>1 DEF DialSucceeds, Dialled, callerVars, historyVars
<1>24. CASE DialFails
  BY <1>c, <1>24 DEF DialFails, TypeOK, CallerTypes, HistoryTypes, LoopTypes, Turn, Dialled,
       Untouched, Connected, Writing, Waiting, Op, Session, callerVars, historyVars, loopVars
<1>25. CASE Backoff
  BY <1>c, <1>25 DEF Backoff, TypeOK, CallerTypes, HistoryTypes, LoopTypes, Turn, Dialled,
       Untouched, Connected, Writing, Waiting, Op, Session, callerVars, historyVars, loopVars
<1>26. CASE Install
  BY <1>c, <1>26 DEF Install, TypeOK, CallerTypes, HistoryTypes, LoopTypes, Turn, Dialled,
       Untouched, Connected, Writing, Waiting, Op, Session, callerVars, historyVars, loopVars
<1>27. CASE ReadFrame
  BY <1>c, <1>27 DEF ReadFrame, TypeOK, CallerTypes, HistoryTypes, LoopTypes, Turn, Dialled,
       Untouched, Connected, Writing, Waiting, Op, Session, callerVars, historyVars, loopVars
<1>28. CASE ReaderStops
  BY <1>c, <1>28 DEF ReaderStops, TypeOK, CallerTypes, HistoryTypes, LoopTypes, Turn, Dialled,
       Untouched, Connected, Writing, Waiting, Op, Session, callerVars, historyVars, loopVars
<1>29. CASE Cleanup
  BY <1>c, <1>29 DEF Cleanup, TypeOK, CallerTypes, HistoryTypes, LoopTypes, Turn, Dialled,
       Untouched, Connected, Writing, Waiting, Op, Session, callerVars, historyVars, loopVars
<1>30. CASE LoopCloseReturns
  BY <1>c, <1>30 DEF LoopCloseReturns, TypeOK, CallerTypes, HistoryTypes, LoopTypes, Turn,
       Dialled, Untouched, Connected, Writing, Waiting, Op, Session, callerVars, historyVars,
       loopVars
<1>31. CASE LinkLost
  BY <1>c, <1>31 DEF LinkLost, TypeOK, CallerTypes, HistoryTypes, LoopTypes, Turn, Dialled,
       Untouched, Connected, Writing, Waiting, Op, Session, callerVars, historyVars, loopVars
<1>32. CASE Cancel
  BY <1>c, <1>32 DEF Cancel, TypeOK, CallerTypes, HistoryTypes, LoopTypes, Turn, Dialled,
       Untouched, Connected, Writing, Waiting, Op, Session, callerVars, historyVars, loopVars
<1>33. CASE CloserRuns
  BY <1>c, <1>33 DEF CloserRuns, TypeOK, CallerTypes, HistoryTypes, LoopTypes, Turn, Dialled,
       Untouched, Connected, Writing, Waiting, Op, Session, callerVars, historyVars, loopVars
<1>34. CASE UNCHANGED vars
  BY <1>c, <1>34 DEF vars, callerVars, lockVars, loopVars, linkVars, historyVars, Turn, Dialled,
       Untouched, Connected, Writing, Waiting, Op, Session
<1> QED
  BY <1>c, StepCases, <1>1, <1>2, <1>3, <1>4, <1>5, <1>6, <1>7, <1>8, <1>9, <1>10, <1>11, <1>12,
       <1>13, <1>14, <1>15, <1>16, <1>17, <1>18, <1>19, <1>20, <1>21, <1>22, <1>23, <1>24,
       <1>25, <1>26, <1>27, <1>28, <1>29, <1>30, <1>31, <1>32, <1>33, <1>34 DEF CallerStep,
       ManagerStep

-----------------------------------------------------------------------------
(* What the steps that write, read or fail do to the history.              *)

Writes(c) == Send(c) \/ WriteCmgs(c) \/ WritePdu(c)
Fails(c)  == WriteFails(c) \/ SeesDisconnect(c) \/ TimesOut(c)

Written(c) ==
  /\ op[c] \in Op /\ sess[op[c]] \in Session
  /\ pc[c] \in Writing /\ pc'[c] \in Waiting /\ pc' = [pc EXCEPT ![c] = pc'[c]]
  /\ wire' = op[c]
  /\ accepted \subseteq accepted' /\ accepted' \subseteq accepted \cup {op[c]}
  /\ UNCHANGED <<kind, op, lockVars, loopVars, ops, sess, outcome, got, clean, responseChan>>
  /\ \A s \in Session \ {sess[op[c]]} : pending'[s] = pending[s]
  /\ \A f \in Range(pending'[sess[op[c]]]) :
       \/ f \in Range(pending[sess[op[c]]])
       \/ f.op = op[c] /\ (pc[c] # "send" /\ f.kind = "ok" => op[c] \in accepted')

\* The three writes, told apart only by what they may ask the modem to accept.
LEMMA WritesEffect ==
  ASSUME TypeOK, Turn, Dialled, NEW c \in Caller, Writes(c)
  PROVE  Written(c)
<1>1. op[c] \in Op /\ sess[op[c]] \in Session /\ pc[c] \in Writing
  BY UseOfSession DEF Writes, Send, WriteCmgs, WritePdu, Connected, Writing
<1>2. CASE Send(c)
  <2>1. PICK reply \in CommandReply : Write(op[c], reply)
    BY <1>2 DEF Send
  <2>2. /\ \A s \in Session \ {sess[op[c]]} : pending'[s] = pending[s]
        /\ Range(pending'[sess[op[c]]]) \subseteq
             Range(pending[sess[op[c]]]) \cup Range(Frames(op[c], reply))
        /\ wire' = op[c] /\ UNCHANGED responseChan
        /\ \A f \in Range(Frames(op[c], reply)) : f.op = op[c]
    BY <1>1, <2>1, WriteEffect, FramesOfReply DEF Reply
  <2>3. /\ pc' = [pc EXCEPT ![c] = "wait"] /\ pc[c] = "send"
        /\ UNCHANGED <<kind, op, lockVars, loopVars, ops, sess, outcome, got, clean, accepted>>
    BY <1>2 DEF Send, Goto
  <2> QED
    BY <1>1, <2>2, <2>3 DEF Written, Waiting, TypeOK, CallerTypes
<1>3. CASE WriteCmgs(c)
  <2>1. PICK reply \in PromptReply : Write(op[c], reply)
    BY <1>3 DEF WriteCmgs
  <2>2. /\ \A s \in Session \ {sess[op[c]]} : pending'[s] = pending[s]
        /\ Range(pending'[sess[op[c]]]) \subseteq
             Range(pending[sess[op[c]]]) \cup Range(Frames(op[c], reply))
        /\ wire' = op[c] /\ UNCHANGED responseChan
        /\ \A f \in Range(Frames(op[c], reply)) :
             f.op = op[c] /\ (f.kind = "ok" => \E i \in DOMAIN reply : reply[i] = "ok")
    BY <1>1, <2>1, WriteEffect, FramesOfReply DEF Reply
  <2>3. \A i \in DOMAIN reply : reply[i] # "ok"
    BY DEF PromptReply, Short
  <2>4. /\ pc' = [pc EXCEPT ![c] = "prompt"]
        /\ UNCHANGED <<kind, op, lockVars, loopVars, ops, sess, outcome, got, clean, accepted>>
    BY <1>3 DEF WriteCmgs, Goto
  <2> QED
    BY <1>1, <2>2, <2>3, <2>4 DEF Written, Waiting, TypeOK, CallerTypes
<1>4. CASE WritePdu(c)
  <2>1. PICK reply \in PduReply :
          /\ Write(op[c], reply)
          /\ accepted' = IF \E i \in DOMAIN reply : reply[i] = "ok"
                           THEN accepted \cup {op[c]} ELSE accepted
    BY <1>4 DEF WritePdu
  <2>w. Write(op[c], reply)
    BY <2>1
  <2>2. /\ \A s \in Session \ {sess[op[c]]} : pending'[s] = pending[s]
        /\ Range(pending'[sess[op[c]]]) \subseteq
             Range(pending[sess[op[c]]]) \cup Range(Frames(op[c], reply))
        /\ wire' = op[c] /\ UNCHANGED responseChan
        /\ \A f \in Range(Frames(op[c], reply)) :
             f.op = op[c] /\ (f.kind = "ok" => \E i \in DOMAIN reply : reply[i] = "ok")
    BY <1>1, <2>w, WriteEffect, FramesOfReply DEF Reply
  <2>3. /\ pc' = [pc EXCEPT ![c] = "confirm"]
        /\ UNCHANGED <<kind, op, lockVars, loopVars, ops, sess, outcome, got, clean>>
    BY <1>4 DEF WritePdu, Goto
  <2> QED
    BY <1>1, <2>1, <2>2, <2>3 DEF Written, Waiting, TypeOK, CallerTypes
<1> QED
  BY <1>2, <1>3, <1>4 DEF Writes, Written

Received(c) ==
  /\ op[c] \in Op /\ sess[op[c]] \in Session /\ pc[c] \in Waiting
  /\ \E f \in Range(responseChan[sess[op[c]]]) :
       /\ f.op \in Op
       /\ got' = [got EXCEPT ![op[c]] = @ \cup {f.op}]
       /\ outcome' # outcome /\ outcome'[op[c]] = "sent" => pc[c] = "confirm" /\ f.kind = "ok"
  /\ Range(responseChan'[sess[op[c]]]) \subseteq Range(responseChan[sess[op[c]]])
  /\ \A s \in Session \ {sess[op[c]]} : responseChan'[s] = responseChan[s]
  /\ pc' = [pc EXCEPT ![c] = pc'[c]] /\ pc'[c] \in Waiting \cup {"pdu", "unlock", "close"}
  /\ pc'[c] \in {"unlock", "close"} => outcome'[op[c]] # "none"
  /\ outcome' = [outcome EXCEPT ![op[c]] = outcome'[op[c]]]
  /\ UNCHANGED <<kind, op, lockVars, loopVars, pending, ops, sess, wire, clean, accepted>>

\* The three reads: one frame of the session's buffer is consumed, and "sent" is claimed
\* only of an OK that was read in the confirm loop.
LEMMA ReceiveEffect ==
  ASSUME TypeOK, Turn, Dialled, NEW c \in Caller, Receive(c)
  PROVE  Received(c)
<1> DEFINE s == sess[op[c]]
           f == Head(responseChan[s])
<1>1. op[c] \in Op /\ s \in Session /\ pc[c] \in Waiting
  BY UseOfSession DEF Receive, ReceiveAnswer, ReceivePrompt, ReceiveConfirm, Connected, Waiting
<1>2. /\ responseChan[s] \in Seq(Frame) /\ responseChan[s] # <<>>
      /\ responseChan' = [responseChan EXCEPT ![s] = Tail(@)]
      /\ got' = [got EXCEPT ![op[c]] = @ \cup {f.op}]
      /\ UNCHANGED <<kind, op, lockVars, loopVars, pending, ops, sess, wire, clean, accepted>>
  BY <1>1 DEF Receive, ReceiveAnswer, ReceivePrompt, ReceiveConfirm, TypeOK, LinkTypes
<1>3. f \in Range(responseChan[s]) /\ f.op \in Op
  BY <1>2, QueueRanges DEF Frame
<1>4. /\ Range(responseChan'[s]) \subseteq Range(responseChan[s])
      /\ \A t \in Session \ {s} : responseChan'[t] = responseChan[t]
  BY <1>1, <1>2, QueueRanges DEF TypeOK, LinkTypes
<1>5. \/ pc' = pc /\ outcome' = outcome
      \/ pc' = [pc EXCEPT ![c] = "pdu"] /\ outcome' = outcome
      \/ /\ pc' = [pc EXCEPT ![c] = "unlock"]
         /\ outcome' = [outcome EXCEPT ![op[c]] = "answered"]
      \/ /\ pc' = [pc EXCEPT ![c] = "close"]
         /\ outcome' = [outcome EXCEPT ![op[c]] = "refused"]
      \/ /\ pc' = [pc EXCEPT ![c] = "close"]
         /\ outcome' = [outcome EXCEPT ![op[c]] = "sent"]
         /\ pc[c] = "confirm" /\ f.kind = "ok"
  BY DEF Receive, ReceiveAnswer, ReceivePrompt, ReceiveConfirm, Finish, Goto
<1>6. outcome \in [Op -> Outcome \cup {"none"}] /\ pc \in [Caller -> Place]
  BY DEF TypeOK, CallerTypes, HistoryTypes
<1>7. /\ pc' = [pc EXCEPT ![c] = pc'[c]] /\ pc'[c] \in Waiting \cup {"pdu", "unlock", "close"}
      /\ pc'[c] \in {"unlock", "close"} => outcome'[op[c]] # "none"
      /\ outcome' = [outcome EXCEPT ![op[c]] = outcome'[op[c]]]
      /\ outcome' # outcome /\ outcome'[op[c]] = "sent" => pc[c] = "confirm" /\ f.kind = "ok"
  BY <1>1, <1>5, <1>6 DEF Waiting
<1> QED
  BY <1>1, <1>2, <1>3, <1>4, <1>7 DEF Received

Failed(c) ==
  /\ op[c] \in Op /\ pc[c] \in Writing \cup Waiting
  /\ pc' = [pc EXCEPT ![c] = GiveBack(c)]
  /\ \E r \in {"writefail", "dropped", "timeout"} :
       outcome' = [outcome EXCEPT ![op[c]] = r]
  /\ UNCHANGED <<kind, op, lockVars, loopVars, linkVars, ops, sess, got, wire, clean, accepted>>

\* The three failures end the exchange without touching the locks or the queues.
LEMMA FailsEffect ==
  ASSUME TypeOK, Turn, Dialled, NEW c \in Caller, Fails(c)
  PROVE  Failed(c)
<1>1. op[c] \in Op
  BY UseOfSession DEF Fails, WriteFails, SeesDisconnect, TimesOut, Writing, Waiting
<1> QED
  BY <1>1 DEF Fails, WriteFails, SeesDisconnect, TimesOut, Fail, Finish, Goto, Failed

TurnTaken(c) ==
  /\ ops' = ops + 1 /\ ops' \in Op
  /\ op' = [op EXCEPT ![c] = ops'] /\ pc' = [pc EXCEPT ![c] = "lockClient"]
  /\ closeOnce[ops'] = "none" /\ outcome[ops'] = "none" /\ got[ops'] = {}
  /\ sess[ops'] = 0 /\ ops' \notin clean /\ ops' \notin accepted
  /\ \A d \in Caller : op[d] = 0 /\ pc[d] \in {"idle", "lockDaemon"}
  /\ UNCHANGED <<kind, closeOnce, loopVars, linkVars, sess, outcome, got, wire, clean, accepted>>

\* Taking the daemon's mutex begins an operation nothing is known of yet.
LEMMA LockDaemonEffect ==
  ASSUME TypeOK, Turn, Untouched, NEW c \in Caller, LockDaemon(c)
  PROVE  TurnTaken(c)
<1>1. ops' = ops + 1 /\ ops' \in Op /\ ops' > ops
  BY BoundsAssumption DEF LockDaemon, TypeOK, HistoryTypes, Op
<1>2. \A d \in Caller : op[d] = 0 /\ pc[d] \in {"idle", "lockDaemon"}
  BY DEF LockDaemon, Turn
<1> QED
  BY <1>1, <1>2 DEF LockDaemon, Goto, Untouched, TurnTaken

ClientLocked(c) ==
  /\ op[c] \in Op /\ op[c] = ops /\ pc[c] = "lockClient"
  /\ \/ /\ pc' = [pc EXCEPT ![c] = "release"]
        /\ \E r \in {"toolong", "offline"} : outcome' = [outcome EXCEPT ![op[c]] = r]
        /\ UNCHANGED <<cmdMu, sess>>
     \/ /\ pc' = [pc EXCEPT ![c] = "drain"]
        /\ sess' = [sess EXCEPT ![op[c]] = session] /\ session # 0
        /\ cmdMu' = op[c] /\ UNCHANGED outcome
  /\ UNCHANGED <<kind, op, cmdMutex, closeOnce, activeInteractive, loopVars, linkVars,
                 ops, got, wire, clean, accepted>>

\* Taking the client's mutex fixes the session of the operation, or ends the call.
LEMMA LockClientEffect ==
  ASSUME TypeOK, Turn, Dialled, NEW c \in Caller, LockClient(c)
  PROVE  ClientLocked(c)
<1>1. op[c] \in Op /\ op[c] = ops
  BY UseOfSession DEF LockClient, Turn, Op
<1> QED
  BY <1>1 DEF LockClient, Finish, Goto, ClientLocked

\* The operation of c has the turn: every other caller is outside.
Alone(c) ==
  /\ op[c] = ops /\ op[c] = cmdMutex
  /\ \A d \in Caller \ {c} : op[d] = 0 /\ pc[d] \in {"idle", "lockDaemon"}

\* A caller with an operation is alone between the daemon's locks.
LEMMA OwnOperation ==
  ASSUME TypeOK, Turn, NEW c \in Caller, op[c] \in Op
  PROVE  Alone(c)
<1>1. op[c] # 0 /\ op[c] = cmdMutex /\ cmdMutex = ops
  BY DEF Turn, Op
<1> QED
  BY <1>1 DEF Turn, Alone

-----------------------------------------------------------------------------
(* What is known of an operation.                                          *)

\* What has not begun is untouched.
LEMMA UntouchedStep ==
  ASSUME IInv, [Next]_vars
  PROVE  Untouched'
<1>c. TypeOK /\ Turn /\ Places /\ Interactive /\ Dialled /\ Untouched
  BY DEF IInv
<1>1. ASSUME NEW c \in Caller, NEW k \in {"cmd", "sms"}, Call(c, k)
      PROVE  Untouched'
  BY <1>c, <1>1 DEF Call, Goto, TypeOK, CallerTypes, LockTypes, HistoryTypes, Turn, Untouched,
       Op, Places, PlaceOK, Interactive, callerVars, lockVars, historyVars
<1>2. ASSUME NEW c \in Caller, LockDaemon(c)
      PROVE  Untouched'
  <2>1. TurnTaken(c)
    BY <1>c, <1>2, LockDaemonEffect
  <2> QED
    BY <1>c, <2>1 DEF TurnTaken, Untouched, Op, TypeOK, HistoryTypes, lockVars
<1>3. ASSUME NEW c \in Caller, LockClient(c)
      PROVE  Untouched'
  <2>1. ClientLocked(c)
    BY <1>c, <1>3, LockClientEffect
  <2>2. Alone(c)
    BY <1>c, <2>1, OwnOperation DEF ClientLocked
  <2>3. /\ UNCHANGED <<closeOnce, ops, clean, accepted>>
        /\ \A o \in Op : o # op[c] =>
             outcome'[o] = outcome[o] /\ got'[o] = got[o] /\ sess'[o] = sess[o]
    BY <1>c, <2>1 DEF ClientLocked, TypeOK, HistoryTypes, lockVars
  <2>4. \A o \in Op : o > ops => o # op[c]
    BY <1>c, <2>2 DEF Alone, Op, TypeOK, HistoryTypes
  <2> QED
    BY <1>c, <2>3, <2>4 DEF Untouched
<1>4. ASSUME NEW c \in Caller, DrainFrame(c)
      PROVE  Untouched'
  BY <1>c, <1>4 DEF DrainFrame, Goto, TypeOK, CallerTypes, LockTypes, HistoryTypes, Turn,
       Untouched, Op, Places, PlaceOK, Interactive, callerVars, lockVars, historyVars
<1>5. ASSUME NEW c \in Caller, DrainDone(c)
      PROVE  Untouched'
  BY <1>c, <1>5 DEF DrainDone, Goto, TypeOK, CallerTypes, LockTypes, HistoryTypes, Turn,
       Untouched, Op, Places, PlaceOK, Interactive, callerVars, lockVars, historyVars
<1>6. ASSUME NEW c \in Caller, Register(c)
      PROVE  Untouched'
  BY <1>c, <1>6 DEF Register, Goto, TypeOK, CallerTypes, LockTypes, HistoryTypes, Turn,
       Untouched, Op, Places, PlaceOK, Interactive, callerVars, lockVars, historyVars
<1>7. ASSUME NEW c \in Caller, Writes(c)
      PROVE  Untouched'
  <2>1. Written(c)
    BY <1>c, <1>7, WritesEffect
  <2>2. Alone(c)
    BY <1>c, <2>1, OwnOperation DEF Written
  <2> QED
    BY <1>c, <2>1, <2>2 DEF Written, Alone, Untouched, Op, TypeOK, HistoryTypes, lockVars
<1>8. ASSUME NEW c \in Caller, Receive(c)
      PROVE  Untouched'
  <2>1. Received(c)
    BY <1>c, <1>8, ReceiveEffect
  <2>2. Alone(c)
    BY <1>c, <2>1, OwnOperation DEF Received
  <2>3. /\ UNCHANGED <<closeOnce, ops, clean, accepted>>
        /\ \A o \in Op : o # op[c] =>
             outcome'[o] = outcome[o] /\ got'[o] = got[o] /\ sess'[o] = sess[o]
    BY <1>c, <2>1 DEF Received, TypeOK, HistoryTypes, lockVars
  <2>4. \A o \in Op : o > ops => o # op[c]
    BY <1>c, <2>2 DEF Alone, Op, TypeOK, HistoryTypes
  <2> QED
    BY <1>c, <2>3, <2>4 DEF Untouched
<1>9. ASSUME NEW c \in Caller, Fails(c)
      PROVE  Untouched'
  <2>1. Failed(c)
    BY <1>c, <1>9, FailsEffect
  <2>2. Alone(c)
    BY <1>c, <2>1, OwnOperation DEF Failed
  <2> QED
    BY <1>c, <2>1, <2>2 DEF Failed, Alone, Untouched, Op, TypeOK, HistoryTypes, lockVars,
         GiveBack, Writing, Waiting
<1>10. ASSUME NEW c \in Caller, UnlockClient(c)
      PROVE  Untouched'
  BY <1>c, <1>10 DEF UnlockClient, Goto, TypeOK, CallerTypes, LockTypes, HistoryTypes, Turn,
       Untouched, Op, Places, PlaceOK, Interactive, callerVars, lockVars, historyVars
<1>11. ASSUME NEW c \in Caller, CloseReturns(c)
      PROVE  Untouched'
  BY <1>c, <1>11 DEF CloseReturns, Goto, TypeOK, CallerTypes, LockTypes, HistoryTypes, Turn,
       Untouched, Op, Places, PlaceOK, Interactive, callerVars, lockVars, historyVars
<1>12. ASSUME NEW c \in Caller, UnlockDaemon(c)
      PROVE  Untouched'
  BY <1>c, <1>12 DEF UnlockDaemon, Goto, TypeOK, CallerTypes, LockTypes, HistoryTypes, Turn,
       Untouched, Op, Places, PlaceOK, Interactive, callerVars, lockVars, historyVars
<1>13. ASSUME NEW c \in Caller, BeyondBound(c)
      PROVE  Untouched'
  BY <1>c, <1>13 DEF BeyondBound, Goto, TypeOK, CallerTypes, LockTypes, HistoryTypes, Turn,
       Untouched, Op, Places, PlaceOK, Interactive, callerVars, lockVars, historyVars
<1>14. ASSUME NEW o \in Op, BeginClose(o)
      PROVE  Untouched'
  BY <1>c, <1>14 DEF BeginClose, TypeOK, CallerTypes, LockTypes, HistoryTypes, Turn, Untouched,
       Op, Places, PlaceOK, Interactive, callerVars, lockVars, historyVars
<1>15. ASSUME NEW o \in Op, FinishClose(o)
      PROVE  Untouched'
  BY <1>c, <1>15 DEF FinishClose, TypeOK, CallerTypes, LockTypes, HistoryTypes, Turn, Untouched,
       Op, Places, PlaceOK, Interactive, callerVars, lockVars, historyVars
<1>16. CASE ManagerStep
  BY <1>c, <1>16, ManagerFrame DEF Untouched, callerVars, lockVars, historyVars
<1> QED
  BY <1>c, StepCases, <1>1, <1>2, <1>3, <1>4, <1>5, <1>6, <1>7, <1>8, <1>9, <1>10, <1>11, <1>12,
       <1>13, <1>14, <1>15, <1>16 DEF CallerStep, Writes, Receive, Fails

\* What has only started has consumed nothing and has no result.
LEMMA StartingStep ==
  ASSUME IInv, [Next]_vars
  PROVE  Starting'
<1>c. TypeOK /\ Turn /\ Places /\ Interactive /\ Dialled /\ Untouched /\ Starting /\ Results
  BY DEF IInv
<1>1. ASSUME NEW c \in Caller, NEW k \in {"cmd", "sms"}, Call(c, k)
      PROVE  Starting'
  BY <1>c, <1>1 DEF Call, Goto, TypeOK, CallerTypes, HistoryTypes, Turn, Untouched, Starting,
       Op, Waiting, callerVars, historyVars
<1>2. ASSUME NEW c \in Caller, LockDaemon(c)
      PROVE  Starting'
  <2>1. TurnTaken(c)
    BY <1>c, <1>2, LockDaemonEffect
  <2> QED
    BY <1>c, <2>1 DEF TurnTaken, Starting, TypeOK, CallerTypes, HistoryTypes, Waiting, Writing
<1>3. ASSUME NEW c \in Caller, LockClient(c)
      PROVE  Starting'
  <2>1. ClientLocked(c)
    BY <1>c, <1>3, LockClientEffect
  <2>2. Alone(c)
    BY <1>c, <2>1, OwnOperation DEF ClientLocked
  <2> QED
    BY <1>c, <2>1, <2>2 DEF ClientLocked, Alone, Starting, TypeOK, CallerTypes, HistoryTypes,
         Waiting, Writing
<1>4. ASSUME NEW c \in Caller, DrainFrame(c)
      PROVE  Starting'
  BY <1>c, <1>4 DEF DrainFrame, Goto, TypeOK, CallerTypes, HistoryTypes, Turn, Untouched,
       Starting, Op, Waiting, callerVars, historyVars
<1>5. ASSUME NEW c \in Caller, DrainDone(c)
      PROVE  Starting'
  BY <1>c, <1>5 DEF DrainDone, Goto, TypeOK, CallerTypes, HistoryTypes, Turn, Untouched,
       Starting, Op, Waiting, callerVars, historyVars
<1>6. ASSUME NEW c \in Caller, Register(c)
      PROVE  Starting'
  BY <1>c, <1>6 DEF Register, Goto, TypeOK, CallerTypes, HistoryTypes, Turn, Untouched,
       Starting, Op, Waiting, callerVars, historyVars
<1>7. ASSUME NEW c \in Caller, Writes(c)
      PROVE  Starting'
  <2>1. Written(c)
    BY <1>c, <1>7, WritesEffect
  <2>2. Alone(c)
    BY <1>c, <2>1, OwnOperation DEF Written
  <2> QED
    BY <1>c, <2>1, <2>2 DEF Written, Alone, Starting, TypeOK, CallerTypes, HistoryTypes,
         Waiting, Writing
<1>8. ASSUME NEW c \in Caller, Receive(c)
      PROVE  Starting'
  <2>1. Received(c)
    BY <1>c, <1>8, ReceiveEffect
  <2>2. Alone(c)
    BY <1>c, <2>1, OwnOperation DEF Received
  <2> QED
    BY <1>c, <2>1, <2>2 DEF Received, Alone, Starting, TypeOK, CallerTypes, HistoryTypes,
         Waiting, Writing
<1>9. ASSUME NEW c \in Caller, Fails(c)
      PROVE  Starting'
  <2>1. Failed(c)
    BY <1>c, <1>9, FailsEffect
  <2>2. Alone(c)
    BY <1>c, <2>1, OwnOperation DEF Failed
  <2> QED
    BY <1>c, <2>1, <2>2 DEF Failed, Alone, Starting, TypeOK, CallerTypes, HistoryTypes, Waiting,
         Writing, GiveBack
<1>10. ASSUME NEW c \in Caller, UnlockClient(c)
      PROVE  Starting'
  BY <1>c, <1>10 DEF UnlockClient, Goto, TypeOK, CallerTypes, HistoryTypes, Turn, Untouched,
       Starting, Op, Waiting, callerVars, historyVars
<1>11. ASSUME NEW c \in Caller, CloseReturns(c)
      PROVE  Starting'
  BY <1>c, <1>11 DEF CloseReturns, Goto, TypeOK, CallerTypes, HistoryTypes, Turn, Untouched,
       Starting, Op, Waiting, callerVars, historyVars
<1>12. ASSUME NEW c \in Caller, UnlockDaemon(c)
      PROVE  Starting'
  BY <1>c, <1>12 DEF UnlockDaemon, Goto, TypeOK, CallerTypes, HistoryTypes, Turn, Untouched,
       Starting, Op, Waiting, callerVars, historyVars
<1>13. ASSUME NEW c \in Caller, BeyondBound(c)
      PROVE  Starting'
  BY <1>c, <1>13 DEF BeyondBound, Goto, TypeOK, CallerTypes, HistoryTypes, Turn, Untouched,
       Starting, Op, Waiting, callerVars, historyVars
<1>14. ASSUME NEW o \in Op, BeginClose(o)
      PROVE  Starting'
  BY <1>c, <1>14 DEF BeginClose, TypeOK, CallerTypes, HistoryTypes, Turn, Untouched, Starting,
       Op, Waiting, callerVars, historyVars
<1>15. ASSUME NEW o \in Op, FinishClose(o)
      PROVE  Starting'
  BY <1>c, <1>15 DEF FinishClose, TypeOK, CallerTypes, HistoryTypes, Turn, Untouched, Starting,
       Op, Waiting, callerVars, historyVars
<1>16. CASE ManagerStep
  BY <1>c, <1>16, ManagerFrame DEF Starting, callerVars, historyVars
<1> QED
  BY <1>c, StepCases, <1>1, <1>2, <1>3, <1>4, <1>5, <1>6, <1>7, <1>8, <1>9, <1>10, <1>11, <1>12,
       <1>13, <1>14, <1>15, <1>16 DEF CallerStep, Writes, Receive, Fails

\* A result that claims an answer is of the last operation to write.
LEMMA ResultsStep ==
  ASSUME IInv, [Next]_vars
  PROVE  Results'
<1>c. TypeOK /\ Turn /\ Places /\ Interactive /\ Dialled /\ Untouched /\ Starting /\ Results
  BY DEF IInv
<1>1. ASSUME NEW c \in Caller, NEW k \in {"cmd", "sms"}, Call(c, k)
      PROVE  Results'
  BY <1>c, <1>1 DEF Call, Goto, TypeOK, CallerTypes, HistoryTypes, Turn, Untouched, Starting,
       Results, Places, PlaceOK, Writing, Waiting, Connected, Dialled, Op, callerVars,
       historyVars
<1>2. ASSUME NEW c \in Caller, LockDaemon(c)
      PROVE  Results'
  <2>1. TurnTaken(c)
    BY <1>c, <1>2, LockDaemonEffect
  <2> QED
    BY <1>c, <2>1 DEF TurnTaken, Results, TypeOK, CallerTypes, HistoryTypes, Waiting, Writing,
         Session
<1>3. ASSUME NEW c \in Caller, LockClient(c)
      PROVE  Results'
  <2>1. ClientLocked(c)
    BY <1>c, <1>3, LockClientEffect
  <2>2. Alone(c)
    BY <1>c, <2>1, OwnOperation DEF ClientLocked
  <2> QED
    BY <1>c, <2>1, <2>2 DEF ClientLocked, Alone, Results, TypeOK, CallerTypes, HistoryTypes,
         Waiting, Writing, Session
<1>4. ASSUME NEW c \in Caller, DrainFrame(c)
      PROVE  Results'
  BY <1>c, <1>4 DEF DrainFrame, Goto, TypeOK, CallerTypes, HistoryTypes, Turn, Untouched,
       Starting, Results, Places, PlaceOK, Writing, Waiting, Connected, Dialled, Op, callerVars,
       historyVars
<1>5. ASSUME NEW c \in Caller, DrainDone(c)
      PROVE  Results'
  BY <1>c, <1>5 DEF DrainDone, Goto, TypeOK, CallerTypes, HistoryTypes, Turn, Untouched,
       Starting, Results, Places, PlaceOK, Writing, Waiting, Connected, Dialled, Op, callerVars,
       historyVars
<1>6. ASSUME NEW c \in Caller, Register(c)
      PROVE  Results'
  BY <1>c, <1>6 DEF Register, Goto, TypeOK, CallerTypes, HistoryTypes, Turn, Untouched,
       Starting, Results, Places, PlaceOK, Writing, Waiting, Connected, Dialled, Op, callerVars,
       historyVars
<1>7. ASSUME NEW c \in Caller, Writes(c)
      PROVE  Results'
  <2>1. Written(c)
    BY <1>c, <1>7, WritesEffect
  <2>2. Alone(c)
    BY <1>c, <2>1, OwnOperation DEF Written
  <2> QED
    BY <1>c, <2>1, <2>2 DEF Written, Alone, Results, TypeOK, CallerTypes, HistoryTypes, Waiting,
         Writing, Session
<1>8. ASSUME NEW c \in Caller, Receive(c)
      PROVE  Results'
  <2>1. Received(c)
    BY <1>c, <1>8, ReceiveEffect
  <2>2. Alone(c)
    BY <1>c, <2>1, OwnOperation DEF Received
  <2> QED
    BY <1>c, <2>1, <2>2 DEF Received, Alone, Results, TypeOK, CallerTypes, HistoryTypes,
         Waiting, Writing, Session
<1>9. ASSUME NEW c \in Caller, Fails(c)
      PROVE  Results'
  <2>1. Failed(c)
    BY <1>c, <1>9, FailsEffect
  <2>2. Alone(c)
    BY <1>c, <2>1, OwnOperation DEF Failed
  <2> QED
    BY <1>c, <2>1, <2>2 DEF Failed, Alone, Results, TypeOK, CallerTypes, HistoryTypes, Waiting,
         Writing, Session, GiveBack
<1>10. ASSUME NEW c \in Caller, UnlockClient(c)
      PROVE  Results'
  BY <1>c, <1>10 DEF UnlockClient, Goto, TypeOK, CallerTypes, HistoryTypes, Turn, Untouched,
       Starting, Results, Places, PlaceOK, Writing, Waiting, Connected, Dialled, Op, callerVars,
       historyVars
<1>11. ASSUME NEW c \in Caller, CloseReturns(c)
      PROVE  Results'
  BY <1>c, <1>11 DEF CloseReturns, Goto, TypeOK, CallerTypes, HistoryTypes, Turn, Untouched,
       Starting, Results, Places, PlaceOK, Writing, Waiting, Connected, Dialled, Op, callerVars,
       historyVars
<1>12. ASSUME NEW c \in Caller, UnlockDaemon(c)
      PROVE  Results'
  BY <1>c, <1>12 DEF UnlockDaemon, Goto, TypeOK, CallerTypes, HistoryTypes, Turn, Untouched,
       Starting, Results, Places, PlaceOK, Writing, Waiting, Connected, Dialled, Op, callerVars,
       historyVars
<1>13. ASSUME NEW c \in Caller, BeyondBound(c)
      PROVE  Results'
  BY <1>c, <1>13 DEF BeyondBound, Goto, TypeOK, CallerTypes, HistoryTypes, Turn, Untouched,
       Starting, Results, Places, PlaceOK, Writing, Waiting, Connected, Dialled, Op, callerVars,
       historyVars
<1>14. ASSUME NEW o \in Op, BeginClose(o)
      PROVE  Results'
  BY <1>c, <1>14 DEF BeginClose, TypeOK, CallerTypes, HistoryTypes, Turn, Untouched, Starting,
       Results, Places, PlaceOK, Writing, Waiting, Connected, Dialled, Op, callerVars,
       historyVars
<1>15. ASSUME NEW o \in Op, FinishClose(o)
      PROVE  Results'
  BY <1>c, <1>15 DEF FinishClose, TypeOK, CallerTypes, HistoryTypes, Turn, Untouched, Starting,
       Results, Places, PlaceOK, Writing, Waiting, Connected, Dialled, Op, callerVars,
       historyVars
<1>16. CASE ManagerStep
  BY <1>c, <1>16, ManagerFrame DEF Results, callerVars, historyVars
<1> QED
  BY <1>c, StepCases, <1>1, <1>2, <1>3, <1>4, <1>5, <1>6, <1>7, <1>8, <1>9, <1>10, <1>11, <1>12,
       <1>13, <1>14, <1>15, <1>16 DEF CallerStep, Writes, Receive, Fails

-----------------------------------------------------------------------------
(* The steps, told apart by what they do to the history and the queues.    *)

\* Nothing is learnt of any operation, and frames are at most moved or lost.
Quiet ==
  /\ UNCHANGED <<sess, outcome, got, wire, clean, accepted>>
  /\ \A c \in Caller : op'[c] # 0 => op'[c] = op[c] /\ kind'[c] = kind[c]
  /\ \A s \in Session : Owed(s)' \subseteq Owed(s)

\* The drain of c's operation ends: the buffer is empty, and the operation is clean only
\* if nothing is on its way.
Drained(c) ==
  /\ op[c] \in Op /\ sess[op[c]] \in Session /\ pc[c] = "drain"
  /\ \/ clean' = clean
     \/ clean' = clean \cup {op[c]} /\ Owed(sess[op[c]]) = {}
  /\ UNCHANGED <<kind, op, linkVars, ops, sess, outcome, got, wire, accepted>>

\* Manager and link steps are quiet: they move frames to the buffer, drop them, or lose
\* them with the connection.
LEMMA ManagerQuiet ==
  ASSUME TypeOK, Dialled, ManagerStep
  PROVE  Quiet
<1>1. UNCHANGED <<callerVars, lockVars, historyVars>>
  BY ManagerFrame
<1>2. \A s \in Session : responseChan[s] \in Seq(Frame) /\ pending[s] \in Seq(Frame)
  BY DEF TypeOK, LinkTypes
<1>3. ASSUME NEW s \in Session
      PROVE  Owed(s)' \subseteq Owed(s)
  <2>1. CASE UNCHANGED <<responseChan, pending>>
    BY <2>1 DEF Owed
  <2>2. CASE ReadFrame
    <3>1. dialled \in Session /\ pending[dialled] # <<>>
      BY <2>2, BoundsAssumption
      DEF BoundsAssumption, ReadFrame, Dialled, TypeOK, LoopTypes, Session
    <3>2. CASE s # dialled
      BY <2>2, <3>2 DEF ReadFrame, Owed, TypeOK, LinkTypes
    <3>3. CASE s = dialled
      <4>1. /\ Head(pending[s]) \in Range(pending[s])
            /\ Range(Tail(pending[s])) \subseteq Range(pending[s])
            /\ Range(pending[s]) \subseteq Frame
        BY <1>2, <3>1, <3>3, QueueRanges
      <4>2. Range(Append(responseChan[s], Head(pending[s]))) =
              Range(responseChan[s]) \cup {Head(pending[s])}
        BY <1>2, <4>1, QueueRanges
      <4>3. /\ pending'[s] = Tail(pending[s])
            /\ responseChan'[s] \in {responseChan[s], Append(responseChan[s], Head(pending[s]))}
        BY <2>2, <3>3 DEF ReadFrame, TypeOK, LinkTypes
      <4> QED
        BY <4>1, <4>2, <4>3 DEF Owed
    <3> QED
      BY <3>2, <3>3
  <2>3. CASE ReaderStops
    <3>1. Range(<<>>) = {}
      BY DEF Range
    <3>2. responseChan' = responseChan /\ pending'[s] \in {pending[s], <<>>}
      BY <2>3 DEF ReaderStops, TypeOK, LinkTypes
    <3> QED
      BY <3>1, <3>2 DEF Owed
  <2> QED
    BY <2>1, <2>2, <2>3
    DEF ManagerStep, LoopTop, DialSucceeds, DialFails, Backoff, Install, Cleanup,
        LoopCloseReturns, LinkLost, Cancel, CloserRuns, linkVars, vars
<1> QED
  BY <1>1, <1>3 DEF Quiet, callerVars, historyVars

\* Discarding a frame is quiet.
LEMMA DrainQuiet ==
  ASSUME TypeOK, Turn, Dialled, NEW c \in Caller, DrainFrame(c)
  PROVE  Quiet
<1> DEFINE t == sess[op[c]]
<1>1. t \in Session
  BY UseOfSession DEF DrainFrame, Connected
<1>2. /\ responseChan[t] \in Seq(Frame) /\ responseChan[t] # <<>>
      /\ responseChan' = [responseChan EXCEPT ![t] = Tail(@)]
      /\ UNCHANGED <<callerVars, pending, historyVars>>
  BY <1>1 DEF DrainFrame, TypeOK, LinkTypes
<1>3. Range(Tail(responseChan[t])) \subseteq Range(responseChan[t])
  BY <1>2, QueueRanges
<1>4. \A s \in Session : Owed(s)' \subseteq Owed(s)
  BY <1>1, <1>2, <1>3 DEF Owed, TypeOK, LinkTypes
<1> QED
  BY <1>2, <1>4 DEF Quiet, callerVars, historyVars

\* Taking and giving back the locks is quiet.
LEMMA LocksQuiet ==
  ASSUME TypeOK, Turn,
         \/ \E c \in Caller :
              \/ \E k \in {"cmd", "sms"} : Call(c, k)
              \/ Register(c) \/ UnlockClient(c) \/ CloseReturns(c) \/ UnlockDaemon(c)
              \/ BeyondBound(c)
         \/ \E o \in Op : BeginClose(o) \/ FinishClose(o)
  PROVE  Quiet
<1>1. UNCHANGED <<linkVars, historyVars>>
  BY DEF Call, Register, UnlockClient, CloseReturns, UnlockDaemon, BeyondBound, BeginClose,
         FinishClose
<1>2. \A d \in Caller : op'[d] # 0 => op'[d] = op[d] /\ kind'[d] = kind[d]
  BY DEF Call, Register, UnlockClient, CloseReturns, UnlockDaemon, BeyondBound, BeginClose,
         FinishClose, Turn, TypeOK, CallerTypes, callerVars
<1>3. \A s \in Session : Owed(s)' \subseteq Owed(s)
  BY <1>1 DEF Owed, linkVars
<1> QED
  BY <1>1, <1>2, <1>3 DEF Quiet, historyVars

\* The end of the drain.
LEMMA DrainDoneEffect ==
  ASSUME TypeOK, Turn, Dialled, NEW c \in Caller, DrainDone(c)
  PROVE  Drained(c)
<1>1. op[c] \in Op /\ sess[op[c]] \in Session /\ pc[c] = "drain"
  BY UseOfSession DEF DrainDone, Connected
<1>2. /\ responseChan[sess[op[c]]] = <<>>
      /\ \/ clean' = clean
         \/ clean' = clean \cup {op[c]} /\ pending[sess[op[c]]] = <<>>
      /\ UNCHANGED <<kind, op, linkVars, ops, sess, outcome, got, wire, accepted>>
  BY DEF DrainDone
<1>3. Range(<<>>) = {}
  BY DEF Range
<1> QED
  BY <1>1, <1>2, <1>3 DEF Drained, Owed

\* Every step is quiet or is one of the six that teach something of an operation.
LEMMA HistoryCases ==
  ASSUME TypeOK, Turn, Interactive, Dialled, Untouched, [Next]_vars
  PROVE  \/ Quiet
         \/ \E c \in Caller : TurnTaken(c) \/ ClientLocked(c) \/ Drained(c)
         \/ \E c \in Caller : Written(c) \/ Received(c) \/ Failed(c)
<1>1. ASSUME NEW c \in Caller, CallerStep(c)
      PROVE  \/ Quiet
             \/ TurnTaken(c) \/ ClientLocked(c) \/ Drained(c)
             \/ Written(c) \/ Received(c) \/ Failed(c)
  <2>1. CASE DrainFrame(c)
    BY <2>1, DrainQuiet
  <2>2. CASE \/ \E k \in {"cmd", "sms"} : Call(c, k)
             \/ Register(c) \/ UnlockClient(c) \/ CloseReturns(c) \/ UnlockDaemon(c)
             \/ BeyondBound(c)
    BY <2>2, LocksQuiet
  <2>3. CASE LockDaemon(c)
    BY <2>3, LockDaemonEffect
  <2>4. CASE LockClient(c)
    BY <2>4, LockClientEffect
  <2>5. CASE DrainDone(c)
    BY <2>5, DrainDoneEffect
  <2>6. CASE Writes(c)
    BY <2>6, WritesEffect
  <2>7. CASE Receive(c)
    BY <2>7, ReceiveEffect
  <2>8. CASE Fails(c)
    BY <2>8, FailsEffect
  <2> QED
    BY <1>1, <2>1, <2>2, <2>3, <2>4, <2>5, <2>6, <2>7, <2>8
    DEF CallerStep, Writes, Receive, Fails
<1>2. ASSUME NEW o \in Op, BeginClose(o) \/ FinishClose(o)
      PROVE  Quiet
  BY <1>2, LocksQuiet
<1>3. CASE ManagerStep
  BY <1>3, ManagerQuiet
<1> QED
  BY <1>1, <1>2, <1>3, StepCases

-----------------------------------------------------------------------------
(* The queues and the answers.                                             *)

\* What is on its way to a session is a set of frames.
LEMMA OwedFrames ==
  ASSUME TypeOK, NEW s \in Session
  PROVE  Owed(s) \subseteq Frame
BY QueueRanges DEF Owed, TypeOK, LinkTypes

\* A caller other than the one whose operation has the turn has no clean operation.
LEMMA OthersNotClean ==
  ASSUME TypeOK, NEW c \in Caller, Alone(c), NEW d \in Caller, d # c
  PROVE  op[d] = 0 /\ op[d] \notin clean
BY DEF Alone, TypeOK, HistoryTypes, Op

\* No step puts a frame on a session other than that of the operation it answers.
LEMMA OriginStep ==
  ASSUME IInv, [Next]_vars
  PROVE  Origin'
<1>c. TypeOK /\ Turn /\ Interactive /\ Dialled /\ Untouched /\ Starting /\ Origin
  BY DEF IInv
<1>f. \A s \in Session : \A f \in Owed(s) : f.op \in Op
  BY <1>c, OwedFrames DEF Frame
<1>1. CASE Quiet
  BY <1>c, <1>1 DEF Quiet, Origin
<1>2. ASSUME NEW c \in Caller, TurnTaken(c) \/ Drained(c) \/ Failed(c)
      PROVE  Origin'
  <2>1. UNCHANGED <<sess, linkVars>>
    BY <1>2 DEF TurnTaken, Drained, Failed
  <2> QED
    BY <1>c, <2>1 DEF Origin, Owed, linkVars
<1>3. ASSUME NEW c \in Caller, ClientLocked(c)
      PROVE  Origin'
  <2>1. /\ op[c] \in Op /\ sess[op[c]] = 0
        /\ \A o \in Op : o # op[c] => sess'[o] = sess[o]
    BY <1>c, <1>3 DEF ClientLocked, Starting, TypeOK, HistoryTypes
  <2>2. UNCHANGED <<responseChan, pending>>
    BY <1>3 DEF ClientLocked, linkVars
  <2>3. \A s \in Session : \A f \in Owed(s) : sess[f.op] = s /\ f.op # op[c]
    BY <1>c, <2>1 DEF Origin, Session
  <2> QED
    BY <1>f, <2>1, <2>2, <2>3 DEF Origin, Owed
<1>4. ASSUME NEW c \in Caller, Written(c)
      PROVE  Origin'
  BY <1>c, <1>4 DEF Written, Origin, Owed
<1>5. ASSUME NEW c \in Caller, Received(c)
      PROVE  Origin'
  BY <1>c, <1>5 DEF Received, Origin, Owed
<1> QED
  BY <1>c, <1>1, <1>2, <1>3, <1>4, <1>5, HistoryCases

\* No step puts on the session of a clean operation a frame that is not its answer, or
\* an OK for a part the modem has not accepted.
LEMMA CleanQueuesStep ==
  ASSUME IInv, [Next]_vars
  PROVE  CleanQueues'
<1>c. /\ TypeOK /\ Turn /\ Places /\ Interactive /\ Dialled
      /\ Untouched /\ Starting /\ CleanQueues
  BY DEF IInv
<1>s. \A d \in Caller : op[d] \in clean => sess[op[d]] \in Session
  BY <1>c, BoundsAssumption
  DEF BoundsAssumption, TypeOK, HistoryTypes, Dialled, Session
<1>1. CASE Quiet
  <2> SUFFICES ASSUME NEW d \in Caller, op'[d] \in clean'
               PROVE  CleanQueue(d)'
    BY DEF CleanQueues, CleanQueue
  <2>1. op'[d] = op[d] /\ kind'[d] = kind[d] /\ op[d] \in clean
    BY <1>c, <1>1 DEF Quiet, TypeOK, HistoryTypes, Op
  <2> QED
    BY <1>c, <1>s, <1>1, <2>1 DEF Quiet, CleanQueues, CleanQueue
<1>2. ASSUME NEW c \in Caller, TurnTaken(c)
      PROVE  CleanQueues'
  <2>1. \A d \in Caller : op'[d] \notin clean'
    BY <1>c, <1>2 DEF TurnTaken, TypeOK, CallerTypes, HistoryTypes, Op
  <2> QED
    BY <2>1 DEF CleanQueues, CleanQueue
<1>3. ASSUME NEW c \in Caller, ClientLocked(c)
      PROVE  CleanQueues'
  <2>1. Alone(c)
    BY <1>c, <1>3, OwnOperation DEF ClientLocked
  <2>2. op[c] \notin clean
    BY <1>c, <1>3 DEF ClientLocked, Starting
  <2>3. UNCHANGED <<op, clean>>
    BY <1>3 DEF ClientLocked
  <2> QED
    BY <1>c, <2>1, <2>2, <2>3, OthersNotClean DEF CleanQueues, CleanQueue
<1>4. ASSUME NEW c \in Caller, Drained(c)
      PROVE  CleanQueues'
  <2>1. Alone(c)
    BY <1>c, <1>4, OwnOperation DEF Drained
  <2>2. op[c] \notin clean
    BY <1>c, <1>4 DEF Drained, Starting
  <2>3. UNCHANGED <<op, sess, responseChan, pending>>
    BY <1>4 DEF Drained, linkVars
  <2>4. op[c] \in clean' => Owed(sess[op[c]])' = {}
    BY <1>4, <2>2, <2>3 DEF Drained, Owed
  <2>5. CleanQueue(c)'
    BY <2>3, <2>4 DEF CleanQueue, Owed
  <2>6. \A d \in Caller \ {c} : op[d] = 0 /\ op[d] \notin clean'
    BY <1>c, <1>4, <2>1, OthersNotClean DEF Drained, Op
  <2> QED
    BY <2>3, <2>5, <2>6 DEF CleanQueues, CleanQueue
<1>5. ASSUME NEW c \in Caller, Written(c)
      PROVE  CleanQueues'
  <2>1. Alone(c)
    BY <1>c, <1>5, OwnOperation DEF Written
  <2>2. /\ op[c] \in Op /\ sess[op[c]] \in Session
        /\ accepted \subseteq accepted'
        /\ UNCHANGED <<op, kind, sess, clean, responseChan>>
        /\ \A f \in Range(pending'[sess[op[c]]]) :
             \/ f \in Range(pending[sess[op[c]]])
             \/ f.op = op[c] /\ (pc[c] # "send" /\ f.kind = "ok" => op[c] \in accepted')
    BY <1>5 DEF Written
  <2>3. kind[c] = "sms" => pc[c] # "send"
    BY <1>c DEF Places, PlaceOK
  <2>4. CleanQueue(c)'
    BY <1>c, <2>2, <2>3 DEF CleanQueues, CleanQueue, Owed
  <2> QED
    BY <1>c, <2>1, <2>2, <2>4, OthersNotClean DEF CleanQueues, CleanQueue
<1>6. ASSUME NEW c \in Caller, Received(c) \/ Failed(c)
      PROVE  CleanQueues'
  <2>1. /\ UNCHANGED <<op, kind, sess, clean, accepted>>
        /\ \A s \in Session : Owed(s)' \subseteq Owed(s)
    BY <1>6 DEF Received, Failed, Owed, linkVars
  <2> QED
    BY <1>c, <1>s, <2>1 DEF CleanQueues, CleanQueue
<1> QED
  BY <1>c, <1>1, <1>2, <1>3, <1>4, <1>5, <1>6, HistoryCases

\* A clean operation consumes only its own answer.
LEMMA FreshAnswersStep ==
  ASSUME IInv, [Next]_vars
  PROVE  FreshAnswers'
<1>c. /\ TypeOK /\ Turn /\ Interactive /\ Dialled
      /\ Untouched /\ Starting /\ CleanQueues /\ FreshAnswers
  BY DEF IInv
<1>1. CASE \/ Quiet
           \/ \E c \in Caller : \/ TurnTaken(c) \/ ClientLocked(c)
                                \/ Written(c) \/ Failed(c)
  <2>1. UNCHANGED <<got, clean>>
    BY <1>1 DEF Quiet, TurnTaken, ClientLocked, Written, Failed
  <2> QED
    BY <1>c, <2>1 DEF FreshAnswers
<1>2. ASSUME NEW c \in Caller, Drained(c)
      PROVE  FreshAnswers'
  <2>1. got[op[c]] = {}
    BY <1>c, <1>2 DEF Drained, Starting
  <2> QED
    BY <1>c, <1>2, <2>1 DEF Drained, FreshAnswers
<1>3. ASSUME NEW c \in Caller, Received(c)
      PROVE  FreshAnswers'
  <2>1. PICK f \in Range(responseChan[sess[op[c]]]) :
          got' = [got EXCEPT ![op[c]] = @ \cup {f.op}]
    BY <1>3 DEF Received
  <2>2. op[c] \in clean => f.op = op[c]
    BY <1>c DEF CleanQueues, CleanQueue, Owed
  <2> QED
    BY <1>c, <1>3, <2>1, <2>2 DEF Received, FreshAnswers, TypeOK, HistoryTypes
<1> QED
  BY <1>c, <1>1, <1>2, <1>3, HistoryCases

\* An operation consumes only what was asked for on its own connection.
LEMMA AnswersStayStep ==
  ASSUME IInv, [Next]_vars
  PROVE  AnswersStayOnTheirConnection'
<1>c. /\ TypeOK /\ Turn /\ Interactive /\ Dialled
      /\ Untouched /\ Starting /\ Results /\ Origin /\ AnswersStayOnTheirConnection
  BY DEF IInv
<1>1. CASE \/ Quiet
           \/ \E c \in Caller : \/ TurnTaken(c) \/ Drained(c)
                                \/ Written(c) \/ Failed(c)
  <2>1. UNCHANGED <<got, sess>>
    BY <1>1 DEF Quiet, TurnTaken, Drained, Written, Failed
  <2> QED
    BY <1>c, <2>1 DEF AnswersStayOnTheirConnection
<1>2. ASSUME NEW c \in Caller, ClientLocked(c)
      PROVE  AnswersStayOnTheirConnection'
  <2>1. op[c] \in Op /\ sess[op[c]] = 0 /\ got[op[c]] = {} /\ got' = got
    BY <1>c, <1>2 DEF ClientLocked, Starting
  <2>2. \A o \in Op : o # op[c] => sess'[o] = sess[o]
    BY <1>c, <1>2 DEF ClientLocked, TypeOK, HistoryTypes
  <2>3. \A o \in Op : got[o] \subseteq Op
    BY <1>c DEF TypeOK, HistoryTypes
  <2>4. \A o \in Op : \A p \in got[o] : sess[p] = sess[o] /\ o # op[c] /\ p # op[c]
    BY <1>c, <2>1 DEF AnswersStayOnTheirConnection, Results
  <2> QED
    BY <2>1, <2>2, <2>3, <2>4 DEF AnswersStayOnTheirConnection
<1>3. ASSUME NEW c \in Caller, Received(c)
      PROVE  AnswersStayOnTheirConnection'
  <2>1. PICK f \in Range(responseChan[sess[op[c]]]) :
          got' = [got EXCEPT ![op[c]] = @ \cup {f.op}]
    BY <1>3 DEF Received
  <2>2. sess[f.op] = sess[op[c]]
    BY <1>c, <1>3 DEF Received, Origin, Owed
  <2> QED
    BY <1>c, <1>3, <2>1, <2>2
    DEF Received, AnswersStayOnTheirConnection, TypeOK, HistoryTypes
<1> QED
  BY <1>c, <1>1, <1>2, <1>3, HistoryCases

\* A clean SMS operation is reported as sent only after the modem accepted it.
LEMMA ConfirmedStep ==
  ASSUME IInv, [Next]_vars
  PROVE  ConfirmedMeansAccepted'
<1>c. /\ TypeOK /\ Turn /\ Places /\ Interactive /\ Dialled
      /\ Untouched /\ Starting /\ CleanQueues /\ ConfirmedMeansAccepted
  BY DEF IInv
<1>1. CASE Quiet \/ \E c \in Caller : TurnTaken(c) \/ Written(c)
  <2>1. UNCHANGED <<outcome, clean>> /\ accepted \subseteq accepted'
    BY <1>1 DEF Quiet, TurnTaken, Written
  <2> QED
    BY <1>c, <2>1 DEF ConfirmedMeansAccepted
<1>2. ASSUME NEW c \in Caller, ClientLocked(c) \/ Failed(c)
      PROVE  ConfirmedMeansAccepted'
  <2>1. /\ op[c] \in Op /\ UNCHANGED <<clean, accepted>>
        /\ \/ outcome' = outcome
           \/ \E r \in {"toolong", "offline", "writefail", "dropped", "timeout"} :
                outcome' = [outcome EXCEPT ![op[c]] = r]
    BY <1>2 DEF ClientLocked, Failed
  <2> QED
    BY <1>c, <2>1 DEF ConfirmedMeansAccepted, TypeOK, HistoryTypes
<1>3. ASSUME NEW c \in Caller, Drained(c)
      PROVE  ConfirmedMeansAccepted'
  <2>1. outcome[op[c]] = "none"
    BY <1>c, <1>3 DEF Drained, Starting
  <2> QED
    BY <1>c, <1>3, <2>1 DEF Drained, ConfirmedMeansAccepted
<1>4. ASSUME NEW c \in Caller, Received(c)
      PROVE  ConfirmedMeansAccepted'
  <2>1. PICK f \in Range(responseChan[sess[op[c]]]) :
          outcome' # outcome /\ outcome'[op[c]] = "sent" => pc[c] = "confirm" /\ f.kind = "ok"
    BY <1>4 DEF Received
  <2>2. outcome' # outcome /\ outcome'[op[c]] = "sent" /\ op[c] \in clean => op[c] \in accepted
    BY <1>c, <2>1 DEF Places, PlaceOK, SmsPlace, CleanQueues, CleanQueue, Owed
  <2>3. /\ op[c] \in Op /\ UNCHANGED <<clean, accepted>>
        /\ outcome' = [outcome EXCEPT ![op[c]] = outcome'[op[c]]]
    BY <1>4 DEF Received
  <2> QED
    BY <1>c, <2>2, <2>3 DEF ConfirmedMeansAccepted, TypeOK, HistoryTypes
<1> QED
  BY <1>c, <1>1, <1>2, <1>3, <1>4, HistoryCases

-----------------------------------------------------------------------------
(* The invariant.                                                          *)

\* The invariant holds before the first call.
LEMMA InvInit ==
  ASSUME Init
  PROVE  IInv
<1>1. TypeOK
  <2>1. 0 \in 0 .. MaxOps /\ 0 \in 0 .. MaxSessions
    BY BoundsAssumption DEF BoundsAssumption
  <2>2. <<>> \in Seq(Frame)
    OBVIOUS
  <2>3. CallerTypes /\ LockTypes
    BY <2>1 DEF Init, CallerTypes, LockTypes, Place
  <2>4. LoopTypes /\ LinkTypes
    BY <2>1, <2>2 DEF Init, LoopTypes, LinkTypes
  <2>5. HistoryTypes
    BY <2>1 DEF Init, HistoryTypes
  <2> QED
    BY <2>3, <2>4, <2>5 DEF TypeOK
<1>2. Turn /\ Places /\ Interactive
  BY DEF Init, Turn, Places, PlaceOK, SmsPlace, Interactive, ActiveIsCurrent, Op
<1>3. Dialled /\ Untouched /\ Starting /\ Results
  BY BoundsAssumption DEF BoundsAssumption, Init, Dialled, Untouched, Starting, Results,
     Connected, Writing, Waiting, Op
<1>4. Range(<<>>) = {}
  BY DEF Range
<1>5. Origin /\ CleanQueues
  BY <1>4 DEF Init, Origin, CleanQueues, CleanQueue, Owed
<1>6. FreshAnswers /\ AnswersStayOnTheirConnection /\ ConfirmedMeansAccepted
  BY DEF Init, FreshAnswers, AnswersStayOnTheirConnection, ConfirmedMeansAccepted
<1> QED
  BY <1>1, <1>2, <1>3, <1>5, <1>6 DEF IInv

\* Every step keeps it.
LEMMA InvStep ==
  ASSUME IInv, [Next]_vars
  PROVE  IInv'
<1>1. TypeOK' /\ Turn' /\ Places' /\ Interactive'
  BY TypeStep, TurnStep, PlacesStep, InteractiveStep
<1>2. Dialled' /\ Untouched' /\ Starting' /\ Results'
  BY DialledStep, UntouchedStep, StartingStep, ResultsStep
<1>3. Origin' /\ CleanQueues'
  BY OriginStep, CleanQueuesStep
<1>4. FreshAnswers' /\ AnswersStayOnTheirConnection' /\ ConfirmedMeansAccepted'
  BY FreshAnswersStep, AnswersStayStep, ConfirmedStep
<1> QED
  BY <1>1, <1>2, <1>3, <1>4 DEF IInv

\* IInv is an inductive invariant: it holds of every state of every behaviour of the
\* client and the daemon, whatever the callers, the timers and the modem do.
THEOREM Invariance == Spec => []IInv
<1>1. Init => IInv
  BY InvInit
<1>2. IInv /\ [Next]_vars => IInv'
  BY InvStep
<1> QED
  BY <1>1, <1>2, PTL DEF Spec

-----------------------------------------------------------------------------
(* What follows from it.                                                   *)

\* Every variable keeps its type, however many callers and operations there are.
THEOREM TypeCorrectness == Spec => []TypeOK
<1>1. IInv => TypeOK
  BY DEF IInv
<1> QED
  BY <1>1, Invariance, PTL

\* No goroutine unlocks Daemon.cmdMutex or Client.cmdMu for an operation that does not
\* hold it, whoever wins the race to close an interactive session.
THEOREM LockDiscipline == Spec => []UnlocksWhatItHolds
<1>1. IInv => UnlocksWhatItHolds
  <2> SUFFICES ASSUME IInv
               PROVE  UnlocksWhatItHolds
    OBVIOUS
  <2>1. \A c \in Caller : pc[c] = "unlock" => cmdMu = op[c]
    BY DEF IInv, Places, PlaceOK
  <2>2. \A c \in Caller : pc[c] = "release" => cmdMutex = op[c] /\ cmdMu = 0
    BY DEF IInv, Turn, Places, PlaceOK
  <2>3. \A o \in Op : closeOnce[o] = "live" => cmdMu = o
    BY DEF IInv, Interactive
  <2> QED
    BY <2>1, <2>2, <2>3 DEF UnlocksWhatItHolds
<1> QED
  BY <1>1, Invariance, PTL

\* The interactive session registered with the client is that of the operation whose
\* turn it is, from StartInteractive to the end of its close.
THEOREM RegistrationIsCurrent == Spec => []ActiveIsCurrent
<1>1. IInv => ActiveIsCurrent
  BY DEF IInv, Interactive
<1> QED
  BY <1>1, Invariance, PTL

\* An operation that begins with no answer outstanding never consumes an answer of
\* another operation.
THEOREM AnswersAreFresh == Spec => []FreshAnswers
<1>1. IInv => FreshAnswers
  BY DEF IInv
<1> QED
  BY <1>1, Invariance, PTL

\* No reconnect carries an answer from one connection to the next.
THEOREM AnswersStay == Spec => []AnswersStayOnTheirConnection
<1>1. IInv => AnswersStayOnTheirConnection
  BY DEF IInv
<1> QED
  BY <1>1, Invariance, PTL

\* SendSMS reports success only for parts the modem accepted, when no answer was
\* outstanding.
THEOREM ConfirmationIsEarned == Spec => []ConfirmedMeansAccepted
<1>1. IInv => ConfirmedMeansAccepted
  BY DEF IInv
<1> QED
  BY <1>1, Invariance, PTL

\* The requests of an operation are contiguous on the wire.
THEOREM SerialExecution == Spec => Contiguous
<1>1. IInv /\ [Next]_vars => [wire' >= wire]_vars
  <2> SUFFICES ASSUME IInv, [Next]_vars
               PROVE  wire' >= wire
    OBVIOUS
  <2>1. TypeOK /\ Turn /\ Interactive /\ Dialled /\ Untouched
    BY DEF IInv
  <2>2. wire \in Nat /\ wire <= ops
    BY <2>1, BoundsAssumption DEF BoundsAssumption, TypeOK, HistoryTypes, Turn
  <2>3. ASSUME NEW c \in Caller, Written(c)
        PROVE  wire' >= wire
    <3>1. wire' = op[c] /\ op[c] \in Op
      BY <2>3 DEF Written
    <3>2. op[c] = ops
      BY <2>1, <3>1, OwnOperation DEF Alone
    <3> QED
      BY <2>2, <3>1, <3>2
  <2>4. CASE \/ Quiet
             \/ \E c \in Caller : \/ TurnTaken(c) \/ ClientLocked(c) \/ Drained(c)
                                  \/ Received(c) \/ Failed(c)
    <3>1. wire' = wire
      BY <2>4 DEF Quiet, TurnTaken, ClientLocked, Drained, Received, Failed
    <3> QED
      BY <2>2, <3>1
  <2> QED
    BY <2>1, <2>3, <2>4, HistoryCases
<1> QED
  BY <1>1, Invariance, PTL DEF Spec, Contiguous

-----------------------------------------------------------------------------
(* The client and the daemon implement the serial link.                    *)

\* A step that leaves the mutex, the history of writes and the results of the operations
\* that have ended alone is a stutter of the serial link.
LEMMA StutterStep ==
  ASSUME TypeOK, UNCHANGED <<ops, cmdMutex, wire>>,
         \A o \in Op : o # cmdMutex => outcome'[o] = outcome[o]
  PROVE  UNCHANGED Link!linkVars
BY DEF Link!linkVars

\* Every step of the client and the daemon is a step of the serial link or a stutter.
LEMMA LinkStep ==
  ASSUME IInv, [Next]_vars
  PROVE  [Link!LinkNext]_Link!linkVars
<1>c. /\ TypeOK /\ Turn /\ Places /\ Interactive /\ Dialled
      /\ Untouched /\ Results
  BY DEF IInv
<1>1. ASSUME NEW c \in Caller, LockDaemon(c)
      PROVE  Link!Begin
  <2>1. /\ cmdMutex = 0 /\ ops < MaxOps /\ ops' = ops + 1 /\ cmdMutex' = ops'
        /\ UNCHANGED <<wire, outcome>>
    BY <1>1 DEF LockDaemon
  <2>2. TurnTaken(c)
    BY <1>c, <1>1, LockDaemonEffect
  <2>3. \A o \in Op : o # cmdMutex
    BY <2>1 DEF Op
  <2>4. \A o \in Op : (IF o = cmdMutex' THEN "none" ELSE outcome'[o]) = outcome[o]
    BY <2>1, <2>2 DEF TurnTaken
  <2> QED
    BY <2>1, <2>3, <2>4 DEF Link!Begin
<1>2. ASSUME NEW c \in Caller, Writes(c)
      PROVE  Link!Transmit
  <2>1. Written(c)
    BY <1>c, <1>2, WritesEffect
  <2>2. Alone(c)
    BY <1>c, <2>1, OwnOperation DEF Written
  <2>3. cmdMutex # 0 /\ wire' = cmdMutex /\ UNCHANGED <<ops, cmdMutex, outcome>>
    BY <2>1, <2>2 DEF Written, Alone, Op, lockVars
  <2> QED
    BY <2>3 DEF Link!Transmit
<1>3. ASSUME NEW c \in Caller, UnlockDaemon(c)
      PROVE  \E r \in Outcome : Link!End(r)
  <2>1. op[c] \in Op /\ pc[c] = "release" /\ op[c] = cmdMutex
    BY <1>c, <1>3, UseOfSession DEF UnlockDaemon, Turn
  <2>2. /\ cmdMutex' = 0 /\ UNCHANGED <<ops, wire, outcome>>
    BY <1>3 DEF UnlockDaemon, historyVars
  <2>3. outcome[cmdMutex] \in Outcome
    BY <1>c, <2>1 DEF Results, TypeOK, HistoryTypes
  <2>4. outcome[cmdMutex] \in {"answered", "sent"} => wire = cmdMutex
    BY <1>c, <2>1 DEF Results, Op
  <2>5. cmdMutex # 0 /\ \A o \in Op : o # 0
    BY <2>1 DEF Op
  <2>6. [o \in Op |-> IF o = cmdMutex' THEN "none" ELSE outcome'[o]] =
          [[o \in Op |-> IF o = cmdMutex THEN "none" ELSE outcome[o]]
             EXCEPT ![cmdMutex] = outcome[cmdMutex]]
    BY <2>2, <2>5
  <2> QED
    BY <2>2, <2>3, <2>4, <2>5, <2>6 DEF Link!End
<1>4. ASSUME NEW c \in Caller, LockClient(c) \/ Receive(c) \/ Fails(c)
      PROVE  UNCHANGED Link!linkVars
  <2>1. ClientLocked(c) \/ Received(c) \/ Failed(c)
    BY <1>c, <1>4, LockClientEffect, ReceiveEffect, FailsEffect
  <2>2. op[c] \in Op
    BY <2>1 DEF ClientLocked, Received, Failed
  <2>3. op[c] = cmdMutex
    BY <1>c, <2>2, OwnOperation DEF Alone
  <2>4. UNCHANGED <<ops, cmdMutex, wire>>
    BY <2>1 DEF ClientLocked, Received, Failed, lockVars
  <2>5. \A o \in Op : o # op[c] => outcome'[o] = outcome[o]
    BY <1>c, <2>1 DEF ClientLocked, Received, Failed, TypeOK, HistoryTypes
  <2> QED
    BY <1>c, <2>3, <2>4, <2>5, StutterStep
<1>5. ASSUME NEW c \in Caller,
             \/ \E k \in {"cmd", "sms"} : Call(c, k)
             \/ DrainFrame(c) \/ DrainDone(c) \/ Register(c) \/ UnlockClient(c)
             \/ CloseReturns(c) \/ BeyondBound(c)
      PROVE  UNCHANGED Link!linkVars
  <2>1. UNCHANGED <<ops, cmdMutex, wire, outcome>>
    BY <1>5 DEF Call, DrainFrame, DrainDone, Register, UnlockClient, CloseReturns,
                BeyondBound, lockVars, historyVars
  <2> QED
    BY <1>c, <2>1, StutterStep
<1>6. ASSUME NEW o \in Op, BeginClose(o) \/ FinishClose(o)
      PROVE  UNCHANGED Link!linkVars
  <2>1. UNCHANGED <<ops, cmdMutex, wire, outcome>>
    BY <1>6 DEF BeginClose, FinishClose, historyVars
  <2> QED
    BY <1>c, <2>1, StutterStep
<1>7. CASE ManagerStep
  <2>1. UNCHANGED <<ops, cmdMutex, wire, outcome>>
    BY <1>7, ManagerFrame DEF lockVars, historyVars
  <2> QED
    BY <1>c, <2>1, StutterStep
<1> QED
  BY <1>c, <1>1, <1>2, <1>3, <1>4, <1>5, <1>6, <1>7, StepCases
  DEF CallerStep, Writes, Receive, Fails, Link!LinkNext

\* The client and the daemon implement the serial link: an operation's turn is its stay
\* in Daemon.cmdMutex, its transmissions fall in its turn, and its result claims an
\* answer only if no other operation has transmitted since it did.
THEOREM Implementation == Spec => ImplementsSerialLink
<1>1. Init => Link!LinkInit
  BY BoundsAssumption DEF BoundsAssumption, Init, Link!LinkInit, Op
<1>2. IInv /\ [Next]_vars => [Link!LinkNext]_Link!linkVars
  BY LinkStep
<1> QED
  BY <1>1, <1>2, Invariance, PTL DEF Spec, ImplementsSerialLink, Link!LinkSpec

-----------------------------------------------------------------------------
(* Room for an answer                                                      *)
(*                                                                         *)
(* A buffer as long as an answer never drops a frame of an operation that  *)
(* began with no answer outstanding.  For this the frames are counted,     *)
(* where IInv only says whose they are.                                    *)

\* A frame owed to a clean operation has only frames of the same answer before it.
Fits(s) ==
  \A i \in DOMAIN pending[s] :
    pending[s][i].op \in clean => Len(responseChan[s]) + i <= AnswerLength

\* Between the end of a clean drain and a write nothing comes; the answer to AT+CMGS
\* is one frame, so that nothing is left of it when the prompt has been read.
Clear(c) ==
  op[c] \in clean =>
    /\ pc[c] \in Writing \cup {"register"} =>
         responseChan[sess[op[c]]] = <<>> /\ pending[sess[op[c]]] = <<>>
    /\ pc[c] = "prompt" => Len(responseChan[sess[op[c]]]) + Len(pending[sess[op[c]]]) <= 1

Room ==
  /\ \A s \in Session : Fits(s)
  /\ \A c \in Caller : Clear(c)

RInv == IInv /\ Room

-----------------------------------------------------------------------------
(* Queues and their lengths *)

\* The queues of a session.
LEMMA Queues ==
  ASSUME TypeOK, NEW s \in Session
  PROVE  /\ responseChan[s] \in Seq(Frame) /\ pending[s] \in Seq(Frame)
         /\ Len(responseChan[s]) \in Nat /\ Len(pending[s]) \in Nat
         /\ DOMAIN pending[s] = 1 .. Len(pending[s])
         /\ DOMAIN responseChan = Session /\ DOMAIN pending = Session
BY LenProperties DEF TypeOK, LinkTypes

\* What is taken from a queue.
LEMMA Taken ==
  ASSUME NEW q \in Seq(Frame), q # <<>>
  PROVE  /\ Len(Tail(q)) \in Nat /\ Len(q) = Len(Tail(q)) + 1
         /\ DOMAIN Tail(q) = 1 .. Len(Tail(q))
         /\ \A i \in DOMAIN Tail(q) : i + 1 \in DOMAIN q /\ Tail(q)[i] = q[i + 1]
<1>1. Len(q) \in Nat \ {0} /\ DOMAIN q = 1 .. Len(q)
  BY LenProperties, EmptySeq
<1>2. /\ Tail(q) \in Seq(Frame) /\ Len(Tail(q)) = Len(q) - 1
      /\ \A i \in 1 .. Len(Tail(q)) : Tail(q)[i] = q[i + 1]
  BY HeadTailProperties
<1>3. DOMAIN Tail(q) = 1 .. Len(Tail(q))
  BY <1>2, LenProperties
<1> QED
  BY <1>1, <1>2, <1>3

\* A frame moves from the end of one queue, of length b, to another, of length a.
LEMMA Sums ==
  ASSUME NEW a \in Nat, NEW b \in Nat, NEW aa \in Nat, NEW bb \in Nat, aa <= a + 1, b = bb + 1
  PROVE  /\ a + b <= 1 => aa + bb <= 1
         /\ \A i, n \in Nat : a + (i + 1) <= n => aa + i <= n
OBVIOUS

\* A buffer that only shrinks leaves room.
LEMMA ShrinkingFits ==
  ASSUME TypeOK, NEW s \in Session, Fits(s), UNCHANGED clean, pending'[s] = pending[s],
         Len(responseChan'[s]) \in Nat, Len(responseChan'[s]) <= Len(responseChan[s])
  PROVE  Fits(s)'
<1>1. \A i \in DOMAIN pending[s] : i \in Nat
  <2>1. DOMAIN pending[s] = 1 .. Len(pending[s]) /\ Len(pending[s]) \in Nat
    BY Queues
  <2> QED
    BY <2>1
<1>2. Len(responseChan[s]) \in Nat
  BY Queues
<1> QED
  BY <1>1, <1>2, AnswerAssumption DEF Fits, AnswerAssumption

-----------------------------------------------------------------------------
(* The steps *)

\* A caller that keeps its operation, its session and the queues keeps Clear, unless it
\* comes to a place of which Clear speaks.
LEMMA StillClear ==
  ASSUME NEW c \in Caller, Clear(c), UNCHANGED <<clean, responseChan, pending>>,
         op'[c] = op[c], op[c] \in clean => sess'[op[c]] = sess[op[c]],
         \/ pc'[c] = pc[c]
         \/ pc[c] = "register" /\ pc'[c] \in Writing
         \/ pc'[c] \notin Writing \cup {"register", "prompt"}
  PROVE  Clear(c)'
BY DEF Clear, Writing

\* Without a step of the queues there is as much room as before.
LEMMA StillFits ==
  ASSUME UNCHANGED <<clean, responseChan, pending>>, NEW s \in Session, Fits(s)
  PROVE  Fits(s)'
BY DEF Fits

\* The connection manager and the link.
LEMMA RoomManager ==
  ASSUME RInv, ManagerStep
  PROVE  Room'
<1>1. UNCHANGED <<pc, op, sess, clean>>
  BY ManagerFrame DEF callerVars, historyVars
<1>a. \A c \in Caller : op[c] \in clean => sess[op[c]] \in Session
  BY BoundsAssumption DEF RInv, IInv, BoundsAssumption, TypeOK, HistoryTypes, Dialled, Session
<1>2. CASE UNCHANGED <<responseChan, pending>>
  <2>1. \A s \in Session : Fits(s)'
    BY <1>1, <1>2, StillFits DEF RInv, Room
  <2>2. \A c \in Caller : Clear(c)'
    BY <1>1, <1>2, StillClear DEF RInv, Room
  <2> QED
    BY <2>1, <2>2 DEF Room
<1>3. CASE ReadFrame
  <2> DEFINE d == dialled
  <2>0. d \in Session /\ pending[d] # <<>>
    BY <1>3, BoundsAssumption
    DEF RInv, IInv, BoundsAssumption, ReadFrame, Dialled, TypeOK, LoopTypes, Session
  <2>1. /\ pending' = [pending EXCEPT ![d] = Tail(pending[d])]
        /\ \/ responseChan' = responseChan
           \/ responseChan' = [responseChan EXCEPT ![d] = Append(responseChan[d], Head(pending[d]))]
    BY <1>3 DEF ReadFrame
  <2> HIDE DEF d
  <2>2. /\ responseChan[d] \in Seq(Frame) /\ pending[d] \in Seq(Frame)
        /\ DOMAIN pending = Session /\ DOMAIN responseChan = Session
        /\ Len(responseChan[d]) \in Nat /\ Len(pending[d]) \in Nat
    BY <2>0, Queues DEF RInv, IInv
  <2>3. /\ Len(Tail(pending[d])) \in Nat /\ Len(pending[d]) = Len(Tail(pending[d])) + 1
        /\ DOMAIN Tail(pending[d]) = 1 .. Len(Tail(pending[d]))
        /\ \A i \in DOMAIN Tail(pending[d]) :
             i + 1 \in DOMAIN pending[d] /\ Tail(pending[d])[i] = pending[d][i + 1]
    BY <2>0, <2>2, Taken
  <2>4. Len(Append(responseChan[d], Head(pending[d]))) = Len(responseChan[d]) + 1
    BY <2>0, <2>2, HeadTailProperties, AppendProperties
  <2>5. /\ pending'[d] = Tail(pending[d])
        /\ Len(responseChan'[d]) \in Nat /\ Len(responseChan'[d]) <= Len(responseChan[d]) + 1
    BY <2>0, <2>1, <2>2, <2>4
  <2>6. \A s \in Session \ {d} : pending'[s] = pending[s] /\ responseChan'[s] = responseChan[s]
    BY <2>0, <2>1, <2>2
  <2>7. ASSUME NEW s \in Session
        PROVE  Fits(s)'
    <3>1. CASE s # d
      BY <1>1, <2>6, <3>1 DEF Fits, RInv, Room
    <3>2. CASE s = d
      <4> SUFFICES ASSUME NEW i \in DOMAIN Tail(pending[d]), Tail(pending[d])[i].op \in clean
                   PROVE  Len(responseChan'[d]) + i <= AnswerLength
        BY <1>1, <2>5, <3>2 DEF Fits
      <4>1. Len(responseChan[d]) + (i + 1) <= AnswerLength
        BY <2>0, <2>3 DEF Fits, RInv, Room
      <4>2. i \in Nat
        BY <2>3
      <4> QED
        BY <2>2, <2>3, <2>5, <4>1, <4>2, AnswerAssumption, Sums DEF AnswerAssumption
    <3> QED
      BY <3>1, <3>2
  <2>8. ASSUME NEW c \in Caller, op[c] \in clean
        PROVE  Clear(c)'
    <3>1. sess[op[c]] \in Session /\ Clear(c)
      BY <1>a, <2>8 DEF RInv, Room
    <3>2. CASE sess[op[c]] # d
      BY <1>1, <2>6, <3>1, <3>2 DEF Clear
    <3>3. CASE sess[op[c]] = d
      <4>1. pc[c] \notin Writing \cup {"register"}
        BY <2>0, <2>8, <3>1, <3>3 DEF Clear
      <4>2. Len(pending'[d]) = Len(Tail(pending[d]))
        BY <2>5
      <4>3. Len(responseChan[d]) + Len(pending[d]) <= 1 =>
              Len(responseChan'[d]) + Len(pending'[d]) <= 1
        BY <2>2, <2>3, <2>5, <4>2, Sums
      <4> QED
        BY <1>1, <2>8, <3>1, <3>3, <4>1, <4>3 DEF Clear
    <3> QED
      BY <3>2, <3>3
  <2> QED
    BY <1>1, <2>7, <2>8 DEF Room, Clear
<1>4. CASE ReaderStops
  <2>1. responseChan' = responseChan /\ pending' = [pending EXCEPT ![dialled] = <<>>]
    BY <1>4 DEF ReaderStops
  <2>2. \A s \in Session : pending'[s] \in {pending[s], <<>>}
    BY <2>1, Queues DEF RInv, IInv
  <2>3. \A s \in Session : Fits(s)'
    BY <1>1, <2>1, <2>2 DEF Fits, RInv, Room
  <2>4. ASSUME NEW c \in Caller, op[c] \in clean
        PROVE  Clear(c)'
    <3>1. sess[op[c]] \in Session /\ Clear(c)
      BY <1>a, <2>4 DEF RInv, Room
    <3>2. Len(responseChan[sess[op[c]]]) \in Nat /\ Len(pending[sess[op[c]]]) \in Nat
      BY <3>1, Queues DEF RInv, IInv
    <3>3. CASE pending'[sess[op[c]]] = pending[sess[op[c]]]
      BY <1>1, <2>1, <3>1, <3>3 DEF Clear
    <3>4. CASE pending'[sess[op[c]]] = <<>>
      <4>1. Len(responseChan[sess[op[c]]]) + Len(pending[sess[op[c]]]) <= 1 =>
              Len(responseChan[sess[op[c]]]) + Len(<<>>) <= 1
        <5>1. \A a, b \in Nat : a + b <= 1 => a + 0 <= 1
          OBVIOUS
        <5>2. Len(<<>>) = 0
          OBVIOUS
        <5> QED
          BY <3>2, <5>1, <5>2
      <4> QED
        BY <1>1, <2>1, <2>4, <3>1, <3>4, <4>1 DEF Clear
    <3> QED
      BY <2>2, <3>1, <3>3, <3>4
  <2> QED
    BY <1>1, <2>3, <2>4 DEF Room, Clear
<1> QED
  BY <1>2, <1>3, <1>4
  DEF ManagerStep, LoopTop, DialSucceeds, DialFails, Backoff, Install, Cleanup,
      LoopCloseReturns, LinkLost, Cancel, CloserRuns, linkVars, vars

\* The callers that are not in the turn have no clean operation.
LEMMA OnlyOne ==
  ASSUME RInv, NEW c \in Caller, op[c] \in Op, UNCHANGED op, clean' \subseteq clean \cup {op[c]}
  PROVE  \A d \in Caller \ {c} : Clear(d)'
<1>1. Alone(c)
  BY OwnOperation DEF RInv, IInv
<1>2. \A d \in Caller \ {c} : op[d] = 0 /\ op[d] \notin clean
  BY <1>1, OthersNotClean DEF RInv, IInv
<1>3. \A d \in Caller \ {c} : op'[d] \notin clean'
  BY <1>2 DEF Op
<1> QED
  BY <1>3 DEF Clear

\* A read or a drained frame: the buffer of c's session is one shorter.
LEMMA Consumed ==
  ASSUME RInv, NEW c \in Caller, op[c] \in Op, sess[op[c]] \in Session,
         responseChan[sess[op[c]]] # <<>>,
         responseChan' = [responseChan EXCEPT ![sess[op[c]]] = Tail(responseChan[sess[op[c]]])],
         UNCHANGED <<op, sess, pending, clean>>,
         \/ pc'[c] \notin Writing \cup {"register", "prompt"}
         \/ pc[c] = "prompt" /\ pc'[c] \in {"prompt", "pdu"}
  PROVE  Room'
<1> DEFINE s == sess[op[c]]
<1>1. /\ responseChan[s] \in Seq(Frame) /\ DOMAIN responseChan = Session
      /\ Len(responseChan[s]) \in Nat /\ Len(pending[s]) \in Nat
      /\ pending[s] \in Seq(Frame)
  BY Queues DEF RInv, IInv
<1>2. Len(Tail(responseChan[s])) \in Nat /\ Len(responseChan[s]) = Len(Tail(responseChan[s])) + 1
  BY <1>1, Taken
<1>3. /\ responseChan'[s] = Tail(responseChan[s])
      /\ \A t \in Session \ {s} : responseChan'[t] = responseChan[t]
  BY <1>1
<1>4. ASSUME NEW t \in Session
      PROVE  Fits(t)'
  <2>1. Fits(t)
    BY DEF RInv, Room
  <2>2. CASE t # s
    BY <1>3, <2>1, <2>2 DEF Fits
  <2>3. CASE t = s
    <3>1. Len(responseChan'[s]) \in Nat /\ Len(responseChan'[s]) <= Len(responseChan[s])
      BY <1>2, <1>3
    <3> QED
      BY <2>1, <2>3, <3>1, ShrinkingFits DEF RInv, IInv
  <2> QED
    BY <2>2, <2>3
<1>5. \A d \in Caller \ {c} : Clear(d)'
  BY OnlyOne
<1>6. Clear(c)'
  <2>1. CASE pc'[c] \notin Writing \cup {"register", "prompt"}
    BY <2>1 DEF Clear
  <2>2. CASE pc[c] = "prompt" /\ pc'[c] \in {"prompt", "pdu"} /\ op[c] \in clean
    <3>1. Len(responseChan[s]) + Len(pending[s]) <= 1
      BY <2>2 DEF RInv, Room, Clear
    <3>2. \A a, b \in Nat : (a + 1) + b <= 1 => a = 0 /\ b = 0 /\ a + b <= 1
      OBVIOUS
    <3>3. /\ Len(responseChan'[s]) = 0 /\ Len(pending'[s]) = 0
          /\ Len(responseChan'[s]) + Len(pending'[s]) <= 1
      BY <1>1, <1>2, <1>3, <3>1, <3>2
    <3>4. responseChan'[s] = <<>> /\ pending'[s] = <<>>
      BY <1>1, <1>2, <1>3, <3>3, EmptySeq, HeadTailProperties
    <3> QED
      BY <2>2, <3>3, <3>4 DEF Clear
  <2>3. CASE op[c] \notin clean
    BY <2>3 DEF Clear
  <2> QED
    BY <2>1, <2>2, <2>3
<1> QED
  BY <1>4, <1>5, <1>6 DEF Room

\* A write of at most n frames by the operation that has the turn.
LEMMA WriteFits ==
  ASSUME RInv, NEW c \in Caller, op[c] \in Op, sess[op[c]] \in Session, pc[c] \in Writing,
         NEW reply \in Reply, Len(reply) <= AnswerLength, Write(op[c], reply),
         UNCHANGED <<op, sess, clean>>,
         \/ pc'[c] \in {"wait", "confirm"}
         \/ pc'[c] = "prompt" /\ Len(reply) <= 1
  PROVE  Room'
<1> DEFINE s == sess[op[c]]
           q == Frames(op[c], reply)
<1>1. /\ pending[s] \in Seq(Frame) /\ DOMAIN pending = Session
      /\ Len(pending[s]) \in Nat /\ DOMAIN pending[s] = 1 .. Len(pending[s])
      /\ responseChan[s] \in Seq(Frame) /\ Len(responseChan[s]) \in Nat
  BY Queues DEF RInv, IInv
<1>2. q \in Seq(Frame) /\ Len(q) = Len(reply) /\ Len(reply) \in Nat /\ DOMAIN q = 1 .. Len(q)
      /\ \A i \in DOMAIN q : q[i].op = op[c]
  <2>1. q \in Seq(Frame)
    BY FramesOfReply
  <2>2. Len(q) \in Nat /\ DOMAIN q = 1 .. Len(q)
    BY <2>1, LenProperties
  <2>3. reply \in Seq(FrameKind)
    <3>1. \A x \in FrameKind : <<x>> \in Seq(FrameKind)
      OBVIOUS
    <3>2. <<>> \in Seq(FrameKind)
      OBVIOUS
    <3>3. <<"data", "ok">> \in Seq(FrameKind)
      BY DEF FrameKind
    <3> QED
      BY <3>1, <3>2, <3>3 DEF Reply, CommandReply, PromptReply, PduReply, Short, FrameKind
  <2>4. Len(reply) \in Nat /\ DOMAIN reply = 1 .. Len(reply)
    BY <2>3, LenProperties
  <2>5. DOMAIN q = DOMAIN reply
    BY DEF Frames
  <2>6. Len(q) = Len(reply)
    BY <2>2, <2>4, <2>5
  <2>7. \A i \in DOMAIN q : q[i].op = op[c]
    BY DEF Frames
  <2> QED
    BY <2>1, <2>2, <2>4, <2>6, <2>7
<1> HIDE DEF q
<1>3. /\ UNCHANGED responseChan
      /\ \A t \in Session \ {s} : pending'[t] = pending[t]
      /\ pending'[s] = pending[s] \/ pending'[s] = pending[s] \o q
  BY <1>1 DEF Write, q
<1>4. op[c] \in clean => responseChan[s] = <<>> /\ pending[s] = <<>>
  BY DEF RInv, Room, Clear
<1>5. ASSUME op[c] \in clean
      PROVE  pending'[s] = <<>> \/ pending'[s] = q
  <2>1. pending[s] = <<>> /\ <<>> \o q = q
    BY <1>2, <1>4, <1>5, ConcatEmptySeq
  <2> QED
    BY <1>3, <2>1
<1>6. Len(<<>>) = 0 /\ DOMAIN <<>> = {}
  OBVIOUS
<1>7. \A i \in DOMAIN q : 0 + i <= AnswerLength
  BY <1>2, AnswerAssumption DEF AnswerAssumption
<1>8. ASSUME NEW t \in Session
      PROVE  Fits(t)'
  <2>1. CASE t # s
    BY <1>3, <2>1 DEF Fits, RInv, Room
  <2>2. CASE t = s /\ op[c] \in clean
    BY <1>3, <1>4, <1>5, <1>6, <1>7, <2>2 DEF Fits
  <2>3. CASE t = s /\ op[c] \notin clean
    <3>1. Fits(s)
      BY DEF RInv, Room
    <3>2. CASE pending'[s] = pending[s]
      BY <1>3, <2>3, <3>1, <3>2 DEF Fits
    <3>3. CASE pending'[s] = pending[s] \o q
      <4>1. /\ Len(pending[s] \o q) = Len(pending[s]) + Len(q)
            /\ DOMAIN (pending[s] \o q) = 1 .. Len(pending[s]) + Len(q)
            /\ \A i \in 1 .. Len(pending[s]) + Len(q) :
                 (pending[s] \o q)[i] = IF i <= Len(pending[s]) THEN pending[s][i]
                                                                ELSE q[i - Len(pending[s])]
        <5>1. /\ pending[s] \o q \in Seq(Frame)
              /\ Len(pending[s] \o q) = Len(pending[s]) + Len(q)
          BY <1>1, <1>2, ConcatProperties
        <5>2. DOMAIN (pending[s] \o q) = 1 .. Len(pending[s] \o q)
          BY <5>1, LenProperties
        <5>3. \A i \in 1 .. Len(pending[s]) + Len(q) :
                 (pending[s] \o q)[i] = IF i <= Len(pending[s]) THEN pending[s][i]
                                                                ELSE q[i - Len(pending[s])]
          BY <1>1, <1>2, ConcatProperties
        <5> QED
          BY <5>1, <5>2, <5>3
      <4>2. ASSUME NEW i \in DOMAIN (pending[s] \o q)
            PROVE  \/ i \in DOMAIN pending[s] /\ (pending[s] \o q)[i] = pending[s][i]
                   \/ (pending[s] \o q)[i].op = op[c]
        <5>1. CASE i <= Len(pending[s])
          BY <1>1, <4>1, <5>1
        <5>2. CASE ~(i <= Len(pending[s]))
          <6>1. i - Len(pending[s]) \in DOMAIN q
            BY <1>1, <1>2, <4>1, <5>2
          <6> QED
            BY <1>2, <4>1, <5>2, <6>1
        <5> QED
          BY <5>1, <5>2
      <4> QED
        BY <1>3, <2>3, <3>1, <3>3, <4>2 DEF Fits
    <3> QED
      BY <1>3, <3>2, <3>3
  <2> QED
    BY <2>1, <2>2, <2>3
<1>9. \A d \in Caller \ {c} : Clear(d)'
  BY OnlyOne
<1>10. Clear(c)'
  <2>1. CASE op[c] \in clean /\ pc'[c] = "prompt" /\ Len(reply) <= 1
    <3>1. Len(responseChan'[s]) = 0 /\ Len(pending'[s]) \in {0, Len(q)}
      BY <1>3, <1>4, <1>5, <1>6, <2>1
    <3>2. Len(responseChan'[s]) + Len(pending'[s]) <= 1
      BY <1>2, <2>1, <3>1
    <3> QED
      BY <2>1, <3>2 DEF Clear, Writing
  <2>2. CASE op[c] \notin clean \/ pc'[c] \in {"wait", "confirm"}
    BY <2>2 DEF Clear, Writing
  <2> QED
    BY <2>1, <2>2
<1> QED
  BY <1>8, <1>9, <1>10 DEF Room

\* The places and the locks, where the queues stay as they are.
LEMMA RoomLocks ==
  ASSUME RInv, UNCHANGED <<clean, responseChan, pending>>,
         \/ \E c \in Caller :
              \/ \E k \in {"cmd", "sms"} : Call(c, k)
              \/ LockDaemon(c) \/ LockClient(c) \/ Register(c) \/ Fails(c)
              \/ UnlockClient(c) \/ CloseReturns(c) \/ UnlockDaemon(c) \/ BeyondBound(c)
         \/ \E o \in Op : BeginClose(o) \/ FinishClose(o)
  PROVE  Room'
<1>1. \A s \in Session : Fits(s)'
  BY StillFits DEF RInv, Room
<1>0. /\ DOMAIN pc = Caller /\ DOMAIN op = Caller /\ DOMAIN sess = Op /\ clean \subseteq Op
      /\ \A c \in Caller : Clear(c)
  BY DEF RInv, IInv, Room, TypeOK, CallerTypes, HistoryTypes
<1>2. ASSUME NEW c \in Caller, NEW d \in Caller, LockDaemon(c)
      PROVE  Clear(d)'
  <2>1. TurnTaken(c)
    BY <1>2, LockDaemonEffect DEF RInv, IInv
  <2>2. op'[d] \notin clean'
    BY <1>0, <2>1 DEF TurnTaken, Op
  <2> QED
    BY <2>2 DEF Clear
<1>3. ASSUME NEW c \in Caller, NEW d \in Caller, LockClient(c)
      PROVE  Clear(d)'
  <2>1. ClientLocked(c)
    BY <1>3, LockClientEffect DEF RInv, IInv
  <2>2. Alone(c) /\ op[c] \notin clean
    BY <2>1, OwnOperation DEF ClientLocked, RInv, IInv, Starting
  <2>3. op[d] \notin clean /\ op' = op
    BY <2>1, <2>2, OthersNotClean DEF ClientLocked, RInv, IInv
  <2> QED
    BY <2>3 DEF Clear
<1>4. ASSUME NEW c \in Caller, NEW d \in Caller,
             \/ \E k \in {"cmd", "sms"} : Call(c, k)
             \/ Register(c) \/ Fails(c)
             \/ UnlockClient(c) \/ CloseReturns(c) \/ BeyondBound(c)
      PROVE  Clear(d)'
  <2>1. op' = op /\ sess' = sess
    BY <1>4
    DEF Call, Register, Fails, WriteFails, SeesDisconnect, TimesOut, Fail, UnlockClient, CloseReturns,
        BeyondBound, historyVars
  <2>2. \/ pc'[d] = pc[d]
        \/ pc[d] = "register" /\ pc'[d] \in Writing
        \/ pc'[d] \notin Writing \cup {"register", "prompt"}
    BY <1>0, <1>4
    DEF Call, Register, Fails, WriteFails, SeesDisconnect, TimesOut, Fail, Finish, UnlockClient,
        CloseReturns, BeyondBound, Goto, GiveBack, Writing
  <2> QED
    BY <1>0, <2>1, <2>2, StillClear
<1>5. ASSUME NEW c \in Caller, NEW d \in Caller, UnlockDaemon(c)
      PROVE  Clear(d)'
  <2>1. CASE d = c
    <3>1. op'[d] = 0
      BY <1>0, <1>5, <2>1 DEF UnlockDaemon
    <3> QED
      BY <1>0, <3>1 DEF Clear, Op
  <2>2. CASE d # c
    <3>1. op'[d] = op[d] /\ pc'[d] = pc[d] /\ sess' = sess
      BY <1>0, <1>5, <2>2 DEF UnlockDaemon, Goto, historyVars
    <3> QED
      BY <1>0, <3>1, StillClear
  <2> QED
    BY <2>1, <2>2
<1>6. ASSUME NEW o \in Op, NEW d \in Caller, BeginClose(o) \/ FinishClose(o)
      PROVE  Clear(d)'
  <2>1. UNCHANGED <<pc, op, sess>>
    BY <1>6 DEF BeginClose, FinishClose, callerVars, historyVars
  <2> QED
    BY <1>0, <2>1, StillClear
<1>7. \A d \in Caller : Clear(d)'
  BY <1>2, <1>3, <1>4, <1>5, <1>6
<1> QED
  BY <1>1, <1>7 DEF Room

\* The end of the drain: an operation becomes clean when nothing is left or on its way.
LEMMA RoomDrainDone ==
  ASSUME RInv, NEW c \in Caller, DrainDone(c)
  PROVE  Room'
<1> DEFINE s == sess[op[c]]
<1>1. op[c] \in Op /\ s \in Session
  BY UseOfSession DEF DrainDone, Connected, RInv, IInv
<1>2. /\ responseChan[s] = <<>>
      /\ clean' = clean \/ (clean' = clean \cup {op[c]} /\ pending[s] = <<>>)
      /\ UNCHANGED <<op, sess, responseChan, pending>>
  BY DEF DrainDone, linkVars
<1>3. op[c] \notin clean
  BY DEF DrainDone, RInv, IInv, Starting
<1>4. ASSUME NEW t \in Session, NEW i \in DOMAIN pending[t], pending[t][i].op \in clean'
      PROVE  pending[t][i].op \in clean
  <2>1. pending[t][i].op = op[c] => t = s
    BY DEF RInv, IInv, Origin, Owed, Range
  <2>2. pending[s] = <<>> => DOMAIN pending[s] = {}
    OBVIOUS
  <2> QED
    BY <1>2, <1>4, <2>1, <2>2
<1>5. \A t \in Session : Fits(t)'
  BY <1>2, <1>4 DEF RInv, Room, Fits
<1>6. Clear(c)'
  BY <1>2, <1>3 DEF Clear, DrainDone, Goto, Writing, RInv, IInv, TypeOK, CallerTypes
<1>7. \A d \in Caller \ {c} : Clear(d)'
  BY <1>1, <1>2, OnlyOne
<1> QED
  BY <1>5, <1>6, <1>7 DEF Room

\* Every step keeps the room.
LEMMA RoomStep ==
  ASSUME RInv, [Next]_vars
  PROVE  Room'
<1>0. TypeOK /\ Turn /\ Interactive /\ Dialled
  BY DEF RInv, IInv
<1>p. DOMAIN pc = Caller
  BY <1>0 DEF TypeOK, CallerTypes
<1>1. ASSUME NEW c \in Caller, CallerStep(c)
      PROVE  Room'
  <2>1. CASE \/ \E k \in {"cmd", "sms"} : Call(c, k)
             \/ LockDaemon(c) \/ LockClient(c) \/ Register(c) \/ Fails(c)
             \/ UnlockClient(c) \/ CloseReturns(c) \/ UnlockDaemon(c) \/ BeyondBound(c)
    <3>1. UNCHANGED <<clean, responseChan, pending>>
      BY <2>1
      DEF Call, LockDaemon, LockClient, Register, Fails, WriteFails, SeesDisconnect, TimesOut, Fail,
          UnlockClient, CloseReturns, UnlockDaemon, BeyondBound, linkVars, historyVars
    <3> QED
      BY <2>1, <3>1, RoomLocks
  <2>2. CASE DrainDone(c)
    BY <2>2, RoomDrainDone
  <2>3. CASE DrainFrame(c)
    <3>1. op[c] \in Op /\ sess[op[c]] \in Session
      BY <1>0, <2>3, UseOfSession DEF DrainFrame, Connected
    <3>2. /\ responseChan[sess[op[c]]] # <<>>
          /\ responseChan' = [responseChan EXCEPT ![sess[op[c]]] = Tail(responseChan[sess[op[c]]])]
          /\ UNCHANGED <<op, sess, pending, clean, pc>> /\ pc[c] = "drain"
      BY <2>3 DEF DrainFrame, callerVars, historyVars
    <3>3. pc'[c] \notin Writing \cup {"register", "prompt"}
      BY <3>2 DEF Writing
    <3> QED
      BY <3>1, <3>2, <3>3, Consumed
  <2>4. CASE Receive(c)
    <3>1. op[c] \in Op /\ sess[op[c]] \in Session
      BY <1>0, <2>4, UseOfSession
      DEF Receive, ReceiveAnswer, ReceivePrompt, ReceiveConfirm, Connected, Waiting
    <3>2. /\ responseChan[sess[op[c]]] # <<>>
          /\ responseChan' = [responseChan EXCEPT ![sess[op[c]]] = Tail(responseChan[sess[op[c]]])]
          /\ UNCHANGED <<op, sess, pending, clean>>
      BY <2>4 DEF Receive, ReceiveAnswer, ReceivePrompt, ReceiveConfirm
    <3>3. \/ pc'[c] \notin Writing \cup {"register", "prompt"}
          \/ pc[c] = "prompt" /\ pc'[c] \in {"prompt", "pdu"}
      BY <1>p, <2>4
      DEF Receive, ReceiveAnswer, ReceivePrompt, ReceiveConfirm, Finish, Goto, Writing
    <3> QED
      BY <3>1, <3>2, <3>3, Consumed
  <2>5. CASE Send(c)
    <3>1. op[c] \in Op /\ sess[op[c]] \in Session /\ pc[c] \in Writing
      BY <1>0, <2>5, UseOfSession DEF Send, Connected, Writing
    <3>2. PICK reply \in CommandReply : Write(op[c], reply)
      BY <2>5 DEF Send
    <3>3. reply \in Reply /\ Len(reply) <= AnswerLength
      BY DEF Reply, CommandReply, Short
    <3>4. UNCHANGED <<op, sess, clean>> /\ pc'[c] = "wait"
      BY <1>p, <2>5 DEF Send, Goto
    <3> QED
      BY <3>1, <3>2, <3>3, <3>4, WriteFits
  <2>6. CASE WriteCmgs(c)
    <3>1. op[c] \in Op /\ sess[op[c]] \in Session /\ pc[c] \in Writing
      BY <1>0, <2>6, UseOfSession DEF WriteCmgs, Connected, Writing
    <3>2. PICK reply \in PromptReply : Write(op[c], reply)
      BY <2>6 DEF WriteCmgs
    <3>3. reply \in Reply /\ Len(reply) <= AnswerLength
      BY DEF Reply, PromptReply, Short
    <3>4. Len(reply) <= 1
      <4>1. Len(<<>>) <= 1 /\ Len(<<"prompt">>) <= 1 /\ Len(<<"error">>) <= 1
        OBVIOUS
      <4> QED
        BY <4>1 DEF PromptReply, Short
    <3>5. UNCHANGED <<op, sess, clean>> /\ pc'[c] = "prompt"
      BY <1>p, <2>6 DEF WriteCmgs, Goto
    <3> QED
      BY <3>1, <3>2, <3>3, <3>4, <3>5, WriteFits
  <2>7. CASE WritePdu(c)
    <3>1. op[c] \in Op /\ sess[op[c]] \in Session /\ pc[c] \in Writing
      BY <1>0, <2>7, UseOfSession DEF WritePdu, Connected, Writing
    <3>2. PICK reply \in PduReply : Write(op[c], reply)
      BY <2>7 DEF WritePdu
    <3>3. reply \in Reply /\ Len(reply) <= AnswerLength
      BY DEF Reply, PduReply, Short
    <3>4. UNCHANGED <<op, sess, clean>> /\ pc'[c] = "confirm"
      BY <1>p, <2>7 DEF WritePdu, Goto
    <3> QED
      BY <3>1, <3>2, <3>3, <3>4, WriteFits
  <2> QED
    BY <1>1, <2>1, <2>2, <2>3, <2>4, <2>5, <2>6, <2>7 DEF CallerStep, Fails, Receive
<1>2. ASSUME NEW o \in Op, BeginClose(o) \/ FinishClose(o)
      PROVE  Room'
  <2>1. UNCHANGED <<clean, responseChan, pending>>
    BY <1>2 DEF BeginClose, FinishClose, linkVars, historyVars
  <2> QED
    BY <1>2, <2>1, RoomLocks
<1>3. CASE ManagerStep
  BY <1>3, RoomManager
<1> QED
  BY <1>0, <1>1, <1>2, <1>3, StepCases

-----------------------------------------------------------------------------
(* The theorems *)

\* RInv is an inductive invariant.
THEOREM CountedInvariance == Spec => []RInv
<1>1. Init => RInv
  <2> SUFFICES ASSUME Init
               PROVE  Room
    BY InvInit DEF RInv
  <2>1. \A s \in Session : DOMAIN pending[s] = {}
    BY DEF Init
  <2>2. clean = {}
    BY DEF Init
  <2> QED
    BY <2>1, <2>2 DEF Room, Fits, Clear
<1>2. RInv /\ [Next]_vars => RInv'
  BY InvStep, RoomStep DEF RInv
<1> QED
  BY <1>1, <1>2, PTL DEF Spec

\* A buffer that holds an answer has room for every frame owed to an operation that
\* began with no answer outstanding: readerLoop never drops its terminal frame.
THEOREM RoomForAnswers == Spec => []RoomForFreshAnswer
<1>1. RInv => RoomForFreshAnswer
  <2> SUFFICES ASSUME RInv, Cap >= AnswerLength, NEW s \in Session,
                      pending[s] # <<>>, Head(pending[s]).op \in clean
               PROVE  Len(responseChan[s]) < Cap
    BY DEF RoomForFreshAnswer
  <2>1. /\ pending[s] \in Seq(Frame) /\ Len(responseChan[s]) \in Nat
        /\ DOMAIN pending[s] = 1 .. Len(pending[s])
    BY Queues DEF RInv, IInv
  <2>2. 1 \in DOMAIN pending[s] /\ Head(pending[s]) = pending[s][1]
    BY <2>1, HeadTailProperties, EmptySeq, LenProperties
  <2>3. Len(responseChan[s]) + 1 <= AnswerLength
    BY <2>2 DEF RInv, Room, Fits
  <2> QED
    BY <2>1, <2>3, BoundsAssumption, AnswerAssumption DEF BoundsAssumption, AnswerAssumption
<1> QED
  BY <1>1, CountedInvariance, PTL
=============================================================================
