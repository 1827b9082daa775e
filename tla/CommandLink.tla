---------------------------- MODULE CommandLink ----------------------------
(***************************************************************************)
(* The path of an AT command from the daemon's callers to the modem:       *)
(* client/client.go (reconnect loop, reader loop, sendCommand and the      *)
(* interactive session), the command mutex of daemon/daemon.go, and the    *)
(* exchange of one SMS part in commands/sms.go.                            *)
(*                                                                         *)
(* An operation is one stay in the daemon's command mutex; operations are  *)
(* numbered in the order they obtain it.  A session is one connection;     *)
(* sessions are numbered in the order they are dialled.  Time is not       *)
(* modelled: a timer may fire at any moment after it was armed.            *)
(***************************************************************************)
EXTENDS Integers, Sequences

CONSTANTS Caller,        \* goroutines that call the daemon (handlers, poll loop, OnConnect)
          MaxOps,        \* bound on the operations performed
          MaxSessions,   \* bound on the connections dialled
          Cap,           \* capacity of Session.responseChan (100 in the code)
          AnswerLength   \* bound on the frames of an answer

ASSUME BoundsAssumption ==
  /\ MaxOps \in Nat
  /\ MaxSessions \in Nat
  /\ Cap \in Nat \ {0}

ASSUME AnswerAssumption == AnswerLength \in Nat

Op      == 1 .. MaxOps
Session == 1 .. MaxSessions

FrameKind == {"data", "prompt", "ok", "error"}
Frame     == [op : Op, kind : FrameKind]     \* op: the operation the modem answers
IsTerminalResponse(f) == f.kind \in {"ok", "error"}

Outcome == {"answered", "sent", "refused", "toolong", "offline", "writefail", "dropped", "timeout"}

VARIABLES
  \* the callers
  pc,                \* where each caller stands
  kind,              \* "cmd" for SendCommand, "sms" for an interactive session
  op,                \* the operation a caller performs, 0 if none
  \* the locks and the interactive session
  cmdMutex,          \* Daemon.cmdMutex: the operation that holds it, 0 if free
  cmdMu,             \* Client.cmdMu: the operation that holds it, 0 if free
  activeInteractive, \* Client.activeInteractive: its operation, 0 if nil
  closeOnce,         \* ClientInteractive of each operation: "none", "live", "closing", "closed"
  \* the connection
  session,           \* Client.session, 0 if nil
  loop,              \* where reconnectLoop stands
  target,            \* the interactive session reconnectLoop is about to close, 0 if none
  dialled,           \* the number of sessions dialled
  conn,              \* the connection of each session: "none", "up", "lost", "closed"
  disconnectChan,    \* the sessions whose disconnectChan is closed
  responseChan,      \* the frames buffered for each session
  pending,           \* the frames the modem or the network still owes on each session
  ctxDone,           \* the context is cancelled
  closer,            \* the goroutine that waits for the cancellation: "wait", "done"
  \* history
  ops,               \* operations begun
  sess,              \* the session each operation uses, 0 if none
  outcome,           \* how each operation ended
  got,               \* the operations whose frames each operation consumed
  wire,              \* the last operation that wrote to a connection
  clean,             \* operations that started with no answer outstanding
  accepted           \* SMS parts the modem accepted

callerVars  == <<pc, kind, op>>
lockVars    == <<cmdMutex, cmdMu, activeInteractive, closeOnce>>
loopVars    == <<session, loop, target, dialled, ctxDone, closer>>
linkVars    == <<conn, disconnectChan, responseChan, pending>>
historyVars == <<ops, sess, outcome, got, wire, clean, accepted>>
vars == <<callerVars, lockVars, loopVars, linkVars, historyVars>>

Place == {"idle", "lockDaemon", "lockClient", "drain", "send", "wait", "unlock",
          "register", "cmgs", "prompt", "pdu", "confirm", "close", "release"}

CallerTypes ==
  /\ pc \in [Caller -> Place]
  /\ kind \in [Caller -> {"cmd", "sms"}]
  /\ op \in [Caller -> 0 .. MaxOps]

LockTypes ==
  /\ cmdMutex \in 0 .. MaxOps
  /\ cmdMu \in 0 .. MaxOps
  /\ activeInteractive \in 0 .. MaxOps
  /\ closeOnce \in [Op -> {"none", "live", "closing", "closed"}]

LoopTypes ==
  /\ session \in 0 .. MaxSessions
  /\ loop \in {"top", "dial", "backoff", "install", "read", "clean", "close", "stopped"}
  /\ target \in 0 .. MaxOps
  /\ dialled \in 0 .. MaxSessions
  /\ ctxDone \in BOOLEAN
  /\ closer \in {"wait", "done"}

LinkTypes ==
  /\ conn \in [Session -> {"none", "up", "lost", "closed"}]
  /\ disconnectChan \subseteq Session
  /\ responseChan \in [Session -> Seq(Frame)]
  /\ pending \in [Session -> Seq(Frame)]

HistoryTypes ==
  /\ ops \in 0 .. MaxOps
  /\ sess \in [Op -> 0 .. MaxSessions]
  /\ outcome \in [Op -> Outcome \cup {"none"}]
  /\ got \in [Op -> SUBSET Op]
  /\ wire \in 0 .. MaxOps
  /\ clean \subseteq Op
  /\ accepted \subseteq Op

TypeOK == CallerTypes /\ LockTypes /\ LoopTypes /\ LinkTypes /\ HistoryTypes

Init ==
  /\ pc = [c \in Caller |-> "idle"]
  /\ kind = [c \in Caller |-> "cmd"]
  /\ op = [c \in Caller |-> 0]
  /\ cmdMutex = 0
  /\ cmdMu = 0
  /\ activeInteractive = 0
  /\ closeOnce = [o \in Op |-> "none"]
  /\ session = 0
  /\ loop = "top"
  /\ target = 0
  /\ dialled = 0
  /\ conn = [s \in Session |-> "none"]
  /\ disconnectChan = {}
  /\ responseChan = [s \in Session |-> <<>>]
  /\ pending = [s \in Session |-> <<>>]
  /\ ctxDone = FALSE
  /\ closer = "wait"
  /\ ops = 0
  /\ sess = [o \in Op |-> 0]
  /\ outcome = [o \in Op |-> "none"]
  /\ got = [o \in Op |-> {}]
  /\ wire = 0
  /\ clean = {}
  /\ accepted = {}

-----------------------------------------------------------------------------
(* The modem and the connection, seen from the code's use of them.         *)

\* The answers the code is prepared for; an empty one is a modem that stays silent,
\* one without a terminal frame is cut short.
Short(replies) == {r \in replies : Len(r) <= AnswerLength}
CommandReply   == Short({<<>>, <<"data">>, <<"ok">>, <<"error">>, <<"data", "ok">>})
PromptReply    == Short({<<>>, <<"prompt">>, <<"error">>})
PduReply       == Short({<<>>, <<"ok">>, <<"error">>, <<"data", "ok">>})

Frames(o, kinds) == [i \in DOMAIN kinds |-> [op |-> o, kind |-> kinds[i]]]

\* Operation o writes a request: the modem owes it the frames of reply.  A peer that
\* is gone swallows the request; a connection closed on this side refuses it.
Write(o, reply) ==
  /\ \/ /\ conn[sess[o]] = "up"
        /\ pending' = [pending EXCEPT ![sess[o]] = @ \o Frames(o, reply)]
     \/ /\ conn[sess[o]] = "lost"
        /\ reply = <<>>
        /\ UNCHANGED pending
  /\ wire' = o
  /\ UNCHANGED <<conn, disconnectChan, responseChan>>

-----------------------------------------------------------------------------
(* A call: Daemon.SendCommandWithTimeout or Daemon.StartInteractive.       *)

Goto(c, place) == pc' = [pc EXCEPT ![c] = place]

Finish(c, result, place) ==
  /\ outcome' = [outcome EXCEPT ![op[c]] = result]
  /\ Goto(c, place)

Call(c, k) ==
  /\ pc[c] = "idle"
  /\ ops < MaxOps
  /\ kind' = [kind EXCEPT ![c] = k]
  /\ Goto(c, "lockDaemon")
  /\ UNCHANGED <<op, lockVars, loopVars, linkVars, historyVars>>

\* A fault: the daemon's mutex is not taken.
LockDaemonWithoutMutex(c) ==
  /\ pc[c] = "lockDaemon"
  /\ ops < MaxOps
  /\ ops' = ops + 1
  /\ cmdMutex' = ops'
  /\ op' = [op EXCEPT ![c] = ops']
  /\ Goto(c, "lockClient")
  /\ UNCHANGED <<kind, cmdMu, activeInteractive, closeOnce, loopVars, linkVars,
                 sess, outcome, got, wire, clean, accepted>>

LockDaemon(c) ==
  /\ pc[c] = "lockDaemon"
  /\ cmdMutex = 0
  /\ ops < MaxOps
  /\ ops' = ops + 1
  /\ cmdMutex' = ops'
  /\ op' = [op EXCEPT ![c] = ops']
  /\ Goto(c, "lockClient")
  /\ UNCHANGED <<kind, cmdMu, activeInteractive, closeOnce, loopVars, linkVars,
                 sess, outcome, got, wire, clean, accepted>>

\* The bound: a call after the last operation is given up before it begins.
BeyondBound(c) ==
  /\ pc[c] = "lockDaemon"
  /\ ops = MaxOps
  /\ Goto(c, "idle")
  /\ kind' = [kind EXCEPT ![c] = "cmd"]
  /\ UNCHANGED <<op, lockVars, loopVars, linkVars, historyVars>>

\* A fault: the offline path returns without giving the daemon's mutex back.
LockClientLeaksMutex(c) ==
  /\ pc[c] = "lockClient"
  /\ cmdMu = 0
  /\ IF session = 0
       THEN Finish(c, "offline", "idle") /\ UNCHANGED <<cmdMu, sess>>
       ELSE /\ cmdMu' = op[c]
            /\ sess' = [sess EXCEPT ![op[c]] = session]
            /\ Goto(c, "drain")
            /\ UNCHANGED outcome
  /\ UNCHANGED <<kind, op, cmdMutex, activeInteractive, closeOnce, loopVars,
                 linkVars, ops, got, wire, clean, accepted>>

\* A command that is too long is refused before any lock of the client.  Otherwise takes
\* Client.cmdMu and reads Client.session; offline gives cmdMu back at once.
LockClient(c) ==
  /\ pc[c] = "lockClient"
  /\ \/ /\ kind[c] = "cmd"
        /\ Finish(c, "toolong", "release")
        /\ UNCHANGED <<cmdMu, sess>>
     \/ /\ cmdMu = 0
        /\ session = 0
        /\ Finish(c, "offline", "release")
        /\ UNCHANGED <<cmdMu, sess>>
     \/ /\ cmdMu = 0
        /\ session # 0
        /\ cmdMu' = op[c]
        /\ sess' = [sess EXCEPT ![op[c]] = session]
        /\ Goto(c, "drain")
        /\ UNCHANGED outcome
  /\ UNCHANGED <<kind, op, cmdMutex, activeInteractive, closeOnce, loopVars,
                 linkVars, ops, got, wire, clean, accepted>>

\* One turn of the drain loop: discard a buffered frame.
DrainFrame(c) ==
  /\ pc[c] = "drain"
  /\ responseChan[sess[op[c]]] # <<>>
  /\ responseChan' = [responseChan EXCEPT ![sess[op[c]]] = Tail(@)]
  /\ UNCHANGED <<callerVars, lockVars, loopVars, conn, disconnectChan, pending, historyVars>>

\* A fault: stale frames are left in the buffer.
DrainSkipped(c) ==
  /\ pc[c] = "drain"
  /\ clean' = IF pending[sess[op[c]]] = <<>> THEN clean \cup {op[c]} ELSE clean
  /\ Goto(c, IF kind[c] = "cmd" THEN "send" ELSE "register")
  /\ UNCHANGED <<kind, op, lockVars, loopVars, linkVars,
                 ops, sess, outcome, got, wire, accepted>>

\* The drain loop ends when it finds the buffer empty.
DrainDone(c) ==
  /\ pc[c] = "drain"
  /\ responseChan[sess[op[c]]] = <<>>
  /\ clean' = IF pending[sess[op[c]]] = <<>> THEN clean \cup {op[c]} ELSE clean
  /\ Goto(c, IF kind[c] = "cmd" THEN "send" ELSE "register")
  /\ UNCHANGED <<kind, op, lockVars, loopVars, linkVars,
                 ops, sess, outcome, got, wire, accepted>>

Send(c) ==
  /\ pc[c] = "send"
  /\ \E reply \in CommandReply : Write(op[c], reply)
  /\ Goto(c, "wait")
  /\ UNCHANGED <<kind, op, lockVars, loopVars,
                 ops, sess, outcome, got, clean, accepted>>

\* sendCommand reads frames until a terminal one; an ERROR is an answer like any other.
ReceiveAnswer(c) ==
  LET s == sess[op[c]] IN
  /\ pc[c] = "wait"
  /\ responseChan[s] # <<>>
  /\ responseChan' = [responseChan EXCEPT ![s] = Tail(@)]
  /\ got' = [got EXCEPT ![op[c]] = @ \cup {Head(responseChan[s]).op}]
  /\ IF IsTerminalResponse(Head(responseChan[s]))
       THEN Finish(c, "answered", "unlock")
       ELSE UNCHANGED <<pc, outcome>>
  /\ UNCHANGED <<kind, op, lockVars, loopVars, conn, disconnectChan, pending,
                 ops, sess, wire, clean, accepted>>

\* The deferred cmdMu.Unlock of sendCommand.
UnlockClient(c) ==
  /\ pc[c] = "unlock"
  /\ cmdMu' = 0
  /\ Goto(c, "release")
  /\ UNCHANGED <<kind, op, cmdMutex, activeInteractive, closeOnce, loopVars,
                 linkVars, historyVars>>

\* The daemon gives its mutex back and the call returns.
UnlockDaemon(c) ==
  /\ pc[c] = "release"
  /\ cmdMutex' = 0
  /\ op' = [op EXCEPT ![c] = 0]
  /\ kind' = [kind EXCEPT ![c] = "cmd"]
  /\ Goto(c, "idle")
  /\ UNCHANGED <<cmdMu, activeInteractive, closeOnce, loopVars, linkVars, historyVars>>

-----------------------------------------------------------------------------
(* The interactive session: one SMS part of commands.SendSMS.              *)

\* A fault: StartInteractive unlocks the daemon's mutex when it returns.
RegisterUnlocksDaemon(c) ==
  /\ pc[c] = "register"
  /\ closeOnce' = [closeOnce EXCEPT ![op[c]] = "live"]
  /\ activeInteractive' = op[c]
  /\ cmdMutex' = 0
  /\ Goto(c, "cmgs")
  /\ UNCHANGED <<kind, op, cmdMu, loopVars, linkVars, historyVars>>

\* StartInteractive creates the session, arms its idle timer and registers it.
Register(c) ==
  /\ pc[c] = "register"
  /\ closeOnce' = [closeOnce EXCEPT ![op[c]] = "live"]
  /\ activeInteractive' = op[c]
  /\ Goto(c, "cmgs")
  /\ UNCHANGED <<kind, op, cmdMutex, cmdMu, loopVars, linkVars, historyVars>>

WriteCmgs(c) ==
  /\ pc[c] = "cmgs"
  /\ \E reply \in PromptReply : Write(op[c], reply)
  /\ Goto(c, "prompt")
  /\ UNCHANGED <<kind, op, lockVars, loopVars,
                 ops, sess, outcome, got, clean, accepted>>

ReceivePrompt(c) ==
  LET s == sess[op[c]] IN
  /\ pc[c] = "prompt"
  /\ responseChan[s] # <<>>
  /\ responseChan' = [responseChan EXCEPT ![s] = Tail(@)]
  /\ got' = [got EXCEPT ![op[c]] = @ \cup {Head(responseChan[s]).op}]
  /\ CASE Head(responseChan[s]).kind = "prompt" -> Goto(c, "pdu") /\ UNCHANGED outcome
       [] IsTerminalResponse(Head(responseChan[s])) -> Finish(c, "refused", "close")
       [] OTHER -> UNCHANGED <<pc, outcome>>
  /\ UNCHANGED <<kind, op, lockVars, loopVars, conn, disconnectChan, pending,
                 ops, sess, wire, clean, accepted>>

\* The modem that will answer OK has accepted the part.
WritePdu(c) ==
  /\ pc[c] = "pdu"
  /\ \E reply \in PduReply :
       /\ Write(op[c], reply)
       /\ accepted' = IF \E i \in DOMAIN reply : reply[i] = "ok"
                        THEN accepted \cup {op[c]} ELSE accepted
  /\ Goto(c, "confirm")
  /\ UNCHANGED <<kind, op, lockVars, loopVars, ops, sess, outcome, got, clean>>

\* A fault: any terminal frame counts as a confirmation.
ReceiveAnyConfirm(c) ==
  LET s == sess[op[c]] IN
  /\ pc[c] = "confirm"
  /\ responseChan[s] # <<>>
  /\ responseChan' = [responseChan EXCEPT ![s] = Tail(@)]
  /\ got' = [got EXCEPT ![op[c]] = @ \cup {Head(responseChan[s]).op}]
  /\ IF IsTerminalResponse(Head(responseChan[s]))
       THEN Finish(c, "sent", "close")
       ELSE UNCHANGED <<pc, outcome>>
  /\ UNCHANGED <<kind, op, lockVars, loopVars, conn, disconnectChan, pending,
                 ops, sess, wire, clean, accepted>>

ReceiveConfirm(c) ==
  LET s == sess[op[c]] IN
  /\ pc[c] = "confirm"
  /\ responseChan[s] # <<>>
  /\ responseChan' = [responseChan EXCEPT ![s] = Tail(@)]
  /\ got' = [got EXCEPT ![op[c]] = @ \cup {Head(responseChan[s]).op}]
  /\ CASE Head(responseChan[s]).kind = "ok"    -> Finish(c, "sent", "close")
       [] Head(responseChan[s]).kind = "error" -> Finish(c, "refused", "close")
       [] OTHER -> UNCHANGED <<pc, outcome>>
  /\ UNCHANGED <<kind, op, lockVars, loopVars, conn, disconnectChan, pending,
                 ops, sess, wire, clean, accepted>>

\* Faults: every Close runs the function; the second forgets that cmdMu has moved on,
\* the first unlocks a mutex that is not locked.
CloseNotOnce(o) ==
  /\ closeOnce[o] # "none"
  /\ closeOnce' = [closeOnce EXCEPT ![o] = "closing"]
  /\ cmdMu' = 0
  /\ UNCHANGED <<callerVars, cmdMutex, activeInteractive, loopVars, linkVars, historyVars>>

CloseUnlocksAgain(o) ==
  /\ closeOnce[o] # "none"
  /\ closeOnce' = [closeOnce EXCEPT ![o] = "closing"]
  /\ cmdMu' = cmdMu - o
  /\ UNCHANGED <<callerVars, cmdMutex, activeInteractive, loopVars, linkVars, historyVars>>

\* closeOnce runs its function for the first of the sender, the idle timer and the
\* reconnect loop: cmdMu is unlocked first, activeInteractive cleared afterwards.
BeginClose(o) ==
  /\ closeOnce[o] = "live"
  /\ closeOnce' = [closeOnce EXCEPT ![o] = "closing"]
  /\ cmdMu' = 0
  /\ UNCHANGED <<callerVars, cmdMutex, activeInteractive, loopVars, linkVars, historyVars>>

FinishClose(o) ==
  /\ closeOnce[o] = "closing"
  /\ closeOnce' = [closeOnce EXCEPT ![o] = "closed"]
  /\ activeInteractive' = IF activeInteractive = o THEN 0 ELSE activeInteractive
  /\ UNCHANGED <<callerVars, cmdMutex, cmdMu, loopVars, linkVars, historyVars>>

SenderCloses(c) == pc[c] = "close" /\ BeginClose(op[c])

\* A fault: a flag instead of a sync.Once, so that the second Close does not wait.
CloseReturnsEarly(c) ==
  /\ pc[c] = "close"
  /\ closeOnce[op[c]] # "live"
  /\ Goto(c, "release")
  /\ UNCHANGED <<kind, op, lockVars, loopVars, linkVars, historyVars>>

\* closeOnce.Do returns to every caller only when its function has run.
CloseReturns(c) ==
  /\ pc[c] = "close"
  /\ closeOnce[op[c]] = "closed"
  /\ Goto(c, "release")
  /\ UNCHANGED <<kind, op, lockVars, loopVars, linkVars, historyVars>>

IdleFires(o) == BeginClose(o)

-----------------------------------------------------------------------------
(* The ways a call fails, alike in sendCommand and in the interactive      *)
(* session: both then give their locks back.                               *)

Writing == {"send", "cmgs", "pdu"}
Waiting == {"wait", "prompt", "confirm"}
GiveBack(c) == IF kind[c] = "cmd" THEN "unlock" ELSE "close"

Fail(c, result) ==
  /\ Finish(c, result, GiveBack(c))
  /\ UNCHANGED <<kind, op, lockVars, loopVars, linkVars,
                 ops, sess, got, wire, clean, accepted>>

\* The write deadline passes or the connection is closed.
WriteFails(c) == pc[c] \in Writing /\ Fail(c, "writefail")

\* A fault: ReadFrame does not select on disconnectChan.
SeesDisconnectInCommand(c) ==
  /\ pc[c] = "wait"
  /\ sess[op[c]] \in disconnectChan
  /\ Fail(c, "dropped")

\* select takes the closed disconnectChan even if frames are buffered.
SeesDisconnect(c) ==
  /\ pc[c] \in Waiting
  /\ sess[op[c]] \in disconnectChan
  /\ Fail(c, "dropped")

TimesOut(c) == pc[c] \in Waiting /\ Fail(c, "timeout")

-----------------------------------------------------------------------------
(* reconnectLoop and readerLoop.                                           *)

LoopTop ==
  /\ loop = "top"
  /\ loop' = IF ctxDone THEN "stopped" ELSE "dial"
  /\ UNCHANGED <<callerVars, lockVars, session, target, dialled, ctxDone, closer,
                 linkVars, historyVars>>

DialSucceeds ==
  /\ loop = "dial"
  /\ ~ctxDone
  /\ dialled < MaxSessions
  /\ dialled' = dialled + 1
  /\ conn' = [conn EXCEPT ![dialled'] = "up"]
  /\ loop' = "install"
  /\ UNCHANGED <<callerVars, lockVars, session, target, ctxDone, closer,
                 disconnectChan, responseChan, pending, historyVars>>

DialFails ==
  /\ loop = "dial"
  /\ loop' = "backoff"
  /\ UNCHANGED <<callerVars, lockVars, session, target, dialled, ctxDone, closer,
                 linkVars, historyVars>>

\* The three-second pause ends, or the cancellation ends it.
Backoff ==
  /\ loop = "backoff"
  /\ \/ loop' = "top"
     \/ ctxDone /\ loop' = "stopped"
  /\ UNCHANGED <<callerVars, lockVars, session, target, dialled, ctxDone, closer,
                 linkVars, historyVars>>

Install ==
  /\ loop = "install"
  /\ session' = dialled
  /\ loop' = "read"
  /\ UNCHANGED <<callerVars, lockVars, target, dialled, ctxDone, closer, linkVars, historyVars>>

\* The reader hands the next frame to responseChan, or drops it when the buffer is full.
ReadFrame ==
  LET s == dialled IN
  /\ loop = "read"
  /\ pending[s] # <<>>
  /\ pending' = [pending EXCEPT ![s] = Tail(@)]
  /\ responseChan' = IF Len(responseChan[s]) < Cap
                       THEN [responseChan EXCEPT ![s] = Append(@, Head(pending[s]))]
                       ELSE responseChan
  /\ UNCHANGED <<callerVars, lockVars, loopVars, conn, disconnectChan, historyVars>>

LinkLost ==
  /\ loop \in {"install", "read"}
  /\ conn[dialled] = "up"
  /\ conn' = [conn EXCEPT ![dialled] = "lost"]
  /\ UNCHANGED <<callerVars, lockVars, loopVars, disconnectChan, responseChan, pending,
                 historyVars>>

\* A fault: the bytes received are kept in the client and parsed after the next dial.
ReaderKeepsBuffer ==
  /\ loop = "read"
  /\ conn[dialled] \in {"lost", "closed"}
  /\ conn' = [conn EXCEPT ![dialled] = "closed"]
  /\ disconnectChan' = disconnectChan \cup {dialled}
  /\ pending' = [s \in Session |-> CASE s = dialled     -> <<>>
                                     [] s = dialled + 1 -> pending[dialled]
                                     [] OTHER           -> pending[s]]
  /\ loop' = "clean"
  /\ UNCHANGED <<callerVars, lockVars, session, target, dialled, ctxDone, closer,
                 responseChan, historyVars>>

\* conn.Read fails: the deferred calls close the connection, then disconnectChan.
ReaderStops ==
  /\ loop = "read"
  /\ conn[dialled] \in {"lost", "closed"}
  /\ conn' = [conn EXCEPT ![dialled] = "closed"]
  /\ disconnectChan' = disconnectChan \cup {dialled}
  /\ pending' = [pending EXCEPT ![dialled] = <<>>]
  /\ loop' = "clean"
  /\ UNCHANGED <<callerVars, lockVars, session, target, dialled, ctxDone, closer,
                 responseChan, historyVars>>

\* A fault: the interactive session of a dropped connection is left open.
CleanupForgetsInteractive ==
  /\ loop = "clean"
  /\ session' = IF session = dialled THEN 0 ELSE session
  /\ target' = 0
  /\ loop' = "top"
  /\ UNCHANGED <<callerVars, lockVars, dialled, ctxDone, closer, linkVars, historyVars>>

\* Forget the session and pick the interactive session that was using it.
Cleanup ==
  /\ loop = "clean"
  /\ session' = IF session = dialled THEN 0 ELSE session
  /\ IF activeInteractive # 0 /\ sess[activeInteractive] = dialled
       THEN target' = activeInteractive /\ loop' = "close"
       ELSE target' = 0 /\ loop' = "top"
  /\ UNCHANGED <<callerVars, lockVars, dialled, ctxDone, closer, linkVars, historyVars>>

LoopCloses == loop = "close" /\ BeginClose(target)

LoopCloseReturns ==
  /\ loop = "close"
  /\ closeOnce[target] = "closed"
  /\ target' = 0
  /\ loop' = "top"
  /\ UNCHANGED <<callerVars, lockVars, session, dialled, ctxDone, closer, linkVars, historyVars>>

\* The program shuts down.
Cancel ==
  /\ ~ctxDone
  /\ ctxDone' = TRUE
  /\ UNCHANGED <<callerVars, lockVars, session, loop, target, dialled, closer,
                 linkVars, historyVars>>

\* The goroutine that waits for the cancellation closes the installed connection.
CloserRuns ==
  /\ closer = "wait"
  /\ ctxDone
  /\ closer' = "done"
  /\ conn' = IF session # 0 THEN [conn EXCEPT ![session] = "closed"] ELSE conn
  /\ UNCHANGED <<callerVars, lockVars, session, loop, target, dialled, ctxDone,
                 disconnectChan, responseChan, pending, historyVars>>

\* The program is shut down and nobody calls any more.
AllQuiet ==
  /\ loop = "stopped"
  /\ closer = "done"
  /\ ops = MaxOps
  /\ \A c \in Caller : pc[c] = "idle"
  /\ UNCHANGED vars

-----------------------------------------------------------------------------
Receive(c) == ReceiveAnswer(c) \/ ReceivePrompt(c) \/ ReceiveConfirm(c)

\* What a caller does inside a call apart from taking the locks.
Work(c) ==
  \/ DrainFrame(c) \/ DrainDone(c) \/ Register(c)
  \/ Send(c) \/ WriteCmgs(c) \/ WritePdu(c) \/ WriteFails(c)
  \/ Receive(c) \/ SeesDisconnect(c)
  \/ UnlockClient(c) \/ SenderCloses(c) \/ CloseReturns(c) \/ UnlockDaemon(c) \/ BeyondBound(c)

CallerNext(c) ==
  \/ \E k \in {"cmd", "sms"} : Call(c, k)
  \/ LockDaemon(c) \/ LockClient(c) \/ Work(c) \/ TimesOut(c)

LoopNext ==
  \/ LoopTop \/ DialSucceeds \/ DialFails \/ Backoff \/ Install \/ ReadFrame
  \/ ReaderStops \/ Cleanup \/ LoopCloses \/ LoopCloseReturns

Next ==
  \/ \E c \in Caller : CallerNext(c)
  \/ LoopNext
  \/ \E o \in Op : IdleFires(o) \/ FinishClose(o)
  \/ LinkLost \/ Cancel \/ CloserRuns
  \/ AllQuiet

Spec == Init /\ [][Next]_vars

-----------------------------------------------------------------------------
(* Safety.                                                                 *)

\* daemon.go:23 "Ensures serial execution of AT commands": on the wire the requests of
\* an operation are contiguous; once a later operation has written, no earlier one does.
\* The idle timer and the reconnect loop may release cmdMu in the middle of an exchange.
Contiguous == [][wire' >= wire]_vars

\* No goroutine unlocks a mutex its operation does not hold (a fatal error in Go, or the
\* release of someone else's turn), whoever of the sender, the idle timer and the
\* reconnect loop wins the race to close the interactive session.
UnlocksWhatItHolds ==
  /\ \A c \in Caller : pc[c] = "unlock" => cmdMu = op[c]
  /\ \A c \in Caller : pc[c] = "release" => cmdMutex = op[c] /\ cmdMu = 0
  /\ \A o \in Op : closeOnce[o] = "live" => cmdMu = o

\* The registered interactive session is the one of the operation whose turn it is: no
\* session outlives its turn in activeInteractive, and none is overwritten.
ActiveIsCurrent ==
  activeInteractive # 0 =>
    /\ activeInteractive = cmdMutex
    /\ closeOnce[activeInteractive] \in {"live", "closing"}

\* An operation that began with no answer outstanding consumes only its own answer.
FreshAnswers == \A o \in clean : got[o] \subseteq {o}

\* A reconnect never carries an answer over: what an operation consumes was asked for
\* on the connection the operation uses.
AnswersStayOnTheirConnection == \A o \in Op : \A p \in got[o] : sess[p] = sess[o]

\* SendSMS reports a part as sent only if the modem accepted that part, when no answer
\* was outstanding before it.
ConfirmedMeansAccepted ==
  \A o \in clean : outcome[o] = "sent" => o \in accepted

\* The buffer of readerLoop has room for every frame owed to an operation that began
\* with no answer outstanding, if it is as long as an answer: its terminal frame is not
\* among those the full buffer drops.
RoomForFreshAnswer ==
  Cap >= AnswerLength =>
    \A s \in Session :
      pending[s] # <<>> /\ Head(pending[s]).op \in clean => Len(responseChan[s]) < Cap

\* The daemon's promise: SerialLink, an operation's turn being its stay in cmdMutex.
Link == INSTANCE SerialLink WITH
  Result   <- Outcome,
  Answered <- {"answered", "sent"},
  begun    <- ops,
  owner    <- cmdMutex,
  result   <- [o \in Op |-> IF o = cmdMutex THEN "none" ELSE outcome[o]]

ImplementsSerialLink == Link!LinkSpec

-----------------------------------------------------------------------------
(* What comments in the code say and the code does not do.                 *)

\* client.go:238 "sends a command ... and waits for response", client.go:271 "Drain any
\* stale messages from response buffer": the answer a call returns is its own.
ResponseIsOwn == \A o \in Op : outcome[o] = "answered" => got[o] \subseteq {o}

\* client.go:88 "Close connection on context cancellation to wake up readerLoop": once
\* that goroutine has run, the reader does not block on a connection left open.
CancelWakesReader == closer = "done" /\ loop = "read" => conn[dialled] = "closed"

-----------------------------------------------------------------------------
(* Liveness.                                                               *)

\* A close that has begun ends, whichever goroutine runs it.
CloseFairness == WF_vars(\E o \in Op : FinishClose(o))

\* The callers' goroutines run while they can, and Go's mutexes hand over to a waiter
\* that starves.  With timers, a waiting caller may always go on.
Runs(c) == LockClient(c) \/ Work(c)
CallerFairness == \A c \in Caller : SF_vars(LockDaemon(c)) /\ WF_vars(Runs(c))
TimedFairness  == \A c \in Caller : SF_vars(LockDaemon(c)) /\ WF_vars(Runs(c) \/ TimesOut(c))

\* Only the connection manager is relied on: the callers may hang.
ManagedSpec == Spec /\ CloseFairness /\ WF_vars(LoopNext)

\* Only the callers and their timers are relied on: the connection manager may hang.
TimedSpec == Spec /\ CloseFairness /\ TimedFairness

\* A registered interactive session whose connection dropped is closed, and cmdMu freed,
\* by the reconnect loop alone, even if its sender hangs.
DropClosesInteractive ==
  \A o \in Op :
    loop = "clean" /\ activeInteractive = o /\ sess[o] = dialled ~> closeOnce[o] = "closed"

\* A call that waits on a connection that dropped returns, if the callers run but no
\* timer ever fires.
DropWakesCaller ==
  CallerFairness =>
    \A c \in Caller :
      pc[c] \in Waiting /\ sess[op[c]] \in disconnectChan ~> pc[c] = "idle"

\* Every call returns, whatever the modem, the connection and its
\* manager do, because its timers fire.
EveryCallReturns == \A c \in Caller : pc[c] = "lockDaemon" ~> pc[c] = "idle"
=============================================================================
