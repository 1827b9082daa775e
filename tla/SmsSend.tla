------------------------------ MODULE SmsSend ------------------------------
(***************************************************************************)
(* commands.SendSMS over the turns of SerialLink: the modem is put in PDU  *)
(* mode in one turn, and every part of the message is an exchange of its   *)
(* own (AT+CMGS, the prompt, the PDU, the confirmation).  Between the      *)
(* turns other callers talk to the modem, which answers the requests in    *)
(* order but at any time, and takes what follows a prompt for the text.    *)
(*                                                                         *)
(* CommandLink models a turn in detail.  Here a turn begins with an empty  *)
(* response buffer, and what an earlier turn gave up waiting for may still *)
(* arrive in it.                                                           *)
(***************************************************************************)
EXTENDS Naturals, Sequences, SequencesExt

CONSTANTS Sender,       \* goroutines that send one message each
          Other,        \* any other caller of Daemon.SendCommand
          Nobody,
          MaxParts,     \* bound on the parts of a message
          MaxCommands,  \* bound on the commands of Other
          MaxRefusals,  \* bound on the ERROR answers of the modem
          MaxDrops      \* bound on the connections that drop

ASSUME SendAssumption ==
  /\ Other \notin Sender
  /\ Nobody \notin Sender \cup {Other}
  /\ MaxParts \in Nat \ {0}
  /\ {MaxCommands, MaxRefusals, MaxDrops} \subseteq Nat

Caller == Sender \cup {Other}
Part   == [by : Sender, part : 1 .. MaxParts]

\* What is written to the modem; lost: its answer will not be read, since the
\* connection dropped after it had arrived.  A list of messages starts with AT+CMGF=0 as well.
Request == [ask : {"AT+CMGF=0", "AT+CMGF=1", "AT+QMAP=?", "AT+CMGS", "PDU"},
            by : Caller, part : 0 .. MaxParts, lost : BOOLEAN]

\* A frame: the request it belongs to, whether a '>' is in it, and how it ends.
Frame == [of : Request, bracket : BOOLEAN, end : {"", "OK", "ERROR"}]

VARIABLES
  \* the callers
  pc,        \* where each caller stands
  parts,     \* the number of parts of each sender's message
  part,      \* the part it is at
  result,    \* what SendSMS returned: "", "sent", "error"
  turn,      \* the holder of Daemon.cmdMutex
  inbox,     \* the frames in responseChan
  \* the modem
  requests,  \* what it has not looked at yet
  mode,      \* its message format, AT+CMGF
  asked,     \* the part it has prompted for; Nobody when it takes commands
  typed,     \* whether something else than one PDU followed the prompt
  \* bounds
  commands, refusals, drops,
  \* history
  accepted,  \* the parts of each sender's message that the modem has sent, in order
  garbled,   \* the senders whose PDU it has sent as if it were a text
  misled,    \* the senders that took another frame for their prompt
  abandoned, \* the parts whose prompt was given up or whose PDU was lost
  disturbed  \* whether another caller, a refusal or a loss has left text mode on

callVars    == <<pc, parts, part, result>>
modemVars   == <<mode, asked, typed>>
boundVars   == <<commands, refusals, drops>>
sentVars    == <<accepted, garbled>>
historyVars == <<misled, abandoned>>
vars == <<callVars, turn, inbox, requests, modemVars, boundVars, sentVars, historyVars, disturbed>>

Waiting == {"mode", "prompt", "confirm", "answer"}

TypeOK ==
  /\ pc \in [Caller -> Waiting \cup {"idle", "begin", "next"}]
  /\ parts \in [Sender -> 0 .. MaxParts]
  /\ part \in [Sender -> 0 .. MaxParts]
  /\ result \in [Sender -> {"", "sent", "error"}]
  /\ turn \in Caller \cup {Nobody}
  /\ inbox \in Seq(Frame)
  /\ requests \in Seq(Request)
  /\ mode \in {"pdu", "text"}
  /\ asked \in Part \cup {Nobody}
  /\ typed \in BOOLEAN
  /\ commands \in 0 .. MaxCommands
  /\ refusals \in 0 .. MaxRefusals
  /\ drops \in 0 .. MaxDrops
  /\ accepted \in [Sender -> Seq(1 .. MaxParts)]
  /\ garbled \in SUBSET Sender
  /\ misled \in SUBSET Sender
  /\ abandoned \in SUBSET Part
  /\ disturbed \in BOOLEAN

Init ==
  /\ pc = [c \in Caller |-> "idle"]
  /\ parts = [c \in Sender |-> 0]
  /\ part = [c \in Sender |-> 0]
  /\ result = [c \in Sender |-> ""]
  /\ turn = Nobody
  /\ inbox = <<>>
  /\ requests = <<>>
  /\ mode \in {"pdu", "text"}
  /\ asked = Nobody
  /\ typed = FALSE
  /\ commands = 0
  /\ refusals = 0
  /\ drops = 0
  /\ accepted = [c \in Sender |-> <<>>]
  /\ garbled = {}
  /\ misled = {}
  /\ abandoned = {}
  /\ disturbed = FALSE

Goto(c, place) == pc' = [pc EXCEPT ![c] = place]

Write(c, ask, i) ==
  requests' = Append(requests, [ask |-> ask, by |-> c, part |-> i, lost |-> FALSE])

\* Sender c gives up the prompt of the part it is at.
Abandon(c) == abandoned' = abandoned \cup {[by |-> c, part |-> part[c]]}

\* A turn: the mutex, the drained buffer and the first request.
Open(c, ask, i) ==
  /\ turn = Nobody
  /\ turn' = c
  /\ inbox' = <<>>
  /\ Write(c, ask, i)

-----------------------------------------------------------------------------
(* SendSMS *)

\* Fault variant: the modem is taken to be in PDU mode.
SendWithoutMode(c, n) ==
  /\ pc[c] = "idle" /\ result[c] = ""
  /\ parts' = [parts EXCEPT ![c] = n]
  /\ part' = [part EXCEPT ![c] = 1]
  /\ Goto(c, "next")
  /\ UNCHANGED <<result, turn, inbox, requests, modemVars, boundVars, sentVars, historyVars, disturbed>>

SendSMS(c, n) ==
  /\ pc[c] = "idle" /\ result[c] = ""
  /\ parts' = [parts EXCEPT ![c] = n]
  /\ Goto(c, "begin")
  /\ UNCHANGED <<part, result, turn, inbox, requests, modemVars, boundVars, sentVars, historyVars, disturbed>>

SetMode(c) ==
  /\ pc[c] = "begin"
  /\ Open(c, "AT+CMGF=0", 0)
  /\ Goto(c, "mode")
  /\ UNCHANGED <<parts, part, result, modemVars, boundVars, sentVars, historyVars, disturbed>>

\* The call returns: pc is left at "idle" and the turn is over.
Return(c, r) ==
  /\ result' = [result EXCEPT ![c] = r]
  /\ Goto(c, "idle")

\* Any terminal answer will do, ERROR too.
ReadMode(c) ==
  /\ pc[c] = "mode" /\ inbox # <<>>
  /\ inbox' = Tail(inbox)
  /\ IF Head(inbox).end = "" THEN UNCHANGED <<turn, pc, part>>
     ELSE turn' = Nobody /\ Goto(c, "next") /\ part' = [part EXCEPT ![c] = 1]
  /\ UNCHANGED <<parts, result, requests, modemVars, boundVars, sentVars, historyVars, disturbed>>

StartPart(c) ==
  /\ pc[c] = "next"
  /\ Open(c, "AT+CMGS", part[c])
  /\ Goto(c, "prompt")
  /\ UNCHANGED <<parts, part, result, modemVars, boundVars, sentVars, historyVars, disturbed>>

\* The frame belongs to the AT+CMGS that c is waiting for.
Own(c, frame) ==
  frame.of.by = c /\ frame.of.ask = "AT+CMGS" /\ frame.of.part = part[c]

\* Fault variant: the first frame must be the prompt.
ReadPromptOnce(c) ==
  LET frame == Head(inbox) IN
  /\ pc[c] = "prompt" /\ inbox # <<>>
  /\ inbox' = Tail(inbox)
  /\ \/ /\ frame.bracket
        /\ Write(c, "PDU", part[c])
        /\ Goto(c, "confirm")
        /\ misled' = IF Own(c, frame) THEN misled ELSE misled \cup {c}
        /\ UNCHANGED <<result, turn, abandoned>>
     \/ /\ ~frame.bracket
        /\ Return(c, "error")
        /\ turn' = Nobody
        /\ IF Own(c, frame) THEN UNCHANGED abandoned ELSE Abandon(c)
        /\ UNCHANGED <<requests, misled>>
  /\ UNCHANGED <<parts, part, modemVars, boundVars, sentVars, disturbed>>

\* A '>' anywhere in a frame is looked for first, a terminal answer after it.
ReadPrompt(c) ==
  LET frame == Head(inbox) IN
  /\ pc[c] = "prompt" /\ inbox # <<>>
  /\ inbox' = Tail(inbox)
  /\ \/ /\ frame.bracket
        /\ Write(c, "PDU", part[c])
        /\ Goto(c, "confirm")
        /\ misled' = IF Own(c, frame) THEN misled ELSE misled \cup {c}
        /\ UNCHANGED <<result, turn, abandoned>>
     \/ /\ ~frame.bracket /\ frame.end # ""
        /\ Return(c, "error")
        /\ turn' = Nobody
        /\ IF Own(c, frame) THEN UNCHANGED abandoned ELSE Abandon(c)
        /\ UNCHANGED <<requests, misled>>
     \/ /\ ~frame.bracket /\ frame.end = ""
        /\ UNCHANGED <<pc, result, turn, requests, misled, abandoned>>
  /\ UNCHANGED <<parts, part, modemVars, boundVars, sentVars, disturbed>>

\* Fault variant: any terminal answer counts as a confirmation.
ReadAnyConfirmation(c) ==
  /\ pc[c] = "confirm" /\ inbox # <<>>
  /\ inbox' = Tail(inbox)
  /\ IF Head(inbox).end = "" THEN UNCHANGED <<turn, pc, part, result>>
     ELSE /\ turn' = Nobody
          /\ IF part[c] = parts[c]
             THEN Return(c, "sent") /\ UNCHANGED part
             ELSE Goto(c, "next") /\ part' = [part EXCEPT ![c] = @ + 1] /\ UNCHANGED result
  /\ UNCHANGED <<parts, requests, modemVars, boundVars, sentVars, historyVars, disturbed>>

\* Fault variant: off by one at the last part.
ConfirmOneMore(c) ==
  /\ pc[c] = "confirm" /\ inbox # <<>>
  /\ inbox' = Tail(inbox)
  /\ turn' = Nobody
  /\ part' = [part EXCEPT ![c] = @ + 1]
  /\ IF part[c] > parts[c] THEN Return(c, "sent") ELSE Goto(c, "next") /\ UNCHANGED result
  /\ UNCHANGED <<parts, requests, modemVars, boundVars, sentVars, historyVars, disturbed>>

\* A frame that does not end the answer (+CMGS: <mr>) is passed over.
ReadConfirmation(c) ==
  /\ pc[c] = "confirm" /\ inbox # <<>>
  /\ inbox' = Tail(inbox)
  /\ CASE Head(inbox).end = ""      -> UNCHANGED <<turn, pc, part, result>>
       [] Head(inbox).end = "ERROR" -> turn' = Nobody /\ Return(c, "error") /\ UNCHANGED part
       [] Head(inbox).end = "OK"    ->
            /\ turn' = Nobody
            /\ IF part[c] = parts[c]
               THEN Return(c, "sent") /\ UNCHANGED part
               ELSE Goto(c, "next") /\ part' = [part EXCEPT ![c] = @ + 1] /\ UNCHANGED result
  /\ UNCHANGED <<parts, requests, modemVars, boundVars, sentVars, historyVars, disturbed>>

\* Fault variant: a part that is not confirmed is sent again.
FailAndRetry(c) ==
  /\ pc[c] \in {"begin", "next", "mode", "prompt", "confirm"}
  /\ pc[c] \in {"begin", "next"} => turn = Nobody /\ drops > 0
  /\ IF pc[c] = "confirm" THEN Goto(c, "next") /\ UNCHANGED result ELSE Return(c, "error")
  /\ turn' = Nobody
  /\ IF pc[c] = "prompt" THEN Abandon(c) ELSE UNCHANGED abandoned
  /\ UNCHANGED <<parts, part, inbox, requests, modemVars, boundVars, sentVars, misled, disturbed>>

\* A timeout, or a connection that is down or drops: the call returns an error.
Fail(c) ==
  /\ pc[c] \in {"begin", "next", "mode", "prompt", "confirm"}
  /\ pc[c] \in {"begin", "next"} => turn = Nobody /\ drops > 0
  /\ Return(c, "error")
  /\ turn' = Nobody
  /\ IF pc[c] = "prompt" THEN Abandon(c) ELSE UNCHANGED abandoned
  /\ UNCHANGED <<parts, part, inbox, requests, modemVars, boundVars, sentVars, misled, disturbed>>

-----------------------------------------------------------------------------
(* The other callers: polls, probes of the dynamic configurations, the console *)

OtherCommand(ask) ==
  /\ pc[Other] = "idle"
  /\ commands < MaxCommands
  /\ commands' = commands + 1
  /\ Open(Other, ask, 0)
  /\ Goto(Other, "answer")
  /\ UNCHANGED <<parts, part, result, modemVars, refusals, drops, sentVars, historyVars, disturbed>>

ReadAnswer ==
  /\ pc[Other] = "answer" /\ inbox # <<>>
  /\ inbox' = Tail(inbox)
  /\ IF Head(inbox).end = "" THEN UNCHANGED <<turn, pc>>
     ELSE turn' = Nobody /\ Goto(Other, "idle")
  /\ UNCHANGED <<parts, part, result, requests, modemVars, boundVars, sentVars, historyVars, disturbed>>

OtherFails ==
  /\ pc[Other] = "answer"
  /\ turn' = Nobody
  /\ Goto(Other, "idle")
  /\ UNCHANGED <<parts, part, result, inbox, requests, modemVars, boundVars, sentVars, historyVars, disturbed>>

-----------------------------------------------------------------------------
(* The modem *)

Answer(r, frames) ==
  inbox' = IF r.lost THEN inbox ELSE inbox \o frames

Line(r, end) == [of |-> r, bracket |-> FALSE, end |-> end]
Bracket(r)   == [of |-> r, bracket |-> TRUE, end |-> ""]

\* The modem takes the next request, with no prompt open, and obeys.
Obey ==
  LET r == Head(requests) IN
  /\ requests # <<>> /\ asked = Nobody
  /\ requests' = Tail(requests)
  /\ mode' = CASE r.ask = "AT+CMGF=0" -> "pdu" [] r.ask = "AT+CMGF=1" -> "text" [] OTHER -> mode
  /\ disturbed' = CASE r.ask = "AT+CMGF=0" -> FALSE [] r.ask = "AT+CMGF=1" -> TRUE [] OTHER -> disturbed
  /\ asked' = IF r.ask = "AT+CMGS" THEN [by |-> r.by, part |-> r.part] ELSE Nobody
  /\ r.ask # "PDU"
  /\ Answer(r, CASE r.ask = "AT+CMGS"   -> <<Line(r, ""), Bracket(r)>>
                 [] r.ask = "AT+QMAP=?" -> <<Bracket(r), Line(r, "OK")>>
                 [] OTHER               -> <<Line(r, "OK")>>)
  /\ UNCHANGED <<callVars, turn, typed, boundVars, sentVars, historyVars>>

\* It refuses; a PDU without a prompt is no command.
Refuse ==
  LET r == Head(requests) IN
  /\ requests # <<>> /\ asked = Nobody
  /\ requests' = Tail(requests)
  /\ IF r.ask = "PDU" THEN UNCHANGED refusals
     ELSE refusals < MaxRefusals /\ refusals' = refusals + 1
  /\ disturbed' = (disturbed \/ r.ask = "AT+CMGF=0")
  /\ Answer(r, <<Line(r, "ERROR")>>)
  /\ UNCHANGED <<callVars, turn, modemVars, commands, drops, sentVars, historyVars>>

\* After a prompt everything is text, up to the end of a PDU; the modem may
\* prompt again after a line.
Swallow ==
  LET r == Head(requests) IN
  /\ requests # <<>> /\ asked # Nobody /\ r.ask # "PDU"
  /\ requests' = Tail(requests)
  /\ typed' = TRUE
  /\ \/ UNCHANGED inbox
     \/ Answer(r, <<Bracket(r)>>)
  /\ UNCHANGED <<callVars, turn, mode, asked, boundVars, sentVars, historyVars, disturbed>>

\* The text is complete.  In PDU mode a text that is not one PDU is refused; in
\* text mode everything is sent as it was typed.
Finish ==
  LET r == Head(requests) IN
  /\ requests # <<>> /\ asked # Nobody /\ r.ask = "PDU"
  /\ requests' = Tail(requests)
  /\ asked' = Nobody
  /\ typed' = FALSE
  /\ \/ /\ mode = "pdu" /\ ~typed
        /\ accepted' = [accepted EXCEPT ![r.by] = Append(@, r.part)]
        /\ Answer(r, <<Line(r, ""), Line(r, "OK")>>)
        /\ UNCHANGED <<garbled, refusals>>
     \/ /\ mode = "text"
        /\ garbled' = garbled \cup {r.by}
        /\ Answer(r, <<Line(r, "OK")>>)
        /\ UNCHANGED <<accepted, refusals>>
     \/ /\ mode = "pdu" /\ typed
        /\ Answer(r, <<Line(r, "ERROR")>>)
        /\ UNCHANGED <<sentVars, refusals>>
     \/ /\ mode = "pdu" /\ ~typed
        /\ refusals < MaxRefusals /\ refusals' = refusals + 1
        /\ Answer(r, <<Line(r, "ERROR")>>)
        /\ UNCHANGED sentVars
  /\ UNCHANGED <<callVars, turn, mode, commands, drops, historyVars, disturbed>>

\* The sender of part q waits for its prompt.
Expects(q) == turn = q.by /\ pc[q.by] = "prompt" /\ part[q.by] = q.part

\* The request r is the PDU of part q.
Carries(r, q) == r.ask = "PDU" /\ r.by = q.by /\ r.part = q.part

\* The connection drops: the answers that have arrived are gone, and of the
\* requests the modem gets the first n, each of them whole, whose answers nobody
\* will read.
Drop ==
  /\ drops < MaxDrops
  /\ drops' = drops + 1
  /\ inbox' = <<>>
  /\ \E n \in 0 .. Len(requests) :
       LET cut == {requests[k] : k \in n + 1 .. Len(requests)} IN
       /\ requests' = [k \in 1 .. n |-> [requests[k] EXCEPT !.lost = TRUE]]
       /\ abandoned' = abandoned \cup {q \in Part : Expects(q) \/ \E r \in cut : Carries(r, q)}
       /\ disturbed' = (disturbed \/ \E r \in cut : r.ask = "AT+CMGF=0")
  /\ UNCHANGED <<callVars, turn, modemVars, commands, refusals, sentVars, misled>>

Call(c) ==
  \/ \E n \in 1 .. MaxParts : SendSMS(c, n)
  \/ SetMode(c) \/ ReadMode(c)
  \/ StartPart(c) \/ ReadPrompt(c) \/ ReadConfirmation(c)
  \/ Fail(c)

Next ==
  \/ \E c \in Sender : Call(c)
  \/ \E ask \in {"AT+CMGF=0", "AT+CMGF=1", "AT+QMAP=?"} : OtherCommand(ask)
  \/ ReadAnswer \/ OtherFails
  \/ Obey \/ Refuse \/ Swallow \/ Finish
  \/ Drop

Spec == Init /\ [][Next]_vars

-----------------------------------------------------------------------------
(* Properties *)

FirstParts(k) == [i \in 1 .. k |-> i]

\* A call that reports success sent every part once and in order, whatever the
\* others did between its turns and however late the modem answered, unless it
\* took for its prompt a '>' in an answer nobody waited for any more, or the
\* modem was in text mode (sms.go:210, 230).
SentMeansAccepted ==
  \A c \in Sender :
    result[c] = "sent" /\ c \notin misled \cup garbled => accepted[c] = FirstParts(parts[c])

\* Of a message that fails the modem has sent the parts before the one that
\* failed, or that one too when its confirmation was not read; no part twice
\* (sms.go:184).
ErrorLeavesPrefix ==
  \A c \in Sender \ (misled \cup garbled) :
    \E k \in 0 .. MaxParts :
      /\ accepted[c] = FirstParts(k)
      /\ part[c] > 0 => k \in {part[c] - 1, part[c]}

\* A PDU is sent as a text only if, since the modem last obeyed an AT+CMGF=0,
\* another caller has switched to text mode, or an AT+CMGF=0 was refused or was
\* lost with its connection: an answer of another command hides all three from
\* the sender (sms.go:169).
PduModeHolds == [][garbled' # garbled => disturbed]_vars

\* A modem left with an open prompt takes every command for text.  An open
\* prompt has the sender that asked for it waiting for it, or the PDU of the same
\* part on its way, unless that sender gave up before it saw the prompt or the
\* connection dropped under the exchange; what became of another part is no
\* excuse (sms.go:204).
PromptIsServed ==
  asked # Nobody /\ asked \notin abandoned =>
    Expects(asked) \/ \E k \in DOMAIN requests : Carries(requests[k], asked)
=============================================================================
