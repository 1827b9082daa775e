---------------------------- MODULE SmsSendProofs ----------------------------
(***************************************************************************)
(* Proofs about SmsSend: for every number of senders, parts, refusals and  *)
(* drops, no prompt is left open and no PDU sent as text without a cause,  *)
(* and the modem sends the parts of a message in order and once.           *)
(***************************************************************************)
EXTENDS SmsSend, SequenceTheorems, TLAPS

\* Only the caller whose turn it is waits for the modem.
Roles ==
  /\ pc[Other] \in {"idle", "answer"}
  /\ \A c \in Sender : pc[c] # "answer"
  /\ \A c \in Caller : pc[c] \in Waiting <=> turn = c

\* Where a sender is in its message.
Counted ==
  \A c \in Sender :
    /\ part[c] <= parts[c]
    /\ pc[c] \in {"begin", "mode"} \/ (pc[c] = "idle" /\ result[c] = "") => part[c] = 0
    /\ pc[c] \in {"begin", "mode"} => parts[c] >= 1
    /\ pc[c] \in {"next", "prompt", "confirm"} => part[c] >= 1

\* Only senders send messages.
Asked ==
  \A k \in DOMAIN requests : requests[k].ask \in {"AT+CMGS", "PDU"} =>
    /\ requests[k].by \in Sender
    /\ requests[k].part >= 1

\* A part is asked for once: while its sender waits for the prompt, by the last
\* request there is.
Once ==
  \A k \in DOMAIN requests : requests[k].ask = "AT+CMGS" =>
    /\ requests[k].part <= part[requests[k].by]
    /\ pc[requests[k].by] = "next" => requests[k].part < part[requests[k].by]
    /\ pc[requests[k].by] = "prompt" /\ requests[k].part = part[requests[k].by] => k = Len(requests)

\* As long as the modem is in the text mode that it started in, the first sender's
\* AT+CMGF=0 is still on its way, ahead of every AT+CMGS.
ModeAhead(k) == \E j \in DOMAIN requests : j < k /\ requests[j].ask = "AT+CMGF=0"

Fresh ==
  mode = "text" /\ ~disturbed =>
    /\ asked = Nobody
    /\ \A k \in DOMAIN requests : requests[k].ask = "AT+CMGS" => ModeAhead(k)
    /\ \A c \in Sender : pc[c] \in {"mode", "next", "prompt", "confirm"} => ModeAhead(Len(requests) + 1)

\* The prompt of part q is open, or will be when the modem gets to request k.
Mine(c) == [by |-> c, part |-> part[c]]
Pending(q, k) ==
  \/ k = 0 /\ asked # Nobody /\ asked = q
  \/ /\ k \in DOMAIN requests /\ requests[k].ask = "AT+CMGS"
     /\ requests[k].by = q.by /\ requests[k].part = q.part

\* Such a prompt has its PDU behind it, or it is the one that the sender whose turn
\* it is has not yet seen.
Carried(q, k) == \E j \in DOMAIN requests : j > k /\ Carries(requests[j], q)
Served ==
  \A q \in Part, k \in Nat : Pending(q, k) /\ q \notin abandoned => Expects(q) \/ Carried(q, k)

\* A prompt that its sender is going to see refused is not, and will not be, open.
Answered(c) == \E k \in DOMAIN inbox : Own(c, inbox[k]) /\ inbox[k].end # ""
Settled ==
  \A c \in Sender : pc[c] = "prompt" /\ Answered(c) => \A k \in Nat : ~Pending(Mine(c), k)

IInv == TypeOK /\ Roles /\ Counted /\ Asked /\ Once /\ Fresh /\ Served /\ Settled

-----------------------------------------------------------------------------
(* The two queues *)

\* The modem takes a request from the front.
LEMMA Taken ==
  ASSUME TypeOK, requests # <<>>, requests' = Tail(requests)
  PROVE  /\ requests' \in Seq(Request)
         /\ Len(requests) \in Nat /\ Len(requests') = Len(requests) - 1
         /\ DOMAIN requests = 1 .. Len(requests) /\ DOMAIN requests' = 1 .. Len(requests')
         /\ Head(requests) = requests[1] /\ Head(requests) \in Request /\ 1 \in DOMAIN requests
         /\ \A k \in DOMAIN requests' : k + 1 \in DOMAIN requests /\ requests'[k] = requests[k + 1]
<1>1. requests \in Seq(Request) /\ requests' \in Seq(Request)
  BY HeadTailProperties DEF TypeOK
<1>2. Len(requests) \in Nat \ {0} /\ Len(requests') = Len(requests) - 1
  BY <1>1, HeadTailProperties, EmptySeq
<1>3. DOMAIN requests = 1 .. Len(requests) /\ DOMAIN requests' = 1 .. Len(requests')
  BY <1>1, LenProperties
<1>4. Head(requests) \in Request /\ \A k \in 1 .. Len(requests') : requests'[k] = requests[k + 1]
  BY <1>1, HeadTailProperties
<1> QED
  BY <1>1, <1>2, <1>3, <1>4

\* A caller writes a request at the end.
LEMMA Written ==
  ASSUME TypeOK, NEW r \in Request, requests' = Append(requests, r)
  PROVE  /\ requests' \in Seq(Request)
         /\ Len(requests) \in Nat /\ Len(requests') = Len(requests) + 1
         /\ DOMAIN requests = 1 .. Len(requests) /\ DOMAIN requests' = 1 .. Len(requests) + 1
         /\ \A k \in DOMAIN requests : requests'[k] = requests[k]
         /\ requests'[Len(requests) + 1] = r
<1>1. requests \in Seq(Request) /\ requests' \in Seq(Request)
  BY AppendProperties DEF TypeOK
<1>2. Len(requests) \in Nat /\ Len(requests') = Len(requests) + 1
  BY <1>1, AppendProperties, LenProperties
<1>3. DOMAIN requests = 1 .. Len(requests) /\ DOMAIN requests' = 1 .. Len(requests')
  BY <1>1, LenProperties
<1>4. /\ \A k \in 1 .. Len(requests) : requests'[k] = requests[k]
      /\ requests'[Len(requests) + 1] = r
  BY <1>1, AppendProperties
<1> QED
  BY <1>1, <1>2, <1>3, <1>4

\* A caller reads a frame.
LEMMA FrameRead ==
  ASSUME TypeOK, inbox # <<>>, inbox' = Tail(inbox)
  PROVE  /\ inbox' \in Seq(Frame)
         /\ Head(inbox) \in Frame /\ Head(inbox) = inbox[1] /\ 1 \in DOMAIN inbox
         /\ \A k \in DOMAIN inbox' : k + 1 \in DOMAIN inbox /\ inbox'[k] = inbox[k + 1]
<1>1. inbox \in Seq(Frame) /\ inbox' \in Seq(Frame)
  BY HeadTailProperties DEF TypeOK
<1>2. Len(inbox) \in Nat \ {0} /\ Len(inbox') = Len(inbox) - 1
  BY <1>1, HeadTailProperties, EmptySeq
<1>3. DOMAIN inbox = 1 .. Len(inbox) /\ DOMAIN inbox' = 1 .. Len(inbox')
  BY <1>1, LenProperties
<1>4. Head(inbox) \in Frame /\ \A k \in 1 .. Len(inbox') : inbox'[k] = inbox[k + 1]
  BY <1>1, HeadTailProperties
<1> QED
  BY <1>1, <1>2, <1>3, <1>4

\* Sequences of one element and of two.
LEMMA ShortSequences ==
  ASSUME NEW S, NEW f \in S, NEW g \in S
  PROVE  /\ <<f>> \in Seq(S) /\ <<f, g>> \in Seq(S)
         /\ \A j \in DOMAIN <<f>> : <<f>>[j] = f
         /\ \A j \in DOMAIN <<f, g>> : <<f, g>>[j] \in {f, g}
<1>1. <<f>> \in Seq(S) /\ <<f, g>> \in Seq(S)
  OBVIOUS
<1>2. \A j \in DOMAIN <<f>> : <<f>>[j] = f
  OBVIOUS
<1>3. \A j \in DOMAIN <<f, g>> : <<f, g>>[j] \in {f, g}
  OBVIOUS
<1> QED
  BY <1>1, <1>2, <1>3

\* The modem's frames follow what is there, unless the connection dropped.
LEMMA FramesArrive ==
  ASSUME TypeOK, NEW r \in Request, NEW frames \in Seq(Frame), Answer(r, frames)
  PROVE  /\ inbox' \in Seq(Frame)
         /\ \A k \in DOMAIN inbox' :
              \/ k \in DOMAIN inbox /\ inbox'[k] = inbox[k]
              \/ k \notin DOMAIN inbox /\ \E j \in DOMAIN frames : inbox'[k] = frames[j]
<1>1. CASE r.lost
  BY <1>1 DEF Answer, TypeOK
<1>2. CASE ~r.lost
  <2>1. inbox' = inbox \o frames /\ inbox \in Seq(Frame)
    BY <1>2 DEF Answer, TypeOK
  <2>2. inbox' \in Seq(Frame) /\ Len(inbox') = Len(inbox) + Len(frames)
    BY <2>1, ConcatProperties
  <2>3. /\ Len(inbox) \in Nat /\ Len(frames) \in Nat
        /\ DOMAIN inbox = 1 .. Len(inbox) /\ DOMAIN frames = 1 .. Len(frames)
        /\ DOMAIN inbox' = 1 .. Len(inbox')
    BY <2>1, <2>2, LenProperties
  <2>4. \A k \in 1 .. Len(inbox) + Len(frames) :
          inbox'[k] = IF k <= Len(inbox) THEN inbox[k] ELSE frames[k - Len(inbox)]
    BY <2>1, ConcatProperties
  <2> QED
    BY <2>2, <2>3, <2>4
<1> QED
  BY <1>1, <1>2

-----------------------------------------------------------------------------
(* Types *)

\* A turn begins with a request of its caller.
LEMMA Opened ==
  ASSUME TypeOK, NEW c \in Caller, NEW i \in 0 .. MaxParts,
         NEW ask \in {"AT+CMGF=0", "AT+CMGF=1", "AT+QMAP=?", "AT+CMGS"}, Open(c, ask, i)
  PROVE  /\ requests' \in Seq(Request) /\ inbox' \in Seq(Frame) /\ turn' \in Caller \cup {Nobody}
         /\ inbox' = <<>> /\ turn = Nobody /\ turn' = c
         /\ [ask |-> ask, by |-> c, part |-> i, lost |-> FALSE] \in Request
         /\ requests' = Append(requests, [ask |-> ask, by |-> c, part |-> i, lost |-> FALSE])
<1>1. [ask |-> ask, by |-> c, part |-> i, lost |-> FALSE] \in Request
  BY DEF Request
<1>2. requests' = Append(requests, [ask |-> ask, by |-> c, part |-> i, lost |-> FALSE])
  BY DEF Open, Write
<1>3. requests' \in Seq(Request)
  BY <1>1, <1>2, Written
<1>4. inbox' \in Seq(Frame) /\ inbox' = <<>>
  BY DEF Open
<1> QED
  BY <1>1, <1>2, <1>3, <1>4 DEF Open

\* What a sender waits to be prompted for is a part of its message.
LEMMA MineIsPart ==
  ASSUME TypeOK, Counted, NEW c \in Sender, pc[c] = "prompt"
  PROVE  Mine(c) \in Part
<1>1. part[c] \in 0 .. MaxParts /\ part[c] >= 1
  BY DEF TypeOK, Counted
<1>2. part[c] \in 1 .. MaxParts
  BY <1>1
<1> QED
  BY <1>2 DEF Mine, Part

\* A sender's steps keep the types.
LEMMA CallTypeOK ==
  ASSUME IInv, NEW c \in Sender, Call(c)
  PROVE  TypeOK'
<1> USE SendAssumption DEF SendAssumption, IInv, Goto, Return, modemVars, boundVars, sentVars, historyVars
<1>0. c \in Caller /\ part[c] \in 0 .. MaxParts /\ {0, 1} \subseteq 0 .. MaxParts
  <2>1. c \in Caller /\ part[c] \in 0 .. MaxParts
    BY DEF Caller, TypeOK
  <2>2. 0 \in 0 .. MaxParts /\ 1 \in 0 .. MaxParts
    BY SMT
  <2> QED
    BY <2>1, <2>2
<1>1. ASSUME NEW n \in 1 .. MaxParts, SendSMS(c, n)
      PROVE  TypeOK'
  <2>1. n \in 0 .. MaxParts
    OBVIOUS
  <2>2. parts' \in [Sender -> 0 .. MaxParts]
    BY <1>1, <2>1 DEF SendSMS, TypeOK
  <2>3. pc' \in [Caller -> Waiting \cup {"idle", "begin", "next"}]
    BY <1>1 DEF SendSMS, TypeOK
  <2> QED
    BY <1>1, <2>2, <2>3 DEF SendSMS, TypeOK
<1>2. CASE SetMode(c)
  <2>1. /\ requests' \in Seq(Request) /\ inbox' \in Seq(Frame) /\ turn' \in Caller \cup {Nobody}
    BY <1>0, <1>2, Opened DEF SetMode
  <2> QED
    BY <1>0, <1>2, <2>1 DEF SetMode, TypeOK, Waiting
<1>3. CASE ReadMode(c)
  <2>1. inbox' \in Seq(Frame)
    BY <1>3, FrameRead DEF ReadMode
  <2>2. part' \in [Sender -> 0 .. MaxParts]
    <3>1. part' = part \/ part' = [part EXCEPT ![c] = 1]
      BY <1>3 DEF ReadMode
    <3> QED
      BY <1>0, <3>1 DEF TypeOK
  <2>3. pc' \in [Caller -> Waiting \cup {"idle", "begin", "next"}] /\ turn' \in Caller \cup {Nobody}
    BY <1>3 DEF ReadMode, TypeOK
  <2> QED
    BY <1>3, <2>1, <2>2, <2>3 DEF ReadMode, TypeOK
<1>4. CASE StartPart(c)
  <2>1. /\ requests' \in Seq(Request) /\ inbox' \in Seq(Frame) /\ turn' \in Caller \cup {Nobody}
    BY <1>0, <1>4, Opened DEF StartPart
  <2> QED
    BY <1>0, <1>4, <2>1 DEF StartPart, TypeOK, Waiting
<1>5. CASE ReadPrompt(c)
  <2>1. inbox' \in Seq(Frame)
    BY <1>5, FrameRead DEF ReadPrompt
  <2>2. requests' \in Seq(Request)
    <3>1. [ask |-> "PDU", by |-> c, part |-> part[c], lost |-> FALSE] \in Request
      BY <1>0 DEF Request
    <3> QED
      BY <1>5, <3>1, Written DEF ReadPrompt, Write, TypeOK
  <2>3. pc' \in [Caller -> Waiting \cup {"idle", "begin", "next"}] /\ turn' \in Caller \cup {Nobody}
    BY <1>5 DEF ReadPrompt, TypeOK, Waiting
  <2>4. result' \in [Sender -> {"", "sent", "error"}]
    BY <1>5 DEF ReadPrompt, TypeOK
  <2>5. misled' \in SUBSET Sender
    BY <1>5 DEF ReadPrompt, TypeOK
  <2>6. abandoned' \in SUBSET Part
    <3>1. Mine(c) \in Part
      BY <1>5, MineIsPart DEF ReadPrompt
    <3>2. abandoned' = abandoned \/ Abandon(c)
      BY <1>5 DEF ReadPrompt
    <3> QED
      BY <3>1, <3>2 DEF Abandon, Mine, TypeOK
  <2> QED
    BY <1>5, <2>1, <2>2, <2>3, <2>4, <2>5, <2>6 DEF ReadPrompt, TypeOK
<1>6. CASE ReadConfirmation(c)
  <2>1. inbox' \in Seq(Frame) /\ Head(inbox).end \in {"", "OK", "ERROR"}
    BY <1>6, FrameRead DEF ReadConfirmation, Frame
  <2>2. pc' \in [Caller -> Waiting \cup {"idle", "begin", "next"}] /\ turn' \in Caller \cup {Nobody}
    BY <1>6, <2>1 DEF ReadConfirmation, TypeOK
  <2>3. result' \in [Sender -> {"", "sent", "error"}]
    BY <1>6, <2>1 DEF ReadConfirmation, TypeOK
  <2>4. part' \in [Sender -> 0 .. MaxParts]
    <3>1. parts[c] \in 0 .. MaxParts /\ part[c] <= parts[c]
      BY DEF TypeOK, Counted
    <3>2. part[c] # parts[c] => part[c] + 1 \in 0 .. MaxParts
      BY <1>0, <3>1
    <3>3. part' = part \/ (part[c] # parts[c] /\ part' = [part EXCEPT ![c] = part[c] + 1])
      BY <1>6, <2>1 DEF ReadConfirmation
    <3> QED
      BY <3>2, <3>3 DEF TypeOK
  <2> QED
    BY <1>6, <2>1, <2>2, <2>3, <2>4 DEF ReadConfirmation, TypeOK
<1>7. CASE Fail(c)
  <2>1. abandoned' \in SUBSET Part
    <3>1. pc[c] = "prompt" => Mine(c) \in Part
      BY MineIsPart
    <3>2. abandoned' = abandoned \/ (pc[c] = "prompt" /\ Abandon(c))
      BY <1>7 DEF Fail
    <3> QED
      BY <3>1, <3>2 DEF Abandon, Mine, TypeOK
  <2> QED
    BY <1>7, <2>1 DEF Fail, TypeOK
<1> QED
  BY <1>1, <1>2, <1>3, <1>4, <1>5, <1>6, <1>7 DEF Call

\* So do the commands of the others.
LEMMA OtherTypeOK ==
  ASSUME IInv,
         \/ \E ask \in {"AT+CMGF=0", "AT+CMGF=1", "AT+QMAP=?"} : OtherCommand(ask)
         \/ ReadAnswer \/ OtherFails
  PROVE  TypeOK'
<1> USE SendAssumption DEF SendAssumption, IInv, Goto, modemVars, boundVars, sentVars, historyVars
<1>0. Other \in Caller /\ 0 \in 0 .. MaxParts
  BY DEF Caller
<1>1. ASSUME NEW ask \in {"AT+CMGF=0", "AT+CMGF=1", "AT+QMAP=?"}, OtherCommand(ask)
      PROVE  TypeOK'
  <2>1. /\ requests' \in Seq(Request) /\ inbox' \in Seq(Frame) /\ turn' \in Caller \cup {Nobody}
    BY <1>0, <1>1, Opened DEF OtherCommand
  <2>2. pc' \in [Caller -> Waiting \cup {"idle", "begin", "next"}]
    BY <1>0, <1>1 DEF OtherCommand, TypeOK, Waiting
  <2>3. commands' \in 0 .. MaxCommands
    <3>1. commands \in 0 .. MaxCommands /\ commands < MaxCommands /\ commands' = commands + 1
      BY <1>1 DEF OtherCommand, TypeOK
    <3>2. MaxCommands \in Nat
      OBVIOUS
    <3> QED
      BY <3>1, <3>2
  <2> QED
    BY <1>1, <2>1, <2>2, <2>3 DEF OtherCommand, TypeOK
<1>2. CASE ReadAnswer
  <2>1. inbox' \in Seq(Frame)
    BY <1>2, FrameRead DEF ReadAnswer
  <2> QED
    BY <1>0, <1>2, <2>1 DEF ReadAnswer, TypeOK
<1>3. CASE OtherFails
  BY <1>0, <1>3 DEF OtherFails, TypeOK
<1> QED
  BY <1>1, <1>2, <1>3

Modem == Obey \/ Refuse \/ Swallow \/ Finish

\* The PDU r is sent, as what it is or as a text.
Sends(r) ==
  /\ Finish
  /\ \/ accepted' = [accepted EXCEPT ![r.by] = Append(accepted[r.by], r.part)]
     \/ garbled' = garbled \cup {r.by}

\* What the modem answers belongs to the request it takes; an answer to AT+CMGS
\* that ends is a refusal, and a PDU gets an OK only when it is sent.
LEMMA ModemAnswers ==
  ASSUME IInv, Modem
  PROVE  /\ inbox' \in Seq(Frame)
         /\ \A k \in DOMAIN inbox' :
              \/ k \in DOMAIN inbox /\ inbox'[k] = inbox[k]
              \/ /\ k \notin DOMAIN inbox
                 /\ inbox'[k].of = Head(requests)
                 /\ inbox'[k].end = "" \/ Head(requests).ask # "AT+CMGS" \/ Refuse
                 /\ inbox'[k].end = "OK" =>
                      /\ Head(requests).ask # "AT+CMGS"
                      /\ Head(requests).ask = "PDU" => Sends(Head(requests))
<1> DEFINE r == Head(requests)
           Right(f) == /\ f.of = r
                       /\ f.end = "" \/ r.ask # "AT+CMGS" \/ Refuse
                       /\ f.end = "OK" => r.ask # "AT+CMGS" /\ (r.ask = "PDU" => Sends(r))
           Delivered == /\ inbox' \in Seq(Frame)
                        /\ \A k \in DOMAIN inbox' :
                             \/ k \in DOMAIN inbox /\ inbox'[k] = inbox[k]
                             \/ k \notin DOMAIN inbox /\ Right(inbox'[k])
<1>0. r \in Request
  BY Taken DEF Modem, Obey, Refuse, Swallow, Finish, IInv
<1>1. \A end \in {"", "OK", "ERROR"} :
        Line(r, end) \in Frame /\ Line(r, end).of = r /\ Line(r, end).end = end
  BY <1>0 DEF Line, Frame
<1>2. Bracket(r) \in Frame /\ Bracket(r).of = r /\ Bracket(r).end = ""
  BY <1>0 DEF Bracket, Frame
<1> HIDE DEF r
<1>3. ASSUME NEW f \in Frame, NEW g \in Frame, Right(f), Right(g),
             Answer(r, <<f>>) \/ Answer(r, <<f, g>>)
      PROVE  Delivered
  <2>1. /\ <<f>> \in Seq(Frame) /\ <<f, g>> \in Seq(Frame)
        /\ \A j \in DOMAIN <<f>> : <<f>>[j] = f
        /\ \A j \in DOMAIN <<f, g>> : <<f, g>>[j] \in {f, g}
    BY ShortSequences
  <2>2. /\ inbox' \in Seq(Frame)
        /\ \A k \in DOMAIN inbox' :
             \/ k \in DOMAIN inbox /\ inbox'[k] = inbox[k]
             \/ k \notin DOMAIN inbox /\ inbox'[k] \in {f, g}
    <3>1. CASE Answer(r, <<f>>)
      BY <1>0, <2>1, <3>1, FramesArrive DEF IInv
    <3>2. CASE Answer(r, <<f, g>>)
      BY <1>0, <2>1, <3>2, FramesArrive DEF IInv
    <3> QED
      BY <1>3, <3>1, <3>2
  <2> QED
    BY <1>3, <2>2
<1> SUFFICES Delivered
  BY DEF r
<1> HIDE DEF Delivered
<1>4. CASE Obey
  <2>1. CASE r.ask = "AT+CMGS"
    <3>1. Answer(r, <<Line(r, ""), Bracket(r)>>)
      BY <1>4, <2>1 DEF Obey, r
    <3> QED
      BY <1>1, <1>2, <1>3, <3>1
  <2>2. CASE r.ask = "AT+QMAP=?"
    <3>1. Answer(r, <<Bracket(r), Line(r, "OK")>>)
      BY <1>4, <2>2 DEF Obey, r
    <3> QED
      BY <1>1, <1>2, <1>3, <2>2, <3>1
  <2>3. CASE r.ask \notin {"AT+CMGS", "AT+QMAP=?"}
    <3>1. Answer(r, <<Line(r, "OK")>>) /\ r.ask # "PDU"
      BY <1>4, <2>3 DEF Obey, r
    <3> QED
      BY <1>1, <1>3, <2>3, <3>1
  <2> QED
    BY <2>1, <2>2, <2>3
<1>5. CASE Refuse
  <2>1. Answer(r, <<Line(r, "ERROR")>>)
    BY <1>5 DEF Refuse, r
  <2> QED
    BY <1>1, <1>3, <1>5, <2>1
<1>6. CASE Swallow
  <2>1. CASE inbox' = inbox
    BY <2>1 DEF IInv, TypeOK, Delivered
  <2>2. CASE Answer(r, <<Bracket(r)>>)
    BY <1>2, <1>3, <2>2
  <2> QED
    BY <1>6, <2>1, <2>2 DEF Swallow, r
<1>7. CASE Finish
  <2>1. r.ask = "PDU"
    BY <1>7 DEF Finish, r
  <2>2. \/ Answer(r, <<Line(r, ""), Line(r, "OK")>>) /\ Sends(r)
        \/ Answer(r, <<Line(r, "OK")>>) /\ Sends(r)
        \/ Answer(r, <<Line(r, "ERROR")>>)
    BY <1>7 DEF Finish, Sends, r
  <2> QED
    BY <1>1, <1>3, <2>1, <2>2
<1> QED
  BY <1>4, <1>5, <1>6, <1>7 DEF Modem

\* The modem's steps keep the types.
LEMMA ModemTypeOK ==
  ASSUME IInv, Modem
  PROVE  TypeOK'
<1> USE SendAssumption DEF SendAssumption, IInv, callVars, modemVars, boundVars, sentVars, historyVars
<1> DEFINE r == Head(requests)
<1>1. /\ requests' \in Seq(Request) /\ r \in Request
      /\ r.ask \in {"AT+CMGS", "PDU"} => r.by \in Sender /\ r.part \in 1 .. MaxParts
  <2>1. requests # <<>> /\ requests' = Tail(requests)
    BY DEF Modem, Obey, Refuse, Swallow, Finish
  <2>2. requests' \in Seq(Request) /\ r \in Request /\ r = requests[1] /\ 1 \in DOMAIN requests
    BY <2>1, Taken
  <2>3. r.part \in 0 .. MaxParts
    BY <2>2 DEF Request
  <2> QED
    BY <2>2, <2>3 DEF Asked
<1>2. inbox' \in Seq(Frame)
  BY ModemAnswers
<1> HIDE DEF r
<1>3. refusals' \in 0 .. MaxRefusals
  <2>1. refusals' = refusals \/ (refusals < MaxRefusals /\ refusals' = refusals + 1)
    BY DEF Modem, Obey, Refuse, Swallow, Finish
  <2>2. refusals \in 0 .. MaxRefusals /\ MaxRefusals \in Nat
    BY DEF TypeOK
  <2> QED
    BY <2>1, <2>2
<1>4. asked' \in Part \cup {Nobody}
  <2>1. \/ asked' \in {asked, Nobody}
        \/ r.ask = "AT+CMGS" /\ asked' = [by |-> r.by, part |-> r.part]
    BY DEF Modem, Obey, Refuse, Swallow, Finish, r
  <2>2. r.ask = "AT+CMGS" => [by |-> r.by, part |-> r.part] \in Part
    BY <1>1 DEF Part
  <2> QED
    BY <2>1, <2>2 DEF TypeOK
<1>5. accepted' \in [Sender -> Seq(1 .. MaxParts)] /\ garbled' \in SUBSET Sender
  <2>1. CASE UNCHANGED sentVars
    BY <2>1 DEF TypeOK
  <2>2. CASE Finish
    <3>1. r.by \in Sender /\ r.part \in 1 .. MaxParts
      BY <1>1, <2>2 DEF Finish, r
    <3>2. accepted' = accepted \/ accepted' = [accepted EXCEPT ![r.by] = Append(accepted[r.by], r.part)]
      BY <2>2 DEF Finish, r
    <3>3. garbled' = garbled \/ garbled' = garbled \cup {r.by}
      BY <2>2 DEF Finish, r
    <3>4. accepted' \in [Sender -> Seq(1 .. MaxParts)]
      <4>1. accepted \in [Sender -> Seq(1 .. MaxParts)]
        BY DEF TypeOK
      <4>2. Append(accepted[r.by], r.part) \in Seq(1 .. MaxParts)
        BY <3>1, <4>1, AppendProperties
      <4> QED
        BY <3>2, <4>1, <4>2
    <3> QED
      BY <3>1, <3>3, <3>4 DEF TypeOK
  <2> QED
    BY <2>1, <2>2 DEF Modem, Obey, Refuse, Swallow
<1>6. mode' \in {"pdu", "text"} /\ typed' \in BOOLEAN
  BY DEF Modem, Obey, Refuse, Swallow, Finish, TypeOK
<1>7. disturbed' \in BOOLEAN
  <2>1. disturbed' = disturbed \/ disturbed' = TRUE \/ disturbed' = FALSE
    BY DEF Modem, Obey, Refuse, Swallow, Finish, TypeOK
  <2> QED
    BY <2>1 DEF TypeOK
<1>8. UNCHANGED <<pc, parts, part, result, turn, commands, drops, misled, abandoned>>
  BY DEF Modem, Obey, Refuse, Swallow, Finish
<1> QED
  BY <1>1, <1>2, <1>3, <1>4, <1>5, <1>6, <1>7, <1>8 DEF TypeOK

\* A drop marks the requests.
LEMMA Dropped ==
  ASSUME TypeOK, Drop
  PROVE  /\ requests' \in Seq(Request) /\ Len(requests) \in Nat /\ Len(requests') \in 0 .. Len(requests)
         /\ DOMAIN requests = 1 .. Len(requests) /\ DOMAIN requests' = 1 .. Len(requests')
         /\ \A k \in DOMAIN requests' :
              /\ k \in DOMAIN requests
              /\ requests'[k].ask = requests[k].ask
              /\ requests'[k].by = requests[k].by
              /\ requests'[k].part = requests[k].part
         /\ \A q \in Part : Expects(q) => q \in abandoned'
         /\ \A k \in DOMAIN requests \ DOMAIN requests' :
              /\ \A q \in Part : Carries(requests[k], q) => q \in abandoned'
              /\ requests[k].ask = "AT+CMGF=0" => disturbed'
         /\ abandoned \subseteq abandoned' /\ abandoned' \in SUBSET Part
         /\ disturbed => disturbed'
         /\ disturbed' \in BOOLEAN
         /\ DOMAIN inbox' = {}
<1>1. Len(requests) \in Nat /\ DOMAIN requests = 1 .. Len(requests)
  BY LenProperties DEF TypeOK
<1> DEFINE Gone(n) == {requests[k] : k \in n + 1 .. Len(requests)}
<1>2. PICK n \in 0 .. Len(requests) :
        /\ requests' = [k \in 1 .. n |-> [requests[k] EXCEPT !.lost = TRUE]]
        /\ abandoned' = abandoned \cup {q \in Part : Expects(q) \/ \E r \in Gone(n) : Carries(r, q)}
        /\ disturbed' = (disturbed \/ \E r \in Gone(n) : r.ask = "AT+CMGF=0")
  BY DEF Drop
<1>3. \A k \in 1 .. Len(requests) : requests[k] \in Request
  BY <1>1, ElementOfSeq DEF TypeOK
<1>4. n \in Nat /\ 1 .. n \subseteq 1 .. Len(requests)
  BY <1>1, <1>2
<1>5. \A k \in 1 .. n : [requests[k] EXCEPT !.lost = TRUE] \in Request
  BY <1>3, <1>4 DEF Request
<1>6. requests' \in [1 .. n -> Request]
  BY <1>2, <1>5
<1>7. requests' \in Seq(Request)
  BY <1>4, <1>6, SeqDef
<1>8. DOMAIN requests' = 1 .. n
  BY <1>2
<1>9. Len(requests') = n
  BY <1>4, <1>7, <1>8, LenProperties
<1>10. \A k \in DOMAIN requests \ DOMAIN requests' : requests[k] \in Gone(n)
  <2> SUFFICES ASSUME NEW k \in DOMAIN requests \ DOMAIN requests'
               PROVE  k \in n + 1 .. Len(requests)
    OBVIOUS
  <2> QED
    BY <1>1, <1>4, <1>8
<1>11. \A k \in 1 .. n : /\ requests'[k].ask = requests[k].ask
                         /\ requests'[k].by = requests[k].by
                         /\ requests'[k].part = requests[k].part
  BY <1>2, <1>3, <1>4 DEF Request
<1> HIDE DEF Gone
<1>12. /\ \A q \in Part : Expects(q) => q \in abandoned'
       /\ \A k \in DOMAIN requests \ DOMAIN requests' : \A q \in Part :
            Carries(requests[k], q) => q \in abandoned'
       /\ abandoned \subseteq abandoned' /\ abandoned' \in SUBSET Part
  BY <1>2, <1>10 DEF TypeOK
<1>13. /\ \A k \in DOMAIN requests \ DOMAIN requests' : requests[k].ask = "AT+CMGF=0" => disturbed'
       /\ disturbed => disturbed'
       /\ disturbed' \in BOOLEAN
  BY <1>2, <1>10, Zenon
<1>14. DOMAIN inbox' = {}
  <2>1. inbox' = <<>>
    BY DEF Drop
  <2> QED
    BY <2>1
<1> QED
  BY <1>1, <1>2, <1>4, <1>7, <1>8, <1>9, <1>11, <1>12, <1>13, <1>14

\* It keeps the types.
LEMMA DropTypeOK ==
  ASSUME IInv, Drop
  PROVE  TypeOK'
<1>1. requests' \in Seq(Request) /\ abandoned' \in SUBSET Part /\ disturbed' \in BOOLEAN
  BY Dropped DEF IInv
<1>2. drops' \in 0 .. MaxDrops
  <2>1. drops \in 0 .. MaxDrops /\ drops < MaxDrops /\ drops' = drops + 1 /\ MaxDrops \in Nat
    BY SendAssumption DEF SendAssumption, IInv, TypeOK, Drop
  <2> QED
    BY <2>1
<1>3. inbox' \in Seq(Frame)
  BY DEF Drop
<1> QED
  BY <1>1, <1>2, <1>3 DEF Drop, IInv, TypeOK, callVars, modemVars, sentVars, historyVars

-----------------------------------------------------------------------------
(* Who waits, and for what *)

\* The modem and the network leave the callers where they are.
LEMMA ModemQuiet ==
  ASSUME Modem \/ Drop
  PROVE  UNCHANGED <<pc, parts, part, result, turn>>
BY DEF Modem, Obey, Refuse, Swallow, Finish, Drop, callVars, historyVars

OtherStep ==
  \/ \E ask \in {"AT+CMGF=0", "AT+CMGF=1", "AT+QMAP=?"} : OtherCommand(ask)
  \/ ReadAnswer \/ OtherFails

\* A caller takes the turn when it starts to wait, and gives it back when it stops.
LEMMA RolesStep ==
  ASSUME IInv, (\E c \in Sender : Call(c)) \/ OtherStep \/ Modem \/ Drop
  PROVE  Roles'
<1> USE SendAssumption DEF SendAssumption, IInv, Roles, Caller, Waiting, TypeOK, Goto, Return, Open
<1>1. ASSUME NEW c \in Sender, Call(c)
      PROVE  Roles'
  <2>1. CASE \E n \in 1 .. MaxParts : SendSMS(c, n)
    BY <2>1 DEF SendSMS
  <2>2. CASE SetMode(c) \/ StartPart(c)
    BY <2>2 DEF SetMode, StartPart
  <2>3. CASE ReadMode(c)
    BY <2>3 DEF ReadMode
  <2>4. CASE ReadPrompt(c)
    <3>1. turn = c
      BY <2>4 DEF ReadPrompt
    <3>2. \/ pc' = pc /\ turn' = turn
          \/ pc' = [pc EXCEPT ![c] = "confirm"] /\ turn' = turn
          \/ pc' = [pc EXCEPT ![c] = "idle"] /\ turn' = Nobody
      BY <2>4 DEF ReadPrompt
    <3> QED
      BY <3>1, <3>2
  <2>5. CASE ReadConfirmation(c)
    <3>1. turn = c
      BY <2>5 DEF ReadConfirmation
    <3>2. Head(inbox).end \in {"", "OK", "ERROR"}
      BY <2>5, FrameRead DEF ReadConfirmation, Frame
    <3>3. \/ pc' = pc /\ turn' = turn
          \/ pc' = [pc EXCEPT ![c] = "idle"] /\ turn' = Nobody
          \/ pc' = [pc EXCEPT ![c] = "next"] /\ turn' = Nobody
      BY <2>5, <3>2 DEF ReadConfirmation
    <3> QED
      BY <3>1, <3>3
  <2>6. CASE Fail(c)
    BY <2>6 DEF Fail
  <2> QED
    BY <1>1, <2>1, <2>2, <2>3, <2>4, <2>5, <2>6 DEF Call
<1>2. CASE OtherStep
  BY <1>2 DEF OtherStep, OtherCommand, ReadAnswer, OtherFails
<1>3. CASE Modem \/ Drop
  BY <1>3, ModemQuiet
<1> QED
  BY <1>1, <1>2, <1>3

\* What the types say of a sender's counters.
LEMMA Counters ==
  ASSUME TypeOK
  PROVE  /\ DOMAIN pc = Caller /\ DOMAIN part = Sender /\ DOMAIN parts = Sender /\ DOMAIN result = Sender
         /\ Sender \subseteq Caller
         /\ \A c \in Sender : part[c] \in Nat /\ parts[c] \in Nat
<1>1. \A c \in Sender : part[c] \in 0 .. MaxParts /\ parts[c] \in 0 .. MaxParts
  BY DEF TypeOK
<1>2. \A i \in 0 .. MaxParts : i \in Nat
  OBVIOUS
<1> QED
  BY <1>1, <1>2 DEF TypeOK, Caller

\* A sender counts its parts from one up to what it set out to send.
LEMMA CountedStep ==
  ASSUME IInv, (\E c \in Sender : Call(c)) \/ OtherStep \/ Modem \/ Drop
  PROVE  Counted'
<1>0. /\ DOMAIN pc = Caller /\ DOMAIN part = Sender /\ DOMAIN parts = Sender /\ DOMAIN result = Sender
      /\ Sender \subseteq Caller
      /\ \A c \in Sender : part[c] \in Nat /\ parts[c] \in Nat
  BY Counters DEF IInv
<1>1. ASSUME NEW c \in Sender, Call(c)
      PROVE  Counted'
  <2>0. part[c] \in Nat /\ parts[c] \in Nat /\ part[c] <= parts[c] /\ Counted
    BY <1>0 DEF IInv, Counted
  <2>1. ASSUME NEW n \in 1 .. MaxParts, SendSMS(c, n)
        PROVE  Counted'
    <3>1. part[c] = 0
      BY <2>0, <2>1 DEF SendSMS, Counted
    <3>2. /\ parts' = [parts EXCEPT ![c] = n] /\ pc' = [pc EXCEPT ![c] = "begin"]
          /\ UNCHANGED <<part, result>>
      BY <2>1 DEF SendSMS, Goto
    <3>3. n >= 1 /\ 0 <= n
      OBVIOUS
    <3> QED
      BY <1>0, <2>0, <3>1, <3>2, <3>3 DEF Counted
  <2>2. CASE SetMode(c) \/ StartPart(c)
    BY <1>0, <2>0, <2>2 DEF SetMode, StartPart, Goto, Counted
  <2>3. CASE ReadMode(c)
    <3>1. \/ UNCHANGED <<pc, part, parts, result>>
          \/ /\ pc' = [pc EXCEPT ![c] = "next"] /\ part' = [part EXCEPT ![c] = 1]
             /\ UNCHANGED <<parts, result>> /\ pc[c] = "mode"
      BY <2>3 DEF ReadMode, Goto
    <3>2. CASE UNCHANGED <<pc, part, parts, result>>
      BY <2>0, <3>2 DEF Counted
    <3>3. ASSUME pc' = [pc EXCEPT ![c] = "next"], part' = [part EXCEPT ![c] = 1],
                 UNCHANGED <<parts, result>>, pc[c] = "mode"
          PROVE  Counted'
      <4>1. parts[c] >= 1
        BY <2>0, <3>3 DEF Counted
      <4>2. \A d \in Sender : d # c => part'[d] = part[d] /\ pc'[d] = pc[d]
        BY <1>0, <3>3
      <4>3. part'[c] = 1 /\ pc'[c] = "next" /\ 1 <= parts'[c] /\ 1 >= 1
        BY <1>0, <2>0, <3>3, <4>1
      <4> QED
        BY <2>0, <3>3, <4>2, <4>3 DEF Counted
    <3> QED
      BY <3>1, <3>2, <3>3
  <2>4. CASE ReadPrompt(c)
    BY <1>0, <2>0, <2>4 DEF ReadPrompt, Goto, Return, Counted
  <2>5. CASE ReadConfirmation(c)
    <3>1. Head(inbox).end \in {"", "OK", "ERROR"}
      BY <2>5, FrameRead DEF ReadConfirmation, Frame, IInv
    <3>2. \/ UNCHANGED <<pc, part, parts, result>>
          \/ /\ pc' = [pc EXCEPT ![c] = "idle"] /\ UNCHANGED <<part, parts>>
             /\ result' = [result EXCEPT ![c] = "sent"] \/ result' = [result EXCEPT ![c] = "error"]
          \/ /\ pc' = [pc EXCEPT ![c] = "next"] /\ part' = [part EXCEPT ![c] = part[c] + 1]
             /\ part[c] # parts[c] /\ UNCHANGED <<parts, result>>
      BY <2>5, <3>1 DEF ReadConfirmation, Goto, Return
    <3>3. part[c] # parts[c] => part[c] + 1 <= parts[c] /\ part[c] + 1 >= 1
      BY <2>0
    <3> QED
      BY <1>0, <2>0, <3>2, <3>3 DEF Counted
  <2>6. CASE Fail(c)
    BY <1>0, <2>0, <2>6 DEF Fail, Goto, Return, Counted
  <2> QED
    BY <1>1, <2>1, <2>2, <2>3, <2>4, <2>5, <2>6 DEF Call
<1>2. CASE OtherStep
  <2>1. \A c \in Sender : pc'[c] = pc[c]
    BY <1>0, <1>2, SendAssumption
    DEF OtherStep, OtherCommand, ReadAnswer, OtherFails, Goto, SendAssumption
  <2>2. UNCHANGED <<part, parts, result>>
    BY <1>2 DEF OtherStep, OtherCommand, ReadAnswer, OtherFails
  <2> QED
    BY <2>1, <2>2 DEF IInv, Counted
<1>3. CASE Modem \/ Drop
  BY <1>3, ModemQuiet DEF IInv, Counted
<1> QED
  BY <1>1, <1>2, <1>3

-----------------------------------------------------------------------------
(* The requests *)

\* requests' is requests with r at its end.
Longer(r) ==
  /\ r \in Request
  /\ Len(requests) \in Nat /\ Len(requests') = Len(requests) + 1
  /\ DOMAIN requests = 1 .. Len(requests) /\ DOMAIN requests' = 1 .. Len(requests) + 1
  /\ \A k \in DOMAIN requests : requests'[k] = requests[k]
  /\ requests'[Len(requests) + 1] = r

\* A sender asks for PDU mode, for a prompt, and sends the PDU after a prompt.
LEMMA CallWrites ==
  ASSUME IInv, NEW c \in Sender, Call(c)
  PROVE  \/ requests' = requests /\ ~StartPart(c) /\ ~SetMode(c)
         \/ \E r \in Request :
              /\ Longer(r) /\ r.by = c
              /\ \/ SetMode(c) /\ r.ask = "AT+CMGF=0"
                 \/ StartPart(c) /\ r.ask = "AT+CMGS" /\ r.part = part[c]
                 \/ ReadPrompt(c) /\ r.ask = "PDU" /\ r.part = part[c]
<1>0. c \in Caller /\ part[c] \in 0 .. MaxParts /\ 0 \in 0 .. MaxParts
  <2>1. c \in Caller /\ part[c] \in 0 .. MaxParts
    BY DEF Caller, IInv, TypeOK
  <2>2. 0 \in 0 .. MaxParts
    BY SendAssumption DEF SendAssumption
  <2> QED
    BY <2>1, <2>2
<1>1. CASE SetMode(c)
  <2> DEFINE r == [ask |-> "AT+CMGF=0", by |-> c, part |-> 0, lost |-> FALSE]
  <2>1. r \in Request /\ requests' = Append(requests, r)
    BY <1>0, <1>1, Opened DEF SetMode, IInv
  <2>2. r.ask = "AT+CMGF=0" /\ r.by = c
    OBVIOUS
  <2> HIDE DEF r
  <2>3. Longer(r)
    BY <2>1, Written DEF IInv, Longer
  <2> QED
    BY <1>1, <2>1, <2>2, <2>3
<1>2. CASE StartPart(c)
  <2> DEFINE r == [ask |-> "AT+CMGS", by |-> c, part |-> part[c], lost |-> FALSE]
  <2>1. r \in Request /\ requests' = Append(requests, r)
    BY <1>0, <1>2, Opened DEF StartPart, IInv
  <2>2. r.ask = "AT+CMGS" /\ r.by = c /\ r.part = part[c]
    OBVIOUS
  <2> HIDE DEF r
  <2>3. Longer(r)
    BY <2>1, Written DEF IInv, Longer
  <2> QED
    BY <1>2, <2>1, <2>2, <2>3
<1>3. CASE ReadPrompt(c) /\ requests' # requests
  <2> DEFINE r == [ask |-> "PDU", by |-> c, part |-> part[c], lost |-> FALSE]
  <2>1. r \in Request /\ requests' = Append(requests, r)
    BY <1>0, <1>3 DEF ReadPrompt, Write, Request
  <2>2. r.ask = "PDU" /\ r.by = c /\ r.part = part[c]
    OBVIOUS
  <2> HIDE DEF r
  <2>3. Longer(r)
    BY <2>1, Written DEF IInv, Longer
  <2> QED
    BY <1>3, <2>1, <2>2, <2>3
<1>4. CASE ~SetMode(c) /\ ~StartPart(c) /\ ~(ReadPrompt(c) /\ requests' # requests)
  <2>1. requests' = requests
    BY <1>4 DEF Call, SendSMS, ReadMode, ReadConfirmation, Fail
  <2> QED
    BY <1>4, <2>1
<1> QED
  BY <1>1, <1>2, <1>3, <1>4

\* The others send commands.
LEMMA OtherWrites ==
  ASSUME IInv, OtherStep
  PROVE  \/ requests' = requests
         \/ \E r \in Request : Longer(r) /\ r.ask \notin {"AT+CMGS", "PDU"} /\ turn = Nobody
<1>0. Other \in Caller /\ 0 \in 0 .. MaxParts
  BY SendAssumption DEF Caller, SendAssumption
<1>1. ASSUME NEW ask \in {"AT+CMGF=0", "AT+CMGF=1", "AT+QMAP=?"}, OtherCommand(ask)
      PROVE  \E r \in Request : Longer(r) /\ r.ask \notin {"AT+CMGS", "PDU"} /\ turn = Nobody
  <2> DEFINE r == [ask |-> ask, by |-> Other, part |-> 0, lost |-> FALSE]
  <2>1. r \in Request /\ requests' = Append(requests, r) /\ turn = Nobody
    BY <1>0, <1>1, Opened DEF OtherCommand, IInv
  <2>2. r.ask \notin {"AT+CMGS", "PDU"}
    BY <1>1
  <2> HIDE DEF r
  <2>3. Longer(r)
    BY <2>1, Written DEF IInv, Longer
  <2> QED
    BY <2>1, <2>2, <2>3
<1> QED
  BY <1>1 DEF OtherStep, ReadAnswer, OtherFails

\* requests' is requests without its first.
Shorter ==
  /\ Len(requests) \in Nat /\ Len(requests') = Len(requests) - 1
  /\ DOMAIN requests = 1 .. Len(requests) /\ DOMAIN requests' = 1 .. Len(requests')
  /\ Head(requests) = requests[1] /\ 1 \in DOMAIN requests
  /\ \A k \in DOMAIN requests' : k + 1 \in DOMAIN requests /\ requests'[k] = requests[k + 1]

\* The modem takes the first request.
LEMMA ModemTakes ==
  ASSUME IInv, Modem
  PROVE  Shorter
<1>1. requests # <<>> /\ requests' = Tail(requests)
  BY DEF Modem, Obey, Refuse, Swallow, Finish
<1> QED
  BY <1>1, Taken DEF IInv, Shorter

\* Only senders ask for prompts and send PDUs.
LEMMA AskedStep ==
  ASSUME IInv, (\E c \in Sender : Call(c)) \/ OtherStep \/ Modem \/ Drop
  PROVE  Asked'
<1>0. Asked
  BY DEF IInv
<1>1. ASSUME NEW c \in Sender, Call(c)
      PROVE  Asked'
  <2>1. CASE requests' = requests
    BY <1>0, <2>1 DEF Asked
  <2>2. ASSUME NEW r \in Request, Longer(r), r.by = c,
               \/ SetMode(c) /\ r.ask = "AT+CMGF=0"
               \/ StartPart(c) /\ r.ask = "AT+CMGS" /\ r.part = part[c]
               \/ ReadPrompt(c) /\ r.ask = "PDU" /\ r.part = part[c]
        PROVE  Asked'
    <3>1. r.ask \in {"AT+CMGS", "PDU"} => r.by \in Sender /\ r.part >= 1
      BY <2>2 DEF IInv, Counted, StartPart, ReadPrompt
    <3> QED
      BY <1>0, <2>2, <3>1 DEF Asked, Longer
  <2> QED
    BY <1>1, <2>1, <2>2, CallWrites
<1>2. CASE OtherStep
  <2>1. CASE requests' = requests
    BY <1>0, <2>1 DEF Asked
  <2>2. ASSUME NEW r \in Request, Longer(r), r.ask \notin {"AT+CMGS", "PDU"}
        PROVE  Asked'
    BY <1>0, <2>2 DEF Asked, Longer
  <2> QED
    BY <1>2, <2>1, <2>2, OtherWrites
<1>3. CASE Modem
  <2>1. Shorter
    BY <1>3, ModemTakes
  <2> QED
    BY <1>0, <2>1 DEF Asked, Shorter
<1>4. CASE Drop
  BY <1>0, <1>4, Dropped DEF Asked, IInv
<1> QED
  BY <1>1, <1>2, <1>3, <1>4

\* What a sender's step does to its place in the message.
LEMMA CallMoves ==
  ASSUME IInv, NEW c \in Sender, Call(c)
  PROVE  /\ \A d \in Sender : d # c => pc'[d] = pc[d] /\ part'[d] = part[d]
         /\ \/ pc'[c] = pc[c] /\ part'[c] = part[c] /\ requests' = requests
            \/ pc'[c] \in {"begin", "idle", "mode", "confirm"} /\ part'[c] = part[c]
            \/ pc[c] = "mode" /\ pc'[c] = "next" /\ part'[c] = 1 /\ requests' = requests
            \/ StartPart(c) /\ pc'[c] = "prompt" /\ part'[c] = part[c]
            \/ pc[c] = "confirm" /\ pc'[c] = "next" /\ part'[c] = part[c] + 1 /\ requests' = requests
<1>0. /\ DOMAIN pc = Caller /\ DOMAIN part = Sender /\ Sender \subseteq Caller
  BY Counters DEF IInv
<1> USE DEF Goto, Return
<1>1. CASE \E n \in 1 .. MaxParts : SendSMS(c, n)
  BY <1>0, <1>1 DEF SendSMS
<1>2. CASE SetMode(c)
  BY <1>0, <1>2 DEF SetMode
<1>3. CASE ReadMode(c)
  BY <1>0, <1>3 DEF ReadMode
<1>4. CASE StartPart(c)
  BY <1>0, <1>4 DEF StartPart
<1>5. CASE ReadPrompt(c)
  BY <1>0, <1>5 DEF ReadPrompt
<1>6. CASE ReadConfirmation(c)
  <2>1. Head(inbox).end \in {"", "OK", "ERROR"}
    BY <1>6, FrameRead DEF ReadConfirmation, Frame, IInv
  <2> QED
    BY <1>0, <1>6, <2>1 DEF ReadConfirmation
<1>7. CASE Fail(c)
  BY <1>0, <1>7 DEF Fail
<1> QED
  BY <1>1, <1>2, <1>3, <1>4, <1>5, <1>6, <1>7 DEF Call

\* The others leave the senders where they are.
LEMMA OtherMoves ==
  ASSUME IInv, OtherStep
  PROVE  /\ \A d \in Sender : pc'[d] = pc[d]
         /\ UNCHANGED <<parts, part, result, abandoned, mode, asked, disturbed>>
<1>0. DOMAIN pc = Caller /\ Sender \subseteq Caller /\ Other \notin Sender
  BY Counters, SendAssumption DEF IInv, SendAssumption
<1>1. \A d \in Sender : pc'[d] = pc[d]
  BY <1>0 DEF OtherStep, OtherCommand, ReadAnswer, OtherFails, Goto
<1> QED
  BY <1>1 DEF OtherStep, OtherCommand, ReadAnswer, OtherFails, modemVars, historyVars

\* No part is asked for twice.
LEMMA OnceStep ==
  ASSUME IInv, (\E c \in Sender : Call(c)) \/ OtherStep \/ Modem \/ Drop
  PROVE  Once'
<1>0. /\ Once /\ Asked
      /\ \A d \in Sender : part[d] \in Nat /\ (pc[d] = "prompt" => turn = d)
      /\ \A k \in DOMAIN requests : requests[k] \in Request
  <2>1. \A d \in Sender : part[d] \in Nat
    BY Counters DEF IInv
  <2>2. \A d \in Sender : pc[d] = "prompt" => turn = d
    BY DEF IInv, Roles, Waiting, Caller
  <2>3. \A k \in DOMAIN requests : requests[k] \in Request
    BY LenProperties, ElementOfSeq DEF IInv, TypeOK
  <2> QED
    BY <2>1, <2>2, <2>3 DEF IInv
<1>a. \A k \in DOMAIN requests : requests[k].part \in Nat
  BY <1>0 DEF Request
<1>b. Nobody \notin Sender
  BY SendAssumption DEF SendAssumption
<1>1. ASSUME NEW c \in Sender, Call(c)
      PROVE  Once'
  <2>0. /\ \A d \in Sender : d # c => pc'[d] = pc[d] /\ part'[d] = part[d]
        /\ \/ pc'[c] = pc[c] /\ part'[c] = part[c] /\ requests' = requests
           \/ pc'[c] \in {"begin", "idle", "mode", "confirm"} /\ part'[c] = part[c]
           \/ pc[c] = "mode" /\ pc'[c] = "next" /\ part'[c] = 1 /\ requests' = requests
           \/ StartPart(c) /\ pc'[c] = "prompt" /\ part'[c] = part[c]
           \/ pc[c] = "confirm" /\ pc'[c] = "next" /\ part'[c] = part[c] + 1 /\ requests' = requests
    BY <1>1, CallMoves
  <2>1. CASE requests' = requests /\ ~StartPart(c)
    <3>1. CASE part'[c] = part[c] /\ (pc'[c] = pc[c] \/ pc'[c] \in {"begin", "idle", "mode", "confirm"})
      BY <1>0, <2>0, <2>1, <3>1 DEF Once, Asked
    <3>2. CASE pc[c] = "mode" /\ pc'[c] = "next" /\ part'[c] = 1
      <4>1. part[c] = 0
        BY <3>2 DEF IInv, Counted
      <4>2. \A k \in DOMAIN requests : requests[k].ask = "AT+CMGS" => requests[k].by # c
        BY <1>0, <1>a, <4>1 DEF Once, Asked
      <4> QED
        BY <1>0, <2>0, <2>1, <4>2 DEF Once, Asked
    <3>3. CASE pc'[c] = "next" /\ part'[c] = part[c] + 1
      <4>1. \A k \in DOMAIN requests : requests[k].ask = "AT+CMGS" /\ requests[k].by = c =>
              requests[k].part < part'[c]
        BY <1>0, <1>a, <3>3 DEF Once
      <4> QED
        BY <1>0, <1>a, <2>0, <2>1, <3>3, <4>1 DEF Once, Asked
    <3> QED
      BY <2>0, <2>1, <3>1, <3>2, <3>3
  <2>2. ASSUME NEW r \in Request, Longer(r), r.by = c,
               \/ SetMode(c) /\ r.ask = "AT+CMGF=0"
               \/ StartPart(c) /\ r.ask = "AT+CMGS" /\ r.part = part[c]
               \/ ReadPrompt(c) /\ r.ask = "PDU" /\ r.part = part[c]
        PROVE  Once'
    <3>1. \A d \in Sender : d # c => pc[d] # "prompt"
      BY <1>0, <1>b, <2>2 DEF SetMode, StartPart, ReadPrompt, Open
    <3>2. part'[c] = part[c]
      BY <2>2 DEF SetMode, StartPart, ReadPrompt
    <3>3. \A k \in DOMAIN requests : requests'[k] = requests[k]
      BY <2>2 DEF Longer
    <3>4. pc'[c] # "next"
      BY <2>2, Counters DEF SetMode, StartPart, ReadPrompt, Goto, Return, IInv
    <3>5. \A k \in DOMAIN requests : requests[k].ask = "AT+CMGS" /\ requests[k].by = c /\ pc'[c] = "prompt" =>
            requests[k].part # part[c]
      <4>1. CASE StartPart(c)
        BY <1>0, <1>a, <4>1 DEF Once, StartPart
      <4>2. CASE SetMode(c) \/ ReadPrompt(c)
        <5>1. CASE pc'[c] # "prompt"
          BY <5>1
        <5>2. CASE pc'[c] = "prompt"
          <6>1. requests' # requests
            BY <2>2 DEF Longer
          <6>2. StartPart(c)
            BY <2>0, <5>2, <6>1
          <6> QED
            BY <4>2, <6>2 DEF SetMode, ReadPrompt, StartPart
        <5> QED
          BY <5>1, <5>2
      <4> QED
        BY <2>2, <4>1, <4>2
    <3>6. \A k \in DOMAIN requests' : k \in DOMAIN requests \/ k = Len(requests')
      BY <2>2 DEF Longer
    <3>7. requests'[Len(requests')] = r /\ (r.ask = "AT+CMGS" => r.part = part[c])
      BY <2>2 DEF Longer
    <3> QED
      <4> SUFFICES ASSUME NEW k \in DOMAIN requests', requests'[k].ask = "AT+CMGS"
                   PROVE  /\ requests'[k].part <= part'[requests'[k].by]
                          /\ pc'[requests'[k].by] = "next" => requests'[k].part < part'[requests'[k].by]
                          /\ pc'[requests'[k].by] = "prompt" /\ requests'[k].part = part'[requests'[k].by]
                               => k = Len(requests')
        BY DEF Once
      <4>1. CASE k \in DOMAIN requests
        BY <1>0, <2>0, <3>1, <3>2, <3>3, <3>4, <3>5, <4>1 DEF Once, Asked
      <4>2. CASE k = Len(requests')
        BY <1>0, <2>2, <3>2, <3>4, <3>7, <4>2
      <4> QED
        BY <3>6, <4>1, <4>2
  <2> QED
    BY <1>1, <2>1, <2>2, CallWrites
<1>2. CASE OtherStep
  <2>0. UNCHANGED part /\ \A d \in Sender : pc'[d] = pc[d]
    BY <1>2, OtherMoves
  <2>1. CASE requests' = requests
    BY <1>0, <2>0, <2>1 DEF Once, Asked
  <2>2. ASSUME NEW r \in Request, Longer(r), r.ask \notin {"AT+CMGS", "PDU"}, turn = Nobody
        PROVE  Once'
    <3>1. \A d \in Sender : pc'[d] # "prompt"
      BY <1>0, <1>b, <2>0, <2>2
    <3> QED
      BY <1>0, <2>0, <2>2, <3>1 DEF Once, Asked, Longer
  <2> QED
    BY <1>2, <2>1, <2>2, OtherWrites
<1>3. CASE Modem
  <2>1. Shorter /\ UNCHANGED <<pc, part>>
    BY <1>3, ModemTakes, ModemQuiet
  <2> QED
    BY <1>0, <2>1 DEF Once, Shorter
<1>4. CASE Drop
  <2>1. UNCHANGED <<pc, part>>
    BY <1>4, ModemQuiet
  <2> QED
    BY <1>0, <1>4, <2>1, Dropped DEF Once, IInv
<1> QED
  BY <1>1, <1>2, <1>3, <1>4

-----------------------------------------------------------------------------
(* The mode *)

Engaged == {"mode", "next", "prompt", "confirm"}

\* SetMode is the way into an exchange; senders do not touch the modem's state.
LEMMA CallEngages ==
  ASSUME IInv, NEW c \in Sender, Call(c)
  PROVE  /\ UNCHANGED <<mode, asked, disturbed>>
         /\ \A d \in Sender : pc'[d] \in Engaged => pc[d] \in Engaged \/ (d = c /\ SetMode(c))
<1>0. DOMAIN pc = Caller /\ Sender \subseteq Caller
  BY Counters DEF IInv
<1> USE DEF Goto, Return, Engaged, modemVars
<1>1. CASE \E n \in 1 .. MaxParts : SendSMS(c, n)
  BY <1>0, <1>1 DEF SendSMS
<1>2. CASE SetMode(c)
  BY <1>0, <1>2 DEF SetMode
<1>3. CASE ReadMode(c)
  BY <1>0, <1>3 DEF ReadMode
<1>4. CASE StartPart(c)
  BY <1>0, <1>4 DEF StartPart
<1>5. CASE ReadPrompt(c)
  BY <1>0, <1>5 DEF ReadPrompt
<1>6. CASE ReadConfirmation(c)
  <2>1. Head(inbox).end \in {"", "OK", "ERROR"}
    BY <1>6, FrameRead DEF ReadConfirmation, Frame, IInv
  <2> QED
    BY <1>0, <1>6, <2>1 DEF ReadConfirmation
<1>7. CASE Fail(c)
  BY <1>0, <1>7 DEF Fail
<1> QED
  BY <1>1, <1>2, <1>3, <1>4, <1>5, <1>6, <1>7 DEF Call

\* While requests are only added, what is ahead of one stays there.
LEMMA AheadStays ==
  ASSUME NEW r, Longer(r), NEW k \in Nat, ModeAhead(k)
  PROVE  ModeAhead(k)'
BY DEF ModeAhead, Longer

\* The text mode the modem starts in ends with the first AT+CMGF=0, unless another
\* caller or a refusal comes in between.
LEMMA FreshStep ==
  ASSUME IInv, (\E c \in Sender : Call(c)) \/ OtherStep \/ Modem \/ Drop
  PROVE  Fresh'
<1> SUFFICES ASSUME mode' = "text" /\ ~disturbed'
             PROVE  /\ asked' = Nobody
                    /\ \A k \in DOMAIN requests' : requests'[k].ask = "AT+CMGS" => ModeAhead(k)'
                    /\ \A d \in Sender : pc'[d] \in Engaged => ModeAhead(Len(requests) + 1)'
  BY DEF Fresh, Engaged
<1>0. mode = "text" /\ ~disturbed =>
        /\ asked = Nobody
        /\ \A k \in DOMAIN requests : requests[k].ask = "AT+CMGS" => ModeAhead(k)
        /\ \A d \in Sender : pc[d] \in Engaged => ModeAhead(Len(requests) + 1)
  BY DEF IInv, Fresh, Engaged
<1>1. ASSUME NEW c \in Sender, Call(c)
      PROVE  /\ asked' = Nobody
             /\ \A k \in DOMAIN requests' : requests'[k].ask = "AT+CMGS" => ModeAhead(k)'
             /\ \A d \in Sender : pc'[d] \in Engaged => ModeAhead(Len(requests) + 1)'
  <2>0. /\ UNCHANGED <<mode, asked, disturbed>>
        /\ \A d \in Sender : pc'[d] \in Engaged => pc[d] \in Engaged \/ (d = c /\ SetMode(c))
    BY <1>1, CallEngages
  <2>1. CASE requests' = requests /\ ~SetMode(c)
    <3>1. \A k : ModeAhead(k)' <=> ModeAhead(k)
      BY <2>1 DEF ModeAhead
    <3>2. ModeAhead(Len(requests) + 1)' <=> ModeAhead(Len(requests) + 1)
      BY <2>1 DEF ModeAhead
    <3> QED
      BY <1>0, <2>0, <2>1, <3>1, <3>2
  <2>2. ASSUME NEW r \in Request, Longer(r), r.by = c,
               \/ SetMode(c) /\ r.ask = "AT+CMGF=0"
               \/ StartPart(c) /\ r.ask = "AT+CMGS" /\ r.part = part[c]
               \/ ReadPrompt(c) /\ r.ask = "PDU" /\ r.part = part[c]
        PROVE  /\ asked' = Nobody
               /\ \A k \in DOMAIN requests' : requests'[k].ask = "AT+CMGS" => ModeAhead(k)'
               /\ \A d \in Sender : pc'[d] \in Engaged => ModeAhead(Len(requests) + 1)'
    <3>1. /\ Len(requests) \in Nat /\ Len(requests') = Len(requests) + 1
          /\ DOMAIN requests = 1 .. Len(requests) /\ DOMAIN requests' = 1 .. Len(requests) + 1
          /\ \A k \in DOMAIN requests : requests'[k] = requests[k]
          /\ requests'[Len(requests) + 1] = r
      BY <2>2 DEF Longer
    <3>2. \A k \in Nat : ModeAhead(k) => ModeAhead(k)'
      BY <2>2, AheadStays
    <3>3. ModeAhead(Len(requests) + 1) => ModeAhead(Len(requests) + 1)'
      BY <3>1 DEF ModeAhead
    <3>4. ASSUME NEW k \in DOMAIN requests', requests'[k].ask = "AT+CMGS"
          PROVE  ModeAhead(k)'
      <4>1. CASE k \in DOMAIN requests
        BY <1>0, <2>0, <3>1, <3>2, <3>4, <4>1
      <4>2. CASE k = Len(requests) + 1
        <5>1. StartPart(c)
          BY <2>2, <3>1, <3>4, <4>2
        <5>2. ModeAhead(Len(requests) + 1)
          BY <1>0, <2>0, <5>1 DEF StartPart, Engaged
        <5> QED
          BY <3>1, <3>2, <4>2, <5>2
      <4> QED
        BY <3>1, <4>1, <4>2
    <3>5. ASSUME NEW d \in Sender, pc'[d] \in Engaged
          PROVE  ModeAhead(Len(requests) + 1)'
      <4>1. CASE pc[d] \in Engaged
        BY <1>0, <2>0, <3>3, <4>1
      <4>2. CASE SetMode(c)
        <5>1. r.ask = "AT+CMGF=0"
          BY <2>2, <4>2 DEF SetMode, StartPart, ReadPrompt
        <5> QED
          BY <3>1, <5>1 DEF ModeAhead
      <4> QED
        BY <2>0, <3>5, <4>1, <4>2
    <3> QED
      BY <1>0, <2>0, <3>4, <3>5
  <2> QED
    BY <1>1, <2>1, <2>2, CallWrites
<1>2. CASE OtherStep
  <2>0. UNCHANGED <<mode, asked, disturbed>> /\ \A d \in Sender : pc'[d] = pc[d]
    BY <1>2, OtherMoves
  <2>1. CASE requests' = requests
    <3>1. \A k : ModeAhead(k)' <=> ModeAhead(k)
      BY <2>1 DEF ModeAhead
    <3>2. ModeAhead(Len(requests) + 1)' <=> ModeAhead(Len(requests) + 1)
      BY <2>1 DEF ModeAhead
    <3> QED
      BY <1>0, <2>0, <2>1, <3>1, <3>2
  <2>2. ASSUME NEW r \in Request, Longer(r), r.ask \notin {"AT+CMGS", "PDU"}
        PROVE  /\ \A k \in DOMAIN requests' : requests'[k].ask = "AT+CMGS" => ModeAhead(k)'
               /\ ModeAhead(Len(requests) + 1) => ModeAhead(Len(requests) + 1)'
    BY <1>0, <2>0, <2>2 DEF Longer, ModeAhead
  <2> QED
    BY <1>0, <1>2, <2>0, <2>1, <2>2, OtherWrites
<1>3. CASE Modem
  <2>1. Shorter /\ UNCHANGED pc
    BY <1>3, ModemTakes, ModemQuiet
  <2>2. mode = "text" /\ ~disturbed
    <3>1. CASE Obey
      <4>1. Head(requests).ask \notin {"AT+CMGF=0", "AT+CMGF=1"}
        BY <3>1 DEF Obey
      <4> QED
        BY <3>1, <4>1 DEF Obey
    <3>2. CASE Refuse
      BY <3>2, Zenon DEF Refuse, modemVars
    <3>3. CASE Swallow \/ Finish
      <4>1. mode' = mode /\ disturbed' = disturbed
        BY <3>3 DEF Swallow, Finish
      <4> QED
        BY <4>1
    <3> QED
      BY <1>3, <3>1, <3>2, <3>3 DEF Modem
  <2>3. Head(requests).ask # "AT+CMGS"
    <3>1. ~ModeAhead(1)
      BY <2>1 DEF ModeAhead, Shorter
    <3> QED
      BY <1>0, <2>1, <2>2, <3>1 DEF Shorter
  <2>4. asked = Nobody
    BY <1>0, <2>2
  <2>5. asked' = Nobody /\ Head(requests).ask # "AT+CMGF=0"
    <3>1. CASE Obey
      BY <2>3, <3>1 DEF Obey
    <3>2. CASE Refuse
      <4>1. asked' = asked
        BY <3>2 DEF Refuse, modemVars
      <4>2. Head(requests).ask # "AT+CMGF=0"
        BY <3>2, Zenon DEF Refuse
      <4> QED
        BY <2>4, <4>1, <4>2
    <3>3. ~Swallow /\ ~Finish
      BY <2>4 DEF Swallow, Finish
    <3> QED
      BY <1>3, <3>1, <3>2, <3>3 DEF Modem
  <2>6. \A j \in DOMAIN requests : requests[j].ask = "AT+CMGF=0" =>
          /\ j - 1 \in DOMAIN requests' /\ requests'[j - 1].ask = "AT+CMGF=0"
          /\ \A k \in Nat : j < k + 1 => j - 1 < k
    <3>1. \A j \in DOMAIN requests : requests[j].ask = "AT+CMGF=0" =>
            j # 1 /\ j - 1 \in DOMAIN requests' /\ (j - 1) + 1 = j
      BY <2>1, <2>5 DEF Shorter
    <3>2. \A j \in DOMAIN requests : requests[j].ask = "AT+CMGF=0" => requests'[j - 1] = requests[j]
      BY <2>1, <3>1 DEF Shorter
    <3>3. \A j \in DOMAIN requests : \A k \in Nat : j < k + 1 => j - 1 < k
      BY <2>1 DEF Shorter
    <3> QED
      BY <3>1, <3>2, <3>3
  <2>7. \A k \in Nat : ModeAhead(k + 1) => ModeAhead(k)'
    BY <2>6 DEF ModeAhead
  <2>8. ModeAhead(Len(requests) + 1) => ModeAhead(Len(requests) + 1)'
    <3>1. Len(requests) = Len(requests') + 1 /\ Len(requests) \in Nat
      BY <2>1 DEF Shorter
    <3> QED
      BY <2>6, <3>1 DEF ModeAhead
  <2> QED
    BY <1>0, <2>1, <2>2, <2>5, <2>7, <2>8 DEF Shorter
<1>4. CASE Drop
  <2>1. UNCHANGED <<mode, asked, pc>>
    BY <1>4 DEF Drop, modemVars, callVars
  <2>2. mode = "text" /\ ~disturbed
    BY <1>4, <2>1, Dropped, Zenon DEF IInv
  <2>3. /\ Len(requests) \in Nat /\ Len(requests') \in Nat
        /\ DOMAIN requests = 1 .. Len(requests) /\ DOMAIN requests' = 1 .. Len(requests')
        /\ \A k \in DOMAIN requests' : k \in DOMAIN requests /\ requests'[k].ask = requests[k].ask
        /\ \A k \in DOMAIN requests : requests[k].ask = "AT+CMGF=0" => k \in DOMAIN requests'
    BY <1>4, Dropped DEF IInv
  <2>4. \A k : ModeAhead(k) => ModeAhead(k)'
    BY <2>3 DEF ModeAhead
  <2>5. ModeAhead(Len(requests) + 1) => ModeAhead(Len(requests) + 1)'
    BY <2>3 DEF ModeAhead
  <2> QED
    BY <1>0, <2>1, <2>2, <2>3, <2>4, <2>5
<1> QED
  BY <1>1, <1>2, <1>3, <1>4

-----------------------------------------------------------------------------
(* The prompt *)

\* A caller takes frames away, from the front or all of them.
Fewer ==
  \/ inbox' = inbox
  \/ DOMAIN inbox' = {}
  \/ \A k \in DOMAIN inbox' : k \in Nat /\ k + 1 \in DOMAIN inbox /\ inbox'[k] = inbox[k + 1]

\* No caller adds a frame.
LEMMA CallersRead ==
  ASSUME IInv, (\E c \in Sender : Call(c)) \/ OtherStep
  PROVE  Fewer
<1>1. CASE inbox # <<>> /\ inbox' = Tail(inbox)
  <2>1. \A k \in DOMAIN inbox' : k + 1 \in DOMAIN inbox /\ inbox'[k] = inbox[k + 1]
    BY <1>1, FrameRead DEF IInv
  <2>2. \A k \in DOMAIN inbox' : k \in Nat
    <3>1. inbox' \in Seq(Frame)
      BY <1>1, FrameRead DEF IInv
    <3>2. DOMAIN inbox' = 1 .. Len(inbox') /\ Len(inbox') \in Nat
      BY <3>1, LenProperties
    <3> QED
      BY <3>2
  <2> QED
    BY <2>1, <2>2 DEF Fewer
<1>2. CASE inbox' \in {inbox, <<>>}
  BY <1>2 DEF Fewer
<1>3. inbox' \in {inbox, <<>>} \/ (inbox # <<>> /\ inbox' = Tail(inbox))
  BY DEF Call, SendSMS, SetMode, ReadMode, StartPart, ReadPrompt, ReadConfirmation, Fail, Open,
         OtherStep, OtherCommand, ReadAnswer, OtherFails
<1> QED
  BY <1>1, <1>2, <1>3

\* While a sender has the turn the other callers can only begin.
LEMMA Bystander ==
  ASSUME IInv, NEW d \in Sender, turn = d, (\E c \in Sender \ {d} : Call(c)) \/ OtherStep
  PROVE  UNCHANGED <<inbox, requests, turn, misled>>
<1>0. d # Nobody /\ d # Other /\ turn # Nobody
  BY SendAssumption DEF SendAssumption
<1>1. ASSUME NEW c \in Sender \ {d}, Call(c)
      PROVE  UNCHANGED <<inbox, requests, turn, misled>>
  <2>1. pc[c] \notin Waiting
    BY <1>1 DEF IInv, Roles, Caller
  <2>2. \E n \in 1 .. MaxParts : SendSMS(c, n)
    BY <1>0, <1>1, <2>1
    DEF Call, SetMode, ReadMode, StartPart, ReadPrompt, ReadConfirmation, Fail, Open, Waiting
  <2> QED
    BY <2>2 DEF SendSMS, historyVars
<1>2. ~OtherStep
  <2>1. pc[Other] \notin Waiting
    BY <1>0 DEF IInv, Roles, Caller
  <2> QED
    BY <1>0, <2>1 DEF OtherStep, OtherCommand, ReadAnswer, OtherFails, Open, Waiting
<1> QED
  BY <1>1, <1>2

\* A step of anybody.
AnyStep == (\E c \in Sender : Call(c)) \/ OtherStep \/ Modem \/ Drop

\* While a sender waits it has the turn.
LEMMA Waits ==
  ASSUME IInv, NEW d \in Sender, pc[d] \in {"prompt", "confirm"}
  PROVE  turn = d
BY DEF IInv, Roles, Waiting, Caller

\* Adding a request leaves a PDU behind what it is behind.
LEMMA CarryStays ==
  ASSUME NEW r, Longer(r), NEW q, NEW k \in Nat, Carried(q, k)
  PROVE  Carried(q, k)'
<1>1. PICK j \in DOMAIN requests : j > k /\ Carries(requests[j], q)
  BY DEF Carried
<1>2. j \in DOMAIN requests' /\ requests'[j] = requests[j]
  BY DEF Longer
<1> QED
  BY <1>1, <1>2 DEF Carried, Carries

\* It moves up with what it is behind.
LEMMA CarryShifts ==
  ASSUME Shorter, NEW q, NEW k \in Nat, Carried(q, k + 1)
  PROVE  Carried(q, k)'
<1>1. PICK j \in DOMAIN requests : j > k + 1 /\ Carries(requests[j], q)
  BY DEF Carried
<1>2. j - 1 \in DOMAIN requests' /\ j - 1 > k /\ (j - 1) + 1 = j
  BY <1>1 DEF Shorter
<1>3. requests'[j - 1] = requests[j]
  BY <1>2 DEF Shorter
<1> QED
  BY <1>1, <1>2, <1>3 DEF Carried, Carries

\* A prompt that waits behind a longer queue was there already, or is the new request's.
LEMMA PendingLonger ==
  ASSUME NEW r, Longer(r), asked' = asked, NEW q, NEW k \in Nat, Pending(q, k)'
  PROVE  \/ Pending(q, k) /\ k <= Len(requests)
         \/ k = Len(requests) + 1 /\ r.ask = "AT+CMGS" /\ r.by = q.by /\ r.part = q.part
BY DEF Pending, Longer

\* A prompt after the modem's step was there before it: open, with no PDU first in the
\* queue, or one request further back.
LEMMA PendingShorter ==
  ASSUME IInv, Modem, NEW q \in Part, NEW k \in Nat, Pending(q, k)'
  PROVE  Pending(q, k + 1) \/ (k = 0 /\ Pending(q, 0) /\ Swallow)
<1>0. Shorter
  BY ModemTakes
<1>1. CASE k # 0
  <2>1. k \in DOMAIN requests' /\ requests'[k] = requests[k + 1] /\ k + 1 \in DOMAIN requests
    BY <1>0, <1>1 DEF Pending, Shorter
  <2> QED
    BY <1>1, <2>1 DEF Pending
<1>2. CASE k = 0
  <2>0. asked' = q /\ asked' # Nobody
    BY <1>0, <1>2 DEF Pending, Shorter
  <2>1. CASE Obey
    <3>1. Head(requests).ask = "AT+CMGS" /\ q = [by |-> Head(requests).by, part |-> Head(requests).part]
      BY <2>0, <2>1 DEF Obey
    <3> QED
      BY <1>0, <1>2, <3>1 DEF Pending, Shorter
  <2>2. ~Refuse /\ ~Finish
    BY <2>0 DEF Refuse, Finish, modemVars
  <2>3. CASE Swallow
    <3>1. asked' = asked
      BY <2>3 DEF Swallow
    <3> QED
      BY <1>2, <2>0, <2>3, <3>1 DEF Pending
  <2> QED
    BY <2>1, <2>2, <2>3 DEF Modem
<1> QED
  BY <1>1, <1>2

\* Nothing is taken off the list of what was given up, and a sender puts there only
\* the part it is at.
LEMMA AbandonedGrows ==
  ASSUME IInv, AnyStep
  PROVE  /\ abandoned \subseteq abandoned'
         /\ OtherStep \/ Modem => abandoned' = abandoned
<1>1. ASSUME NEW c \in Sender, Call(c)
      PROVE  abandoned \subseteq abandoned'
  <2>1. abandoned' = abandoned \/ Abandon(c)
    BY <1>1 DEF Call, SendSMS, SetMode, ReadMode, StartPart, ReadPrompt, ReadConfirmation, Fail, historyVars
  <2> QED
    BY <2>1 DEF Abandon
<1>2. OtherStep => abandoned' = abandoned
  BY OtherMoves
<1>3. Modem => abandoned' = abandoned
  BY DEF Modem, Obey, Refuse, Swallow, Finish, historyVars
<1>4. Drop => abandoned \subseteq abandoned'
  BY Dropped DEF IInv
<1> QED
  BY <1>1, <1>2, <1>3, <1>4 DEF AnyStep

\* A sender that waits for a prompt goes on waiting, sends the PDU, gives the part up
\* or has seen it refused.
LEMMA ExpectedCall ==
  ASSUME IInv, NEW c \in Sender, Call(c), NEW q \in Part, Expects(q), q.by = c
  PROVE  \/ q \in abandoned'
         \/ Expects(q)' /\ requests' = requests
         \/ \E r \in Request : Longer(r) /\ Carries(r, q)
         \/ Answered(c) /\ q = Mine(c)
<1>0. /\ turn = c /\ pc[c] = "prompt" /\ q.part = part[c] /\ turn # Nobody
      /\ DOMAIN pc = Caller /\ c \in Caller
      /\ q = Mine(c)
  <2>1. q = [by |-> q.by, part |-> q.part]
    BY DEF Part
  <2> QED
    BY <2>1, Counters, SendAssumption DEF Expects, IInv, SendAssumption, Mine
<1>1. CASE ReadPrompt(c)
  <2>1. Head(inbox) = inbox[1] /\ 1 \in DOMAIN inbox
    BY <1>1, FrameRead DEF ReadPrompt, IInv
  <2>2. CASE Head(inbox).bracket
    <3>1. requests' = Append(requests, [ask |-> "PDU", by |-> c, part |-> part[c], lost |-> FALSE])
      BY <1>1, <2>2 DEF ReadPrompt, Write
    <3>2. requests' # requests
      <4>1. requests \in Seq(Request) /\ [ask |-> "PDU", by |-> c, part |-> part[c], lost |-> FALSE] \in Request
        BY <1>0 DEF IInv, TypeOK, Request
      <4> QED
        BY <3>1, <4>1, Written DEF IInv
    <3>3. ~SetMode(c) /\ ~StartPart(c)
      BY <1>0 DEF SetMode, StartPart
    <3>4. PICK r \in Request : Longer(r) /\ r.by = c /\ r.ask = "PDU" /\ r.part = part[c]
      BY <3>2, <3>3, CallWrites
    <3>5. Carries(r, q)
      BY <1>0, <3>4 DEF Carries
    <3> QED
      BY <3>4, <3>5
  <2>3. CASE ~Head(inbox).bracket /\ Head(inbox).end # ""
    <3>1. CASE Own(c, Head(inbox))
      BY <1>0, <2>1, <2>3, <3>1 DEF Answered
    <3>2. CASE ~Own(c, Head(inbox))
      <4>1. Abandon(c)
        BY <1>1, <2>3, <3>2 DEF ReadPrompt
      <4> QED
        BY <1>0, <4>1 DEF Abandon, Mine
    <3> QED
      BY <3>1, <3>2
  <2>4. CASE ~Head(inbox).bracket /\ Head(inbox).end = ""
    <3>1. UNCHANGED <<pc, turn, part, requests>>
      BY <1>1, <2>4 DEF ReadPrompt
    <3> QED
      BY <3>1 DEF Expects
  <2> QED
    BY <2>2, <2>3, <2>4
<1>2. CASE Fail(c)
  <2>1. Abandon(c)
    BY <1>0, <1>2 DEF Fail
  <2> QED
    BY <1>0, <2>1 DEF Abandon, Mine
<1>3. ReadPrompt(c) \/ Fail(c)
  BY <1>0 DEF Call, SendSMS, SetMode, ReadMode, StartPart, ReadConfirmation
<1> QED
  BY <1>1, <1>2, <1>3

\* While a sender waits for a prompt the others leave it and the queue alone.
LEMMA ExpectedOther ==
  ASSUME IInv, NEW q \in Part, Expects(q), (\E c \in Sender \ {q.by} : Call(c)) \/ OtherStep
  PROVE  Expects(q)' /\ requests' = requests
<1>0. q.by \in Sender /\ turn = q.by
  BY DEF Part, Expects
<1>1. UNCHANGED <<requests, turn>>
  BY <1>0, Bystander
<1>2. pc'[q.by] = pc[q.by] /\ part'[q.by] = part[q.by]
  BY <1>0, CallMoves, OtherMoves
<1> QED
  BY <1>1, <1>2 DEF Expects

\* An open prompt stays with its sender or its PDU.
LEMMA ServedStep ==
  ASSUME IInv, AnyStep
  PROVE  Served'
<1> SUFFICES ASSUME NEW q \in Part, NEW k \in Nat, Pending(q, k)', q \notin abandoned'
             PROVE  Expects(q)' \/ Carried(q, k)'
  BY DEF Served
<1>0. q \notin abandoned /\ q.by \in Sender
  BY AbandonedGrows DEF Part
<1>s. \A j \in Nat : Pending(q, j) => Expects(q) \/ Carried(q, j)
  BY <1>0 DEF IInv, Served
<1>1. CASE (\E c \in Sender : Call(c)) \/ OtherStep
  <2>0. asked' = asked
    BY <1>1, CallEngages, OtherMoves
  <2>1. CASE requests' = requests
    <3>1. Pending(q, k)
      BY <2>0, <2>1 DEF Pending
    <3>2. CASE Carried(q, k)
      BY <2>1, <3>2 DEF Carried, Carries
    <3>3. CASE Expects(q)
      <4>1. CASE Call(q.by)
        <5>1. ~(\E r \in Request : Longer(r))
          BY <2>1 DEF Longer
        <5>2. ~(Answered(q.by) /\ q = Mine(q.by))
          BY <1>0, <3>1, <3>3 DEF IInv, Settled, Expects
        <5> QED
          BY <1>0, <3>3, <4>1, <5>1, <5>2, ExpectedCall
      <4>2. CASE (\E c \in Sender \ {q.by} : Call(c)) \/ OtherStep
        BY <3>3, <4>2, ExpectedOther
      <4> QED
        BY <1>1, <4>1, <4>2
    <3> QED
      BY <1>s, <3>1, <3>2, <3>3
  <2>2. ASSUME NEW r \in Request, Longer(r),
               \/ \E c \in Sender : /\ Call(c) /\ r.by = c
                                    /\ \/ SetMode(c) /\ r.ask = "AT+CMGF=0"
                                       \/ StartPart(c) /\ r.ask = "AT+CMGS" /\ r.part = part[c]
                                       \/ ReadPrompt(c) /\ r.ask = "PDU" /\ r.part = part[c]
               \/ OtherStep /\ r.ask \notin {"AT+CMGS", "PDU"}
        PROVE  Expects(q)' \/ Carried(q, k)'
    <3>1. CASE Pending(q, k) /\ k <= Len(requests)
      <4>1. CASE Carried(q, k)
        BY <2>2, <4>1, CarryStays
      <4>2. CASE Expects(q)
        <5>0. requests' # requests
          BY <2>2 DEF Longer
        <5>1. ~((\E c \in Sender \ {q.by} : Call(c)) \/ OtherStep)
          BY <4>2, <5>0, ExpectedOther
        <5>2. Call(q.by)
          BY <1>1, <5>1
        <5>3. ~(Answered(q.by) /\ q = Mine(q.by))
          BY <1>0, <3>1, <4>2 DEF IInv, Settled, Expects
        <5>4. PICK p \in Request : Longer(p) /\ Carries(p, q)
          BY <1>0, <4>2, <5>0, <5>2, <5>3, ExpectedCall
        <5>5. Len(requests) + 1 \in DOMAIN requests' /\ requests'[Len(requests) + 1] = p /\ Len(requests) + 1 > k
          BY <3>1, <5>4 DEF Longer
        <5> QED
          BY <5>4, <5>5 DEF Carried, Carries
      <4> QED
        BY <1>s, <3>1, <4>1, <4>2
    <3>2. CASE r.ask = "AT+CMGS" /\ r.by = q.by /\ r.part = q.part
      <4>1. PICK c \in Sender : StartPart(c) /\ r.by = c /\ r.part = part[c]
        BY <2>2, <3>2
      <4>2. turn' = c /\ part' = part
        BY <4>1 DEF StartPart, Open
      <4>3. pc'[c] = "prompt"
        BY <4>1, Counters DEF StartPart, Goto, IInv
      <4> QED
        BY <3>2, <4>1, <4>2, <4>3 DEF Expects
    <3> QED
      BY <2>0, <2>2, <3>1, <3>2, PendingLonger
  <2>3. \/ requests' = requests
        \/ \E r \in Request :
             /\ Longer(r)
             /\ \/ \E c \in Sender : /\ Call(c) /\ r.by = c
                                     /\ \/ SetMode(c) /\ r.ask = "AT+CMGF=0"
                                        \/ StartPart(c) /\ r.ask = "AT+CMGS" /\ r.part = part[c]
                                        \/ ReadPrompt(c) /\ r.ask = "PDU" /\ r.part = part[c]
                \/ OtherStep /\ r.ask \notin {"AT+CMGS", "PDU"}
    <3>1. ASSUME NEW c \in Sender, Call(c)
          PROVE  \/ requests' = requests
                 \/ \E r \in Request :
                      /\ Longer(r) /\ r.by = c
                      /\ \/ SetMode(c) /\ r.ask = "AT+CMGF=0"
                         \/ StartPart(c) /\ r.ask = "AT+CMGS" /\ r.part = part[c]
                         \/ ReadPrompt(c) /\ r.ask = "PDU" /\ r.part = part[c]
      BY <3>1, CallWrites
    <3>2. OtherStep => \/ requests' = requests
                       \/ \E r \in Request : Longer(r) /\ r.ask \notin {"AT+CMGS", "PDU"}
      BY OtherWrites
    <3>3. CASE OtherStep
      BY <3>2, <3>3
    <3>4. CASE \E c \in Sender : Call(c)
      <4>1. PICK c \in Sender : Call(c)
        BY <3>4
      <4>2. CASE requests' = requests
        BY <4>2
      <4>3. ASSUME NEW r \in Request, Longer(r), r.by = c,
                   \/ SetMode(c) /\ r.ask = "AT+CMGF=0"
                   \/ StartPart(c) /\ r.ask = "AT+CMGS" /\ r.part = part[c]
                   \/ ReadPrompt(c) /\ r.ask = "PDU" /\ r.part = part[c]
            PROVE  \E e \in Sender : /\ Call(e) /\ r.by = e
                                     /\ \/ SetMode(e) /\ r.ask = "AT+CMGF=0"
                                        \/ StartPart(e) /\ r.ask = "AT+CMGS" /\ r.part = part[e]
                                        \/ ReadPrompt(e) /\ r.ask = "PDU" /\ r.part = part[e]
        BY <4>1, <4>3
      <4> QED
        BY <3>1, <4>1, <4>2, <4>3
    <3> QED
      BY <1>1, <3>3, <3>4
  <2> QED
    BY <2>1, <2>2, <2>3
<1>2. CASE Modem
  <2>0. Shorter /\ UNCHANGED <<pc, part, turn>>
    BY <1>2, ModemTakes, ModemQuiet
  <2>1. Expects(q) => Expects(q)'
    BY <2>0 DEF Expects
  <2>2. CASE Pending(q, k + 1)
    BY <1>s, <2>0, <2>1, <2>2, CarryShifts
  <2>3. CASE k = 0 /\ Pending(q, 0) /\ Swallow
    <3>1. CASE Carried(q, 0)
      <4>1. requests[1].ask # "PDU"
        BY <2>0, <2>3 DEF Swallow, Shorter
      <4>2. Carried(q, 0 + 1)
        BY <2>0, <3>1, <4>1 DEF Carried, Carries, Shorter
      <4> QED
        BY <2>0, <2>3, <4>2, CarryShifts
    <3> QED
      BY <1>s, <2>1, <2>3, <3>1
  <2> QED
    BY <1>2, <2>2, <2>3, PendingShorter
<1>3. CASE Drop
  <2>1. asked' = asked
    BY <1>3 DEF Drop, modemVars
  <2>2. /\ \A j \in DOMAIN requests' : /\ j \in DOMAIN requests
                                       /\ requests'[j].ask = requests[j].ask
                                       /\ requests'[j].by = requests[j].by
                                       /\ requests'[j].part = requests[j].part
        /\ \A j \in DOMAIN requests \ DOMAIN requests' : ~Carries(requests[j], q)
        /\ ~Expects(q)
    BY <1>3, Dropped DEF IInv
  <2>3. Pending(q, k)
    BY <2>1, <2>2 DEF Pending
  <2>4. PICK j \in DOMAIN requests : j > k /\ Carries(requests[j], q)
    BY <1>s, <2>2, <2>3 DEF Carried
  <2> QED
    BY <2>2, <2>4 DEF Carried, Carries
<1> QED
  BY <1>1, <1>2, <1>3 DEF AnyStep

\* What a sender is going to see refused does not come back.
LEMMA SettledStep ==
  ASSUME IInv, AnyStep
  PROVE  Settled'
<1> SUFFICES ASSUME NEW d \in Sender, pc'[d] = "prompt", Answered(d)', NEW k \in Nat, Pending(Mine(d), k)'
             PROVE  FALSE
  BY DEF Settled
<1>0. pc[d] = "prompt" /\ Answered(d) => \A j \in Nat : ~Pending(Mine(d), j)
  BY DEF IInv, Settled
<1>t. pc[d] = "prompt" => turn = d
  BY Waits
<1>1. CASE (\E c \in Sender : Call(c)) \/ OtherStep
  <2>1. asked' = asked
    BY <1>1, CallEngages, OtherMoves
  <2>2. ~StartPart(d)
    <3>1. StartPart(d) => inbox' = <<>>
      BY DEF StartPart, Open
    <3>2. DOMAIN inbox' # {}
      BY DEF Answered
    <3>3. DOMAIN <<>> = {}
      OBVIOUS
    <3> QED
      BY <3>1, <3>2, <3>3
  <2>3. pc[d] = "prompt" /\ part'[d] = part[d]
    <3>1. CASE Call(d)
      BY <2>2, <3>1, CallMoves
    <3>2. CASE (\E c \in Sender \ {d} : Call(c)) \/ OtherStep
      BY <3>2, CallMoves, OtherMoves
    <3> QED
      BY <1>1, <3>1, <3>2
  <2>4. requests' = requests
    <3>1. CASE Call(d)
      BY <2>2, <3>1, CallMoves
    <3>2. CASE (\E c \in Sender \ {d} : Call(c)) \/ OtherStep
      BY <1>t, <2>3, <3>2, Bystander
    <3> QED
      BY <1>1, <3>1, <3>2
  <2>5. Answered(d)
    <3>1. Fewer
      BY <1>1, CallersRead
    <3> QED
      BY <2>3, <3>1 DEF Fewer, Answered, Own
  <2>6. Pending(Mine(d), k)
    BY <2>1, <2>3, <2>4 DEF Pending, Mine
  <2> QED
    BY <1>0, <2>3, <2>5, <2>6
<1>2. CASE Modem
  <2>0. Shorter /\ UNCHANGED <<pc, part, turn>> /\ pc[d] = "prompt"
    BY <1>2, ModemTakes, ModemQuiet
  <2>1. PICK q \in Part : q = Mine(d) /\ Pending(q, k)'
    <3>1. Mine(d) \in Part
      BY <2>0, MineIsPart DEF IInv
    <3> QED
      BY <2>0, <3>1 DEF Mine, Pending
  <2>2. ~Answered(d)
    <3>1. Pending(q, k + 1) \/ Pending(q, 0)
      BY <1>2, <2>1, PendingShorter
    <3> QED
      BY <1>0, <2>0, <2>1, <3>1
  <2>3. PICK j \in DOMAIN inbox' : Own(d, inbox[j])' /\ inbox'[j].end # ""
    BY DEF Answered
  <2>4. inbox'[j].of = Head(requests) /\ Refuse /\ Head(requests).ask = "AT+CMGS"
    <3>1. ~(j \in DOMAIN inbox /\ inbox'[j] = inbox[j])
      BY <2>0, <2>2, <2>3 DEF Answered, Own
    <3> QED
      BY <1>2, <2>3, <3>1, ModemAnswers DEF Own
  <2>5. Len(requests) = 1
    BY <2>0, <2>3, <2>4 DEF IInv, Once, Shorter, Own
  <2>6. asked' = Nobody
    BY <2>4 DEF Refuse, modemVars
  <2>7. DOMAIN requests' = {}
    BY <2>0, <2>5 DEF Shorter
  <2> QED
    BY <2>6, <2>7 DEF Pending
<1>3. CASE Drop
  BY <1>3, Dropped DEF Answered, IInv
<1> QED
  BY <1>1, <1>2, <1>3 DEF AnyStep

-----------------------------------------------------------------------------
(* The theorems *)

\* Nothing has been asked.
LEMMA Initially ==
  ASSUME Init
  PROVE  IInv
<1>1. /\ inbox = <<>> /\ requests = <<>>
      /\ asked = Nobody /\ turn = Nobody
      /\ commands = 0 /\ refusals = 0 /\ drops = 0
  BY DEF Init
<1>2. DOMAIN requests = {}
  BY <1>1
<1>3. /\ \A c \in Caller : pc[c] = "idle"
      /\ \A c \in Sender : part[c] = 0 /\ parts[c] = 0
  BY DEF Init
<1>4. Sender \subseteq Caller /\ Other \in Caller /\ Nobody \notin Caller
  BY SendAssumption DEF Caller, SendAssumption
<1>5. TypeOK
  <2>1. inbox \in Seq(Frame) /\ requests \in Seq(Request)
    BY <1>1
  <2>2. accepted \in [Sender -> Seq(1 .. MaxParts)]
    <3>1. <<>> \in Seq(1 .. MaxParts)
      BY EmptySeq
    <3> QED
      BY <3>1 DEF Init
  <2>3. 0 \in 0 .. MaxParts
    BY SendAssumption DEF SendAssumption
  <2>4. commands \in 0 .. MaxCommands /\ refusals \in 0 .. MaxRefusals /\ drops \in 0 .. MaxDrops
    <3>1. MaxCommands \in Nat /\ MaxRefusals \in Nat /\ MaxDrops \in Nat
      BY SendAssumption DEF SendAssumption
    <3> QED
      BY <1>1, <3>1
  <2>5. /\ pc \in [Caller -> Waiting \cup {"idle", "begin", "next"}]
        /\ parts \in [Sender -> 0 .. MaxParts] /\ part \in [Sender -> 0 .. MaxParts]
        /\ result \in [Sender -> {"", "sent", "error"}]
    BY <2>3 DEF Init
  <2> QED
    BY <2>1, <2>2, <2>4, <2>5 DEF TypeOK, Init
<1>6. Roles
  BY <1>1, <1>3, <1>4 DEF Roles, Waiting
<1>7. Counted
  <2>1. \A c \in Sender : pc[c] = "idle" /\ part[c] = 0 /\ parts[c] = 0
    BY <1>3, <1>4
  <2>2. \A c \in Sender : part[c] <= parts[c]
    BY <2>1
  <2> QED
    BY <2>1, <2>2 DEF Counted
<1>8. Asked /\ Once
  BY <1>2 DEF Asked, Once
<1>9. Fresh
  BY <1>1, <1>2, <1>3, <1>4 DEF Fresh
<1>10. Served /\ Settled
  BY <1>1, <1>2 DEF Served, Settled, Pending
<1> QED
  BY <1>5, <1>6, <1>7, <1>8, <1>9, <1>10 DEF IInv

\* A step that changes nothing.
LEMMA Stutter ==
  ASSUME IInv, UNCHANGED vars
  PROVE  IInv'
<1> USE DEF vars, callVars, modemVars, boundVars, sentVars, historyVars, IInv
<1>1. TypeOK'
  BY DEF TypeOK
<1>2. Roles' /\ Counted'
  BY DEF Roles, Counted
<1>3. Asked' /\ Once'
  BY DEF Asked, Once
<1>4. Fresh'
  BY DEF Fresh, ModeAhead
<1>5. Served'
  BY DEF Served, Pending, Expects, Carried, Carries
<1>6. Settled'
  BY DEF Settled, Answered, Own, Pending, Mine
<1> QED
  BY <1>1, <1>2, <1>3, <1>4, <1>5, <1>6

\* A step keeps every part of the invariant.
LEMMA Step ==
  ASSUME IInv, Next
  PROVE  IInv'
<1>1. (\E c \in Sender : Call(c)) \/ OtherStep \/ Modem \/ Drop
  BY DEF Next, OtherStep, Modem
<1>2. TypeOK'
  BY <1>1, CallTypeOK, OtherTypeOK, ModemTypeOK, DropTypeOK DEF OtherStep
<1>3. Roles' /\ Counted' /\ Asked' /\ Once' /\ Fresh'
  BY <1>1, RolesStep, CountedStep, AskedStep, OnceStep, FreshStep
<1>4. Served' /\ Settled'
  BY <1>1, ServedStep, SettledStep DEF AnyStep
<1> QED
  BY <1>2, <1>3, <1>4 DEF IInv

\* IInv holds in every reachable state.
THEOREM Invariance == Spec => []IInv
<1>1. Init => IInv
  BY Initially
<1>2. IInv /\ [Next]_vars => IInv'
  BY Step, Stutter
<1> QED
  BY <1>1, <1>2, PTL DEF Spec

\* The variables have their types: among them, that every answer belongs to a
\* request and every part the modem sends to a sender and its message.
THEOREM TypeCorrectness == Spec => []TypeOK
<1>1. IInv => TypeOK
  BY DEF IInv
<1> QED
  BY <1>1, Invariance, PTL

\* An open prompt has the sender that asked for it waiting for it, or the PDU of the
\* same part on its way, unless that sender gave up before it saw the prompt or the
\* connection dropped under the exchange (sms.go:204).
THEOREM PromptsServed == Spec => []PromptIsServed
<1>1. IInv => PromptIsServed
  <2> SUFFICES ASSUME IInv, asked # Nobody, asked \notin abandoned
               PROVE  Expects(asked) \/ \E k \in DOMAIN requests : Carries(requests[k], asked)
    BY DEF PromptIsServed
  <2>1. asked \in Part /\ Pending(asked, 0) /\ Served
    BY DEF IInv, TypeOK, Pending
  <2>2. Expects(asked) \/ Carried(asked, 0)
    BY <2>1 DEF Served
  <2> QED
    BY <2>2 DEF Carried
<1> QED
  BY <1>1, Invariance, PTL

\* A PDU goes out as a text only if another caller, a refused AT+CMGF=0 or one that was
\* lost with its connection has left the modem in text mode (sms.go:169).
THEOREM ModeHolds == Spec => PduModeHolds
<1>1. IInv /\ Next => (garbled' # garbled => disturbed)
  <2> SUFFICES ASSUME IInv, Next, garbled' # garbled
               PROVE  disturbed
    OBVIOUS
  <2>1. Finish /\ mode = "text" /\ asked # Nobody
    BY DEF Next, Call, SendSMS, SetMode, ReadMode, StartPart, ReadPrompt, ReadConfirmation, Fail,
           OtherCommand, ReadAnswer, OtherFails, Obey, Refuse, Swallow, Finish, Drop, sentVars
  <2> QED
    BY <2>1, Zenon DEF IInv, Fresh
<1>2. IInv /\ [Next]_vars => [garbled' # garbled => disturbed]_vars
  BY <1>1
<1> QED
  BY <1>2, Invariance, PTL DEF Spec, PduModeHolds

-----------------------------------------------------------------------------
(* The parts *)

\* A call has a result when it is over, and success is that of the last part.
Started ==
  \A c \in Sender :
    /\ pc[c] # "idle" => result[c] = ""
    /\ result[c] = "sent" => part[c] = parts[c]

\* An OK to AT+CMGS does not exist.
Refused == \A k \in DOMAIN inbox : inbox[k].of.ask = "AT+CMGS" => inbox[k].end # "OK"

\* While c waits for its prompt nobody else writes: once its AT+CMGS is answered
\* there is no other request.
Wanted(c, r) == r.ask = "AT+CMGS" /\ r.by = c /\ r.part = part[c]
Prompted ==
  \A c \in Sender : pc[c] = "prompt" =>
    \A k \in DOMAIN inbox : Own(c, inbox[k]) =>
         /\ DOMAIN requests = {}
         /\ \A j \in DOMAIN inbox : j >= k => Own(c, inbox[j])

\* So a sender that took its own prompt is answered about its own PDU.
PduOf(c, r) == r.ask = "PDU" /\ r.by = c
Confirming ==
  \A c \in Sender \ misled : pc[c] = "confirm" =>
    /\ \A k \in DOMAIN requests : PduOf(c, requests[k]) /\ requests[k].part = part[c]
    /\ \A k \in DOMAIN inbox :
         Wanted(c, inbox[k].of) \/ (PduOf(c, inbox[k].of) /\ inbox[k].of.part = part[c])

\* The modem has sent the parts before the one its sender is at, in order and once,
\* and that one too if its PDU is not on its way any more; an OK for a PDU comes
\* after it is sent.
OnItsWay(c) == {k \in DOMAIN requests : PduOf(c, requests[k])}
Sent(c) ==
  LET n == Len(accepted[c]) IN
  /\ accepted[c] = FirstParts(n)
  /\ n \in {part[c] - 1, part[c]}
  /\ pc[c] \in {"next", "prompt"} \/ OnItsWay(c) # {} => n = part[c] - 1
  /\ result[c] = "sent" => n = part[c]
  /\ OnItsWay(c) # {} => pc[c] \in {"confirm", "idle"}
  /\ \A j, k \in OnItsWay(c) : j = k
  /\ \A k \in OnItsWay(c) : requests[k].part = part[c]
  /\ \A k \in DOMAIN inbox : PduOf(c, inbox[k].of) /\ inbox[k].end = "OK" => inbox[k].of.part <= n
InParts == \A c \in Sender \ (misled \cup garbled) : Sent(c)

DInv == IInv /\ Started /\ Refused /\ Prompted /\ Confirming /\ InParts

\* The modem never confirms an AT+CMGS, it prompts.
LEMMA RefusedStep ==
  ASSUME IInv, Refused, AnyStep
  PROVE  Refused'
<1>1. CASE (\E c \in Sender : Call(c)) \/ OtherStep
  <2>1. Fewer
    BY <1>1, CallersRead
  <2> QED
    BY <2>1 DEF Fewer, Refused
<1>2. CASE Modem
  <2>1. \A k \in DOMAIN inbox' :
          \/ k \in DOMAIN inbox /\ inbox'[k] = inbox[k]
          \/ /\ inbox'[k].of = Head(requests)
             /\ inbox'[k].end = "OK" => Head(requests).ask # "AT+CMGS"
    BY <1>2, ModemAnswers
  <2> QED
    BY <2>1 DEF Refused
<1>3. CASE Drop
  BY <1>3 DEF Drop, Refused
<1> QED
  BY <1>1, <1>2, <1>3 DEF AnyStep

\* A result is set when the call ends.
LEMMA StartedStep ==
  ASSUME IInv, Started, AnyStep
  PROVE  Started'
<1>0. /\ DOMAIN pc = Caller /\ DOMAIN part = Sender /\ DOMAIN parts = Sender /\ DOMAIN result = Sender
      /\ Sender \subseteq Caller
  BY Counters DEF IInv
<1>1. ASSUME NEW c \in Sender, Call(c)
      PROVE  Started'
  <2>0. Started
    OBVIOUS
  <2>1. CASE (\E n \in 1 .. MaxParts : SendSMS(c, n)) \/ SetMode(c) \/ ReadMode(c) \/ StartPart(c)
    <3>1. UNCHANGED result /\ result[c] = "" /\ \A d \in Sender : d # c =>
            pc'[d] = pc[d] /\ part'[d] = part[d] /\ parts'[d] = parts[d]
      BY <1>0, <2>0, <2>1 DEF SendSMS, SetMode, ReadMode, StartPart, Goto, Started
    <3> QED
      BY <2>0, <3>1 DEF Started
  <2>2. CASE ReadPrompt(c)
    BY <1>0, <2>0, <2>2 DEF ReadPrompt, Goto, Return, Started
  <2>3. CASE ReadConfirmation(c)
    <3>1. Head(inbox).end \in {"", "OK", "ERROR"}
      BY <2>3, FrameRead DEF ReadConfirmation, Frame, IInv
    <3>2. \/ UNCHANGED <<pc, part, parts, result>>
          \/ /\ pc' = [pc EXCEPT ![c] = "idle"] /\ UNCHANGED <<part, parts>>
             /\ \/ result' = [result EXCEPT ![c] = "sent"] /\ part[c] = parts[c]
                \/ result' = [result EXCEPT ![c] = "error"]
          \/ /\ pc' = [pc EXCEPT ![c] = "next"] /\ part' = [part EXCEPT ![c] = part[c] + 1]
             /\ pc[c] = "confirm" /\ UNCHANGED <<parts, result>>
      BY <2>3, <3>1 DEF ReadConfirmation, Goto, Return
    <3> QED
      BY <1>0, <2>0, <3>2 DEF Started
  <2>4. CASE Fail(c)
    BY <1>0, <2>0, <2>4 DEF Fail, Goto, Return, Started
  <2> QED
    BY <1>1, <2>1, <2>2, <2>3, <2>4 DEF Call
<1>2. CASE OtherStep
  BY <1>2, OtherMoves DEF Started
<1>3. CASE Modem \/ Drop
  BY <1>3, ModemQuiet DEF Started
<1> QED
  BY <1>1, <1>2, <1>3 DEF AnyStep

\* A sender that waits for a prompt has its request at the end of what there is.
LEMMA PromptedStep ==
  ASSUME IInv, Prompted, AnyStep
  PROVE  Prompted'
<1> SUFFICES ASSUME NEW d \in Sender, pc'[d] = "prompt"
             PROVE  \A k \in DOMAIN inbox' : Own(d, inbox[k])' =>
                         /\ DOMAIN requests' = {}
                         /\ \A j \in DOMAIN inbox' : j >= k => Own(d, inbox[j])'
  BY DEF Prompted, Wanted, Own
<1> USE DEF Wanted, Own
<1>0. pc[d] = "prompt" =>
        /\ turn = d
        /\ \A k \in DOMAIN inbox : Own(d, inbox[k]) =>
             /\ DOMAIN requests = {}
             /\ \A j \in DOMAIN inbox : j >= k => Own(d, inbox[j])
  BY Waits DEF Prompted
<1>1. CASE Call(d)
  <2>1. CASE pc[d] = "prompt" /\ part'[d] = part[d] /\ requests' = requests
    <3>1. Fewer
      BY <1>1, CallersRead
    <3>2. CASE inbox' = inbox \/ DOMAIN inbox' = {}
      BY <1>0, <2>1, <3>2
    <3>3. CASE \A k \in DOMAIN inbox' : k \in Nat /\ k + 1 \in DOMAIN inbox /\ inbox'[k] = inbox[k + 1]
      BY <1>0, <2>1, <3>3
    <3> QED
      BY <3>1, <3>2, <3>3 DEF Fewer
  <2>2. CASE StartPart(d)
    <3>1. PICK r \in Request : Longer(r) /\ r.by = d /\ r.ask = "AT+CMGS" /\ r.part = part[d]
      <4>1. ~SetMode(d) /\ ~ReadPrompt(d)
        BY <2>2 DEF StartPart, SetMode, ReadPrompt
      <4> QED
        BY <1>1, <2>2, <4>1, CallWrites
    <3>2. DOMAIN inbox' = {} /\ part'[d] = part[d]
      BY <2>2 DEF StartPart, Open
    <3> QED
      BY <3>1, <3>2 DEF Longer
  <2> QED
    BY <1>1, <2>1, <2>2, CallMoves
<1>2. CASE (\E c \in Sender \ {d} : Call(c)) \/ OtherStep
  <2>1. pc'[d] = pc[d] /\ part'[d] = part[d]
    BY <1>2, CallMoves, OtherMoves
  <2>2. UNCHANGED <<inbox, requests>>
    BY <1>0, <1>2, <2>1, Bystander
  <2> QED
    BY <1>0, <2>1, <2>2
<1>3. CASE Modem
  <2>0. Shorter /\ UNCHANGED <<pc, part>> /\ pc[d] = "prompt"
    BY <1>3, ModemTakes, ModemQuiet
  <2>2. \A k \in DOMAIN inbox' :
          \/ k \in DOMAIN inbox /\ inbox'[k] = inbox[k]
          \/ k \notin DOMAIN inbox /\ inbox'[k].of = requests[1]
    BY <1>3, <2>0, ModemAnswers DEF Shorter
  <2>3. ASSUME NEW k \in DOMAIN inbox', Own(d, inbox[k])'
        PROVE  DOMAIN requests' = {} /\ \A j \in DOMAIN inbox' : j >= k => Own(d, inbox[j])'
    <3>1. k \notin DOMAIN inbox /\ inbox'[k].of = requests[1]
      <4>1. DOMAIN requests # {}
        BY <2>0 DEF Shorter
      <4> QED
        BY <1>0, <2>0, <2>2, <2>3, <4>1
    <3>2. Wanted(d, requests[1]) /\ 1 \in DOMAIN requests
      BY <2>0, <2>3, <3>1 DEF Shorter
    <3>3. Len(requests) = 1
      BY <2>0, <3>2 DEF IInv, Once
    <3>4. DOMAIN requests' = {}
      BY <2>0, <3>3 DEF Shorter
    <3>5. \A j \in DOMAIN inbox' : j >= k => j \notin DOMAIN inbox
      <4>1. inbox \in Seq(Frame) /\ inbox' \in Seq(Frame)
        BY <1>3, ModemAnswers DEF IInv, TypeOK
      <4>2. /\ DOMAIN inbox = 1 .. Len(inbox) /\ Len(inbox) \in Nat
            /\ DOMAIN inbox' = 1 .. Len(inbox') /\ Len(inbox') \in Nat
        BY <4>1, LenProperties
      <4> QED
        BY <3>1, <4>2
    <3> QED
      BY <2>0, <2>2, <3>2, <3>4, <3>5
  <2> QED
    BY <2>3
<1>4. CASE Drop
  <2>1. DOMAIN inbox' = {} /\ UNCHANGED <<pc, part>>
    BY <1>0, <1>4, ModemQuiet, Dropped DEF IInv
  <2> QED
    BY <1>0, <1>4, <2>1, Dropped DEF IInv
<1> QED
  BY <1>1, <1>2, <1>3, <1>4 DEF AnyStep

\* Who was misled stays so, and what was sent as a text.
LEMMA FaultsStay ==
  ASSUME AnyStep
  PROVE  misled \subseteq misled' /\ garbled \subseteq garbled'
BY DEF AnyStep, Call, SendSMS, SetMode, ReadMode, StartPart, ReadPrompt, ReadConfirmation, Fail,
       OtherStep, OtherCommand, ReadAnswer, OtherFails, Modem, Obey, Refuse, Swallow, Finish, Drop,
       historyVars, sentVars

\* A sender that was given its own prompt has nothing but its PDU with the modem.
LEMMA ConfirmingStep ==
  ASSUME IInv, Prompted, Confirming, AnyStep
  PROVE  Confirming'
<1> SUFFICES ASSUME NEW d \in Sender, d \notin misled', pc'[d] = "confirm"
             PROVE  /\ \A k \in DOMAIN requests' : PduOf(d, requests'[k]) /\ requests'[k].part = part'[d]
                    /\ \A k \in DOMAIN inbox' :
                         \/ Wanted(d, inbox[k].of)'
                         \/ PduOf(d, inbox'[k].of) /\ inbox'[k].of.part = part'[d]
  BY DEF Confirming, PduOf, Wanted
<1> USE DEF Wanted
<1>0. pc[d] = "confirm" =>
        /\ turn = d
        /\ \A k \in DOMAIN requests : PduOf(d, requests[k]) /\ requests[k].part = part[d]
        /\ \A k \in DOMAIN inbox :
             Wanted(d, inbox[k].of) \/ (PduOf(d, inbox[k].of) /\ inbox[k].of.part = part[d])
  BY Waits, FaultsStay DEF Confirming
<1>1. CASE Call(d)
  <2>0. DOMAIN pc = Caller /\ d \in Caller
    BY Counters DEF IInv
  <2>1. \/ pc[d] = "confirm" /\ part'[d] = part[d] /\ requests' = requests
        \/ ReadPrompt(d) /\ Head(inbox).bracket
    <3>1. CASE ReadConfirmation(d)
      <4>1. Head(inbox).end \in {"", "OK", "ERROR"}
        BY <3>1, FrameRead DEF ReadConfirmation, Frame, IInv
      <4> QED
        BY <2>0, <3>1, <4>1 DEF ReadConfirmation, Goto, Return
    <3>2. CASE ReadPrompt(d)
      BY <2>0, <3>2 DEF ReadPrompt, Goto, Return
    <3>3. CASE (\E n \in 1 .. MaxParts : SendSMS(d, n)) \/ SetMode(d) \/ ReadMode(d) \/ StartPart(d) \/ Fail(d)
      BY <2>0, <3>3 DEF SendSMS, SetMode, ReadMode, StartPart, Fail, Goto, Return
    <3> QED
      BY <1>1, <3>1, <3>2, <3>3 DEF Call
  <2>2. CASE pc[d] = "confirm" /\ part'[d] = part[d] /\ requests' = requests
    <3>1. Fewer
      BY <1>1, CallersRead
    <3> QED
      BY <1>0, <2>2, <3>1 DEF Fewer
  <2>3. CASE ReadPrompt(d) /\ Head(inbox).bracket
    <3>1. Own(d, Head(inbox)) /\ pc[d] = "prompt" /\ inbox # <<>> /\ inbox' = Tail(inbox)
          /\ pc' = [pc EXCEPT ![d] = "confirm"]
      BY <2>3 DEF ReadPrompt, Goto
    <3>2. /\ Head(inbox) = inbox[1] /\ 1 \in DOMAIN inbox
          /\ \A k \in DOMAIN inbox' : k + 1 \in DOMAIN inbox /\ inbox'[k] = inbox[k + 1]
      BY <3>1, FrameRead DEF IInv
    <3>3. \A k \in DOMAIN inbox' : k + 1 >= 1
      <4>1. inbox' \in Seq(Frame)
        BY <3>1, FrameRead DEF IInv
      <4>2. DOMAIN inbox' = 1 .. Len(inbox') /\ Len(inbox') \in Nat
        BY <4>1, LenProperties
      <4> QED
        BY <4>2
    <3>4. DOMAIN requests = {} /\ \A k \in DOMAIN inbox' : Own(d, inbox'[k])
      BY <3>1, <3>2, <3>3 DEF Prompted, Own
    <3>5. part'[d] = part[d]
      BY <2>3 DEF ReadPrompt
    <3>6. PICK r \in Request : Longer(r) /\ r.by = d /\ r.ask = "PDU" /\ r.part = part[d]
      <4>1. requests' # requests
        <5>1. requests' = Append(requests, [ask |-> "PDU", by |-> d, part |-> part[d], lost |-> FALSE])
          BY <2>3 DEF ReadPrompt, Write
        <5>2. requests \in Seq(Request) /\ [ask |-> "PDU", by |-> d, part |-> part[d], lost |-> FALSE] \in Request
          BY <2>0 DEF IInv, TypeOK, Request
        <5> QED
          BY <5>1, <5>2, Written DEF IInv
      <4>2. ~SetMode(d) /\ ~StartPart(d)
        BY <3>1 DEF SetMode, StartPart
      <4> QED
        BY <1>1, <4>1, <4>2, CallWrites
    <3> QED
      BY <3>4, <3>5, <3>6 DEF Longer, PduOf, Own
  <2> QED
    BY <2>1, <2>2, <2>3
<1>2. CASE (\E c \in Sender \ {d} : Call(c)) \/ OtherStep
  <2>1. pc'[d] = pc[d] /\ part'[d] = part[d]
    BY <1>2, CallMoves, OtherMoves
  <2>2. UNCHANGED <<inbox, requests>>
    BY <1>0, <1>2, <2>1, Bystander
  <2> QED
    BY <1>0, <2>1, <2>2
<1>3. CASE Modem
  <2>0. Shorter /\ UNCHANGED <<pc, part>> /\ pc[d] = "confirm"
    BY <1>3, ModemTakes, ModemQuiet
  <2>1. \A k \in DOMAIN requests' : PduOf(d, requests'[k]) /\ requests'[k].part = part'[d]
    BY <1>0, <2>0 DEF Shorter
  <2>2. \A k \in DOMAIN inbox' :
          \/ k \in DOMAIN inbox /\ inbox'[k] = inbox[k]
          \/ inbox'[k].of = requests[1]
    BY <1>3, <2>0, ModemAnswers DEF Shorter
  <2>3. PduOf(d, requests[1]) /\ requests[1].part = part[d]
    BY <1>0, <2>0 DEF Shorter
  <2> QED
    BY <1>0, <2>0, <2>1, <2>2, <2>3
<1>4. CASE Drop
  <2>1. DOMAIN inbox' = {} /\ UNCHANGED <<pc, part>>
    BY <1>0, <1>4, ModemQuiet, Dropped DEF IInv
  <2> QED
    BY <1>0, <1>4, <2>1, Dropped DEF IInv, PduOf
<1> QED
  BY <1>1, <1>2, <1>3, <1>4 DEF AnyStep

-----------------------------------------------------------------------------
(* What the modem has sent *)

\* The PDUs of d that are on their way are the same, further to the front, or fewer.
Behind(d) ==
  \E s \in {0, 1} : \A k \in OnItsWay(d)' :
    k \in Nat /\ k + s \in OnItsWay(d) /\ requests'[k].part = requests[k + s].part

\* A frame that says OK to a PDU of d is an old one, of a part that is sent.
Honest(d) ==
  \A k \in DOMAIN inbox' :
    PduOf(d, inbox'[k].of) /\ inbox'[k].end = "OK" => inbox'[k].of.part <= Len(accepted[d])

\* What the types say of what is sent.
LEMMA SentTypes ==
  ASSUME TypeOK, NEW d \in Sender
  PROVE  Len(accepted[d]) \in Nat /\ part[d] \in Nat /\ parts[d] \in Nat /\ accepted[d] \in Seq(1 .. MaxParts)
<1>1. accepted[d] \in Seq(1 .. MaxParts)
  BY DEF TypeOK
<1> QED
  BY <1>1, LenProperties, Counters

\* A step that changes none of this.
LEMMA SentStays ==
  ASSUME TypeOK, NEW d \in Sender, Sent(d), Behind(d), Honest(d),
         accepted'[d] = accepted[d], part'[d] = part[d],
         pc'[d] \in {"next", "prompt"} => pc[d] \in {"next", "prompt"},
         OnItsWay(d) # {} => pc'[d] \in {"confirm", "idle"},
         result'[d] = "sent" => Len(accepted[d]) = part[d]
  PROVE  Sent(d)'
<1> DEFINE n == Len(accepted[d])
<1>0. n \in Nat /\ part[d] \in Nat
  BY SentTypes
<1>1. /\ accepted[d] = FirstParts(n)
      /\ n \in {part[d] - 1, part[d]}
      /\ pc[d] \in {"next", "prompt"} \/ OnItsWay(d) # {} => n = part[d] - 1
      /\ \A j, k \in OnItsWay(d) : j = k
      /\ \A k \in OnItsWay(d) : requests[k].part = part[d]
  BY DEF Sent
<1> HIDE DEF n
<1>2. PICK s \in {0, 1} : \A k \in OnItsWay(d)' :
        k \in Nat /\ k + s \in OnItsWay(d) /\ requests'[k].part = requests[k + s].part
  BY DEF Behind
<1>3. OnItsWay(d)' # {} => OnItsWay(d) # {}
  BY <1>2
<1>4. \A j, k \in OnItsWay(d)' : j = k
  <2> SUFFICES ASSUME NEW j \in OnItsWay(d)', NEW k \in OnItsWay(d)'
               PROVE  j = k
    OBVIOUS
  <2>1. j + s = k + s /\ j \in Nat /\ k \in Nat
    BY <1>1, <1>2
  <2> QED
    BY <2>1
<1>5. \A k \in OnItsWay(d)' : requests'[k].part = part'[d]
  BY <1>1, <1>2
<1>6. accepted'[d] = accepted[d] /\ Len(accepted'[d]) = n
  BY DEF n
<1>7. \A k \in DOMAIN inbox' : PduOf(d, inbox'[k].of) /\ inbox'[k].end = "OK" => inbox'[k].of.part <= n
  BY DEF Honest, n
<1>8. result'[d] = "sent" => n = part'[d]
  BY DEF n
<1>9. accepted'[d] = FirstParts(Len(accepted'[d])) /\ Len(accepted'[d]) \in {part'[d] - 1, part'[d]}
  BY <1>1, <1>6
<1>10. pc'[d] \in {"next", "prompt"} \/ OnItsWay(d)' # {} => Len(accepted'[d]) = part'[d] - 1
  BY <1>1, <1>3, <1>6
<1> HIDE DEF OnItsWay
<1> QED
  BY <1>3, <1>4, <1>5, <1>6, <1>7, <1>8, <1>9, <1>10 DEF Sent, PduOf

\* The other requests do not matter.
LEMMA WayLonger ==
  ASSUME IInv, NEW d \in Sender, NEW r \in Request, Longer(r), ~PduOf(d, r)
  PROVE  Behind(d)
<1>1. \A k \in OnItsWay(d)' : k \in Nat /\ k + 0 \in OnItsWay(d) /\ requests'[k].part = requests[k + 0].part
  <2> SUFFICES ASSUME NEW k \in OnItsWay(d)'
               PROVE  k \in Nat /\ k + 0 \in OnItsWay(d) /\ requests'[k].part = requests[k + 0].part
    OBVIOUS
  <2>1. k \in 1 .. Len(requests) + 1 /\ PduOf(d, requests'[k]) /\ k # Len(requests) + 1
    BY DEF OnItsWay, Longer, PduOf
  <2>2. k \in DOMAIN requests /\ k \in Nat /\ k + 0 = k
    BY <2>1 DEF Longer
  <2> QED
    BY <2>1, <2>2 DEF OnItsWay, Longer
<1> QED
  BY <1>1 DEF Behind

\* A drop marks the requests and loses the last ones.
LEMMA WaySame ==
  ASSUME IInv, NEW d \in Sender,
         \A k \in DOMAIN requests' :
           /\ k \in DOMAIN requests
           /\ requests'[k].ask = requests[k].ask
           /\ requests'[k].by = requests[k].by
           /\ requests'[k].part = requests[k].part
  PROVE  Behind(d)
<1>1. DOMAIN requests = 1 .. Len(requests) /\ Len(requests) \in Nat
  BY LenProperties DEF IInv, TypeOK
<1>2. \A k \in OnItsWay(d)' : k \in Nat /\ k + 0 \in OnItsWay(d) /\ requests'[k].part = requests[k + 0].part
  <2> SUFFICES ASSUME NEW k \in OnItsWay(d)'
               PROVE  k \in Nat /\ k + 0 \in OnItsWay(d) /\ requests'[k].part = requests[k + 0].part
    OBVIOUS
  <2>1. k \in DOMAIN requests /\ PduOf(d, requests'[k])
    BY DEF OnItsWay, PduOf
  <2>2. k \in Nat /\ k + 0 = k
    BY <1>1, <2>1
  <2> QED
    BY <2>1, <2>2 DEF OnItsWay, PduOf
<1> QED
  BY <1>2 DEF Behind

\* The modem brings the PDUs nearer.
LEMMA WayShorter ==
  ASSUME NEW d \in Sender, Shorter
  PROVE  Behind(d)
<1>1. \A k \in OnItsWay(d)' : k \in Nat /\ k + 1 \in OnItsWay(d) /\ requests'[k].part = requests[k + 1].part
  BY DEF OnItsWay, Shorter, PduOf
<1> QED
  BY <1>1 DEF Behind

\* Reading brings no confirmation.
LEMMA FewerHonest ==
  ASSUME NEW d \in Sender, Sent(d), Fewer
  PROVE  Honest(d)
BY DEF Sent, Fewer, Honest

\* One part more.
LEMMA NextPart ==
  ASSUME NEW n \in Nat
  PROVE  Append(FirstParts(n), n + 1) = FirstParts(n + 1) /\ Len(FirstParts(n)) = n
<1>1. FirstParts(n) \in Seq(Nat) /\ DOMAIN FirstParts(n) = 1 .. n
  <2>1. FirstParts(n) \in [1 .. n -> Nat]
    BY DEF FirstParts
  <2> QED
    BY <2>1, SeqDef
<1>2. FirstParts(n + 1) \in Seq(Nat) /\ DOMAIN FirstParts(n + 1) = 1 .. n + 1
  <2>1. FirstParts(n + 1) \in [1 .. n + 1 -> Nat] /\ n + 1 \in Nat
    BY DEF FirstParts
  <2> QED
    BY <2>1, SeqDef
<1>3. Len(FirstParts(n)) = n /\ Len(FirstParts(n + 1)) = n + 1
  BY <1>1, <1>2, LenProperties
<1>4. /\ Append(FirstParts(n), n + 1) \in Seq(Nat)
      /\ Len(Append(FirstParts(n), n + 1)) = n + 1
      /\ \A i \in 1 .. n : Append(FirstParts(n), n + 1)[i] = FirstParts(n)[i]
      /\ Append(FirstParts(n), n + 1)[n + 1] = n + 1
  BY <1>1, <1>3, AppendProperties
<1>5. \A i \in 1 .. n + 1 : Append(FirstParts(n), n + 1)[i] = FirstParts(n + 1)[i]
  <2>1. \A i \in 1 .. n : FirstParts(n)[i] = i
    BY DEF FirstParts
  <2>2. \A i \in 1 .. n + 1 : FirstParts(n + 1)[i] = i
    BY DEF FirstParts
  <2> QED
    BY <1>4, <2>1, <2>2
<1> QED
  BY <1>2, <1>3, <1>4, <1>5, SeqEqual

\* A sender's own step.
LEMMA SentCall ==
  ASSUME IInv, Started, Refused, Confirming, NEW d \in Sender, d \notin misled, Sent(d), Call(d)
  PROVE  Sent(d)'
<1>0. /\ DOMAIN pc = Caller /\ DOMAIN part = Sender /\ DOMAIN result = Sender /\ d \in Caller
      /\ Len(accepted[d]) \in Nat /\ part[d] \in Nat /\ TypeOK
      /\ accepted'[d] = accepted[d] /\ Len(accepted'[d]) = Len(accepted[d])
      /\ accepted'[d] = FirstParts(Len(accepted'[d]))
  <2>1. accepted' = accepted /\ accepted[d] = FirstParts(Len(accepted[d]))
    BY DEF Call, SendSMS, SetMode, ReadMode, StartPart, ReadPrompt, ReadConfirmation, Fail, sentVars, Sent
  <2> QED
    BY <2>1, Counters, SentTypes DEF IInv
<1>h. Honest(d)
  BY CallersRead, FewerHonest
<1>w. requests' = requests => Behind(d)
  BY WaySame
<1>s. /\ OnItsWay(d) # {} => pc[d] \in {"confirm", "idle"}
      /\ Len(accepted[d]) = part[d] - 1 \/ Len(accepted[d]) = part[d]
      /\ pc[d] \in {"next", "prompt"} \/ OnItsWay(d) # {} => Len(accepted[d]) = part[d] - 1
      /\ pc[d] # "idle" => result[d] = ""
      /\ result[d] = "sent" => Len(accepted[d]) = part[d]
  BY DEF Sent, Started
<1>n. \A n, i \in Nat : n = i - 1 \/ n = i =>
        /\ i = 0 => n = 0 /\ n # i - 1
        /\ i <= n => n = i /\ n # i - 1 /\ n = (i + 1) - 1
  OBVIOUS
<1>1. CASE \E n \in 1 .. MaxParts : SendSMS(d, n)
  <2>1. UNCHANGED <<requests, part, result>> /\ pc'[d] = "begin" /\ pc[d] = "idle" /\ result[d] = ""
    BY <1>0, <1>1 DEF SendSMS, Goto
  <2>2. part[d] = 0
    BY <2>1 DEF IInv, Counted
  <2>3. OnItsWay(d) = {}
    BY <1>0, <1>n, <1>s, <2>2
  <2> QED
    BY <1>0, <1>h, <1>w, <1>s, <2>1, <2>3, SentStays
<1>2. CASE SetMode(d) \/ StartPart(d)
  <2>1. PICK r \in Request : Longer(r) /\ r.ask # "PDU"
    BY <1>2, CallWrites DEF SetMode, StartPart, ReadPrompt
  <2>2. Behind(d)
    BY <2>1, WayLonger DEF PduOf
  <2>3. /\ pc[d] \in {"begin", "next"} /\ UNCHANGED <<part, result>>
        /\ pc'[d] \in {"next", "prompt"} => pc[d] \in {"next", "prompt"}
    BY <1>0, <1>2 DEF SetMode, StartPart, Goto
  <2> QED
    BY <1>0, <1>h, <1>s, <2>2, <2>3, SentStays
<1>3. CASE ReadMode(d)
  <2>1. pc[d] = "mode" /\ part[d] = 0 /\ UNCHANGED <<requests, result>> /\ OnItsWay(d) = {}
    BY <1>3, <1>s DEF ReadMode, IInv, Counted
  <2>2. CASE pc' = pc /\ part' = part
    BY <1>0, <1>h, <1>w, <1>s, <2>1, <2>2, SentStays
  <2>3. CASE pc' = [pc EXCEPT ![d] = "next"] /\ part' = [part EXCEPT ![d] = 1]
    <3>1. Len(accepted[d]) = 0
      BY <1>0, <1>n, <1>s, <2>1
    <3>2. part'[d] = 1 /\ pc'[d] = "next" /\ result'[d] = ""
      BY <1>0, <1>s, <2>1, <2>3
    <3>3. OnItsWay(d)' = {}
      BY <2>1 DEF OnItsWay, PduOf
    <3>4. Len(accepted'[d]) = part'[d] - 1
      <4>1. Len(accepted'[d]) = 0
        BY <1>0, <3>1
      <4>2. 0 = 1 - 1
        OBVIOUS
      <4> QED
        BY <3>2, <4>1, <4>2, Zenon
    <3> QED
      BY <1>0, <1>h, <3>2, <3>3, <3>4 DEF Sent, Honest, PduOf
  <2> QED
    BY <1>3, <2>2, <2>3 DEF ReadMode, Goto
<1>4. CASE ReadPrompt(d)
  <2>1. pc[d] = "prompt" /\ UNCHANGED part /\ OnItsWay(d) = {} /\ Len(accepted[d]) = part[d] - 1
    BY <1>4, <1>s DEF ReadPrompt
  <2>2. CASE requests' = requests
    <3>1. \/ pc'[d] = "idle" /\ result'[d] = "error"
          \/ pc'[d] = pc[d] /\ result'[d] = result[d]
          \/ Write(d, "PDU", part[d])
      BY <1>0, <1>4 DEF ReadPrompt, Goto, Return
    <3>2. ~Write(d, "PDU", part[d])
      <4>1. [ask |-> "PDU", by |-> d, part |-> part[d], lost |-> FALSE] \in Request
        BY <1>0 DEF Request, TypeOK
      <4>2. Write(d, "PDU", part[d]) => Len(requests') = Len(requests) + 1 /\ Len(requests) \in Nat
        BY <1>0, <4>1, Written DEF Write
      <4> QED
        BY <2>2, <4>2
    <3> QED
      BY <1>0, <1>h, <1>w, <1>s, <2>1, <2>2, <3>1, <3>2, SentStays
  <2>3. CASE requests' # requests
    <3>1. PICK r \in Request : Longer(r) /\ r.by = d /\ r.ask = "PDU" /\ r.part = part[d]
      BY <1>4, <2>1, <2>3, CallWrites DEF SetMode, StartPart
    <3>2. pc'[d] = "confirm" /\ result'[d] = ""
      BY <1>0, <1>4, <1>s, <2>1, <2>3 DEF ReadPrompt, Goto
    <3>3. OnItsWay(d)' = {Len(requests) + 1}
      <4>1. \A k \in DOMAIN requests : ~PduOf(d, requests'[k])
        BY <2>1, <3>1 DEF OnItsWay, Longer, PduOf
      <4>2. PduOf(d, requests'[Len(requests) + 1])
        BY <3>1 DEF Longer, PduOf
      <4>3. DOMAIN requests' = DOMAIN requests \cup {Len(requests) + 1}
        BY <3>1 DEF Longer
      <4> QED
        BY <4>1, <4>2, <4>3 DEF OnItsWay, PduOf
    <3>4. requests'[Len(requests) + 1].part = part'[d]
      BY <2>1, <3>1 DEF Longer
    <3> QED
      BY <1>0, <1>h, <2>1, <3>2, <3>3, <3>4 DEF Sent, Honest, PduOf
  <2> QED
    BY <2>2, <2>3
<1>5. CASE ReadConfirmation(d)
  <2>1. /\ pc[d] = "confirm" /\ UNCHANGED <<requests, parts>> /\ inbox # <<>>
        /\ Head(inbox) = inbox[1] /\ 1 \in DOMAIN inbox /\ Head(inbox).end \in {"", "OK", "ERROR"}
    BY <1>0, <1>5, FrameRead DEF ReadConfirmation, Frame
  <2>2. \/ pc'[d] = pc[d] /\ UNCHANGED <<part, result>>
        \/ pc'[d] = "idle" /\ result'[d] = "error" /\ UNCHANGED part
        \/ /\ Head(inbox).end = "OK" /\ pc'[d] = "idle" /\ UNCHANGED part
        \/ /\ Head(inbox).end = "OK" /\ pc'[d] = "next" /\ part'[d] = part[d] + 1 /\ UNCHANGED result
    BY <1>0, <1>5, <2>1 DEF ReadConfirmation, Goto, Return
  <2>3. CASE pc'[d] = pc[d] /\ UNCHANGED <<part, result>>
    BY <1>0, <1>h, <1>w, <1>s, <2>1, <2>3, SentStays
  <2>4. CASE pc'[d] = "idle" /\ result'[d] = "error" /\ UNCHANGED part
    BY <1>0, <1>h, <1>w, <1>s, <2>1, <2>4, SentStays
  <2>5. ASSUME Head(inbox).end = "OK"
        PROVE  Len(accepted[d]) = part[d] /\ OnItsWay(d) = {}
    <3>1. PduOf(d, inbox[1].of) /\ inbox[1].of.part = part[d]
      BY <2>1, <2>5 DEF Confirming, Refused, Wanted
    <3>2. part[d] <= Len(accepted[d])
      BY <2>1, <2>5, <3>1 DEF Sent
    <3> QED
      BY <1>0, <1>n, <1>s, <3>2
  <2>6. CASE Head(inbox).end = "OK" /\ pc'[d] = "idle" /\ UNCHANGED part
    BY <1>0, <1>h, <1>w, <1>s, <2>1, <2>5, <2>6, SentStays
  <2>7. CASE Head(inbox).end = "OK" /\ pc'[d] = "next" /\ part'[d] = part[d] + 1 /\ UNCHANGED result
    <3>1. OnItsWay(d)' = {}
      BY <2>1, <2>5, <2>7 DEF OnItsWay, PduOf
    <3>2. Len(accepted'[d]) = part'[d] - 1 /\ result'[d] = ""
      <4>1. result'[d] = "" /\ accepted'[d] = accepted[d]
        BY <1>0, <1>s, <2>1, <2>7
      <4>2. Len(accepted'[d]) = part[d] /\ part'[d] = part[d] + 1 /\ part[d] \in Nat
        BY <1>0, <2>5, <2>7
      <4>3. \A i \in Nat : i = (i + 1) - 1
        OBVIOUS
      <4> QED
        BY <4>1, <4>2, <4>3
    <3> QED
      BY <1>0, <1>h, <2>7, <3>1, <3>2 DEF Sent, Honest, PduOf
  <2> QED
    BY <2>2, <2>3, <2>4, <2>6, <2>7
<1>6. CASE Fail(d)
  <2>1. pc'[d] = "idle" /\ result'[d] = "error" /\ UNCHANGED <<part, requests>>
    BY <1>0, <1>6 DEF Fail, Goto, Return
  <2> QED
    BY <1>0, <1>h, <1>w, <2>1, SentStays
<1> QED
  BY <1>1, <1>2, <1>3, <1>4, <1>5, <1>6 DEF Call

\* The modem's: what it sends is the next part.
LEMMA SentModem ==
  ASSUME IInv, NEW d \in Sender, d \notin garbled', Sent(d), Modem
  PROVE  Sent(d)'
<1> DEFINE n == Len(accepted[d])
           r == Head(requests)
<1>0. /\ n \in Nat /\ part[d] \in Nat /\ TypeOK /\ UNCHANGED <<pc, part, result>>
      /\ Shorter /\ r = requests[1] /\ 1 \in DOMAIN requests
  BY SentTypes, ModemTakes, ModemQuiet DEF IInv, Shorter
<1>a. /\ accepted \in [Sender -> Seq(1 .. MaxParts)]
      /\ Sends(r) /\ r.by = d => accepted'[d] = Append(accepted[d], r.part)
  <2>1. accepted \in [Sender -> Seq(1 .. MaxParts)]
    BY <1>0 DEF TypeOK
  <2> QED
    BY <2>1 DEF Sends
<1>b. accepted'[d] = accepted[d] \/ (Sends(r) /\ PduOf(d, r))
  <2>1. CASE accepted' = accepted
    BY <2>1
  <2>2. CASE accepted' # accepted
    <3>1. Finish /\ r.ask = "PDU" /\ accepted' = [accepted EXCEPT ![r.by] = Append(accepted[r.by], r.part)]
      BY <2>2 DEF Modem, Obey, Refuse, Swallow, Finish, sentVars
    <3> QED
      BY <1>a, <3>1 DEF Sends, PduOf
  <2> QED
    BY <2>1, <2>2
<1>c. \A k \in DOMAIN inbox' :
        \/ k \in DOMAIN inbox /\ inbox'[k] = inbox[k]
        \/ inbox'[k].of = r /\ (inbox'[k].end = "OK" => (r.ask = "PDU" => Sends(r)))
  BY ModemAnswers
<1>s. /\ OnItsWay(d) # {} => pc[d] \in {"confirm", "idle"} /\ n = part[d] - 1
      /\ result[d] = "sent" => n = part[d]
      /\ \A k \in DOMAIN inbox : PduOf(d, inbox[k].of) /\ inbox[k].end = "OK" => inbox[k].of.part <= n
      /\ accepted[d] = FirstParts(n)
  BY DEF Sent
<1> HIDE DEF n, r
<1>1. CASE Sends(r) /\ PduOf(d, r)
  <2>1. 1 \in OnItsWay(d)
    BY <1>0, <1>1 DEF OnItsWay
  <2>2. r.part = part[d] /\ n = part[d] - 1 /\ n + 1 = part[d]
    BY <1>0, <1>s, <2>1 DEF Sent
  <2>3. accepted'[d] = FirstParts(part[d]) /\ Len(accepted'[d]) = part[d]
    <3>1. accepted'[d] = Append(FirstParts(n), n + 1)
      BY <1>1, <1>a, <1>s, <2>2 DEF PduOf
    <3>2. accepted'[d] = FirstParts(n + 1)
      BY <1>0, <3>1, NextPart
    <3>3. Len(FirstParts(part[d])) = part[d]
      BY <1>0, NextPart
    <3> QED
      BY <2>2, <3>2, <3>3
  <2>4. OnItsWay(d)' = {}
    <3> SUFFICES ASSUME NEW k \in OnItsWay(d)'
                 PROVE  FALSE
      OBVIOUS
    <3>1. k \in DOMAIN requests' /\ k + 1 \in OnItsWay(d)
      BY <1>0 DEF OnItsWay, Shorter, PduOf
    <3>2. k + 1 = 1
      BY <2>1, <3>1 DEF Sent
    <3> QED
      BY <1>0, <3>1, <3>2 DEF Shorter
  <2>5. \A k \in DOMAIN inbox' : PduOf(d, inbox'[k].of) /\ inbox'[k].end = "OK" => inbox'[k].of.part <= part[d]
    <3> SUFFICES ASSUME NEW k \in DOMAIN inbox', PduOf(d, inbox'[k].of), inbox'[k].end = "OK"
                 PROVE  inbox'[k].of.part <= part[d]
      OBVIOUS
    <3>1. CASE inbox'[k].of = r
      BY <1>0, <2>2, <3>1
    <3>2. CASE k \in DOMAIN inbox /\ inbox'[k] = inbox[k]
      <4>1. inbox[k].of.part <= n
        BY <1>s, <3>2
      <4>2. inbox[k].of.part \in Nat
        <5>1. inbox[k] \in Frame
          BY <1>0, <3>2, ElementOfSeq, LenProperties DEF TypeOK
        <5>2. inbox[k].of.part \in 0 .. MaxParts
          BY <5>1 DEF Frame, Request
        <5> QED
          BY <5>2
      <4> QED
        BY <1>0, <2>2, <3>2, <4>1, <4>2
    <3> QED
      BY <1>c, <3>1, <3>2
  <2>6. pc'[d] \in {"confirm", "idle"} /\ part'[d] = part[d] /\ pc'[d] \notin {"next", "prompt"}
    BY <1>0, <1>s, <2>1
  <2> QED
    BY <1>0, <2>3, <2>4, <2>5, <2>6 DEF Sent, PduOf
<1>2. CASE accepted'[d] = accepted[d]
  <2>1. Behind(d)
    BY <1>0, WayShorter
  <2>2. ~(Sends(r) /\ PduOf(d, r))
    <3> SUFFICES ASSUME Sends(r), PduOf(d, r)
                 PROVE  FALSE
      OBVIOUS
    <3>1. 1 \in OnItsWay(d)
      BY <1>0 DEF OnItsWay
    <3>2. r.part = part[d] /\ n + 1 = part[d]
      BY <1>0, <1>s, <3>1 DEF Sent
    <3>3. FirstParts(n) = FirstParts(n + 1)
      BY <1>0, <1>2, <1>a, <1>s, <3>2, NextPart DEF PduOf
    <3> QED
      BY <1>0, <3>3, NextPart
  <2>3. Honest(d)
    BY <1>c, <1>s, <2>2 DEF Honest, PduOf, n
  <2> QED
    BY <1>0, <1>2, <1>s, <2>1, <2>3, SentStays DEF n
<1> QED
  BY <1>1, <1>2, <1>b

\* The modem sends the parts of a message in their order, once each.
LEMMA InPartsStep ==
  ASSUME DInv, AnyStep
  PROVE  InParts'
<1> SUFFICES ASSUME NEW d \in Sender, d \notin misled', d \notin garbled'
             PROVE  Sent(d)'
  BY DEF InParts
<1>0. /\ d \notin misled /\ Sent(d) /\ TypeOK
      /\ IInv /\ Started /\ Refused /\ Confirming
      /\ result[d] = "sent" => Len(accepted[d]) = part[d]
      /\ pc[d] \in {"next", "prompt"} => OnItsWay(d) = {}
      /\ OnItsWay(d) # {} => pc[d] \in {"confirm", "idle"}
  BY FaultsStay DEF DInv, InParts, IInv, Sent
<1>1. CASE Call(d)
  BY <1>0, <1>1, SentCall
<1>2. CASE (\E c \in Sender \ {d} : Call(c)) \/ OtherStep
  <2>1. Fewer /\ Honest(d)
    BY <1>0, <1>2, CallersRead, FewerHonest
  <2>2. Behind(d)
    <3>1. CASE requests' = requests
      BY <1>0, <3>1, WaySame
    <3>2. ASSUME NEW r \in Request, Longer(r), r.by # d \/ r.ask # "PDU"
          PROVE  Behind(d)
      BY <1>0, <3>2, WayLonger DEF PduOf
    <3> QED
      BY <1>0, <1>2, <3>1, <3>2, CallWrites, OtherWrites
  <2>3. pc'[d] = pc[d] /\ part'[d] = part[d] /\ result'[d] = result[d] /\ accepted' = accepted
    <3>1. pc'[d] = pc[d] /\ part'[d] = part[d]
      BY <1>0, <1>2, CallMoves, OtherMoves
    <3>2. \A c \in Sender \ {d} : Call(c) => result'[d] = result[d]
      <4> SUFFICES ASSUME NEW c \in Sender \ {d}, Call(c)
                   PROVE  result'[d] = result[d]
        OBVIOUS
      <4>1. DOMAIN result = Sender /\ c # d
        BY <1>0, Counters
      <4>2. CASE ReadConfirmation(c)
        <5>1. Head(inbox).end \in {"", "OK", "ERROR"}
          BY <1>0, <4>2, FrameRead DEF ReadConfirmation, Frame
        <5>2. result' = result \/ (\E v : result' = [result EXCEPT ![c] = v])
          BY <4>2, <5>1 DEF ReadConfirmation, Return
        <5> QED
          BY <4>1, <5>2
      <4>3. CASE ~ReadConfirmation(c)
        BY <4>1, <4>3 DEF Call, SendSMS, SetMode, ReadMode, StartPart, ReadPrompt, Fail, Return
      <4> QED
        BY <4>2, <4>3
    <3>3. OtherStep => result'[d] = result[d]
      BY <1>0, OtherMoves
    <3>4. accepted' = accepted
      BY <1>2 DEF Call, SendSMS, SetMode, ReadMode, StartPart, ReadPrompt, ReadConfirmation, Fail,
                  OtherStep, OtherCommand, ReadAnswer, OtherFails, sentVars
    <3> QED
      BY <1>2, <3>1, <3>2, <3>3, <3>4
  <2> QED
    BY <1>0, <2>1, <2>2, <2>3, SentStays
<1>3. CASE Modem
  BY <1>0, <1>3, SentModem
<1>4. CASE Drop
  <2>1. DOMAIN inbox' = {} /\ UNCHANGED <<pc, part, result>>
    BY <1>0, <1>4, ModemQuiet, Dropped DEF IInv
  <2>3. accepted' = accepted
    BY <1>4 DEF Drop, sentVars
  <2>2. Behind(d) /\ Honest(d)
    BY <1>0, <1>4, <2>1, <2>3, Dropped, WaySame DEF Honest
  <2> QED
    BY <1>0, <2>1, <2>2, <2>3, SentStays
<1> QED
  BY <1>1, <1>2, <1>3, <1>4 DEF AnyStep

\* Nothing has been sent.
LEMMA DInitially ==
  ASSUME Init
  PROVE  DInv
<1>1. IInv
  BY Initially
<1>2. /\ pc = [c \in Caller |-> "idle"]
      /\ part = [c \in Sender |-> 0] /\ parts = [c \in Sender |-> 0]
      /\ result = [c \in Sender |-> ""]
      /\ accepted = [c \in Sender |-> <<>>]
      /\ DOMAIN inbox = {} /\ DOMAIN requests = {}
  <2>1. inbox = <<>> /\ requests = <<>>
    BY DEF Init
  <2>2. DOMAIN inbox = {} /\ DOMAIN requests = {}
    BY <2>1
  <2> QED
    BY <2>2 DEF Init
<1>3. \A c \in Sender :
        /\ pc[c] = "idle" /\ part[c] = 0 /\ parts[c] = 0 /\ result[c] = ""
        /\ accepted[c] = <<>>
  BY <1>2 DEF Caller
<1>4. Started /\ Refused /\ Prompted /\ Confirming
  BY <1>2, <1>3 DEF Started, Refused, Prompted, Confirming
<1>5. ASSUME NEW c \in Sender
      PROVE  Sent(c)
  <2>1. FirstParts(0) = <<>> /\ Len(<<>>) = 0
    BY DEF FirstParts
  <2>2. OnItsWay(c) = {}
    BY <1>2 DEF OnItsWay
  <2> QED
    BY <1>2, <1>3, <2>1, <2>2 DEF Sent
<1> QED
  BY <1>1, <1>4, <1>5 DEF DInv, InParts

\* A step that changes nothing.
LEMMA DStutter ==
  ASSUME DInv, UNCHANGED vars
  PROVE  DInv'
<1>1. IInv'
  BY Stutter DEF DInv
<1>2. UNCHANGED <<pc, parts, part, result, inbox, requests, accepted, garbled, misled>>
  BY DEF vars, callVars, sentVars, historyVars
<1>3. Started' /\ Refused'
  BY <1>2 DEF DInv, Started, Refused
<1>6. Prompted'
  <2>1. Prompted
    BY DEF DInv
  <2>2. pc' = pc /\ part' = part /\ inbox' = inbox /\ requests' = requests
    BY <1>2
  <2>3. \A c \in Sender :
          /\ \A k \in DOMAIN requests : Wanted(c, requests[k])' <=> Wanted(c, requests[k])
          /\ \A k \in DOMAIN inbox : Own(c, inbox[k])' <=> Own(c, inbox[k])
    BY <2>2 DEF Wanted, Own
  <2> QED
    BY <2>1, <2>2, <2>3 DEF Prompted
<1>5. Confirming'
  BY <1>2 DEF DInv, Confirming, Wanted, PduOf
<1>4. InParts'
  BY <1>2 DEF DInv, InParts, Sent, OnItsWay, PduOf
<1> QED
  BY <1>1, <1>3, <1>4, <1>5, <1>6 DEF DInv

\* A step keeps every part of the delivery invariant.
LEMMA DStep ==
  ASSUME DInv, Next
  PROVE  DInv'
<1>1. AnyStep
  BY DEF AnyStep, Next, OtherStep, Modem
<1>2. IInv'
  BY Step DEF DInv
<1>3. Started' /\ Refused' /\ Prompted' /\ Confirming' /\ InParts'
  BY <1>1, StartedStep, RefusedStep, PromptedStep, ConfirmingStep, InPartsStep DEF DInv
<1> QED
  BY <1>2, <1>3 DEF DInv

-----------------------------------------------------------------------------
(* The theorems about the parts *)

\* DInv holds in every reachable state: the modem is at most one part ahead of the
\* sender, with the PDU or its confirmation on the way.
THEOREM DeliveryInvariance == Spec => []DInv
<1>1. Init => DInv
  BY DInitially
<1>2. DInv /\ [Next]_vars => DInv'
  BY DStep, DStutter
<1> QED
  BY <1>1, <1>2, PTL DEF Spec

\* A call that reports success sent every part once and in order, unless it was
\* misled by a late '>' or the modem was in text mode (sms.go:210, 230).
THEOREM SuccessIsDelivery == Spec => []SentMeansAccepted
<1>1. DInv => SentMeansAccepted
  <2> SUFFICES ASSUME DInv, NEW c \in Sender, result[c] = "sent", c \notin misled, c \notin garbled
               PROVE  accepted[c] = FirstParts(parts[c])
    BY DEF SentMeansAccepted
  <2>1. Sent(c) /\ part[c] = parts[c]
    BY DEF DInv, InParts, Started
  <2> QED
    BY <2>1 DEF Sent
<1> QED
  BY <1>1, DeliveryInvariance, PTL

\* A call that fails leaves a message whose first parts are sent, up to the one that
\* failed or the one before, none of them twice (sms.go:184).
THEOREM FailureLeavesPrefix == Spec => []ErrorLeavesPrefix
<1>1. DInv => ErrorLeavesPrefix
  <2> SUFFICES ASSUME DInv, NEW c \in Sender, c \notin misled, c \notin garbled
               PROVE  \E k \in 0 .. MaxParts :
                        /\ accepted[c] = FirstParts(k)
                        /\ part[c] > 0 => k \in {part[c] - 1, part[c]}
    BY DEF ErrorLeavesPrefix
  <2> DEFINE n == Len(accepted[c])
  <2>1. accepted[c] = FirstParts(n) /\ n \in {part[c] - 1, part[c]}
    BY DEF DInv, InParts, Sent
  <2>2. n \in Nat /\ part[c] \in 0 .. MaxParts /\ MaxParts \in Nat
    BY SentTypes, SendAssumption DEF DInv, IInv, TypeOK, SendAssumption
  <2> HIDE DEF n
  <2>3. n \in 0 .. MaxParts
    BY <2>1, <2>2
  <2> QED
    BY <2>1, <2>3
<1> QED
  BY <1>1, DeliveryInvariance, PTL

=============================================================================
