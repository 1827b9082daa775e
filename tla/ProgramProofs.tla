---------------------------- MODULE ProgramProofs ----------------------------
(***************************************************************************)
(* Proofs about Program: for every number of requests, and of the commands *)
(* that each sends, no request is cut off by an orderly end.               *)
(***************************************************************************)
EXTENDS Program, TLAPS

\* The mutex belongs to a worker that has a command left to send.
Holding ==
  \A w \in Worker : cmdMutex = w => work[w] = "busy" /\ left[w] > 0

\* Only a server that listens, or has listened, has requests.
Quiet == server \notin {"listening", "closed", "late"} => Served

\* The goroutine of the server runs once main has started it; after Shutdown the
\* server does not serve, unless Shutdown came too early for it.
Serving ==
  /\ main \in {"connect", "start"} => server = "off"
  /\ main = "run" => server \in {"new", "assigned", "listening", "failed"}
  /\ main \in {"shutdown", "wait", "done"} => server \in {"closed", "missed", "late", "failed"}

\* Once Shutdown has returned, only two things explain a request under way.
Explained == main \in {"wait", "done"} /\ ~Served => overdue \/ server = "late"

IInv == TypeOK /\ Holding /\ Quiet /\ Serving /\ Explained

-----------------------------------------------------------------------------
(* The invariant is inductive: one lemma per kind of step *)

\* The program starts with the mutex free and nothing served.
LEMMA Initially == Init => IInv
<1> USE ProgramAssumption DEF ProgramAssumption
<1>1. Init => TypeOK
  <2> SUFFICES ASSUME Init PROVE TypeOK
    OBVIOUS
  <2>1. left \in [Worker -> 0 .. Commands]
    BY DEF Init
  <2>2. work \in [Worker -> {"off", "idle", "busy", "stopped"}]
    BY Zenon DEF Init
  <2> QED
    BY <2>1, <2>2 DEF Init, TypeOK
<1>2. Init => Holding /\ Quiet /\ Serving /\ Explained
  BY DEF Init, Holding, Quiet, Serving, Explained, Served, Worker
<1> QED
  BY <1>1, <1>2 DEF IInv

\* What main, the signal and the server do touches no worker but the poll loop.
LEMMA MainStep ==
  ASSUME IInv, Main \/ Signal \/ StartServer
  PROVE  IInv'
<1> USE ProgramAssumption DEF ProgramAssumption, IInv, TypeOK, Serving, Quiet, Explained,
        Served, mainVars, workVars, vars, Running
<1>1. CASE ConnectReturns
  BY <1>1 DEF ConnectReturns, Holding
<1>2. CASE StartAll
  <2>1. Served' <=> Served
    BY <1>2 DEF StartAll, Worker
  <2>2. TypeOK'
    BY <1>2 DEF StartAll, Worker
  <2>3. Holding'
    BY <1>2 DEF StartAll, Holding, Worker
  <2>4. (Quiet /\ Serving /\ Explained)'
    BY <1>2, <2>1 DEF StartAll
  <2> QED
    BY <2>2, <2>3, <2>4
<1>3. CASE Shutdown
  BY <1>3 DEF Shutdown, Holding
<1>4. CASE ShutdownReturns
  BY <1>4 DEF ShutdownReturns, Holding
<1>5. CASE Return
  BY <1>5 DEF Return, Holding
<1>6. CASE Signal
  BY <1>6 DEF Signal, Holding
<1>7. CASE AssignServer
  BY <1>7 DEF AssignServer, Holding
<1>8. CASE Listen
  BY <1>8 DEF Listen, Holding
<1>9. CASE ServerCrashes
  BY <1>9 DEF ServerCrashes, Holding
<1> QED
  BY <1>1, <1>2, <1>3, <1>4, <1>5, <1>6, <1>7, <1>8, <1>9 DEF Main, StartServer

\* A request begins, while the server listens.
LEMMA BeginRequestStep ==
  ASSUME IInv, NEW r \in Request, BeginRequest(r)
  PROVE  IInv'
<1> USE ProgramAssumption DEF ProgramAssumption, IInv, BeginRequest, mainVars, Running
<1>1. TypeOK'
  BY DEF TypeOK, Worker
<1>2. Holding'
  BY DEF TypeOK, Holding, Worker
<1>3. Serving'
  BY DEF Serving
<1>4. server = "late" \/ server = "listening"
  OBVIOUS
<1>5. Quiet'
  BY <1>4 DEF Quiet
<1>6. Explained'
  BY <1>4 DEF Explained, Serving, TypeOK
<1> QED
  BY <1>1, <1>2, <1>3, <1>5, <1>6

\* The poll loop is no request.
LEMMA PollLoopStep ==
  ASSUME IInv, PollLoop
  PROVE  IInv'
<1> USE ProgramAssumption DEF ProgramAssumption, IInv, PollLoop, BeginPoll, StopLoop, mainVars, Running
<1>1. TypeOK'
  BY DEF TypeOK, Worker
<1>2. Holding'
  BY DEF TypeOK, Holding, Worker
<1>3. Served' <=> Served
  BY DEF TypeOK, Served, Worker
<1>4. (Serving /\ Quiet /\ Explained)'
  BY <1>3 DEF Serving, Quiet, Explained
<1> QED
  BY <1>1, <1>2, <1>4

\* Commands are sent one at a time.
LEMMA CommandStep ==
  ASSUME IInv, NEW w \in Worker, LockCmd(w) \/ UnlockCmd(w)
  PROVE  IInv'
<1> USE ProgramAssumption DEF ProgramAssumption, IInv, LockCmd, UnlockCmd, mainVars, Running
<1>1. TypeOK'
  BY DEF TypeOK, Holding, Worker
<1>2. Holding'
  BY DEF TypeOK, Holding, Worker
<1>3. (Serving /\ Quiet /\ Explained)'
  BY DEF Serving, Quiet, Explained, Served
<1> QED
  BY <1>1, <1>2, <1>3

\* A worker that finishes leaves fewer requests.
LEMMA FinishStep ==
  ASSUME IInv, NEW w \in Worker, Finish(w)
  PROVE  IInv'
<1> USE ProgramAssumption DEF ProgramAssumption, IInv, Finish, mainVars, Running
<1>1. TypeOK'
  BY DEF TypeOK, Worker
<1>2. Holding'
  BY DEF TypeOK, Holding, Worker
<1>3. Served => Served'
  BY DEF TypeOK, Served, Worker
<1>4. (Serving /\ Quiet /\ Explained)'
  BY <1>3 DEF Serving, Quiet, Explained
<1> QED
  BY <1>1, <1>2, <1>4

\* Every reachable state satisfies the inductive invariant.
THEOREM Invariance == Spec => []IInv
<1>1. IInv /\ [Next]_vars => IInv'
  <2> SUFFICES ASSUME IInv, [Next]_vars PROVE IInv'
    OBVIOUS
  <2>1. CASE UNCHANGED vars
    BY <2>1 DEF vars, mainVars, workVars, IInv, TypeOK, Holding, Quiet, Serving, Explained, Served
  <2>2. CASE Next
    BY <2>1, <2>2, MainStep, BeginRequestStep, PollLoopStep, CommandStep, FinishStep DEF Next, Ended
  <2> QED
    BY <2>1, <2>2
<1> QED
  BY Initially, <1>1, PTL DEF Spec

\* The variables of the program keep their types, the counters of commands included.
THEOREM TypeCorrectness == Spec => []TypeOK
BY Invariance, PTL DEF IInv

\* No request is cut off by the end of the program, unless the deadline of Shutdown
\* passed or Shutdown came before the server.
THEOREM Service == Spec => []RequestsAreServed
<1>1. IInv => RequestsAreServed
  BY DEF IInv, Explained, RequestsAreServed
<1> QED
  BY <1>1, Invariance, PTL
=============================================================================
