------------------------------ MODULE Program ------------------------------
(***************************************************************************)
(* The program from its start to its end (main.go), composed of what main  *)
(* starts: the poll loop (Daemon.Start), the web server (Server.Start and  *)
(* Shutdown) and the requests it serves, which compete with the polls for  *)
(* the command mutex.                                                      *)
(*                                                                         *)
(* CommandLink models what happens under the mutex, MqttPublisher what the *)
(* MQTT client publishes.                                                  *)
(***************************************************************************)
EXTENDS Naturals, FiniteSets

CONSTANTS Request,    \* goroutines that serve HTTP requests
          Loop,       \* the goroutine of Daemon.Start
          Nobody,     \* the holder of a mutex that is free
          Commands    \* commands of a poll, or of a request

ASSUME ProgramAssumption ==
  /\ Loop \notin Request
  /\ Nobody \notin Request \cup {Loop}
  /\ Commands \in Nat \ {0}

Worker == Request \cup {Loop}

VARIABLES
  main,       \* where main stands
  cancelled,  \* ctx, by a signal or by stopSignal
  server,     \* Server.Start; "missed": main shut down before httpServer was there,
              \* "late": and then it listened
  overdue,    \* the five seconds of Shutdown have passed
  work,       \* where each worker stands
  left,       \* the commands it still has to send
  cmdMutex    \* who holds the command mutex

mainVars == <<main, cancelled, server, overdue>>
workVars == <<work, left, cmdMutex>>
vars     == <<mainVars, workVars>>

TypeOK ==
  /\ main \in {"connect", "start", "run", "shutdown", "wait", "done"}
  /\ cancelled \in BOOLEAN
  /\ server \in {"off", "new", "assigned", "listening", "failed", "closed", "missed", "late"}
  /\ overdue \in BOOLEAN
  /\ work \in [Worker -> {"off", "idle", "busy", "stopped"}]
  /\ left \in [Worker -> 0 .. Commands]
  /\ cmdMutex \in Worker \cup {Nobody}

Init ==
  /\ main = "connect"
  /\ cancelled = FALSE
  /\ server = "off"
  /\ overdue = FALSE
  /\ work = [w \in Worker |-> IF w = Loop THEN "off" ELSE "idle"]
  /\ left = [w \in Worker |-> 0]
  /\ cmdMutex = Nobody

Running == main # "done"   \* the process ends with main

-----------------------------------------------------------------------------
(* main *)

\* The first attempt to connect to the MQTT broker returns, connected or not.
ConnectReturns ==
  /\ main = "connect"
  /\ main' = "start"
  /\ UNCHANGED <<cancelled, server, overdue, workVars>>

\* The goroutines of the poll loop and of the server; the loop polls at once.
StartAll ==
  /\ main = "start"
  /\ main' = "run"
  /\ work' = [work EXCEPT ![Loop] = "busy"]
  /\ left' = [left EXCEPT ![Loop] = Commands]
  /\ server' = "new"
  /\ UNCHANGED <<cancelled, overdue, cmdMutex>>

\* A signal, at any time.
Signal ==
  /\ Running /\ ~cancelled
  /\ cancelled' = TRUE
  /\ UNCHANGED <<main, server, overdue, workVars>>

\* Server.Shutdown closes the listener; it does nothing to a server whose
\* goroutine has not come to assign httpServer.
Shutdown ==
  /\ main = "run" /\ cancelled
  /\ main' = "shutdown"
  /\ server' = CASE server = "new"                      -> "missed"
                 [] server \in {"assigned", "listening"} -> "closed"
                 [] OTHER                               -> server
  /\ UNCHANGED <<cancelled, overdue, workVars>>

Served == \A r \in Request : work[r] = "idle"

\* Fault variant: Close, which waits for no request.
CloseReturns ==
  /\ main = "shutdown"
  /\ main' = "wait"
  /\ UNCHANGED <<cancelled, server, overdue, workVars>>

\* Shutdown returns when no request is served any more, or after five seconds.
ShutdownReturns ==
  /\ main = "shutdown"
  /\ main' = "wait"
  /\ overdue' = (server = "closed" /\ ~Served)
  /\ UNCHANGED <<cancelled, server, workVars>>

\* wg.Wait, then Disconnect.
Return ==
  /\ main = "wait" /\ work[Loop] = "stopped"
  /\ main' = "done"
  /\ UNCHANGED <<cancelled, server, overdue, workVars>>

-----------------------------------------------------------------------------
(* Server.Start *)

AssignServer ==
  /\ Running
  /\ \/ server = "new" /\ server' = "assigned"
     \/ server = "missed" /\ server' \in {"late", "failed"}
  /\ UNCHANGED <<main, cancelled, overdue, workVars>>

Listen ==
  /\ Running /\ server = "assigned"
  /\ server' \in {"listening", "failed"}
  /\ UNCHANGED <<main, cancelled, overdue, workVars>>

\* Fault variant: the crash is logged, and that is all.
LogCrash ==
  /\ Running /\ server = "failed" /\ ~cancelled
  /\ UNCHANGED vars

\* A server that cannot listen calls stopSignal.
ServerCrashes ==
  /\ Running /\ server = "failed" /\ ~cancelled
  /\ cancelled' = TRUE
  /\ UNCHANGED <<main, server, overdue, workVars>>

-----------------------------------------------------------------------------
(* The poll loop and the requests *)

BeginRequest(r) ==
  /\ Running /\ server \in {"listening", "late"} /\ work[r] = "idle"
  /\ work' = [work EXCEPT ![r] = "busy"]
  /\ left' = [left EXCEPT ![r] = Commands]
  /\ UNCHANGED <<mainVars, cmdMutex>>

\* The select of Daemon.Start takes a tick, also after the cancellation.
BeginPoll ==
  /\ Running /\ work[Loop] = "idle"
  /\ work' = [work EXCEPT ![Loop] = "busy"]
  /\ left' = [left EXCEPT ![Loop] = Commands]
  /\ UNCHANGED <<mainVars, cmdMutex>>

\* ... or the cancellation.
StopLoop ==
  /\ Running /\ work[Loop] = "idle" /\ cancelled
  /\ work' = [work EXCEPT ![Loop] = "stopped"]
  /\ UNCHANGED <<mainVars, left, cmdMutex>>

\* Fault variant: one command more than the poll has.
LockAgain(w) ==
  /\ Running /\ work[w] = "busy" /\ cmdMutex = Nobody
  /\ cmdMutex' = w
  /\ UNCHANGED <<mainVars, work, left>>

LockCmd(w) ==
  /\ Running /\ work[w] = "busy" /\ left[w] > 0 /\ cmdMutex = Nobody
  /\ cmdMutex' = w
  /\ UNCHANGED <<mainVars, work, left>>

\* A command is answered, times out, or fails because the connection is closed;
\* each returns, and gives the mutex back.
UnlockCmd(w) ==
  /\ Running /\ cmdMutex = w
  /\ cmdMutex' = Nobody
  /\ left' = [left EXCEPT ![w] = @ - 1]
  /\ UNCHANGED <<mainVars, work>>

\* A poll or a request has sent its commands, or gives up: one failed, or the
\* modem is offline.
Finish(w) ==
  /\ Running /\ work[w] = "busy" /\ cmdMutex # w
  /\ work' = [work EXCEPT ![w] = "idle"]
  /\ left' = [left EXCEPT ![w] = 0]
  /\ UNCHANGED <<mainVars, cmdMutex>>

Main == ConnectReturns \/ StartAll \/ Shutdown \/ ShutdownReturns \/ Return
StartServer == AssignServer \/ Listen \/ ServerCrashes
PollLoop == BeginPoll \/ StopLoop

Ended == ~Running /\ UNCHANGED vars

Next ==
  \/ Main \/ Signal
  \/ StartServer
  \/ PollLoop
  \/ \E r \in Request : BeginRequest(r)
  \/ \E w \in Worker : LockCmd(w) \/ UnlockCmd(w) \/ Finish(w)
  \/ Ended

\* Go runs the goroutines, its mutex starves nobody, and every command has a
\* timeout.  The select of the loop chooses at random between a tick and the
\* cancellation: it does not choose the tick for ever.  No signal has to come.
Spec ==
  /\ Init /\ [][Next]_vars
  /\ WF_vars(Main) /\ WF_vars(StartServer)
  /\ WF_vars(PollLoop) /\ SF_vars(StopLoop)
  /\ \A w \in Worker :
       SF_vars(LockCmd(w)) /\ WF_vars(UnlockCmd(w)) /\ WF_vars(left[w] = 0 /\ Finish(w))

-----------------------------------------------------------------------------
(* Properties *)

\* A signal, or a server that cannot listen, ends the program, in whatever
\* state main, the poll loop, the requests and the command mutex are then
\* (main.go:170-193).
ProgramEnds == (cancelled \/ server = "failed") ~> main = "done"

\* The program does not end in the middle of a request, unless the five seconds
\* of Shutdown passed or the signal came before the server was there
\* (main.go:178, server.go:158).
RequestsAreServed == main = "done" /\ ~Served => overdue \/ server = "late"
=============================================================================
