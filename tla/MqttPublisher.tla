--------------------------- MODULE MqttPublisher ---------------------------
(***************************************************************************)
(* The MQTT publisher (mqtt/mqtt.go) between the daemon's polls and the    *)
(* broker.                                                                 *)
(*                                                                         *)
(* Every poll that ends starts a callback in a goroutine of its own, and   *)
(* every MQTT connection one that announces the sensors again; all of them *)
(* share one connection.  A publish has quality of service 0: without a    *)
(* connection it is lost.  StatusCache models how a poll gathers the       *)
(* status, Program the shutdown.                                           *)
(***************************************************************************)
EXTENDS Naturals, FiniteSets

CONSTANTS Callback,     \* the callbacks that may run at the same time
          Known,        \* statuses with a modem model or a SIM state
          Unknown,      \* a status without: the modem is offline
          Nothing,      \* no status, or nothing published yet
          Sensors,      \* number of sensors in publishDiscovery (39)
          MaxChanges,   \* bound on the changes of the modem
          MaxConnects   \* bound on the MQTT connections

ASSUME PublisherAssumption ==
  /\ Unknown \notin Known
  /\ Nothing \notin Known \cup {Unknown}
  /\ Sensors \in Nat \ {0}
  /\ {MaxChanges, MaxConnects} \subseteq Nat
  /\ Callback \cap Nat = {}

Status     == Known \cup {Unknown}
Connection == 1 .. MaxConnects
Goroutine  == Callback \cup Connection

VARIABLES
  modem,       \* the status a poll would find now
  link,        \* "new", "failed" (the first attempt), "up", "lost", "down"
  retry,       \* retryConnectLoop: "off", "on", "connected", "stopped"
  connects,    \* the number of MQTT connections so far
  lastStatus, discoveryPublished,
  at,          \* where each goroutine stands
  status,      \* the status it publishes
  sensor,      \* the next sensor it announces
  config,      \* the status each sensor was last announced with; retained
  state,       \* the status last delivered to the subscribers
  cancelled,   \* the context of main
  changes      \* the number of changes of the modem

linkVars   == <<link, retry, connects>>
clientVars == <<lastStatus, discoveryPublished>>
workVars   == <<at, status, sensor>>
brokerVars == <<config, state>>
envVars    == <<modem, cancelled, changes>>
vars == <<linkVars, clientVars, workVars, brokerVars, envVars>>

TypeOK ==
  /\ modem \in Status
  /\ link \in {"new", "failed", "up", "lost", "down"}
  /\ retry \in {"off", "on", "connected", "stopped"}
  /\ connects \in 0 .. MaxConnects
  /\ lastStatus \in Status \cup {Nothing}
  /\ discoveryPublished \in BOOLEAN
  /\ at \in [Goroutine -> {"none", "start", "announce", "state", "connected"}]
  /\ status \in [Goroutine -> Status \cup {Nothing}]
  /\ sensor \in [Goroutine -> 1 .. Sensors]
  /\ config \in [1 .. Sensors -> Status \cup {Nothing}]
  /\ state \in Status \cup {Nothing}
  /\ cancelled \in BOOLEAN
  /\ changes \in 0 .. MaxChanges

Init ==
  /\ modem \in Status
  /\ link = "new"
  /\ retry = "off"
  /\ connects = 0
  /\ lastStatus = Nothing
  /\ discoveryPublished = FALSE
  /\ at = [g \in Goroutine |-> "none"]
  /\ status = [g \in Goroutine |-> Nothing]
  /\ sensor = [g \in Goroutine |-> 1]
  /\ config = [i \in 1 .. Sensors |-> Nothing]
  /\ state = Nothing
  /\ cancelled = FALSE
  /\ changes = 0

Deliver(old, new) == IF link = "up" THEN new ELSE old

-----------------------------------------------------------------------------
(* The connection *)

\* The library calls the OnConnect handler in a goroutine.
Connected ==
  /\ connects < MaxConnects
  /\ connects' = connects + 1
  /\ link' = "up"
  /\ at' = [at EXCEPT ![connects'] = "connected"]
  /\ UNCHANGED <<status, sensor>>

\* main calls Connect before it starts anything else.
Connect ==
  /\ link = "new"
  /\ \/ Connected /\ UNCHANGED retry
     \/ link' = "failed" /\ retry' = "on" /\ UNCHANGED <<connects, workVars>>
  /\ UNCHANGED <<clientVars, brokerVars, envVars>>

\* The attempt of retryConnectLoop that goes well.  Its select may still take a
\* tick after the cancellation.
RetryConnects ==
  /\ retry = "on" /\ link = "failed"
  /\ Connected
  /\ retry' = "connected"
  /\ UNCHANGED <<clientVars, brokerVars, envVars>>

RetryStops ==
  /\ retry = "on" /\ cancelled
  /\ retry' = "stopped"
  /\ UNCHANGED <<link, connects, clientVars, workVars, brokerVars, envVars>>

\* Once it has been connected, the library reconnects by itself.
ConnectionLost ==
  /\ link = "up" /\ connects < MaxConnects
  /\ link' = "lost"
  /\ UNCHANGED <<retry, connects, clientVars, workVars, brokerVars, envVars>>

Reconnect ==
  /\ link = "lost"
  /\ Connected
  /\ UNCHANGED <<retry, clientVars, brokerVars, envVars>>

\* main disconnects when the poll loop has ended; a client that was never
\* connected has nothing to disconnect.
Disconnect ==
  /\ cancelled /\ link \in {"up", "lost"}
  /\ link' = "down"
  /\ UNCHANGED <<retry, connects, clientVars, workVars, brokerVars, envVars>>

-----------------------------------------------------------------------------
(* The goroutines that publish *)

\* Fault variant: what was announced once is not announced again.
OnConnectOnce(k) ==
  /\ at[k] = "connected"
  /\ LET again == lastStatus # Nothing /\ ~discoveryPublished
     IN  /\ at' = [at EXCEPT ![k] = IF again THEN "announce" ELSE "none"]
         /\ status' = [status EXCEPT ![k] = IF again THEN lastStatus ELSE Nothing]
  /\ UNCHANGED <<linkVars, clientVars, sensor, brokerVars, envVars>>

\* The OnConnect handler: announce the sensors again, if a status is known.
OnConnect(k) ==
  /\ at[k] = "connected"
  /\ at' = [at EXCEPT ![k] = IF lastStatus = Nothing THEN "none" ELSE "announce"]
  /\ status' = [status EXCEPT ![k] = lastStatus]
  /\ UNCHANGED <<linkVars, clientVars, sensor, brokerVars, envVars>>

\* Fault variant: the flag is set where it is read, before anything is announced.
PublishStatusFlagged(c) ==
  /\ at[c] = "start"
  /\ lastStatus' = status[c]
  /\ LET announce == ~discoveryPublished /\ status[c] \in Known
     IN  /\ at' = [at EXCEPT ![c] = IF announce THEN "announce" ELSE "state"]
         /\ discoveryPublished' = (discoveryPublished \/ announce)
  /\ UNCHANGED <<linkVars, status, sensor, brokerVars, envVars>>

\* PublishStatus: the first critical section, and what it decides.
PublishStatus(c) ==
  /\ at[c] = "start"
  /\ lastStatus' = status[c]
  /\ at' = [at EXCEPT ![c] =
              IF ~discoveryPublished /\ status[c] \in Known THEN "announce" ELSE "state"]
  /\ UNCHANGED <<linkVars, discoveryPublished, status, sensor, brokerVars, envVars>>

\* Fault variant: the index of the next sensor is not reset.
AnnounceOn(g) ==
  /\ at[g] = "announce"
  /\ config' = [config EXCEPT ![sensor[g]] = Deliver(@, status[g])]
  /\ IF sensor[g] <= Sensors
     THEN sensor' = [sensor EXCEPT ![g] = @ + 1] /\ UNCHANGED <<discoveryPublished, at, status>>
     ELSE UNCHANGED <<discoveryPublished, workVars>>
  /\ UNCHANGED <<linkVars, lastStatus, state, envVars>>

\* publishDiscovery, one sensor after the other; PublishStatus then sets the
\* flag, whether the announcements arrived or not.
Announce(g) ==
  /\ at[g] = "announce"
  /\ config' = [config EXCEPT ![sensor[g]] = Deliver(@, status[g])]
  /\ IF sensor[g] < Sensors
     THEN sensor' = [sensor EXCEPT ![g] = @ + 1] /\ UNCHANGED <<discoveryPublished, at, status>>
     ELSE /\ sensor' = [sensor EXCEPT ![g] = 1]
          /\ IF g \in Callback
             THEN discoveryPublished' = TRUE /\ at' = [at EXCEPT ![g] = "state"] /\ UNCHANGED status
             ELSE /\ at' = [at EXCEPT ![g] = "none"]
                  /\ status' = [status EXCEPT ![g] = Nothing]
                  /\ UNCHANGED discoveryPublished
  /\ UNCHANGED <<linkVars, lastStatus, state, envVars>>

\* publishState; nobody looks at the error of a publish that is lost.
PublishState(c) ==
  /\ at[c] = "state"
  /\ state' = Deliver(state, status[c])
  /\ at' = [at EXCEPT ![c] = "none"]
  /\ status' = [status EXCEPT ![c] = Nothing]
  /\ UNCHANGED <<linkVars, clientVars, sensor, config, envVars>>

-----------------------------------------------------------------------------
(* The daemon *)

\* Fault variant: a status that was published before is not published again.
NotifyChange(c) ==
  /\ link # "new" /\ at[c] = "none" /\ modem # lastStatus
  /\ at' = [at EXCEPT ![c] = "start"]
  /\ status' = [status EXCEPT ![c] = modem]
  /\ UNCHANGED <<linkVars, clientVars, sensor, brokerVars, envVars>>

\* A poll, of the loop or of a request, ends: the callback gets a copy of the
\* status, in a goroutine that nothing orders with the ones before it.
Notify(c) ==
  /\ link # "new" /\ at[c] = "none"
  /\ at' = [at EXCEPT ![c] = "start"]
  /\ status' = [status EXCEPT ![c] = modem]
  /\ UNCHANGED <<linkVars, clientVars, sensor, brokerVars, envVars>>

ModemChanges(s) ==
  /\ changes < MaxChanges /\ s # modem
  /\ changes' = changes + 1
  /\ modem' = s
  /\ UNCHANGED <<linkVars, clientVars, workVars, brokerVars, cancelled>>

Cancel ==
  /\ ~cancelled
  /\ cancelled' = TRUE
  /\ UNCHANGED <<linkVars, clientVars, workVars, brokerVars, modem, changes>>

Publishing(g) ==
  \/ g \in Connection /\ OnConnect(g)
  \/ g \in Callback /\ (PublishStatus(g) \/ PublishState(g))
  \/ Announce(g)

Next ==
  \/ Connect \/ RetryConnects \/ RetryStops
  \/ ConnectionLost \/ Reconnect \/ Disconnect
  \/ \E g \in Goroutine : Publishing(g)
  \/ \E c \in Callback : Notify(c)
  \/ \E s \in Status : ModemChanges(s)
  \/ Cancel

\* Go runs the goroutines, the ticker of the poll loop ticks, every command of a
\* poll has a timeout, and a broker that is there lets the client connect.
Spec ==
  /\ Init /\ [][Next]_vars
  /\ WF_vars(Connect) /\ WF_vars(RetryConnects \/ RetryStops) /\ WF_vars(Reconnect)
  /\ WF_vars(\E c \in Callback : Notify(c))
  /\ \A g \in Goroutine : WF_vars(Publishing(g))

-----------------------------------------------------------------------------
(* Properties *)

\* A sensor that has been passed over: discoveryPublished says that it is announced,
\* or a callback on its way to set that has gone on to the next ones.
Passed(i) ==
  \/ discoveryPublished
  \/ \E c \in Callback : at[c] = "announce" /\ sensor[c] > i

\* A goroutine of the OnConnect handler will come to it.
WillAnnounce(i) ==
  \E k \in Connection :
    \/ at[k] = "connected" /\ lastStatus # Nothing
    \/ at[k] = "announce" /\ sensor[k] <= i

\* While the client is connected no sensor is forgotten: one that was passed over
\* while there was no connection is announced by the goroutine of the connection,
\* however that interleaves with the callbacks (mqtt.go:74, 129).
NoSensorForgotten ==
  link = "up" =>
    \A i \in 1 .. Sensors : Passed(i) => config[i] # Nothing \/ WillAnnounce(i)

\* While the program runs, what subscribers were told last becomes what the
\* daemon holds, although callbacks of different polls run in any order and
\* what is published without a connection is lost (daemon.go:61, mqtt.go:158).
PublishedCatchesUp == <>cancelled \/ <>[](state = modem)

\* Every sensor ends up announced once the daemon knows the modem, although the
\* flag is set even if the announcements were lost, and several goroutines
\* announce at the same time (mqtt.go:76, 129).
SensorsAnnounced ==
  \/ <>cancelled
  \/ []<>(modem \notin Known)
  \/ <>[](\A i \in 1 .. Sensors : config[i] # Nothing)
=============================================================================
