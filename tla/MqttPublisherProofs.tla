------------------------ MODULE MqttPublisherProofs ------------------------
(***************************************************************************)
(* The safety properties of MqttPublisher, for every number of callbacks,  *)
(* connections and sensors.                                                *)
(***************************************************************************)
EXTENDS MqttPublisher, TLAPS

\* What a goroutine publishes it was given, and an announcement begins with the
\* first sensor; a connection that has not been made has no goroutine.
Handed ==
  \A g \in Goroutine :
    /\ at[g] \in {"start", "announce", "state"} => status[g] # Nothing
    /\ at[g] # "announce" => sensor[g] = 1
    /\ g \in Connection /\ g > connects => at[g] = "none"

\* Nothing is announced by a callback before the client holds a status.
Held == discoveryPublished \/ (\E c \in Callback : at[c] = "announce") => lastStatus # Nothing

IInv == TypeOK /\ Handed /\ Held /\ NoSensorForgotten

-----------------------------------------------------------------------------
(* Types *)

\* The goroutines of the callbacks and of the connections are different ones.
LEMMA Goroutines ==
  /\ Callback \subseteq Goroutine /\ Connection \subseteq Goroutine
  /\ \A g \in Goroutine : g \in Callback <=> g \notin Connection
  /\ \A k \in Connection : k \in Nat
  /\ Nothing \notin Status /\ Unknown \in Status
  /\ Sensors \in Nat /\ Sensors >= 1 /\ MaxConnects \in Nat /\ MaxChanges \in Nat
<1>1. \A k \in Connection : k \in Nat
  BY PublisherAssumption DEF Connection
<1>2. \A g \in Goroutine : g \in Callback <=> g \notin Connection
  BY <1>1, PublisherAssumption, Zenon DEF Goroutine
<1>3. Sensors \in Nat /\ Sensors >= 1 /\ MaxConnects \in Nat /\ MaxChanges \in Nat
  BY PublisherAssumption
<1>4. Nothing \notin Status /\ Unknown \in Status
  BY PublisherAssumption DEF Status
<1> QED
  BY <1>1, <1>2, <1>3, <1>4 DEF Goroutine

\* What Deliver leaves is the old value or the new one.
LEMMA Delivers ==
  ASSUME NEW old, NEW new
  PROVE  (link = "up" => Deliver(old, new) = new) /\ (link # "up" => Deliver(old, new) = old)
BY DEF Deliver

\* The types at the beginning.
LEMMA TypeInit ==
  Init => TypeOK
<1> SUFFICES ASSUME Init
             PROVE  TypeOK
  OBVIOUS
<1>1. 1 \in 1 .. Sensors /\ 0 \in 0 .. MaxConnects /\ 0 \in 0 .. MaxChanges
  BY Goroutines
<1>2. /\ modem \in Status /\ link \in {"new"} /\ retry \in {"off"} /\ connects \in 0 .. MaxConnects
      /\ lastStatus = Nothing /\ discoveryPublished \in BOOLEAN /\ state = Nothing
      /\ cancelled \in BOOLEAN /\ changes \in 0 .. MaxChanges
  BY <1>1 DEF Init
<1>3. /\ at \in [Goroutine -> {"none"}] /\ status \in [Goroutine -> {Nothing}]
      /\ sensor \in [Goroutine -> 1 .. Sensors] /\ config \in [1 .. Sensors -> {Nothing}]
  BY <1>1 DEF Init
<1> QED
  BY <1>2, <1>3 DEF TypeOK

\* A connection that is made keeps the types.
LEMMA ConnectedTypes ==
  ASSUME TypeOK, Connected
  PROVE  /\ connects' \in Connection /\ connects' = connects + 1
         /\ link' = "up" /\ status' = status /\ sensor' = sensor
         /\ at' = [at EXCEPT ![connects + 1] = "connected"]
         /\ at' \in [Goroutine -> {"none", "start", "announce", "state", "connected"}]
<1>1. connects \in Nat /\ connects + 1 \in 1 .. MaxConnects /\ connects' = connects + 1
  BY Goroutines DEF TypeOK, Connected
<1>2. connects + 1 \in Goroutine
  BY <1>1 DEF Goroutine, Connection
<1> QED
  BY <1>1, <1>2 DEF TypeOK, Connected, Connection

\* TypeOK is inductive.
LEMMA TypeNext ==
  ASSUME TypeOK, [Next]_vars
  PROVE  TypeOK'
<1>1. CASE Connect
  <2>1. CASE Connected /\ UNCHANGED retry
    BY <1>1, <2>1, ConnectedTypes DEF TypeOK, Connect, clientVars, brokerVars, envVars, Connection
  <2>2. CASE link' = "failed" /\ retry' = "on" /\ UNCHANGED <<connects, workVars>>
    BY <1>1, <2>2 DEF TypeOK, Connect, clientVars, workVars, brokerVars, envVars
  <2> QED
    BY <1>1, <2>1, <2>2 DEF Connect
<1>2. CASE RetryConnects
  BY <1>2, ConnectedTypes DEF TypeOK, RetryConnects, clientVars, brokerVars, envVars, Connection
<1>3. CASE RetryStops \/ ConnectionLost \/ Disconnect
  BY <1>3 DEF TypeOK, RetryStops, ConnectionLost, Disconnect, clientVars, workVars, brokerVars, envVars
<1>4. CASE Reconnect
  BY <1>4, ConnectedTypes DEF TypeOK, Reconnect, clientVars, brokerVars, envVars, Connection
<1>5. ASSUME NEW g \in Connection, OnConnect(g)
      PROVE  TypeOK'
  <2>1. g \in Goroutine
    BY Goroutines
  <2> QED
    BY <1>5, <2>1 DEF TypeOK, OnConnect, linkVars, clientVars, brokerVars, envVars
<1>6. ASSUME NEW c \in Callback, PublishStatus(c) \/ PublishState(c) \/ Notify(c)
      PROVE  TypeOK'
  <2>1. c \in Goroutine
    BY Goroutines
  <2>2. CASE PublishStatus(c)
    BY <2>1, <2>2 DEF TypeOK, PublishStatus, linkVars, brokerVars, envVars
  <2>3. CASE PublishState(c)
    BY <2>1, <2>3 DEF TypeOK, PublishState, Deliver, linkVars, clientVars, envVars
  <2>4. CASE Notify(c)
    BY <2>1, <2>4 DEF TypeOK, Notify, linkVars, clientVars, brokerVars, envVars
  <2> QED
    BY <1>6, <2>2, <2>3, <2>4
<1>7. ASSUME NEW g \in Goroutine, Announce(g)
      PROVE  TypeOK'
  <2>1. sensor[g] \in 1 .. Sensors /\ status[g] \in Status \cup {Nothing}
    BY DEF TypeOK
  <2>2. config' \in [1 .. Sensors -> Status \cup {Nothing}]
    <3> DEFINE d == Deliver(config[sensor[g]], status[g])
    <3>1. config' = [config EXCEPT ![sensor[g]] = d]
      BY <1>7 DEF Announce
    <3>2. d \in Status \cup {Nothing}
      BY <2>1 DEF TypeOK, Deliver
    <3> HIDE DEF d
    <3> QED
      BY <3>1, <3>2 DEF TypeOK
  <2>3. CASE sensor[g] < Sensors
    <3>1. sensor[g] + 1 \in 1 .. Sensors
      BY <2>1, <2>3, Goroutines
    <3> QED
      BY <1>7, <2>2, <2>3, <3>1 DEF TypeOK, Announce, linkVars, envVars
  <2>4. CASE ~(sensor[g] < Sensors)
    <3>1. 1 \in 1 .. Sensors
      BY Goroutines
    <3>2. /\ sensor' = [sensor EXCEPT ![g] = 1]
          /\ IF g \in Callback
             THEN discoveryPublished' = TRUE /\ at' = [at EXCEPT ![g] = "state"] /\ UNCHANGED status
             ELSE /\ at' = [at EXCEPT ![g] = "none"]
                  /\ status' = [status EXCEPT ![g] = Nothing]
                  /\ UNCHANGED discoveryPublished
      BY <1>7, <2>4 DEF Announce
    <3>3. UNCHANGED <<linkVars, lastStatus, state, envVars>>
      BY <1>7 DEF Announce
    <3> QED
      BY <2>2, <3>1, <3>2, <3>3 DEF TypeOK, linkVars, envVars
  <2> QED
    BY <2>3, <2>4
<1>8. ASSUME NEW s \in Status, ModemChanges(s)
      PROVE  TypeOK'
  BY <1>8, Goroutines DEF TypeOK, ModemChanges, linkVars, clientVars, workVars, brokerVars
<1>9. CASE Cancel \/ UNCHANGED vars
  BY <1>9 DEF TypeOK, Cancel, vars, linkVars, clientVars, workVars, brokerVars, envVars
<1> QED
  BY <1>1, <1>2, <1>3, <1>4, <1>5, <1>6, <1>7, <1>8, <1>9 DEF Next, Publishing

\* The variables of the publisher have their types.
THEOREM TypeCorrect == Spec => []TypeOK
<1>1. Init => TypeOK
  BY TypeInit
<1>2. TypeOK /\ [Next]_vars => TypeOK'
  BY TypeNext
<1> QED
  BY <1>1, <1>2, PTL DEF Spec

-----------------------------------------------------------------------------
(* No sensor is forgotten *)

\* IInv at the beginning.
LEMMA InvInit ==
  Init => IInv
<1> SUFFICES ASSUME Init
             PROVE  IInv
  OBVIOUS
<1>1. TypeOK
  BY TypeInit
<1>2. \A g \in Goroutine : at[g] = "none" /\ sensor[g] = 1
  BY DEF Init
<1>3. discoveryPublished = FALSE /\ link = "new"
  BY DEF Init
<1>4. Handed
  BY <1>2 DEF Handed
<1>5. Held
  BY <1>2, <1>3, Goroutines DEF Held
<1>6. NoSensorForgotten
  BY <1>3 DEF NoSensorForgotten
<1> QED
  BY <1>1, <1>4, <1>5, <1>6 DEF IInv

\* A connection that is made takes over every sensor that has been passed over.
LEMMA ConnectedStep ==
  ASSUME IInv, Connected, UNCHANGED <<clientVars, config>>
  PROVE  Handed' /\ Held' /\ NoSensorForgotten'
<1>0. TypeOK /\ Handed /\ Held
  BY DEF IInv
<1> DEFINE k == connects + 1
<1>1. /\ k \in Connection /\ connects' = k /\ k \in Goroutine /\ k \notin Callback
      /\ status' = status /\ sensor' = sensor /\ at' = [at EXCEPT ![k] = "connected"]
      /\ connects \in Nat
  <2>1. connects \in Nat
    BY <1>0 DEF TypeOK
  <2> QED
    BY <1>0, <2>1, ConnectedTypes, Goroutines
<1>2. at'[k] = "connected" /\ \A g \in Goroutine : g # k => at'[g] = at[g]
  BY <1>0, <1>1 DEF TypeOK
<1>3. at[k] = "none"
  <2>1. k > connects
    BY <1>1
  <2> QED
    BY <1>0, <1>1, <2>1 DEF Handed
<1> HIDE DEF k
<1>4. lastStatus' = lastStatus /\ discoveryPublished' = discoveryPublished /\ config' = config
  BY DEF clientVars
<1>5. Handed'
  <2> SUFFICES ASSUME NEW g \in Goroutine
               PROVE  /\ at'[g] \in {"start", "announce", "state"} => status'[g] # Nothing
                      /\ at'[g] # "announce" => sensor'[g] = 1
                      /\ g \in Connection /\ g > connects' => at'[g] = "none"
    BY DEF Handed
  <2>1. CASE g = k
    <3>1. sensor[k] = 1 /\ ~(k > k)
      BY <1>0, <1>1, <1>3, Goroutines DEF Handed
    <3> QED
      BY <1>1, <1>2, <2>1, <3>1
  <2>2. CASE g # k
    <3>1. g \in Connection /\ g > connects' => g > connects
      BY <1>1, Goroutines DEF k
    <3> QED
      BY <1>0, <1>1, <1>2, <2>2, <3>1 DEF Handed
  <2> QED
    BY <2>1, <2>2
<1>6. \A c \in Callback : at'[c] = at[c] /\ sensor'[c] = sensor[c]
  BY <1>1, <1>2, Goroutines
<1>7. Held'
  BY <1>0, <1>4, <1>6 DEF Held
<1>8. NoSensorForgotten'
  <2> SUFFICES ASSUME NEW i \in 1 .. Sensors, Passed(i)'
               PROVE  WillAnnounce(i)'
    BY DEF NoSensorForgotten
  <2>1. discoveryPublished \/ \E c \in Callback : at[c] = "announce"
    BY <1>4, <1>6 DEF Passed
  <2>2. lastStatus' # Nothing
    BY <1>0, <1>4, <2>1 DEF Held
  <2> QED
    BY <1>1, <1>2, <2>2 DEF WillAnnounce
<1> QED
  BY <1>5, <1>7, <1>8

\* A step of the connection that makes none.
LEMMA LinkStep ==
  ASSUME IInv, link' # "up" \/ link' = link, connects' = connects, UNCHANGED <<clientVars, workVars, config>>
  PROVE  Handed' /\ Held' /\ NoSensorForgotten'
BY DEF IInv, Handed, Held, NoSensorForgotten, Passed, WillAnnounce, clientVars, workVars

\* What no longer waits at the beginning of the handler announces from the first sensor.
LEMMA OnConnectStep ==
  ASSUME IInv, NEW k \in Connection, OnConnect(k)
  PROVE  Handed' /\ Held' /\ NoSensorForgotten'
<1>0. TypeOK /\ Handed /\ Held /\ NoSensorForgotten /\ k \in Goroutine /\ k \notin Callback
  BY Goroutines DEF IInv
<1>1. /\ at[k] = "connected" /\ sensor' = sensor /\ connects' = connects /\ link' = link
      /\ lastStatus' = lastStatus /\ discoveryPublished' = discoveryPublished /\ config' = config
      /\ at' = [at EXCEPT ![k] = IF lastStatus = Nothing THEN "none" ELSE "announce"]
      /\ status' = [status EXCEPT ![k] = lastStatus]
  BY DEF OnConnect, linkVars, clientVars, brokerVars
<1>2. /\ at'[k] = (IF lastStatus = Nothing THEN "none" ELSE "announce") /\ status'[k] = lastStatus
      /\ \A g \in Goroutine : g # k => at'[g] = at[g] /\ status'[g] = status[g]
  BY <1>0, <1>1 DEF TypeOK
<1>3. sensor[k] = 1 /\ ~(k > connects)
  BY <1>0, <1>1 DEF Handed
<1>4. Handed'
  <2> SUFFICES ASSUME NEW g \in Goroutine
               PROVE  /\ at'[g] \in {"start", "announce", "state"} => status'[g] # Nothing
                      /\ at'[g] # "announce" => sensor'[g] = 1
                      /\ g \in Connection /\ g > connects' => at'[g] = "none"
    BY DEF Handed
  <2>1. CASE g = k
    BY <1>1, <1>2, <1>3, <2>1
  <2>2. CASE g # k
    BY <1>0, <1>1, <1>2, <2>2 DEF Handed
  <2> QED
    BY <2>1, <2>2
<1>5. \A c \in Callback : at'[c] = at[c] /\ sensor'[c] = sensor[c]
  BY <1>0, <1>1, <1>2, Goroutines
<1>6. Held'
  BY <1>0, <1>1, <1>5 DEF Held
<1>7. NoSensorForgotten'
  <2> SUFFICES ASSUME link = "up", NEW i \in 1 .. Sensors, Passed(i)'
               PROVE  config[i] # Nothing \/ WillAnnounce(i)'
    BY <1>1 DEF NoSensorForgotten
  <2>1. Passed(i)
    BY <1>1, <1>5 DEF Passed
  <2>2. ASSUME WillAnnounce(i)
        PROVE  WillAnnounce(i)'
    <3>1. PICK j \in Connection : \/ at[j] = "connected" /\ lastStatus # Nothing
                                  \/ at[j] = "announce" /\ sensor[j] <= i
      BY <2>2 DEF WillAnnounce
    <3>2. CASE j = k
      <4>1. at'[k] = "announce" /\ sensor'[k] <= i
        BY <1>1, <1>2, <1>3, <3>1, <3>2
      <4> QED
        BY <4>1 DEF WillAnnounce
    <3>3. CASE j # k
      <4>1. j \in Goroutine
        BY Goroutines
      <4> QED
        BY <1>1, <1>2, <3>1, <3>3, <4>1 DEF WillAnnounce
    <3> QED
      BY <3>2, <3>3
  <2> QED
    BY <1>0, <2>1, <2>2 DEF NoSensorForgotten
<1> QED
  BY <1>4, <1>6, <1>7

\* The steps of a callback but for its announcements: no sensor is passed over.
LEMMA CallbackStep ==
  ASSUME IInv, NEW c \in Callback, PublishStatus(c) \/ PublishState(c) \/ Notify(c)
  PROVE  Handed' /\ Held' /\ NoSensorForgotten'
<1>0. /\ TypeOK /\ Handed /\ Held /\ NoSensorForgotten /\ c \in Goroutine /\ c \notin Connection
      /\ Nothing \notin Status
  BY Goroutines DEF IInv
<1>1. /\ sensor' = sensor /\ connects' = connects /\ link' = link
      /\ discoveryPublished' = discoveryPublished /\ config' = config
      /\ at[c] # "announce"
  BY DEF PublishStatus, PublishState, Notify, linkVars, clientVars, brokerVars
<1>2. /\ \A g \in Goroutine : g # c => at'[g] = at[g] /\ status'[g] = status[g]
      /\ at'[c] \in {"start", "announce", "state"} => status'[c] # Nothing
      /\ lastStatus' # lastStatus \/ at'[c] = "announce" => lastStatus' # Nothing
  <2>1. CASE PublishStatus(c)
    <3>1. /\ at[c] = "start" /\ status' = status /\ lastStatus' = status[c]
          /\ at' = [at EXCEPT ![c] = IF ~discoveryPublished /\ status[c] \in Known THEN "announce" ELSE "state"]
      BY <2>1 DEF PublishStatus
    <3>2. status[c] # Nothing
      BY <1>0, <3>1 DEF Handed
    <3> QED
      BY <1>0, <3>1, <3>2 DEF TypeOK
  <2>2. CASE PublishState(c)
    <3>1. /\ lastStatus' = lastStatus /\ at' = [at EXCEPT ![c] = "none"]
          /\ status' = [status EXCEPT ![c] = Nothing]
      BY <2>2 DEF PublishState, clientVars
    <3> QED
      BY <1>0, <3>1 DEF TypeOK
  <2>3. CASE Notify(c)
    <3>1. /\ lastStatus' = lastStatus /\ at' = [at EXCEPT ![c] = "start"]
          /\ status' = [status EXCEPT ![c] = modem]
      BY <2>3 DEF Notify, clientVars
    <3> QED
      BY <1>0, <3>1 DEF TypeOK
  <2> QED
    BY <2>1, <2>2, <2>3
<1>3. sensor[c] = 1
  BY <1>0, <1>1 DEF Handed
<1>4. Handed'
  <2> SUFFICES ASSUME NEW g \in Goroutine
               PROVE  /\ at'[g] \in {"start", "announce", "state"} => status'[g] # Nothing
                      /\ at'[g] # "announce" => sensor'[g] = 1
                      /\ g \in Connection /\ g > connects' => at'[g] = "none"
    BY DEF Handed
  <2>1. CASE g = c
    BY <1>0, <1>1, <1>2, <1>3, <2>1
  <2>2. CASE g # c
    BY <1>0, <1>1, <1>2, <2>2 DEF Handed
  <2> QED
    BY <2>1, <2>2
<1>5. \A d \in Callback : at'[d] = "announce" => at[d] = "announce" \/ d = c
  BY <1>2, Goroutines
<1>6. Held'
  <2>1. lastStatus' = lastStatus \/ lastStatus' # Nothing
    BY <1>2
  <2> QED
    BY <1>0, <1>1, <1>2, <1>5, <2>1 DEF Held
<1>7. NoSensorForgotten'
  <2> SUFFICES ASSUME link = "up", NEW i \in 1 .. Sensors, Passed(i)'
               PROVE  config[i] # Nothing \/ WillAnnounce(i)'
    BY <1>1 DEF NoSensorForgotten
  <2>1. Passed(i)
    <3>1. ~(1 > i)
      OBVIOUS
    <3> QED
      BY <1>1, <1>3, <1>5, <3>1 DEF Passed
  <2>2. WillAnnounce(i) => WillAnnounce(i)'
    <3>1. \A k \in Connection : at'[k] = at[k] /\ sensor'[k] = sensor[k]
      BY <1>0, <1>1, <1>2, Goroutines
    <3>2. lastStatus # Nothing => lastStatus' # Nothing
      BY <1>2
    <3> QED
      BY <3>1, <3>2 DEF WillAnnounce
  <2> QED
    BY <1>0, <2>1, <2>2 DEF NoSensorForgotten
<1> QED
  BY <1>4, <1>6, <1>7

\* While there is a connection, what a goroutine goes on from has been announced.
LEMMA AnnounceStep ==
  ASSUME IInv, NEW g \in Goroutine, Announce(g)
  PROVE  Handed' /\ Held' /\ NoSensorForgotten'
<1>0. /\ TypeOK /\ Handed /\ Held /\ NoSensorForgotten /\ Sensors \in Nat
      /\ g \in Callback <=> g \notin Connection
  BY Goroutines DEF IInv
<1> DEFINE n == sensor[g]
           d == Deliver(config[n], status[g])
<1>1. /\ at[g] = "announce" /\ connects' = connects /\ link' = link /\ lastStatus' = lastStatus
      /\ config' = [config EXCEPT ![n] = d]
  BY DEF Announce, linkVars
<1>2. n \in 1 .. Sensors /\ status[g] # Nothing /\ lastStatus \in Status \cup {Nothing}
  BY <1>0, <1>1 DEF TypeOK, Handed
<1>3. link = "up" => config'[n] # Nothing
  <2>1. config'[n] = d
    BY <1>0, <1>1, <1>2 DEF TypeOK
  <2>2. link = "up" => d = status[g]
    BY Delivers
  <2> QED
    BY <1>2, <2>1, <2>2
<1>4. \A i \in 1 .. Sensors : i # n => config'[i] = config[i]
  BY <1>0, <1>1 DEF TypeOK
<1> HIDE DEF d
<1>5. \/ /\ n < Sensors /\ sensor' = [sensor EXCEPT ![g] = n + 1]
         /\ discoveryPublished' = discoveryPublished /\ at' = at /\ status' = status
      \/ /\ n = Sensors /\ sensor' = [sensor EXCEPT ![g] = 1] /\ g \in Callback
         /\ discoveryPublished' = TRUE /\ at' = [at EXCEPT ![g] = "state"] /\ status' = status
      \/ /\ n = Sensors /\ sensor' = [sensor EXCEPT ![g] = 1] /\ g \in Connection
         /\ discoveryPublished' = discoveryPublished
         /\ at' = [at EXCEPT ![g] = "none"] /\ status' = [status EXCEPT ![g] = Nothing]
  <2>1. CASE n < Sensors
    BY <2>1 DEF Announce
  <2>2. CASE ~(n < Sensors)
    <3>1. n = Sensors
      BY <1>0, <1>2, <2>2
    <3>2. /\ sensor' = [sensor EXCEPT ![g] = 1]
          /\ IF g \in Callback
             THEN discoveryPublished' = TRUE /\ at' = [at EXCEPT ![g] = "state"] /\ UNCHANGED status
             ELSE /\ at' = [at EXCEPT ![g] = "none"]
                  /\ status' = [status EXCEPT ![g] = Nothing]
                  /\ UNCHANGED discoveryPublished
      BY <2>2 DEF Announce
    <3> QED
      BY <1>0, <3>1, <3>2
  <2> QED
    BY <2>1, <2>2
<1>6. /\ \A h \in Goroutine : h # g => at'[h] = at[h] /\ status'[h] = status[h] /\ sensor'[h] = sensor[h]
      /\ \/ n < Sensors /\ at'[g] = "announce" /\ sensor'[g] = n + 1 /\ status'[g] = status[g]
         \/ n = Sensors /\ at'[g] = "state" /\ g \in Callback /\ sensor'[g] = 1 /\ status'[g] = status[g]
         \/ n = Sensors /\ at'[g] = "none" /\ g \in Connection /\ sensor'[g] = 1
  BY <1>0, <1>1, <1>5 DEF TypeOK
<1> HIDE DEF n
<1>7. Handed'
  <2> SUFFICES ASSUME NEW h \in Goroutine
               PROVE  /\ at'[h] \in {"start", "announce", "state"} => status'[h] # Nothing
                      /\ at'[h] # "announce" => sensor'[h] = 1
                      /\ h \in Connection /\ h > connects' => at'[h] = "none"
    BY DEF Handed
  <2>1. CASE h = g
    <3>1. g \in Connection => ~(g > connects)
      BY <1>0, <1>1 DEF Handed
    <3> QED
      BY <1>1, <1>2, <1>6, <2>1, <3>1, <1>0
  <2>2. CASE h # g
    BY <1>0, <1>1, <1>6, <2>2 DEF Handed
  <2> QED
    BY <2>1, <2>2
<1>8. Held'
  <2>1. g \in Callback => lastStatus # Nothing
    BY <1>0, <1>1 DEF Held
  <2>2. discoveryPublished' = discoveryPublished \/ g \in Callback
    BY <1>5
  <2>3. \A c \in Callback : at'[c] = "announce" => at[c] = "announce"
    BY <1>1, <1>6, Goroutines
  <2> QED
    BY <1>0, <1>1, <2>1, <2>2, <2>3 DEF Held
<1>9. NoSensorForgotten'
  <2> SUFFICES ASSUME link = "up", NEW i \in 1 .. Sensors, i # n, Passed(i)'
               PROVE  config[i] # Nothing \/ WillAnnounce(i)'
    BY <1>1, <1>3, <1>4 DEF NoSensorForgotten
  <2>0. i \in Nat /\ n \in Nat /\ i <= Sensors /\ n <= Sensors
    BY <1>0, <1>2
  <2>1. Passed(i)
    <3>1. CASE discoveryPublished'
      <4>1. CASE discoveryPublished
        BY <4>1 DEF Passed
      <4>2. CASE ~discoveryPublished
        <5>1. g \in Callback /\ n = Sensors
          BY <1>5, <3>1, <4>2
        <5>2. sensor[g] > i
          BY <2>0, <5>1 DEF n
        <5> QED
          BY <1>1, <5>1, <5>2 DEF Passed
      <4> QED
        BY <4>1, <4>2
    <3>2. ASSUME NEW c \in Callback, at'[c] = "announce", sensor'[c] > i
          PROVE  Passed(i)
      <4>1. c \in Goroutine
        BY Goroutines
      <4>2. CASE c = g
        <5>1. n + 1 > i
          BY <1>6, <3>2, <4>2
        <5>2. sensor[g] > i
          BY <2>0, <5>1 DEF n
        <5> QED
          BY <1>1, <4>2, <5>2 DEF Passed
      <4>3. CASE c # g
        BY <1>6, <3>2, <4>1, <4>3 DEF Passed
      <4> QED
        BY <4>2, <4>3
    <3> QED
      BY <3>1, <3>2 DEF Passed
  <2>2. ASSUME WillAnnounce(i)
        PROVE  WillAnnounce(i)'
    <3>1. PICK k \in Connection : \/ at[k] = "connected" /\ lastStatus # Nothing
                                  \/ at[k] = "announce" /\ sensor[k] <= i
      BY <2>2 DEF WillAnnounce
    <3>2. CASE k = g
      <4>1. n <= i
        BY <1>1, <3>1, <3>2 DEF n
      <4>2. n < Sensors /\ n + 1 <= i
        BY <1>0, <2>0, <4>1
      <4>3. at'[k] = "announce" /\ sensor'[k] <= i
        BY <1>6, <2>0, <3>2, <4>2
      <4> QED
        BY <4>3 DEF WillAnnounce
    <3>3. CASE k # g
      <4>1. k \in Goroutine
        BY Goroutines
      <4> QED
        BY <1>1, <1>6, <3>1, <3>3, <4>1 DEF WillAnnounce
    <3> QED
      BY <3>2, <3>3
  <2> QED
    BY <1>0, <2>1, <2>2 DEF NoSensorForgotten
<1> QED
  BY <1>7, <1>8, <1>9

\* IInv is inductive.
LEMMA InvNext ==
  ASSUME IInv, [Next]_vars
  PROVE  IInv'
<1>0. TypeOK'
  BY TypeNext DEF IInv
<1>1. CASE Connect
  <2>1. CASE Connected
    BY <1>0, <1>1, <2>1, ConnectedStep DEF Connect, brokerVars, IInv
  <2>2. CASE link' = "failed" /\ UNCHANGED <<connects, workVars>>
    BY <1>0, <1>1, <2>2, LinkStep DEF Connect, brokerVars, IInv
  <2> QED
    BY <1>1, <2>1, <2>2 DEF Connect
<1>2. CASE RetryConnects
  BY <1>0, <1>2, ConnectedStep DEF RetryConnects, brokerVars, IInv
<1>3. CASE RetryStops \/ ConnectionLost \/ Disconnect
  BY <1>0, <1>3, LinkStep DEF RetryStops, ConnectionLost, Disconnect, brokerVars, IInv
<1>4. CASE Reconnect
  BY <1>0, <1>4, ConnectedStep DEF Reconnect, brokerVars, IInv
<1>5. ASSUME NEW g \in Connection, OnConnect(g)
      PROVE  IInv'
  BY <1>0, <1>5, OnConnectStep DEF IInv
<1>6. ASSUME NEW c \in Callback, PublishStatus(c) \/ PublishState(c) \/ Notify(c)
      PROVE  IInv'
  BY <1>0, <1>6, CallbackStep DEF IInv
<1>7. ASSUME NEW g \in Goroutine, Announce(g)
      PROVE  IInv'
  BY <1>0, <1>7, AnnounceStep DEF IInv
<1>8. ASSUME NEW s \in Status, ModemChanges(s)
      PROVE  IInv'
  BY <1>0, <1>8, LinkStep DEF ModemChanges, linkVars, brokerVars, IInv
<1>9. CASE Cancel \/ UNCHANGED vars
  BY <1>0, <1>9, LinkStep DEF Cancel, vars, linkVars, brokerVars, IInv
<1> QED
  BY <1>1, <1>2, <1>3, <1>4, <1>5, <1>6, <1>7, <1>8, <1>9 DEF Next, Publishing

\* What makes NoSensorForgotten inductive holds in every reachable state.
THEOREM PublisherInvariance == Spec => []IInv
<1>1. Init => IInv
  BY InvInit
<1>2. IInv /\ [Next]_vars => IInv'
  BY InvNext
<1> QED
  BY <1>1, <1>2, PTL DEF Spec

\* While the client is connected no sensor is forgotten, for any number of sensors,
\* of callbacks at the same time and of connections (mqtt.go:74, 129).
THEOREM SensorsRemembered == Spec => []NoSensorForgotten
<1>1. IInv => NoSensorForgotten
  BY DEF IInv
<1> QED
  BY <1>1, PublisherInvariance, PTL
=============================================================================
