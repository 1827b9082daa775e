---------------------------- MODULE StatusCache ----------------------------
(***************************************************************************)
(* The daemon's cached modem status (daemon/daemon.go): full polls and SMS *)
(* polls that gather a status with one command after the other and install *)
(* it at the end, SetAPN and DeleteSMS.  MqttPublisher models what becomes *)
(* of a status that is installed.                                          *)
(*                                                                         *)
(* A command is one step: CommandLink models the exchange behind it.  Of   *)
(* the status the model keeps the connection, the SMS storage as listed    *)
(* and one APN.  A critical section of statusMutex holds no call that can  *)
(* block and is one step.                                                  *)
(***************************************************************************)
EXTENDS Integers, FiniteSets

CONSTANTS Loop,         \* the goroutine of Daemon.Start
          Request,      \* goroutines that serve HTTP requests
          Slots,        \* size of the modem's SMS storage
          Short, Long,  \* messages of one segment and of two
          Apn,          \* access point names
          Nothing,      \* an empty slot, an APN that is not set or not known
          MaxChanges,   \* bound on the changes of the modem's state
          MaxFailures   \* bound on the commands that fail while connected

ASSUME CacheAssumption ==
  /\ Loop \notin Request
  /\ Slots \in Nat \ {0}
  /\ Short \cap Long = {}
  /\ Nothing \notin Short \cup Long \cup Apn
  /\ MaxChanges \in Nat
  /\ MaxFailures \in Nat

Process == Request \cup {Loop}
Slot    == 1 .. Slots
Storage == [Slot -> Short \cup Long \cup {Nothing}]
Empty   == [i \in Slot |-> Nothing]
Status  == [link : {"Offline", "Connected"}, sms : Storage, apn : Apn \cup {Nothing}]

Listed(list) == {list[i] : i \in Slot} \ {Nothing}

NewModemStatus == [link |-> "Offline", sms |-> Empty, apn |-> Nothing]

VARIABLES
  \* the modem
  online,     \* Client.IsConnected
  storage,    \* the message in each slot of its SMS storage
  apn,        \* its APN, if one is set
  arrived,    \* the messages that have arrived
  \* the daemon
  cache,      \* Daemon.status
  pc,         \* where each process stands
  new,        \* the status a poll has gathered
  want,       \* the APN a SetAPN sets
  victims,    \* the slots a DeleteSMS still has to delete
  failed,     \* whether one of its commands failed
  \* bounds
  changes, failures,
  \* history
  shown,      \* the messages the cache has listed
  chosen,     \* the message a DeleteSMS is asked to delete
  before      \* the storage when it began; Nothing once it differs from the list
              \* or somebody else changed it

modemVars    == <<online, storage, apn, arrived>>
deleteVars   == <<victims, failed, chosen, before>>
boundVars    == <<changes, failures>>
vars == <<modemVars, cache, shown, pc, new, want, deleteVars, boundVars>>

Place == {"idle", "ati", "list", "apn", "install", "smsPoll", "smsList",
          "smsInstall", "setApn", "cacheApn", "delete"}

TypeOK ==
  /\ online \in BOOLEAN
  /\ storage \in Storage
  /\ apn \in Apn \cup {Nothing}
  /\ arrived \in SUBSET (Short \cup Long)
  /\ cache \in Status
  /\ pc \in [Process -> Place]
  /\ new \in [Process -> Status]
  /\ want \in [Process -> Apn \cup {Nothing}]
  /\ victims \in [Process -> SUBSET Slot]
  /\ failed \in [Process -> BOOLEAN]
  /\ changes \in 0 .. MaxChanges
  /\ failures \in 0 .. MaxFailures
  /\ shown \in SUBSET (Short \cup Long)
  /\ chosen \in [Process -> Short \cup Long \cup {Nothing}]
  /\ before \in [Process -> Storage \cup {Nothing}]

Init ==
  /\ online \in BOOLEAN
  /\ storage = Empty
  /\ apn \in Apn \cup {Nothing}
  /\ arrived = {}
  /\ cache = NewModemStatus
  /\ pc = [p \in Process |-> "idle"]
  /\ new = [p \in Process |-> NewModemStatus]
  /\ want = [p \in Process |-> Nothing]
  /\ victims = [p \in Process |-> {}]
  /\ failed = [p \in Process |-> FALSE]
  /\ changes = 0
  /\ failures = 0
  /\ shown = {}
  /\ chosen = [p \in Process |-> Nothing]
  /\ before = [p \in Process |-> Nothing]

Goto(p, place) == pc' = [pc EXCEPT ![p] = place]

\* A command that goes well.
Answers == online /\ UNCHANGED failures

\* A command that gives no usable answer: the connection is down, the timeout
\* expires, or the modem answers ERROR, which the parsers read as nothing.
NoAnswer ==
  \/ ~online /\ UNCHANGED failures
  \/ online /\ failures < MaxFailures /\ failures' = failures + 1

-----------------------------------------------------------------------------
(* PollAll *)

\* Fault variant: a poll that finds no connection leaves the old status.
BeginPollQuietly(p) ==
  /\ pc[p] = "idle"
  /\ new' = [new EXCEPT ![p] = NewModemStatus]
  /\ Goto(p, IF online THEN "ati" ELSE "idle")
  /\ UNCHANGED <<modemVars, cache, shown, want, deleteVars, boundVars>>

BeginPoll(p) ==
  /\ pc[p] = "idle"
  /\ new' = [new EXCEPT ![p] = NewModemStatus]
  /\ IF online THEN Goto(p, "ati") /\ UNCHANGED cache
               ELSE Goto(p, "idle") /\ cache' = [cache EXCEPT !.link = "Offline"]
  /\ UNCHANGED <<modemVars, shown, want, deleteVars, boundVars>>

\* ModemStatus.Parse: without an answer to ATI nothing else is asked; any
\* answer, ERROR too, says that the modem is there.
ReadATI(p) ==
  /\ pc[p] = "ati"
  /\ \/ /\ Answers \/ (online /\ NoAnswer)
        /\ Goto(p, "list")
        /\ new' = [new EXCEPT ![p].link = "Connected"]
     \/ /\ NoAnswer
        /\ Goto(p, "install")
        /\ UNCHANGED new
  /\ UNCHANGED <<modemVars, cache, shown, want, deleteVars, changes>>

\* AT+CMGL, for a full poll and for an SMS poll.
List(p) ==
  /\ pc[p] \in {"list", "smsList"}
  /\ \/ Answers /\ new' = [new EXCEPT ![p].sms = storage]
     \/ NoAnswer /\ UNCHANGED new
  /\ Goto(p, IF pc[p] = "list" THEN "apn" ELSE "smsInstall")
  /\ UNCHANGED <<modemVars, cache, shown, want, deleteVars, changes>>

ReadAPN(p) ==
  /\ pc[p] = "apn"
  /\ \/ Answers /\ new' = [new EXCEPT ![p].apn = apn]
     \/ NoAnswer /\ UNCHANGED new
  /\ Goto(p, "install")
  /\ UNCHANGED <<modemVars, cache, shown, want, deleteVars, changes>>

Install(p) ==
  /\ pc[p] = "install"
  /\ cache' = new[p]
  /\ shown' = shown \cup Listed(new[p].sms)
  /\ new' = [new EXCEPT ![p] = NewModemStatus]
  /\ Goto(p, "idle")
  /\ UNCHANGED <<modemVars, want, deleteVars, boundVars>>

-----------------------------------------------------------------------------
(* PollSMSOnly, called by the handlers that send or delete messages *)

MessageSent(p) ==
  /\ pc[p] = "idle"
  /\ Goto(p, "smsPoll")
  /\ UNCHANGED <<modemVars, cache, shown, new, want, deleteVars, boundVars>>

BeginSMSPoll(p) ==
  /\ pc[p] = "smsPoll"
  /\ Goto(p, IF online THEN "smsList" ELSE "idle")
  /\ UNCHANGED <<modemVars, cache, shown, new, want, deleteVars, boundVars>>

InstallSMS(p) ==
  /\ pc[p] = "smsInstall"
  /\ cache' = [cache EXCEPT !.sms = new[p].sms]
  /\ shown' = shown \cup Listed(new[p].sms)
  /\ new' = [new EXCEPT ![p] = NewModemStatus]
  /\ Goto(p, "idle")
  /\ UNCHANGED <<modemVars, want, deleteVars, boundVars>>

-----------------------------------------------------------------------------
(* SetAPN *)

SetAPN(p, a) ==
  /\ pc[p] = "idle"
  /\ changes < MaxChanges
  /\ changes' = changes + 1
  /\ want' = [want EXCEPT ![p] = a]
  /\ Goto(p, "setApn")
  /\ UNCHANGED <<modemVars, cache, shown, new, deleteVars, failures>>

\* The command: the modem sets the APN or refuses, and the answer may be lost;
\* an answer is no error for the caller, whatever it says.
SendAPN(p) ==
  /\ pc[p] = "setApn"
  /\ \/ Answers /\ apn' = want[p] /\ Goto(p, "cacheApn")
     \/ online /\ NoAnswer /\ UNCHANGED apn /\ Goto(p, "cacheApn")
     \/ NoAnswer /\ apn' \in (IF online THEN {apn, want[p]} ELSE {apn}) /\ Goto(p, "idle")
  /\ want' = IF pc'[p] = "idle" THEN [want EXCEPT ![p] = Nothing] ELSE want
  /\ UNCHANGED <<online, storage, arrived, cache, shown, new, deleteVars, changes>>

CacheAPN(p) ==
  /\ pc[p] = "cacheApn"
  /\ cache' = [cache EXCEPT !.apn = want[p]]
  /\ want' = [want EXCEPT ![p] = Nothing]
  /\ Goto(p, "idle")
  /\ UNCHANGED <<modemVars, shown, new, deleteVars, boundVars>>

-----------------------------------------------------------------------------
(* DeleteSMS *)

\* The slots SMSList.ParseResponse merges with slot i: the segments of one
\* message that follow each other in the list.  (It knows them by their sender,
\* time and length; the model takes messages that differ in these.)
MergedIndices(list, i) ==
  {j \in Slot : list[j] = list[i] /\ \A k \in (i .. j) \cup (j .. i) : list[k] \in {list[i], Nothing}}

\* Fault variant: the other segments of a message are forgotten.
IndexOnly(list, i) == {i}

\* A listed message is known by the first slot of its segments; any other index
\* stands for itself.
IndicesToDelete(list, i) ==
  IF list[i] # Nothing /\ \A j \in MergedIndices(list, i) : i <= j
  THEN MergedIndices(list, i) ELSE {i}

IsFirst(list, i) == list[i] # Nothing /\ \A j \in Slot : list[j] = list[i] => i <= j

\* The index comes from a page the user loaded at some time.
DeleteSMS(p, i) ==
  /\ pc[p] = "idle"
  /\ victims' = [victims EXCEPT ![p] = IndicesToDelete(cache.sms, i)]
  /\ chosen' = [chosen EXCEPT ![p] =
                  IF IsFirst(storage, i) /\ storage[i] \in shown THEN storage[i] ELSE Nothing]
  /\ before' = [before EXCEPT ![p] = IF cache.sms = storage THEN storage ELSE Nothing]
  /\ Goto(p, "delete")
  /\ UNCHANGED <<modemVars, cache, shown, new, want, failed, boundVars>>

\* AT+CMGD for the next index.
DeleteNext(p, i) ==
  LET freed == [storage EXCEPT ![i] = Nothing] IN
  /\ pc[p] = "delete"
  /\ i \in victims[p]
  /\ \A j \in victims[p] : i <= j
  /\ victims' = [victims EXCEPT ![p] = @ \ {i}]
  /\ \/ /\ Answers
        /\ storage' = freed
        /\ UNCHANGED <<failed, chosen>>
     \/ /\ NoAnswer                  \* an error, or an answer that was lost
        /\ storage' \in (IF online THEN {storage, freed} ELSE {storage})
        /\ failed' = [failed EXCEPT ![p] = TRUE]
        /\ UNCHANGED chosen
     \/ /\ online /\ NoAnswer        \* refused: no error for the caller
        /\ UNCHANGED <<storage, failed>>
        /\ chosen' = [chosen EXCEPT ![p] = Nothing]
  /\ before' = IF storage' = storage THEN before
               ELSE [q \in Process |-> IF q = p THEN before[p] ELSE Nothing]
  /\ UNCHANGED <<online, apn, arrived, cache, shown, pc, new, want, changes>>

\* The handler polls the messages unless there was an error.
EndDelete(p) ==
  /\ pc[p] = "delete"
  /\ victims[p] = {}
  /\ Goto(p, IF failed[p] THEN "idle" ELSE "smsPoll")
  /\ chosen' = [chosen EXCEPT ![p] = Nothing]
  /\ before' = [before EXCEPT ![p] = Nothing]
  /\ failed' = [failed EXCEPT ![p] = FALSE]
  /\ UNCHANGED <<modemVars, cache, shown, new, want, victims, boundVars>>

-----------------------------------------------------------------------------
(* The modem and the network *)

\* A message arrives; the modem stores its segments in the lowest free slots.
Arrive(m) ==
  LET need  == IF m \in Long THEN 2 ELSE 1
      free  == {i \in Slot : storage[i] = Nothing}
      taken == {i \in free : Cardinality({j \in free : j <= i}) <= need}
  IN
  /\ changes < MaxChanges
  /\ changes' = changes + 1
  /\ m \notin arrived
  /\ Cardinality(free) >= need
  /\ arrived' = arrived \cup {m}
  /\ storage' = [i \in Slot |-> IF i \in taken THEN m ELSE storage[i]]
  /\ before' = [p \in Process |-> Nothing]
  /\ UNCHANGED <<online, apn, cache, shown, pc, new, want, victims, failed, chosen, failures>>

\* The connection drops or comes back.
Toggle ==
  /\ changes < MaxChanges
  /\ changes' = changes + 1
  /\ online' = ~online
  /\ UNCHANGED <<storage, apn, arrived, cache, shown, pc, new, want, deleteVars, failures>>

Begin(p) ==
  \/ BeginPoll(p)                        \* handleRefresh
  \/ MessageSent(p)
  \/ \E a \in Apn : SetAPN(p, a)
  \/ \E i \in Slot : DeleteSMS(p, i)

Continue(p) ==
  \/ ReadATI(p) \/ List(p) \/ ReadAPN(p) \/ Install(p)
  \/ BeginSMSPoll(p) \/ InstallSMS(p)
  \/ SendAPN(p) \/ CacheAPN(p)
  \/ (\E i \in Slot : DeleteNext(p, i)) \/ EndDelete(p)

Next ==
  \/ BeginPoll(Loop)
  \/ \E p \in Request : Begin(p)
  \/ \E p \in Process : Continue(p)
  \/ \E m \in Short \cup Long : Arrive(m)
  \/ Toggle

\* The poll loop never ends, and every command it or a request waits for has a
\* timeout.
Spec ==
  /\ Init /\ [][Next]_vars
  /\ WF_vars(BeginPoll(Loop))
  /\ \A p \in Process : WF_vars(Continue(p))

-----------------------------------------------------------------------------
(* Properties *)

\* Once the modem and the connection stay as they are, the cache ends up right
\* and stays right, whatever stale status a slower poll, an SMS poll or a
\* SetAPN installed before (daemon.go:214).
CacheCatchesUp ==
  <>[](IF online
       THEN cache = [link |-> "Connected", sms |-> storage, apn |-> apn]
       ELSE cache.link = "Offline")

\* A delete that reports no error, whose list was right when it began and whom
\* nobody disturbed, removed the listed message with all the segments merged in
\* it and nothing else (sms.go:132).  A command gets its own answer here; CommandLink
\* shows when it does not.
DeleteIsExact ==
  \A p \in Request, i \in Slot :
    /\ pc[p] = "delete" /\ victims[p] = {} /\ ~failed[p]
    /\ before[p] # Nothing /\ chosen[p] # Nothing
    /\ IsFirst(before[p], i) /\ before[p][i] = chosen[p]
    => storage = [j \in Slot |-> IF j \in MergedIndices(before[p], i) THEN Nothing ELSE before[p][j]]

\* "DeleteSMS deletes an SMS message by its index (including all merged
\* segments if it's a concatenated message)" (sms.go:131).
DeletesAllSegments ==
  \A p \in Request :
    pc[p] = "delete" /\ victims[p] = {} /\ ~failed[p] /\ chosen[p] # Nothing =>
      \A i \in Slot : storage[i] # chosen[p]
=============================================================================
