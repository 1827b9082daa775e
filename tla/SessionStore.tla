---------------------------- MODULE SessionStore ----------------------------
(***************************************************************************)
(* The login sessions of the web server (web/session.go and the cleanup    *)
(* goroutine of web/server.go) and their copy in sessions.json, over       *)
(* concurrent requests, failing file operations, crashes and restarts.     *)
(*                                                                         *)
(* A critical section of sessMutex holds no call that can block and is one *)
(* step; saveMutex is held across the file operations and is a variable.   *)
(* A session ID is a fresh UUID, so an identifier is used for one login.   *)
(* The server runs with a data directory: without one nothing is saved.    *)
(***************************************************************************)
EXTENDS Integers, FiniteSets

CONSTANTS Id,           \* session identifiers
          Request,      \* goroutines that serve HTTP requests
          Cleaner,      \* the goroutine of startSessionCleanup
          NoSession,    \* stands for an identifier that is not in a map
          Duration,     \* Server.sessionDuration
          MaxTime,      \* bound on the clock
          MaxFailures,  \* bound on the failing file operations, reads and writes
          MaxCrashes    \* bound on the crashes

ASSUME StoreAssumption ==
  /\ Cleaner \notin Request
  /\ NoSession \notin Int
  /\ Duration \in Nat \ {0}       \* main.go rejects a duration that is not positive
  /\ MaxTime \in Nat
  /\ MaxFailures \in Nat
  /\ MaxCrashes \in Nat

Process == Request \cup {Cleaner}
Expiry  == 0 .. MaxTime + Duration
Map     == [Id -> Expiry \cup {NoSession}]
Empty   == [i \in Id |-> NoSession]

VARIABLES
  now,        \* the clock
  up,         \* the server runs
  sessions,   \* Server.sessions
  saveMutex,  \* the processes that hold Server.saveMutex
  file,       \* the map in sessions.json; a missing file is an empty map
  tmp,        \* the map in sessions.json.tmp; a torn file is an empty map
  pc,         \* where each process stands
  op,         \* what it serves: "login", "logout", "check", "clean"
  change,     \* the identifiers it adds to the map or removes from it
  seen,       \* the expiry isSessionValid read
  data,       \* the snapshot saveSessions took
  cookies,    \* the identifiers the clients hold
  failures, crashes,
  \* history
  expiryOf,   \* the expiry each session was created with
  durable,    \* sessions whose creation was saved without an error
  forgotten,  \* sessions in the file when a start could not read it
  destroyed   \* how far the removal of each session got

mapVars     == <<now, sessions>>
diskVars    == <<file, tmp>>
requestVars == <<pc, op, change, seen, data>>
boundVars   == <<failures, crashes>>
historyVars == <<expiryOf, durable, forgotten, destroyed>>
vars == <<mapVars, up, saveMutex, diskVars, requestVars, cookies, boundVars, historyVars>>

Saving == {"marshal", "write", "writing", "rename"}     \* the part under saveMutex
Place  == {"idle", "check", "expire", "save", "lock", "reply"} \cup Saving

\* "no": never removed; "memory": removed while this server runs; "disk": and
\* saved without an error; "lost": a crash came first.
Removal == {"no", "memory", "disk", "lost"}

TypeOK ==
  /\ now \in 0 .. MaxTime
  /\ up \in BOOLEAN
  /\ sessions \in Map
  /\ saveMutex \in SUBSET Process
  /\ file \in Map
  /\ tmp \in Map
  /\ pc \in [Process -> Place]
  /\ op \in [Process -> {"login", "logout", "check", "clean"}]
  /\ change \in [Process -> SUBSET Id]
  /\ seen \in [Process -> Expiry \cup {NoSession}]
  /\ data \in [Process -> Map]
  /\ cookies \in SUBSET Id
  /\ failures \in 0 .. MaxFailures
  /\ crashes \in 0 .. MaxCrashes
  /\ expiryOf \in Map
  /\ durable \in SUBSET Id
  /\ forgotten \in SUBSET Id
  /\ destroyed \in [Id -> Removal]

Init ==
  /\ now = 0
  /\ up = TRUE
  /\ sessions = Empty
  /\ saveMutex = {}
  /\ file = Empty
  /\ tmp = Empty
  /\ pc = [p \in Process |-> "idle"]
  /\ op = [p \in Process |-> "clean"]
  /\ change = [p \in Process |-> {}]
  /\ seen = [p \in Process |-> NoSession]
  /\ data = [p \in Process |-> Empty]
  /\ cookies = {}
  /\ failures = 0
  /\ crashes = 0
  /\ expiryOf = Empty
  /\ durable = {}
  /\ forgotten = {}
  /\ destroyed = [i \in Id |-> "no"]

-----------------------------------------------------------------------------
(* Changes of the map *)

Goto(p, place) == pc' = [pc EXCEPT ![p] = place]

Expired(i) == sessions[i] # NoSession /\ now > sessions[i]

Serve(p, what, ids) ==
  /\ op' = [op EXCEPT ![p] = what]
  /\ change' = [change EXCEPT ![p] = ids]

Remove(ids) ==
  /\ sessions' = [i \in Id |-> IF i \in ids THEN NoSession ELSE sessions[i]]
  /\ destroyed' = [i \in Id |-> IF i \in ids /\ destroyed[i] # "disk"
                                THEN "memory" ELSE destroyed[i]]

\* createSession up to saveSessions.
CreateSession(p, i) ==
  /\ up
  /\ pc[p] = "idle"
  /\ expiryOf[i] = NoSession
  /\ sessions' = [sessions EXCEPT ![i] = now + Duration]
  /\ expiryOf' = [expiryOf EXCEPT ![i] = now + Duration]
  /\ Serve(p, "login", {i})
  /\ Goto(p, "save")
  /\ UNCHANGED <<now, up, saveMutex, diskVars, seen, data, cookies, boundVars, durable, forgotten, destroyed>>

\* destroySession up to saveSessions; a request without a cookie changes nothing.
DestroySession(p, i) ==
  /\ up
  /\ pc[p] = "idle"
  /\ i \in cookies
  /\ Remove({i})
  /\ Serve(p, "logout", {i})
  /\ Goto(p, "save")
  /\ UNCHANGED <<now, up, saveMutex, diskVars, seen, data, cookies, boundVars, expiryOf, durable, forgotten>>

\* isSessionValid: the look-up under the read lock.
LookUp(p, i) ==
  /\ up
  /\ pc[p] = "idle"
  /\ i \in cookies
  /\ sessions[i] # NoSession
  /\ seen' = [seen EXCEPT ![p] = sessions[i]]
  /\ Serve(p, "check", {i})
  /\ Goto(p, "check")
  /\ UNCHANGED <<mapVars, up, saveMutex, diskVars, data, cookies, boundVars, historyVars>>

\* isSessionValid: the comparison with the clock, after the read lock is released.
Compare(p) ==
  /\ pc[p] = "check"
  /\ Goto(p, IF now > seen[p] THEN "expire" ELSE "reply")
  /\ UNCHANGED <<mapVars, up, saveMutex, diskVars, op, change, seen, data, cookies, boundVars, historyVars>>

\* isSessionValid: the removal of an expired session.
Expire(p) ==
  /\ pc[p] = "expire"
  /\ Remove(change[p])
  /\ Goto(p, "save")
  /\ UNCHANGED <<now, up, saveMutex, diskVars, op, change, seen, data, cookies, boundVars, expiryOf, durable, forgotten>>

\* Fault variant: the cleanup takes an expiry for the time of a login.
CleanupByAge ==
  LET old == {i \in Id : sessions[i] # NoSession /\ now > sessions[i] + Duration} IN
  /\ up
  /\ pc[Cleaner] = "idle"
  /\ Remove(old)
  /\ Serve(Cleaner, "clean", old)
  /\ Goto(Cleaner, IF old = {} THEN "idle" ELSE "save")
  /\ UNCHANGED <<now, up, saveMutex, diskVars, seen, data, cookies, boundVars, expiryOf, durable, forgotten>>

\* A tick of startSessionCleanup; saveSessions is called when something expired.
Cleanup ==
  LET old == {i \in Id : Expired(i)} IN
  /\ up
  /\ pc[Cleaner] = "idle"
  /\ Remove(old)
  /\ Serve(Cleaner, "clean", old)
  /\ Goto(Cleaner, IF old = {} THEN "idle" ELSE "save")
  /\ UNCHANGED <<now, up, saveMutex, diskVars, seen, data, cookies, boundVars, expiryOf, durable, forgotten>>

-----------------------------------------------------------------------------
(* saveSessions *)

\* os.MkdirAll, before the mutex; its error ends the save.
MakeDir(p) ==
  /\ pc[p] = "save"
  /\ \/ Goto(p, "lock") /\ UNCHANGED failures
     \/ Goto(p, "reply") /\ failures < MaxFailures /\ failures' = failures + 1
  /\ UNCHANGED <<mapVars, up, saveMutex, diskVars, op, change, seen, data, cookies, crashes, historyVars>>

\* Fault variant: there is no mutex around the save.
LockNothing(p) ==
  /\ pc[p] = "lock"
  /\ saveMutex' = saveMutex \cup {p}
  /\ Goto(p, "marshal")
  /\ UNCHANGED <<mapVars, up, diskVars, op, change, seen, data, cookies, boundVars, historyVars>>

Lock(p) ==
  /\ pc[p] = "lock"
  /\ saveMutex = {}
  /\ saveMutex' = {p}
  /\ Goto(p, "marshal")
  /\ UNCHANGED <<mapVars, up, diskVars, op, change, seen, data, cookies, boundVars, historyVars>>

\* json.Marshal under the read lock of sessMutex.
Marshal(p) ==
  /\ pc[p] = "marshal"
  /\ data' = [data EXCEPT ![p] = sessions]
  /\ Goto(p, "write")
  /\ UNCHANGED <<mapVars, up, saveMutex, diskVars, op, change, seen, cookies, boundVars, historyVars>>

\* Fault variant: the sessions file itself is rewritten in place.
TruncateInPlace(p) ==
  /\ pc[p] = "write"
  /\ tmp' = Empty
  /\ file' = Empty
  /\ Goto(p, "writing")
  /\ UNCHANGED <<mapVars, up, saveMutex, op, change, seen, data, cookies, boundVars, historyVars>>

\* os.WriteFile truncates the temporary file and then fills it.
Truncate(p) ==
  /\ pc[p] = "write"
  /\ tmp' = Empty
  /\ Goto(p, "writing")
  /\ UNCHANGED <<mapVars, up, saveMutex, file, op, change, seen, data, cookies, boundVars, historyVars>>

Fill(p) ==
  /\ pc[p] = "writing"
  /\ tmp' = data[p]
  /\ Goto(p, "rename")
  /\ UNCHANGED <<mapVars, up, saveMutex, file, op, change, seen, data, cookies, boundVars, historyVars>>

Unlock(p) == saveMutex' = saveMutex \ {p}

\* Fault variant: the error path forgets to unlock.
WriteFailsLocked(p) ==
  /\ pc[p] \in {"write", "writing"}
  /\ failures < MaxFailures
  /\ failures' = failures + 1
  /\ Goto(p, "reply")
  /\ UNCHANGED <<mapVars, up, saveMutex, diskVars, op, change, seen, data, cookies, crashes, historyVars>>

\* os.WriteFile fails, before or after it truncated the file.
WriteFails(p) ==
  /\ pc[p] \in {"write", "writing"}
  /\ failures < MaxFailures
  /\ failures' = failures + 1
  /\ Unlock(p)
  /\ Goto(p, "reply")
  /\ UNCHANGED <<mapVars, up, diskVars, op, change, seen, data, cookies, crashes, historyVars>>

\* os.Rename replaces sessions.json in one step.
Rename(p) ==
  /\ pc[p] = "rename"
  /\ file' = tmp
  /\ tmp' = Empty
  /\ Unlock(p)
  /\ Goto(p, "reply")
  /\ IF op[p] = "login"
     THEN durable' = durable \cup change[p] /\ UNCHANGED destroyed
     ELSE /\ destroyed' = [i \in Id |-> IF i \in change[p] THEN "disk" ELSE destroyed[i]]
          /\ UNCHANGED durable
  /\ UNCHANGED <<mapVars, up, op, change, seen, data, cookies, boundVars, expiryOf, forgotten>>

\* os.Rename fails; the temporary file is removed.
RenameFails(p) ==
  /\ pc[p] = "rename"
  /\ failures < MaxFailures
  /\ failures' = failures + 1
  /\ tmp' = Empty
  /\ Unlock(p)
  /\ Goto(p, "reply")
  /\ UNCHANGED <<mapVars, up, file, op, change, seen, data, cookies, crashes, historyVars>>

\* The handler ends; a login hands out its cookie, whether it was saved or not.
Reply(p) ==
  /\ pc[p] = "reply"
  /\ cookies' = IF op[p] = "login" THEN cookies \cup change[p] ELSE cookies
  /\ Goto(p, "idle")
  /\ Serve(p, "clean", {})
  /\ seen' = [seen EXCEPT ![p] = NoSession]
  /\ data' = [data EXCEPT ![p] = Empty]
  /\ UNCHANGED <<mapVars, up, saveMutex, diskVars, boundVars, historyVars>>

-----------------------------------------------------------------------------
(* The environment *)

Tick ==
  /\ now < MaxTime
  /\ now' = now + 1
  /\ UNCHANGED <<sessions, up, saveMutex, diskVars, requestVars, cookies, boundVars, historyVars>>

\* The process dies at any moment; the two files stay as they are.
Crash ==
  /\ up
  /\ crashes < MaxCrashes
  /\ crashes' = crashes + 1
  /\ up' = FALSE
  /\ sessions' = Empty
  /\ saveMutex' = {}
  /\ pc' = [p \in Process |-> "idle"]
  /\ op' = [p \in Process |-> "clean"]
  /\ change' = [p \in Process |-> {}]
  /\ seen' = [p \in Process |-> NoSession]
  /\ data' = [p \in Process |-> Empty]
  /\ destroyed' = [i \in Id |-> IF destroyed[i] = "memory" THEN "lost" ELSE destroyed[i]]
  /\ UNCHANGED <<now, diskVars, cookies, failures, expiryOf, durable, forgotten>>

\* Start: loadSessions takes from the file what has not expired.
LoadSessions ==
  /\ ~up
  /\ up' = TRUE
  /\ sessions' = [i \in Id |-> IF file[i] # NoSession /\ file[i] > now THEN file[i] ELSE NoSession]
  /\ UNCHANGED <<now, saveMutex, diskVars, requestVars, cookies, boundVars, historyVars>>

\* Start: sessions.json is there but cannot be read or parsed.  The server begins
\* with an empty map and leaves the file to the next save.
LoadFails ==
  /\ ~up
  /\ failures < MaxFailures
  /\ failures' = failures + 1
  /\ up' = TRUE
  /\ sessions' = Empty
  /\ forgotten' = forgotten \cup {i \in Id : file[i] # NoSession}
  /\ UNCHANGED <<now, saveMutex, diskVars, requestVars, cookies, crashes, expiryOf, durable, destroyed>>

Finish(p) ==
  \/ Compare(p) \/ Expire(p)
  \/ MakeDir(p) \/ Marshal(p) \/ Truncate(p) \/ Fill(p) \/ WriteFails(p)
  \/ Rename(p) \/ RenameFails(p)
  \/ Reply(p)

Next ==
  \/ \E p \in Request, i \in Id : CreateSession(p, i) \/ DestroySession(p, i) \/ LookUp(p, i)
  \/ \E p \in Process : Lock(p) \/ Finish(p)
  \/ Cleanup
  \/ Tick
  \/ Crash
  \/ LoadSessions \/ LoadFails

Spec == Init /\ [][Next]_vars

\* Go runs every goroutine that can run, hands a contended mutex over in turn
\* (sync.Mutex, starvation mode), and the ticker goes on ticking.
RunningSpec ==
  /\ Spec
  /\ \A p \in Process : WF_vars(Finish(p)) /\ SF_vars(Lock(p))
  /\ WF_vars(Cleanup)

-----------------------------------------------------------------------------
(* Properties *)

\* A session that was logged out or that expired is refused for as long as
\* this server runs; once its removal was saved it is not in the file either,
\* so that no later save and no restart brings it back (session.go:83, 124).
DestroyedStaysDestroyed ==
  \A i \in Id :
    /\ destroyed[i] \in {"memory", "disk"} => sessions[i] = NoSession
    /\ destroyed[i] = "disk" => file[i] = NoSession

\* A login that was saved without an error lasts until it is removed or its
\* time is over, whatever is saved after it and through every crash, unless a
\* start could not read the file it was in: the next save then writes the file
\* without it (session.go:59, 208, 236).
CreatedSurvives ==
  \A i \in durable \ forgotten :
    destroyed[i] = "no" /\ now < expiryOf[i] =>
      /\ file[i] = expiryOf[i]
      /\ up => sessions[i] = expiryOf[i]

Live(map) == {i \in Id : map[i] # NoSession /\ map[i] > now}

\* When no save is under way and none has failed, a restart would find the
\* sessions the server has now: no concurrent save was lost (session.go:249).
FileCatchesUp ==
  up /\ failures = 0 /\ (\A p \in Process : pc[p] \notin {"save", "lock"} \cup Saving) =>
    Live(file) = Live(sessions)

\* Every request ends, also when its save fails (session.go:249).
EveryRequestReturns == \A p \in Process : pc[p] # "idle" ~> pc[p] = "idle"

\* An expired session leaves the map even if nobody presents it again
\* (server.go:167).
ExpiredIsForgotten == \A i \in Id : Expired(i) ~> sessions[i] = NoSession
=============================================================================
