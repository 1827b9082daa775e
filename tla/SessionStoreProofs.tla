------------------------- MODULE SessionStoreProofs -------------------------
(***************************************************************************)
(* Proofs about SessionStore: for every number of sessions, requests,      *)
(* failing file operations and crashes, what was saved stays saved.        *)
(***************************************************************************)
EXTENDS SessionStore, TLAPS

SnapshotTaken == {"write", "writing", "rename"}
Changed       == {"save", "lock"} \cup Saving

\* saveMutex is held exactly by the one process that is writing the files.
Holder ==
  /\ \A p \in Process : p \in saveMutex <=> pc[p] \in Saving
  /\ \A p, q \in saveMutex : p = q

\* Nothing is known of an identifier before its login, and its expiry never changes.
Issued ==
  /\ \A i \in Id : sessions[i] \in {NoSession, expiryOf[i]}
  /\ \A i \in Id : file[i] \in {NoSession, expiryOf[i]}
  /\ \A p \in Process, i \in Id : data[p][i] \in {NoSession, expiryOf[i]}
  /\ \A i \in Id : destroyed[i] # "no" => expiryOf[i] # NoSession
  /\ \A p \in Process : \A i \in change[p] : expiryOf[i] # NoSession
  /\ \A i \in cookies \cup durable : expiryOf[i] # NoSession

\* A server that is down serves nothing and remembers nothing.
Down ==
  ~up => /\ sessions = Empty
         /\ \A p \in Process : pc[p] = "idle"
         /\ \A i \in Id : destroyed[i] # "memory"

\* The sessions that a start did not read are given up: no map has to have them.
InTime(i) == i \notin forgotten /\ destroyed[i] = "no" /\ now < expiryOf[i]

\* A map that may become the sessions file.
Admissible(map) ==
  /\ \A i \in Id : destroyed[i] = "disk" => map[i] = NoSession
  /\ \A i \in durable : InTime(i) => map[i] = expiryOf[i]

\* A map that has the change process p made.
Shows(map, p) ==
  /\ op[p] # "login" => \A i \in change[p] : map[i] = NoSession
  /\ op[p] = "login" => \A i \in change[p] : InTime(i) => map[i] = expiryOf[i]

\* A snapshot is admissible, and it has the change of the process that took it.
Snapshot ==
  \A p \in Process : pc[p] \in SnapshotTaken => Admissible(data[p]) /\ Shows(data[p], p)

\* What is renamed is the snapshot.
TempFile == \A p \in Process : pc[p] = "rename" => tmp = data[p]

\* A process that is going to save has made its change in memory.
Pending ==
  \A p \in Process : pc[p] \in Changed =>
    /\ Shows(sessions, p)
    /\ op[p] # "login" => \A i \in change[p] : destroyed[i] \in {"memory", "disk"}

Checking == \A p \in Process : pc[p] \in {"check", "expire"} => op[p] = "check"

\* While no change waits to be copied, the newest copy of the map shows what the
\* server has: the snapshot that is being written or, without one, the file.
Copied ==
  up /\ failures = 0 /\ (\A p \in Process : pc[p] \notin {"save", "lock", "marshal"}) =>
    /\ \A p \in Process : pc[p] \in SnapshotTaken => Live(data[p]) = Live(sessions)
    /\ (\A p \in Process : pc[p] \notin SnapshotTaken) => Live(file) = Live(sessions)

IInv ==
  /\ TypeOK /\ Holder /\ Issued /\ Down /\ Snapshot /\ TempFile /\ Pending /\ Checking
  /\ Copied
  /\ DestroyedStaysDestroyed
  /\ CreatedSurvives
-----------------------------------------------------------------------------
(* The invariant is inductive: one lemma per conjunct *)

\* A step keeps every variable in its type.
LEMMA TypeOKStep == ASSUME IInv, Next PROVE TypeOK'
<1> USE StoreAssumption DEF StoreAssumption, IInv
<1>1. ASSUME NEW p \in Process, NEW i \in Id, CreateSession(p, i)
      PROVE  TypeOK'
  BY <1>1 DEF CreateSession, Serve, Goto, TypeOK, Map, Expiry, Place, Saving, diskVars,
            boundVars
<1>2. ASSUME NEW p \in Process, NEW i \in Id, DestroySession(p, i)
      PROVE  TypeOK'
  BY <1>2 DEF DestroySession, Serve, Goto, Remove, TypeOK, Map, Place, Saving, Removal,
            diskVars, boundVars
<1>3. ASSUME NEW p \in Process, NEW i \in Id, LookUp(p, i)
      PROVE  TypeOK'
  BY <1>3 DEF LookUp, Serve, Goto, TypeOK, Map, Place, Saving, mapVars, diskVars,
            boundVars, historyVars
<1>4. ASSUME NEW p \in Process, Expire(p)
      PROVE  TypeOK'
  BY <1>4 DEF Expire, Goto, Remove, TypeOK, Map, Place, Saving, Removal, diskVars,
            boundVars
<1>5. ASSUME Cleanup
      PROVE  TypeOK'
  BY <1>5 DEF Cleanup, Remove, Serve, Goto, TypeOK, Map, Place, Saving, Removal,
            Process, diskVars, boundVars
<1>6. ASSUME NEW p \in Process,
             \/ Compare(p) \/ Lock(p)
      PROVE  TypeOK'
  BY <1>6 DEF Compare, Lock, Goto, TypeOK, Place, Saving, mapVars, diskVars, boundVars,
            historyVars
<1>7. ASSUME NEW p \in Process, Reply(p)
      PROVE  TypeOK'
  BY <1>7 DEF Reply, Serve, Goto, TypeOK, Map, Place, Saving, Empty, mapVars, diskVars,
            boundVars, historyVars
<1>8. ASSUME NEW p \in Process,
             \/ MakeDir(p) \/ WriteFails(p) \/ RenameFails(p)
      PROVE  TypeOK'
  <2>1. (pc \in [Process -> Place] /\ failures \in 0 .. MaxFailures)'
    BY <1>8 DEF MakeDir, WriteFails, RenameFails, Goto, TypeOK, Place, Saving
  <2>2. (saveMutex \in SUBSET Process /\ file \in Map /\ tmp \in Map)'
    BY <1>8 DEF MakeDir, WriteFails, RenameFails, Unlock, TypeOK, Map, Empty, diskVars
  <2> QED
    BY <1>8, <2>1, <2>2 DEF MakeDir, WriteFails, RenameFails, TypeOK, mapVars, historyVars
<1>9. ASSUME NEW p \in Process, Marshal(p)
      PROVE  TypeOK'
  BY <1>9 DEF Marshal, Goto, TypeOK, Place, Saving, mapVars, diskVars, boundVars,
            historyVars
<1>10. ASSUME NEW p \in Process,
             \/ Truncate(p) \/ Fill(p)
      PROVE  TypeOK'
  BY <1>10 DEF Truncate, Fill, Goto, TypeOK, Map, Place, Saving, Empty, mapVars,
            boundVars, historyVars
<1>11. ASSUME NEW p \in Process, Rename(p)
      PROVE  TypeOK'
  BY <1>11 DEF Rename, Goto, Unlock, TypeOK, Map, Place, Saving, Empty, Removal,
            mapVars, boundVars
<1>12. ASSUME Tick
      PROVE  TypeOK'
  BY <1>12 DEF Tick, TypeOK, diskVars, requestVars, boundVars, historyVars
<1>13. ASSUME Crash
      PROVE  TypeOK'
  <2>1. (now \in 0 .. MaxTime /\ up \in BOOLEAN /\ saveMutex \in SUBSET Process)'
    BY <1>13 DEF Crash, TypeOK
  <2>2. (sessions \in Map /\ file \in Map /\ tmp \in Map)'
    BY <1>13 DEF Crash, TypeOK, Map, Empty, diskVars
  <2>3. Empty \in Map
    BY DEF Empty, Map
  <2>4. (data \in [Process -> Map])'
    BY <1>13, <2>3 DEF Crash
  <2>5. (/\ pc \in [Process -> Place]
         /\ op \in [Process -> {"login", "logout", "check", "clean"}]
         /\ change \in [Process -> SUBSET Id]
         /\ seen \in [Process -> Expiry \cup {NoSession}])'
    BY <1>13 DEF Crash, Place
  <2>6. (/\ cookies \in SUBSET Id
         /\ failures \in 0 .. MaxFailures /\ crashes \in 0 .. MaxCrashes)'
    BY <1>13 DEF Crash, TypeOK
  <2>7. (expiryOf \in Map /\ durable \in SUBSET Id /\ forgotten \in SUBSET Id
         /\ destroyed \in [Id -> Removal])'
    BY <1>13 DEF Crash, TypeOK, Removal
  <2> QED
    BY <2>1, <2>2, <2>4, <2>5, <2>6, <2>7 DEF TypeOK
<1>14. ASSUME LoadSessions
      PROVE  TypeOK'
  BY <1>14 DEF LoadSessions, TypeOK, Map, diskVars, requestVars, boundVars, historyVars
<1>15. ASSUME LoadFails
      PROVE  TypeOK'
  BY <1>15 DEF LoadFails, TypeOK, Map, Empty, diskVars, requestVars
<1> QED
  BY <1>1, <1>2, <1>3, <1>4, <1>5, <1>6, <1>7, <1>8,
     <1>9, <1>10, <1>11, <1>12, <1>13, <1>14, <1>15 DEF Next, Finish, Process

\* saveMutex changes hands only at Lock and at the end of a save.
LEMMA HolderStep == ASSUME IInv, Next PROVE Holder'
<1> USE StoreAssumption DEF StoreAssumption, IInv
<1>1. ASSUME NEW p \in Process, NEW i \in Id,
             \/ CreateSession(p, i) \/ DestroySession(p, i) \/ LookUp(p, i)
      PROVE  Holder'
  BY <1>1 DEF CreateSession, DestroySession, LookUp, Serve, Goto, Remove, Holder,
            TypeOK, Saving, Process, diskVars, boundVars, mapVars, historyVars
<1>2. ASSUME NEW p \in Process,
             \/ Compare(p) \/ Expire(p) \/ MakeDir(p) \/ Reply(p)
      PROVE  Holder'
  BY <1>2 DEF Compare, Expire, MakeDir, Reply, Goto, Remove, Serve, Holder, TypeOK,
            Saving, Process, mapVars, diskVars, boundVars, historyVars
<1>3. ASSUME Cleanup
      PROVE  Holder'
  BY <1>3 DEF Cleanup, Remove, Serve, Goto, Holder, TypeOK, Saving, Process, diskVars,
            boundVars
<1>4. ASSUME NEW p \in Process, Lock(p)
      PROVE  Holder'
  BY <1>4 DEF Lock, Goto, Holder, TypeOK, Saving, mapVars, diskVars, boundVars,
            historyVars
<1>5. ASSUME NEW p \in Process,
             \/ Marshal(p) \/ Truncate(p) \/ Fill(p)
      PROVE  Holder'
  BY <1>5 DEF Marshal, Truncate, Fill, Goto, Holder, TypeOK, Saving, mapVars, diskVars,
            boundVars, historyVars
<1>6. ASSUME NEW p \in Process,
             \/ WriteFails(p) \/ Rename(p) \/ RenameFails(p)
      PROVE  Holder'
  BY <1>6 DEF WriteFails, Rename, RenameFails, Goto, Unlock, Holder, TypeOK, Saving,
            mapVars, diskVars, historyVars, boundVars
<1>7. ASSUME \/ Tick \/ Crash \/ LoadSessions \/ LoadFails
      PROVE  Holder'
  BY <1>7 DEF Tick, Crash, LoadSessions, LoadFails, Holder, Saving, diskVars, requestVars,
            boundVars, historyVars
<1> QED
  BY <1>1, <1>2, <1>3, <1>4, <1>5, <1>6, <1>7 DEF Next, Finish, Process

\* Every map and every request speaks of issued sessions and of their one expiry.
LEMMA IssuedStep == ASSUME IInv, Next PROVE Issued'
<1> USE StoreAssumption DEF StoreAssumption, IInv
<1>1. ASSUME NEW p \in Process, NEW i \in Id,
             \/ CreateSession(p, i) \/ DestroySession(p, i) \/ LookUp(p, i)
      PROVE  Issued'
  BY <1>1 DEF CreateSession, DestroySession, LookUp, Serve, Goto, Remove, Issued,
            TypeOK, Process, Map, diskVars, boundVars, mapVars, historyVars
<1>2. ASSUME NEW p \in Process, Expire(p)
      PROVE  Issued'
  BY <1>2 DEF Expire, Goto, Remove, Issued, TypeOK, Process, Map, diskVars, boundVars
<1>3. ASSUME Cleanup
      PROVE  Issued'
  BY <1>3 DEF Cleanup, Remove, Serve, Goto, Issued, TypeOK, Process, Map, Expired,
            diskVars, boundVars
<1>4. ASSUME NEW p \in Process,
             \/ Compare(p) \/ MakeDir(p) \/ Lock(p) \/ Truncate(p) \/ Fill(p)
             \/ WriteFails(p) \/ RenameFails(p)
      PROVE  Issued'
  BY <1>4 DEF Compare, MakeDir, Lock, Truncate, Fill, WriteFails, RenameFails, Goto,
            Unlock, Issued, mapVars, diskVars, boundVars, historyVars
<1>5. ASSUME Tick
      PROVE  Issued'
  BY <1>5 DEF Tick, Issued, diskVars, requestVars, boundVars, historyVars
<1>6. ASSUME NEW p \in Process, Marshal(p)
      PROVE  Issued'
  BY <1>6 DEF Marshal, Goto, Issued, TypeOK, mapVars, diskVars, boundVars, historyVars
<1>7. ASSUME NEW p \in Process, Rename(p)
      PROVE  Issued'
  BY <1>7 DEF Rename, Goto, Unlock, Issued, TypeOK, TempFile, mapVars, boundVars
<1>8. ASSUME NEW p \in Process, Reply(p)
      PROVE  Issued'
  BY <1>8 DEF Reply, Serve, Goto, Issued, TypeOK, Empty, mapVars, diskVars, boundVars,
            historyVars
<1>9. ASSUME \/ Crash \/ LoadSessions \/ LoadFails
      PROVE  Issued'
  BY <1>9 DEF Crash, LoadSessions, LoadFails, Issued, Empty, TypeOK, Map, diskVars, requestVars,
            boundVars, historyVars
<1> QED
  BY <1>1, <1>2, <1>3, <1>4, <1>5, <1>6, <1>7, <1>8, <1>9 DEF Next, Finish, Process

\* Nothing happens while the server is down.
LEMMA DownStep == ASSUME IInv, Next PROVE Down'
<1> USE StoreAssumption DEF StoreAssumption, IInv
<1>1. ASSUME NEW p \in Process, NEW i \in Id,
             \/ CreateSession(p, i) \/ DestroySession(p, i) \/ LookUp(p, i)
      PROVE  Down'
  BY <1>1 DEF CreateSession, DestroySession, LookUp, Serve, Goto, Remove, Down,
            diskVars, boundVars, mapVars, historyVars
<1>2. ASSUME \/ Cleanup \/ LoadSessions \/ LoadFails \/ Tick
      PROVE  Down'
  BY <1>2 DEF Cleanup, LoadSessions, LoadFails, Tick, Remove, Serve, Goto, Down, diskVars,
            boundVars, requestVars, historyVars
<1>3. ASSUME NEW p \in Process,
             \/ Compare(p) \/ Expire(p) \/ MakeDir(p) \/ Lock(p) \/ Marshal(p)
             \/ Truncate(p) \/ Fill(p) \/ WriteFails(p) \/ Rename(p) \/ RenameFails(p)
             \/ Reply(p)
      PROVE  Down'
  BY <1>3 DEF Compare, Expire, MakeDir, Lock, Marshal, Truncate, Fill, WriteFails,
            Rename, RenameFails, Reply, Goto, Remove, Unlock, Serve, Down, mapVars,
            diskVars, boundVars, historyVars
<1>4. ASSUME Crash
      PROVE  Down'
  BY <1>4 DEF Crash, Down, TypeOK, Removal, diskVars
<1> QED
  BY <1>1, <1>2, <1>3, <1>4 DEF Next, Finish, Process

\* A snapshot taken under saveMutex stays fit to become the file until the mutex is released.
LEMMA SnapshotStep == ASSUME IInv, Next PROVE Snapshot'
<1> USE StoreAssumption DEF StoreAssumption, IInv
<1>1. ASSUME NEW p \in Process, NEW i \in Id, CreateSession(p, i)
      PROVE  Snapshot'
  BY <1>1 DEF CreateSession, Serve, Goto, Snapshot, SnapshotTaken, Admissible, Shows,
            InTime, TypeOK, Process, Issued, diskVars, boundVars
<1>2. ASSUME NEW p \in Process, NEW i \in Id,
             \/ DestroySession(p, i) \/ LookUp(p, i)
      PROVE  Snapshot'
  BY <1>2 DEF DestroySession, LookUp, Serve, Goto, Remove, Snapshot, SnapshotTaken,
            Admissible, Shows, InTime, TypeOK, Process, diskVars, boundVars, mapVars,
            historyVars
<1>3. ASSUME NEW p \in Process, Expire(p)
      PROVE  Snapshot'
  BY <1>3 DEF Expire, Goto, Remove, Snapshot, SnapshotTaken, Admissible, Shows, InTime,
            TypeOK, Process, diskVars, boundVars
<1>4. ASSUME Cleanup
      PROVE  Snapshot'
  BY <1>4 DEF Cleanup, Remove, Serve, Goto, Snapshot, SnapshotTaken, Admissible, Shows,
            InTime, TypeOK, Process, diskVars, boundVars
<1>5. ASSUME NEW p \in Process,
             \/ Compare(p) \/ MakeDir(p) \/ Lock(p) \/ Truncate(p) \/ Fill(p)
      PROVE  Snapshot'
  BY <1>5 DEF Compare, MakeDir, Lock, Truncate, Fill, Goto, Snapshot, SnapshotTaken,
            Admissible, Shows, InTime, TypeOK, mapVars, diskVars, boundVars, historyVars
<1>6. ASSUME NEW p \in Process, Marshal(p)
      PROVE  Snapshot'
  BY <1>6 DEF Marshal, Goto, Snapshot, SnapshotTaken, Admissible, Shows, InTime, TypeOK,
            Pending, Changed, Saving, DestroyedStaysDestroyed, CreatedSurvives, Down,
            mapVars, diskVars, boundVars, historyVars
<1>7. ASSUME NEW p \in Process,
             \/ WriteFails(p) \/ Rename(p) \/ RenameFails(p)
      PROVE  Snapshot'
  BY <1>7 DEF WriteFails, Rename, RenameFails, Goto, Unlock, Snapshot, SnapshotTaken,
            Admissible, Shows, InTime, TypeOK, Holder, Saving, mapVars, diskVars,
            historyVars, boundVars
<1>8. ASSUME NEW p \in Process, Reply(p)
      PROVE  Snapshot'
  BY <1>8 DEF Reply, Serve, Goto, Snapshot, SnapshotTaken, Admissible, Shows, InTime,
            TypeOK, mapVars, diskVars, boundVars, historyVars
<1>9. ASSUME Tick
      PROVE  Snapshot'
  BY <1>9 DEF Tick, Snapshot, Admissible, Shows, InTime, TypeOK, Issued, Map, Expiry,
            diskVars, requestVars, boundVars, historyVars
<1>10. ASSUME \/ Crash \/ LoadSessions \/ LoadFails
      PROVE  Snapshot'
  BY <1>10 DEF Crash, LoadSessions, LoadFails, Snapshot, SnapshotTaken, Down, Admissible, Shows,
            InTime, diskVars, requestVars, boundVars, historyVars
<1> QED
  BY <1>1, <1>2, <1>3, <1>4, <1>5, <1>6, <1>7, <1>8, <1>9, <1>10 DEF Next, Finish, Process

\* Only the holder of saveMutex touches the temporary file.
LEMMA TempFileStep == ASSUME IInv, Next PROVE TempFile'
<1> USE StoreAssumption DEF StoreAssumption, IInv
<1>1. ASSUME NEW p \in Process, NEW i \in Id,
             \/ CreateSession(p, i) \/ DestroySession(p, i) \/ LookUp(p, i)
      PROVE  TempFile'
  BY <1>1 DEF CreateSession, DestroySession, LookUp, Serve, Goto, Remove, TempFile,
            TypeOK, Process, diskVars, boundVars, mapVars, historyVars
<1>2. ASSUME NEW p \in Process,
             \/ Compare(p) \/ Expire(p) \/ MakeDir(p) \/ Lock(p) \/ Reply(p)
      PROVE  TempFile'
  BY <1>2 DEF Compare, Expire, MakeDir, Lock, Reply, Goto, Remove, Serve, TempFile,
            TypeOK, Process, mapVars, diskVars, boundVars, historyVars
<1>3. ASSUME \/ Cleanup \/ Tick \/ LoadSessions \/ LoadFails
      PROVE  TempFile'
  BY <1>3 DEF Cleanup, Tick, LoadSessions, LoadFails, Remove, Serve, Goto, TempFile, TypeOK,
            Process, diskVars, boundVars, requestVars, historyVars
<1>4. ASSUME NEW p \in Process,
             \/ Marshal(p) \/ Truncate(p) \/ Fill(p) \/ WriteFails(p) \/ Rename(p)
             \/ RenameFails(p)
      PROVE  TempFile'
  BY <1>4 DEF Marshal, Truncate, Fill, WriteFails, Rename, RenameFails, Goto, Unlock,
            TempFile, TypeOK, Holder, Saving, mapVars, diskVars, boundVars, historyVars
<1>5. ASSUME Crash
      PROVE  TempFile'
  BY <1>5 DEF Crash, TempFile, diskVars
<1> QED
  BY <1>1, <1>2, <1>3, <1>4, <1>5 DEF Next, Finish, Process

\* The change of a process that is going to save stays in memory.
LEMMA PendingStep == ASSUME IInv, Next PROVE Pending'
<1> USE StoreAssumption DEF StoreAssumption, IInv
<1>1. ASSUME NEW p \in Process, NEW i \in Id, CreateSession(p, i)
      PROVE  Pending'
  BY <1>1 DEF CreateSession, Serve, Goto, Pending, Changed, Shows, InTime, TypeOK,
            Process, Issued, Saving, Map, diskVars, boundVars
<1>2. ASSUME NEW p \in Process, NEW i \in Id, LookUp(p, i)
      PROVE  Pending'
  BY <1>2 DEF LookUp, Serve, Goto, Pending, Changed, Shows, InTime, TypeOK, Saving,
            mapVars, diskVars, boundVars, historyVars
<1>3. ASSUME NEW p \in Process, NEW i \in Id, DestroySession(p, i)
      PROVE  Pending'
  BY <1>3 DEF DestroySession, Serve, Goto, Remove, Pending, Changed, Shows, InTime,
            TypeOK, Process, Saving, Map, Checking, diskVars, boundVars
<1>4. ASSUME NEW p \in Process, Expire(p)
      PROVE  Pending'
  BY <1>4 DEF Expire, Goto, Remove, Pending, Changed, Shows, InTime, TypeOK, Process,
            Saving, Map, Checking, diskVars, boundVars
<1>5. ASSUME Cleanup
      PROVE  Pending'
  BY <1>5 DEF Cleanup, Remove, Serve, Goto, Pending, Changed, Shows, InTime, TypeOK,
            Process, Saving, Map, Checking, diskVars, boundVars
<1>6. ASSUME NEW p \in Process,
             \/ Compare(p) \/ MakeDir(p) \/ Lock(p) \/ Marshal(p) \/ Truncate(p)
             \/ Fill(p) \/ WriteFails(p) \/ RenameFails(p) \/ Reply(p)
      PROVE  Pending'
  BY <1>6 DEF Compare, MakeDir, Lock, Marshal, Truncate, Fill, WriteFails, RenameFails,
            Reply, Goto, Unlock, Serve, Pending, Changed, Shows, InTime, TypeOK, Saving,
            mapVars, diskVars, boundVars, historyVars
<1>7. ASSUME NEW p \in Process, Rename(p)
      PROVE  Pending'
  BY <1>7 DEF Rename, Goto, Unlock, Pending, Changed, Shows, InTime, TypeOK, Saving,
            mapVars, boundVars
<1>8. ASSUME Tick
      PROVE  Pending'
  BY <1>8 DEF Tick, Pending, Changed, Shows, InTime, TypeOK, Saving, Issued, Map,
            Expiry, diskVars, requestVars, boundVars, historyVars
<1>9. ASSUME \/ Crash \/ LoadSessions \/ LoadFails
      PROVE  Pending'
  BY <1>9 DEF Crash, LoadSessions, LoadFails, Pending, Changed, Saving, Down, Shows, InTime,
            diskVars, requestVars, boundVars, historyVars
<1> QED
  BY <1>1, <1>2, <1>3, <1>4, <1>5, <1>6, <1>7, <1>8, <1>9 DEF Next, Finish, Process

\* Only isSessionValid is between its look-up and the removal.
LEMMA CheckingStep == ASSUME IInv, Next PROVE Checking'
<1> USE StoreAssumption DEF StoreAssumption, IInv
<1>1. ASSUME NEW p \in Process, NEW i \in Id,
             \/ CreateSession(p, i) \/ DestroySession(p, i) \/ LookUp(p, i)
      PROVE  Checking'
  BY <1>1 DEF CreateSession, DestroySession, LookUp, Serve, Goto, Remove, Checking,
            TypeOK, Process, diskVars, boundVars, mapVars, historyVars
<1>2. ASSUME NEW p \in Process, Expire(p)
      PROVE  Checking'
  BY <1>2 DEF Expire, Goto, Remove, Checking, TypeOK, Process, diskVars, boundVars
<1>3. ASSUME Cleanup
      PROVE  Checking'
  BY <1>3 DEF Cleanup, Remove, Serve, Goto, Checking, TypeOK, Process, diskVars,
            boundVars
<1>4. ASSUME NEW p \in Process,
             \/ Compare(p) \/ MakeDir(p) \/ Lock(p) \/ Marshal(p) \/ Truncate(p)
             \/ Fill(p) \/ WriteFails(p) \/ Rename(p) \/ RenameFails(p) \/ Reply(p)
      PROVE  Checking'
  BY <1>4 DEF Compare, MakeDir, Lock, Marshal, Truncate, Fill, WriteFails, Rename,
            RenameFails, Reply, Goto, Unlock, Serve, Checking, TypeOK, mapVars,
            diskVars, boundVars, historyVars
<1>5. ASSUME \/ Tick \/ Crash \/ LoadSessions \/ LoadFails
      PROVE  Checking'
  BY <1>5 DEF Tick, Crash, LoadSessions, LoadFails, Checking, TypeOK, diskVars, requestVars,
            boundVars, historyVars
<1> QED
  BY <1>1, <1>2, <1>3, <1>4, <1>5 DEF Next, Finish, Process

\* No step brings a removed session back.
LEMMA DestroyedStaysDestroyedStep == ASSUME IInv, Next PROVE DestroyedStaysDestroyed'
<1> USE StoreAssumption DEF StoreAssumption, IInv
<1>1. ASSUME NEW p \in Process, NEW i \in Id, CreateSession(p, i)
      PROVE  DestroyedStaysDestroyed'
  BY <1>1 DEF CreateSession, Serve, Goto, DestroyedStaysDestroyed, TypeOK, Issued, Map,
            diskVars, boundVars
<1>2. ASSUME NEW p \in Process, NEW i \in Id, DestroySession(p, i)
      PROVE  DestroyedStaysDestroyed'
  BY <1>2 DEF DestroySession, Serve, Goto, Remove, DestroyedStaysDestroyed, TypeOK, Map,
            diskVars, boundVars
<1>3. ASSUME NEW p \in Process, Expire(p)
      PROVE  DestroyedStaysDestroyed'
  BY <1>3 DEF Expire, Goto, Remove, DestroyedStaysDestroyed, TypeOK, Map, diskVars,
            boundVars
<1>4. ASSUME Cleanup
      PROVE  DestroyedStaysDestroyed'
  BY <1>4 DEF Cleanup, Remove, Serve, Goto, DestroyedStaysDestroyed, TypeOK, Map,
            diskVars, boundVars
<1>5. ASSUME NEW p \in Process, NEW i \in Id, LookUp(p, i)
      PROVE  DestroyedStaysDestroyed'
  BY <1>5 DEF LookUp, Serve, Goto, DestroyedStaysDestroyed, mapVars, diskVars,
            boundVars, historyVars
<1>6. ASSUME NEW p \in Process,
             \/ Compare(p) \/ MakeDir(p) \/ Lock(p) \/ Marshal(p) \/ Truncate(p)
             \/ Fill(p) \/ WriteFails(p) \/ RenameFails(p) \/ Reply(p)
      PROVE  DestroyedStaysDestroyed'
  BY <1>6 DEF Compare, MakeDir, Lock, Marshal, Truncate, Fill, WriteFails, RenameFails,
            Reply, Goto, Unlock, Serve, DestroyedStaysDestroyed, mapVars, diskVars,
            boundVars, historyVars
<1>7. ASSUME Tick
      PROVE  DestroyedStaysDestroyed'
  BY <1>7 DEF Tick, DestroyedStaysDestroyed, diskVars, requestVars, boundVars,
            historyVars
<1>8. ASSUME NEW p \in Process, Rename(p)
      PROVE  DestroyedStaysDestroyed'
  BY <1>8 DEF Rename, Goto, Unlock, DestroyedStaysDestroyed, TypeOK, Snapshot,
            SnapshotTaken, TempFile, Admissible, Shows, Pending, Changed, Saving,
            mapVars, boundVars
<1>9. ASSUME \/ Crash \/ LoadSessions \/ LoadFails
      PROVE  DestroyedStaysDestroyed'
  BY <1>9 DEF Crash, LoadSessions, LoadFails, DestroyedStaysDestroyed, TypeOK, Down, Empty,
            diskVars, requestVars, boundVars, historyVars
<1> QED
  BY <1>1, <1>2, <1>3, <1>4, <1>5, <1>6, <1>7, <1>8, <1>9 DEF Next, Finish, Process

\* No step loses a session whose creation was saved.
LEMMA CreatedSurvivesStep == ASSUME IInv, Next PROVE CreatedSurvives'
<1> USE StoreAssumption DEF StoreAssumption, IInv
<1>1. ASSUME NEW p \in Process, NEW i \in Id, CreateSession(p, i)
      PROVE  CreatedSurvives'
  BY <1>1 DEF CreateSession, Serve, Goto, CreatedSurvives, TypeOK, Issued, Map,
            diskVars, boundVars
<1>2. ASSUME NEW p \in Process, NEW i \in Id, DestroySession(p, i)
      PROVE  CreatedSurvives'
  BY <1>2 DEF DestroySession, Serve, Goto, Remove, CreatedSurvives, TypeOK, Map,
            diskVars, boundVars
<1>3. ASSUME NEW p \in Process, Expire(p)
      PROVE  CreatedSurvives'
  BY <1>3 DEF Expire, Goto, Remove, CreatedSurvives, TypeOK, Map, diskVars, boundVars
<1>4. ASSUME Cleanup
      PROVE  CreatedSurvives'
  BY <1>4 DEF Cleanup, Remove, Serve, Goto, CreatedSurvives, TypeOK, Map, diskVars,
            boundVars
<1>5. ASSUME NEW p \in Process, NEW i \in Id, LookUp(p, i)
      PROVE  CreatedSurvives'
  BY <1>5 DEF LookUp, Serve, Goto, CreatedSurvives, mapVars, diskVars, boundVars,
            historyVars
<1>6. ASSUME NEW p \in Process,
             \/ Compare(p) \/ MakeDir(p) \/ Lock(p) \/ Marshal(p) \/ Truncate(p)
             \/ Fill(p) \/ WriteFails(p) \/ RenameFails(p) \/ Reply(p)
      PROVE  CreatedSurvives'
  BY <1>6 DEF Compare, MakeDir, Lock, Marshal, Truncate, Fill, WriteFails, RenameFails,
            Reply, Goto, Unlock, Serve, CreatedSurvives, mapVars, diskVars, boundVars,
            historyVars
<1>7. ASSUME NEW p \in Process, Rename(p)
      PROVE  CreatedSurvives'
  BY <1>7 DEF Rename, Goto, Unlock, CreatedSurvives, TypeOK, Snapshot, SnapshotTaken,
            TempFile, Admissible, Shows, Pending, Changed, Saving, InTime, mapVars,
            boundVars
<1>8. ASSUME Tick
      PROVE  CreatedSurvives'
  BY <1>8 DEF Tick, CreatedSurvives, TypeOK, Issued, Map, Expiry, diskVars, requestVars,
            boundVars, historyVars
<1>9. ASSUME \/ Crash \/ LoadSessions \/ LoadFails
      PROVE  CreatedSurvives'
  BY <1>9 DEF Crash, LoadSessions, LoadFails, CreatedSurvives, TypeOK, Issued, Map, Expiry,
            diskVars, requestVars, boundVars, historyVars
<1> QED
  BY <1>1, <1>2, <1>3, <1>4, <1>5, <1>6, <1>7, <1>8, <1>9 DEF Next, Finish, Process

-----------------------------------------------------------------------------
(* Theorems *)

\* A step keeps the newest copy of the map up to date.
LEMMA CopiedStep == ASSUME IInv, Next PROVE Copied'
<1> USE StoreAssumption DEF StoreAssumption, IInv
<1>1. ASSUME NEW p \in Process, NEW i \in Id, CreateSession(p, i) \/ DestroySession(p, i)
      PROVE  Copied'
  BY <1>1 DEF CreateSession, DestroySession, Goto, Copied, TypeOK
<1>2. ASSUME NEW p \in Process, Expire(p) \/ Lock(p)
      PROVE  Copied'
  BY <1>2 DEF Expire, Lock, Goto, Copied, TypeOK
<1>3. ASSUME NEW p \in Process,
             \/ MakeDir(p) \/ WriteFails(p) \/ RenameFails(p)
      PROVE  Copied'
  <2>1. pc'[p] = "lock" \/ failures' = failures + 1
    BY <1>3 DEF MakeDir, WriteFails, RenameFails, Goto, TypeOK
  <2>2. failures' = failures + 1 => failures' # 0
    BY DEF TypeOK
  <2> QED
    BY <2>1, <2>2 DEF Copied
<1>4. ASSUME NEW p \in Process,
             \/ Compare(p) \/ Reply(p) \/ Truncate(p) \/ Fill(p)
             \/ \E i \in Id : LookUp(p, i)
      PROVE  Copied'
  <2>1. /\ sessions' = sessions /\ file' = file /\ now' = now /\ up' = up
        /\ failures' = failures
    BY <1>4 DEF Compare, Reply, Truncate, Fill, LookUp, mapVars, diskVars, boundVars
  <2>2. \A q \in Process :
          /\ pc'[q] \in SnapshotTaken <=> pc[q] \in SnapshotTaken
          /\ pc'[q] \in {"save", "lock", "marshal"} => pc'[q] = pc[q] \/ pc'[q] \in {"expire"}
          /\ pc[q] \in {"save", "lock", "marshal"} => pc'[q] = pc[q]
          /\ pc[q] \in SnapshotTaken => data'[q] = data[q]
    BY <1>4 DEF Compare, Reply, Truncate, Fill, LookUp, Goto, SnapshotTaken, TypeOK
  <2> QED
    BY <2>1, <2>2 DEF Copied, Live
<1>5. ASSUME Cleanup
      PROVE  Copied'
  <2>1. CASE pc'[Cleaner] = "save"
    BY <2>1 DEF Copied, Process
  <2>2. CASE pc'[Cleaner] # "save"
    <3>1. {i \in Id : Expired(i)} = {} /\ pc' = pc
      BY <1>5, <2>2 DEF Cleanup, Goto, TypeOK, Process
    <3>2. sessions' = sessions
      BY <1>5, <3>1 DEF Cleanup, Remove, TypeOK, Map
    <3>3. UNCHANGED <<file, data, now, up, failures>>
      BY <1>5 DEF Cleanup, diskVars, boundVars
    <3> QED
      BY <3>1, <3>2, <3>3 DEF Copied, Live
  <2> QED
    BY <2>1, <2>2
<1>6. ASSUME NEW p \in Process, Marshal(p)
      PROVE  Copied'
  <2>1. \A q \in Process : pc'[q] \in SnapshotTaken => q = p
    BY <1>6 DEF Marshal, Goto, Holder, Saving, SnapshotTaken, TypeOK
  <2>2. pc'[p] \in SnapshotTaken /\ data'[p] = sessions'
    BY <1>6 DEF Marshal, Goto, SnapshotTaken, TypeOK, mapVars
  <2> QED
    BY <2>1, <2>2 DEF Copied, Live
<1>7. ASSUME NEW p \in Process, Rename(p)
      PROVE  Copied'
  <2>1. \A q \in Process : pc'[q] \notin SnapshotTaken
    BY <1>7 DEF Rename, Goto, Holder, Saving, SnapshotTaken, TypeOK
  <2>2. file' = data[p] /\ pc[p] \in SnapshotTaken
    BY <1>7 DEF Rename, TempFile, SnapshotTaken
  <2>3. UNCHANGED <<sessions, now, up, failures>>
    BY <1>7 DEF Rename, mapVars, boundVars
  <2>4. \A q \in Process :
          pc[q] \in {"save", "lock", "marshal"} => pc'[q] = pc[q]
    BY <1>7 DEF Rename, Goto, TypeOK
  <2> QED
    BY <2>1, <2>2, <2>3, <2>4 DEF Copied, Live
<1>8. ASSUME Tick
      PROVE  Copied'
  <2>1. /\ UNCHANGED <<sessions, file, data, pc, up, failures>>
        /\ now \in Int /\ now' = now + 1
    BY <1>8 DEF Tick, TypeOK, diskVars, requestVars, boundVars
  <2> DEFINE Later(map) == {i \in Id : map[i] # NoSession /\ map[i] > now'}
  <2>2. ASSUME NEW left, NEW right,
               \A i \in Id : left[i] \in {NoSession, expiryOf[i]},
               \A i \in Id : right[i] \in {NoSession, expiryOf[i]},
               Live(left) = Live(right)
        PROVE  Later(left) = Later(right)
    <3> SUFFICES ASSUME NEW i \in Id
                 PROVE  i \in Later(left) <=> i \in Later(right)
      OBVIOUS
    <3>1. expiryOf[i] = NoSession \/ expiryOf[i] \in Int
      BY DEF TypeOK, Map, Expiry
    <3>2. i \in Live(left) <=> i \in Live(right)
      BY <2>2
    <3> QED
      BY <2>1, <2>2, <3>1, <3>2 DEF Live
  <2>3. /\ \A p \in Process : Live(data[p])' = Later(data[p])
        /\ Live(sessions)' = Later(sessions) /\ Live(file)' = Later(file)
    BY <2>1 DEF Live
  <2>4. \A p \in Process : Live(data[p]) = Live(sessions) => Later(data[p]) = Later(sessions)
    BY <2>2 DEF Issued
  <2>5. Live(file) = Live(sessions) => Later(file) = Later(sessions)
    BY <2>2 DEF Issued
  <2> HIDE DEF Later
  <2> QED
    BY <2>1, <2>3, <2>4, <2>5 DEF Copied
<1>9. ASSUME Crash
      PROVE  Copied'
  BY <1>9 DEF Crash, Copied
<1>10. ASSUME LoadSessions
      PROVE  Copied'
  <2>1. \A p \in Process : pc'[p] = "idle"
    BY <1>10 DEF LoadSessions, Down, requestVars
  <2>2. Live(file)' = Live(sessions)'
    BY <1>10 DEF LoadSessions, Live, diskVars
  <2> QED
    BY <2>1, <2>2 DEF Copied, SnapshotTaken
<1>11. ASSUME LoadFails
      PROVE  Copied'
  <2>1. failures' # 0
    BY <1>11 DEF LoadFails, TypeOK
  <2> QED
    BY <2>1 DEF Copied
<1> QED
  BY <1>1, <1>2, <1>3, <1>4, <1>5, <1>6, <1>7, <1>8, <1>9, <1>10, <1>11 DEF Next, Finish, Process

\* The server starts with nothing to remember.
LEMMA Initially == Init => IInv
<1> USE StoreAssumption DEF StoreAssumption
<1>1. Init => TypeOK
  BY DEF Init, TypeOK, Map, Empty, Expiry, Place, Removal
<1>2. Init => Holder /\ Issued /\ Down /\ Checking
  BY DEF Init, Holder, Issued, Down, Checking, Saving, Empty, Process
<1>3. Init => Snapshot /\ TempFile /\ Pending
  BY DEF Init, Snapshot, SnapshotTaken, TempFile, Pending, Changed, Saving
<1>4. Init => DestroyedStaysDestroyed /\ CreatedSurvives
  BY DEF Init, DestroyedStaysDestroyed, CreatedSurvives
<1>5. Init => Copied
  BY DEF Init, Copied, Live, SnapshotTaken
<1> QED
  BY <1>1, <1>2, <1>3, <1>4, <1>5 DEF IInv

\* A step that changes nothing keeps the invariant.
LEMMA Stutter == ASSUME IInv, UNCHANGED vars PROVE IInv'
<1> USE DEF vars, mapVars, diskVars, requestVars, boundVars, historyVars, IInv
<1>1. TypeOK'
  BY DEF TypeOK
<1>2. (Holder /\ Issued /\ Down /\ Checking)'
  BY DEF Holder, Issued, Down, Checking
<1>3. (Snapshot /\ TempFile /\ Pending)'
  BY DEF Snapshot, Admissible, Shows, InTime, TempFile, Pending
<1>4. (DestroyedStaysDestroyed /\ CreatedSurvives)'
  BY DEF DestroyedStaysDestroyed, CreatedSurvives
<1>5. Copied'
  BY DEF Copied, Live
<1> QED
  BY <1>1, <1>2, <1>3, <1>4, <1>5

\* Every reachable state satisfies the inductive invariant.
THEOREM Invariance == Spec => []IInv
<1>1. IInv /\ [Next]_vars => IInv'
  <2> SUFFICES ASSUME IInv, Next PROVE IInv'
    BY Stutter
  <2> QED
    BY TypeOKStep, HolderStep, IssuedStep, DownStep, SnapshotStep, TempFileStep,
       PendingStep, CheckingStep, CopiedStep, DestroyedStaysDestroyedStep, CreatedSurvivesStep DEF IInv
<1> QED
  BY Initially, <1>1, PTL DEF Spec

\* The variables of the store keep their types.
THEOREM TypeCorrectness == Spec => []TypeOK
BY Invariance, PTL DEF IInv

\* Logging out is final: no concurrent request, no later save and, once it was saved,
\* no restart brings the session back.
THEOREM Destruction == Spec => []DestroyedStaysDestroyed
BY Invariance, PTL DEF IInv

\* A saved login lasts its time, over every crash and every failing save of others,
\* unless a start cannot read the file it is in.
THEOREM Survival == Spec => []CreatedSurvives
BY Invariance, PTL DEF IInv

\* No concurrent save is lost: when none is under way and none has failed, the file
\* shows the sessions of the server.
THEOREM Saved == Spec => []FileCatchesUp
<1>1. IInv => FileCatchesUp
  BY DEF IInv, Copied, FileCatchesUp, Saving, SnapshotTaken
<1> QED
  BY <1>1, Invariance, PTL
=============================================================================
