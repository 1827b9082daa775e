------------------------- MODULE StatusCacheProofs --------------------------
(***************************************************************************)
(* Proofs about StatusCache: for every size of the SMS storage, all        *)
(* messages and requests, an undisturbed delete without an error removes   *)
(* the listed message and nothing else.                                    *)
(***************************************************************************)
EXTENDS StatusCache, TLAPS

\* A delete that nobody disturbed and that has met no error so far.
Exact(p) ==
  pc[p] = "delete" /\ ~failed[p] /\ before[p] # Nothing /\ chosen[p] # Nothing

Chosen(p, i) == IsFirst(before[p], i) /\ before[p][i] = chosen[p]

\* The storage while such a delete runs: the slots it has dealt with are free,
\* the others are as they were, and it is left with slots of its message only.
Partial(p, i) ==
  /\ victims[p] \subseteq MergedIndices(before[p], i)
  /\ storage = [j \in Slot |-> IF j \in MergedIndices(before[p], i) \ victims[p]
                               THEN Nothing ELSE before[p][j]]

Deleting == \A p \in Request, i \in Slot : Exact(p) /\ Chosen(p, i) => Partial(p, i)

\* A SetAPN has an APN to set.
Wanted == \A p \in Process : pc[p] = "setApn" => want[p] \in Apn

IInv == TypeOK /\ Wanted /\ Deleting

-----------------------------------------------------------------------------
(* Operators *)

\* What is merged with a slot, and what is deleted for it, are slots.
LEMMA SlotsToDelete ==
  ASSUME NEW list, NEW i \in Slot
  PROVE  /\ MergedIndices(list, i) \subseteq Slot
         /\ IndicesToDelete(list, i) \subseteq Slot
BY DEF MergedIndices, IndicesToDelete

\* The first slot of a message stands for all the slots merged with it.
LEMMA FirstStandsForAll ==
  ASSUME NEW list, NEW i \in Slot, IsFirst(list, i)
  PROVE  IndicesToDelete(list, i) = MergedIndices(list, i)
BY DEF IsFirst, MergedIndices, IndicesToDelete

\* A message has one first slot.
LEMMA FirstIsUnique ==
  ASSUME NEW list, NEW i \in Slot, NEW j \in Slot,
         IsFirst(list, i), IsFirst(list, j), list[i] = list[j]
  PROVE  i = j
<1>1. Slot \subseteq Int
  BY CacheAssumption DEF CacheAssumption, Slot
<1> QED
  BY <1>1 DEF IsFirst

\* The status a poll starts from is a status.
LEMMA NewModemStatusType == NewModemStatus \in Status /\ Empty \in Storage
BY DEF NewModemStatus, Status, Storage, Empty

-----------------------------------------------------------------------------
(* The invariant is inductive *)

\* A step keeps every variable in its type.
LEMMA TypeOKStep == ASSUME IInv, Next PROVE TypeOK'
<1> USE CacheAssumption, NewModemStatusType DEF CacheAssumption, IInv
<1>0. Answers \/ NoAnswer => failures' \in 0 .. MaxFailures
  BY DEF Answers, NoAnswer, TypeOK
<1>1. ASSUME NEW p \in Process, BeginPoll(p)
      PROVE  TypeOK'
  <2>1. [cache EXCEPT !.link = "Offline"] \in Status
    BY DEF TypeOK, Status
  <2> QED
    BY <1>1, <2>1 DEF BeginPoll, Goto, TypeOK, Place, modemVars, deleteVars,
              boundVars
<1>2. ASSUME NEW p \in Process, ReadATI(p) \/ List(p) \/ ReadAPN(p)
      PROVE  TypeOK'
  <2>1. /\ [new[p] EXCEPT !.link = "Connected"] \in Status
        /\ [new[p] EXCEPT !.sms = storage] \in Status
        /\ [new[p] EXCEPT !.apn = apn] \in Status
    BY DEF TypeOK, Status
  <2>2. new' \in [Process -> Status]
    BY <1>2, <2>1 DEF ReadATI, List, ReadAPN, TypeOK
  <2>3. pc' \in [Process -> Place] /\ failures' \in 0 .. MaxFailures
    BY <1>0, <1>2 DEF ReadATI, List, ReadAPN, Goto, TypeOK, Place
  <2> QED
    BY <1>2, <2>2, <2>3 DEF ReadATI, List, ReadAPN, TypeOK, modemVars, deleteVars
<1>3. ASSUME NEW p \in Process, Install(p) \/ InstallSMS(p)
      PROVE  TypeOK'
  <2>1. Listed(new[p].sms) \subseteq Short \cup Long
    BY DEF TypeOK, Status, Storage, Listed
  <2>2. [cache EXCEPT !.sms = new[p].sms] \in Status /\ new[p] \in Status
    BY DEF TypeOK, Status
  <2>3. cache' \in Status /\ new' \in [Process -> Status] /\ shown' \in SUBSET (Short \cup Long)
    BY <1>3, <2>1, <2>2 DEF Install, InstallSMS, TypeOK
  <2>4. pc' \in [Process -> Place]
    BY <1>3 DEF Install, InstallSMS, Goto, TypeOK, Place
  <2> QED
    BY <1>3, <2>3, <2>4 DEF Install, InstallSMS, TypeOK, modemVars, deleteVars,
              boundVars
<1>5. ASSUME NEW p \in Process, MessageSent(p) \/ BeginSMSPoll(p)
      PROVE  TypeOK'
  BY <1>5 DEF MessageSent, BeginSMSPoll, Goto, TypeOK, Place, modemVars,
            deleteVars, boundVars
<1>6. ASSUME NEW p \in Process, NEW a \in Apn, SetAPN(p, a)
      PROVE  TypeOK'
  BY <1>6 DEF SetAPN, Goto, TypeOK, Place, modemVars, deleteVars
<1>7. ASSUME NEW p \in Process, SendAPN(p)
      PROVE  TypeOK'
  <2>1. apn' \in Apn \cup {Nothing} /\ failures' \in 0 .. MaxFailures
    BY <1>0, <1>7 DEF SendAPN, TypeOK, Wanted
  <2>2. pc' \in [Process -> Place] /\ want' \in [Process -> Apn \cup {Nothing}]
    BY <1>7 DEF SendAPN, Goto, TypeOK, Place
  <2> QED
    BY <1>7, <2>1, <2>2 DEF SendAPN, TypeOK, deleteVars
<1>8. ASSUME NEW p \in Process, CacheAPN(p)
      PROVE  TypeOK'
  BY <1>8 DEF CacheAPN, Goto, TypeOK, Place, Status, modemVars, deleteVars,
            boundVars
<1>9. ASSUME NEW p \in Process, NEW i \in Slot, DeleteSMS(p, i)
      PROVE  TypeOK'
  <2>1. IndicesToDelete(cache.sms, i) \subseteq Slot
    BY SlotsToDelete
  <2>2. storage[i] \in Short \cup Long \cup {Nothing}
    BY DEF TypeOK, Storage
  <2> QED
    BY <1>9, <2>1, <2>2 DEF DeleteSMS, Goto, TypeOK, Place, modemVars, boundVars
<1>10. ASSUME NEW p \in Process, NEW i \in Slot, DeleteNext(p, i)
      PROVE  TypeOK'
  <2>1. [storage EXCEPT ![i] = Nothing] \in Storage
    BY DEF TypeOK, Storage
  <2>2. /\ storage' \in Storage /\ failed' \in [Process -> BOOLEAN]
        /\ chosen' \in [Process -> Short \cup Long \cup {Nothing}]
        /\ failures' \in 0 .. MaxFailures
    BY <1>0, <1>10, <2>1 DEF DeleteNext, TypeOK
  <2>3. victims' \in [Process -> SUBSET Slot] /\ before' \in [Process -> Storage \cup {Nothing}]
    BY <1>10 DEF DeleteNext, TypeOK
  <2> QED
    BY <1>10, <2>2, <2>3 DEF DeleteNext, TypeOK
<1>11. ASSUME NEW p \in Process, EndDelete(p)
      PROVE  TypeOK'
  BY <1>11 DEF EndDelete, Goto, TypeOK, Place, modemVars, boundVars
<1>12. ASSUME NEW m \in Short \cup Long, Arrive(m)
      PROVE  TypeOK'
  BY <1>12 DEF Arrive, TypeOK, Storage
<1>13. ASSUME Toggle
      PROVE  TypeOK'
  BY <1>13 DEF Toggle, TypeOK, deleteVars
<1> QED
  BY <1>1, <1>2, <1>3, <1>5, <1>6, <1>7, <1>8, <1>9, <1>10, <1>11, <1>12, <1>13
  DEF Next, Begin, Continue, Process

\* A step keeps the APN of every SetAPN.
LEMMA WantedStep == ASSUME IInv, Next PROVE Wanted'
<1> USE DEF IInv
<1> SUFFICES ASSUME NEW q \in Process, pc'[q] = "setApn"
             PROVE  want'[q] \in Apn
  BY DEF Wanted
<1>1. ASSUME NEW p \in Process,
             \/ BeginPoll(p) \/ ReadATI(p) \/ List(p) \/ ReadAPN(p) \/ Install(p)
             \/ MessageSent(p) \/ BeginSMSPoll(p) \/ InstallSMS(p) \/ EndDelete(p)
      PROVE  want'[q] \in Apn
  BY <1>1 DEF BeginPoll, ReadATI, List, ReadAPN, Install, MessageSent,
         BeginSMSPoll, InstallSMS, EndDelete, Goto, TypeOK, Wanted
<1>2. ASSUME NEW p \in Process, SendAPN(p) \/ CacheAPN(p)
      PROVE  want'[q] \in Apn
  BY <1>2 DEF SendAPN, CacheAPN, Goto, TypeOK, Wanted
<1>3. ASSUME NEW p \in Process, NEW a \in Apn, SetAPN(p, a)
      PROVE  want'[q] \in Apn
  BY <1>3 DEF SetAPN, Goto, TypeOK, Wanted
<1>4. ASSUME NEW p \in Process, NEW i \in Slot, DeleteSMS(p, i) \/ DeleteNext(p, i)
      PROVE  want'[q] \in Apn
  BY <1>4 DEF DeleteSMS, DeleteNext, Goto, TypeOK, Wanted
<1>5. ASSUME NEW m \in Short \cup Long, Arrive(m)
      PROVE  want'[q] \in Apn
  BY <1>5 DEF Arrive, Wanted
<1>6. ASSUME Toggle
      PROVE  want'[q] \in Apn
  BY <1>6 DEF Toggle, Wanted
<1> QED
  BY <1>1, <1>2, <1>3, <1>4, <1>5, <1>6 DEF Next, Begin, Continue, Process

\* A step keeps the storage as the deletes in progress describe it.
LEMMA DeletingStep == ASSUME IInv, Next PROVE Deleting'
<1> USE DEF IInv
<1> SUFFICES ASSUME NEW q \in Request, NEW k \in Slot, Exact(q)', Chosen(q, k)'
             PROVE  Partial(q, k)'
  BY DEF Deleting
<1>0. q \in Process
  BY DEF Process
<1>1. ASSUME UNCHANGED <<storage, victims, failed, chosen, before>>, pc[q] = "delete"
      PROVE  Partial(q, k)'
  <2>1. Exact(q) /\ Chosen(q, k)
    BY <1>1 DEF Exact, Chosen, IsFirst
  <2> QED
    BY <1>1, <2>1 DEF Deleting, Partial, MergedIndices
<1>2. ASSUME NEW p \in Process,
             \/ BeginPoll(p) \/ ReadATI(p) \/ List(p) \/ ReadAPN(p) \/ Install(p)
             \/ MessageSent(p) \/ BeginSMSPoll(p) \/ InstallSMS(p) \/ CacheAPN(p)
      PROVE  Partial(q, k)'
  <2>1. UNCHANGED <<storage, victims, failed, chosen, before>>
    BY <1>2 DEF BeginPoll, ReadATI, List, ReadAPN, Install, MessageSent,
           BeginSMSPoll, InstallSMS, CacheAPN, modemVars, deleteVars
  <2>2. pc[q] = "delete"
    BY <1>0, <1>2 DEF Exact, BeginPoll, ReadATI, List, ReadAPN, Install,
           MessageSent, BeginSMSPoll, InstallSMS, CacheAPN, Goto, TypeOK
  <2> QED
    BY <2>1, <2>2, <1>1
<1>3. ASSUME NEW p \in Process, NEW a \in Apn, SetAPN(p, a)
      PROVE  Partial(q, k)'
  BY <1>0, <1>1, <1>3 DEF SetAPN, Exact, Goto, TypeOK, modemVars, deleteVars
<1>4. ASSUME NEW p \in Process, SendAPN(p)
      PROVE  Partial(q, k)'
  BY <1>0, <1>1, <1>4 DEF SendAPN, Exact, Goto, TypeOK, deleteVars
<1>5. ASSUME NEW p \in Process, NEW i \in Slot, DeleteSMS(p, i)
      PROVE  Partial(q, k)'
  <2>1. CASE p = q
    <3>1. /\ before'[q] = storage /\ cache.sms = storage
          /\ chosen'[q] = storage[i] /\ IsFirst(storage, i)
      BY <1>0, <1>5, <2>1 DEF DeleteSMS, Exact, TypeOK
    <3>2. k = i
      BY <3>1, FirstIsUnique DEF Chosen
    <3>3. victims'[q] = MergedIndices(storage, i)
      BY <1>0, <1>5, <2>1, <3>1, FirstStandsForAll DEF DeleteSMS, TypeOK
    <3>4. storage' = storage /\ storage = [j \in Slot |-> storage[j]]
      BY <1>5 DEF DeleteSMS, modemVars, TypeOK, Storage
    <3> QED
      BY <3>1, <3>2, <3>3, <3>4 DEF Partial
  <2>2. CASE p # q
    <3>1. Exact(q) /\ Chosen(q, k)
      BY <1>0, <1>5, <2>2 DEF DeleteSMS, Goto, Exact, Chosen, IsFirst, TypeOK
    <3> QED
      BY <1>0, <1>5, <2>2, <3>1 DEF DeleteSMS, modemVars, Deleting, Partial, MergedIndices, TypeOK
  <2> QED
    BY <2>1, <2>2
<1>6. ASSUME NEW p \in Process, NEW i \in Slot, DeleteNext(p, i)
      PROVE  Partial(q, k)'
  <2>1. before'[q] = before[q] /\ pc'[q] = pc[q]
    BY <1>0, <1>6 DEF DeleteNext, Exact, TypeOK
  <2>2. failed'[q] = failed[q] /\ chosen'[q] = chosen[q]
    BY <1>0, <1>6 DEF DeleteNext, Exact, TypeOK
  <2>3. Exact(q) /\ Chosen(q, k)
    BY <2>1, <2>2 DEF Exact, Chosen, IsFirst
  <2>4. Partial(q, k)
    BY <2>3 DEF Deleting
  <2>5. CASE p = q
    <3>1. storage' = [storage EXCEPT ![i] = Nothing]
      BY <1>0, <1>6, <2>5 DEF DeleteNext, Exact, TypeOK
    <3>2. i \in victims[q] /\ victims'[q] = victims[q] \ {i}
      BY <1>0, <1>6, <2>5 DEF DeleteNext, TypeOK
    <3> QED
      BY <2>1, <2>4, <3>1, <3>2 DEF Partial, MergedIndices
  <2>6. CASE p # q
    <3>1. storage' = storage
      BY <1>0, <1>6, <2>6 DEF DeleteNext, Exact
    <3>2. victims'[q] = victims[q]
      BY <1>0, <1>6, <2>6 DEF DeleteNext, TypeOK
    <3> QED
      BY <2>1, <2>4, <3>1, <3>2 DEF Partial, MergedIndices
  <2> QED
    BY <2>5, <2>6
<1>7. ASSUME NEW p \in Process, EndDelete(p)
      PROVE  Partial(q, k)'
  <2>1. p # q
    BY <1>0, <1>7 DEF EndDelete, Exact, TypeOK
  <2>2. Exact(q) /\ Chosen(q, k)
    BY <1>0, <1>7, <2>1 DEF EndDelete, Goto, Exact, Chosen, IsFirst, TypeOK
  <2> QED
    BY <1>0, <1>7, <2>1, <2>2 DEF EndDelete, modemVars, Deleting, Partial, MergedIndices, TypeOK
<1>8. ASSUME NEW m \in Short \cup Long, Arrive(m)
      PROVE  Partial(q, k)'
  BY <1>0, <1>8 DEF Arrive, Exact
<1>9. ASSUME Toggle
      PROVE  Partial(q, k)'
  BY <1>1, <1>9 DEF Toggle, Exact, deleteVars
<1> QED
  BY <1>2, <1>3, <1>4, <1>5, <1>6, <1>7, <1>8, <1>9 DEF Next, Begin, Continue, Process

-----------------------------------------------------------------------------
(* The theorems *)

\* The strengthening is an invariant of the status cache.
THEOREM Invariance == Spec => []IInv
<1> USE CacheAssumption DEF CacheAssumption
<1>1. Init => IInv
  <2> SUFFICES ASSUME Init PROVE IInv
    OBVIOUS
  <2>1. /\ online \in BOOLEAN /\ storage \in Storage /\ apn \in Apn \cup {Nothing}
        /\ cache \in Status /\ new \in [Process -> Status]
    BY NewModemStatusType DEF Init
  <2>2. /\ changes \in 0 .. MaxChanges /\ failures \in 0 .. MaxFailures
    BY DEF Init
  <2>3. TypeOK
    BY <2>1, <2>2 DEF Init, TypeOK, Place
  <2> QED
    BY <2>3 DEF Init, IInv, Deleting, Wanted, Exact, Process
<1>2. IInv /\ [Next]_vars => IInv'
  <2>1. ASSUME IInv, Next PROVE IInv'
    BY <2>1, TypeOKStep, WantedStep, DeletingStep DEF IInv
  <2>2. ASSUME IInv, UNCHANGED vars PROVE IInv'
    BY <2>2 DEF IInv, TypeOK, Wanted, Deleting, Exact, Chosen, IsFirst, Partial, MergedIndices, vars, modemVars,
       deleteVars, boundVars
  <2> QED
    BY <2>1, <2>2
<1> QED
  BY <1>1, <1>2, PTL DEF Spec

\* The variables of the status cache keep their types.
THEOREM TypeCorrectness == Spec => []TypeOK
<1>1. IInv => TypeOK
  BY DEF IInv
<1> QED
  BY <1>1, Invariance, PTL

\* Deletion: a delete without an error that nobody disturbed removed exactly the
\* listed message, with every segment merged in it.
THEOREM Deletion == Spec => []DeleteIsExact
<1>1. IInv => DeleteIsExact
  BY DEF IInv, Deleting, Exact, Chosen, Partial, DeleteIsExact, MergedIndices
<1> QED
  BY <1>1, Invariance, PTL
=============================================================================
