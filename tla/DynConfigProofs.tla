--------------------------- MODULE DynConfigProofs ---------------------------
(***************************************************************************)
(* Proofs about DynConfig: for every number of requests, connections,      *)
(* configurations and failing commands, what a set stored is found again.  *)
(***************************************************************************)
EXTENDS DynConfig, TLAPS

\* A probe has not begun before its connection.
Unborn == \A k \in Probe : k > connects => at[k] = "off"

\* A request that runs has looked a state up.
Looked == \A r \in Request : pc[r] # "idle" => state[r] \in Probe

\* A request that is going to set has a value to set.
Armed == \A r \in Request : pc[r] = "set" => arg[r] \in Value

\* What is known of a set that nothing has crossed.  No other request has sent a
\* command for its configuration since, or it would be lone no more.  Until its query is answered no
\* late answer has its configuration's prefix; from then on the value read is the one
\* that the modem has and keeps.
Lone(r) ==
  /\ pc[r] # "idle"
  /\ \A s \in Request \ {r} : target[s] = target[r] => pc[s] \in {"idle", "set"}
  /\ pc[r] \in {"set", "find", "query"} => \A a \in late : a[1] # target[r]
  /\ pc[r] \in {"query", "store"} => state[r] = installed
  /\ pc[r] = "store" =>
       \/ answer[r] = NoLine
       \/ answer[r] = held[target[r]] /\ \A a \in unmade : a[1] # target[r]

Alone == \A r \in lone : Lone(r)

IInv == TypeOK /\ Unborn /\ Looked /\ Armed /\ Alone

RequestStep(r) ==
  \/ \E c \in Config : BeginQuery(r, c) \/ \E v \in Value : BeginSet(r, c, v)
  \/ SendSet(r) \/ SetFails(r) \/ FindState(r) \/ SendQuery(r) \/ QueryFails(r) \/ Store(r)

-----------------------------------------------------------------------------
(* The invariant is inductive *)

\* Before the first connection there is nothing to find.
LEMMA Initially == Init => IInv
<1> USE DynConfigAssumption DEF DynConfigAssumption, Config, Probe
<1>1. Init => TypeOK
  <2> SUFFICES ASSUME Init PROVE TypeOK
    OBVIOUS
  <2>1. 1 \in Config /\ 0 \in 0 .. Attempts - 1
    OBVIOUS
  <2>8. /\ connects \in 0 .. MaxConnects /\ failures \in 0 .. MaxFailures
        /\ late \subseteq Setting /\ unmade \subseteq Setting
    BY DEF Init
  <2>2. config \in [Probe -> Config] /\ tries \in [Probe -> 0 .. Attempts - 1]
    BY <2>1 DEF Init
  <2>3. at \in [Probe -> {"off", "probe", "install", "done"}] /\ found \in [Probe -> SUBSET Config]
    BY DEF Init
  <2>4. values \in [Probe -> [Config -> Value \cup {Nothing, NoLine}]]
    BY DEF Init
  <2>5. pc \in [Request -> {"idle", "set", "find", "query", "store"}]
    BY DEF Init
  <2>6. target \in [Request -> Config] /\ state \in [Request -> Probe \cup {0}]
    BY <2>1 DEF Init
  <2>7. arg \in [Request -> Value \cup {Nothing}] /\ answer \in [Request -> Value \cup {Nothing, NoLine}]
    BY DEF Init
  <2> QED
    BY <2>2, <2>3, <2>4, <2>5, <2>6, <2>7, <2>8, Zenon DEF Init, TypeOK
<1>2. Init => Unborn /\ Looked /\ Armed /\ Alone
  BY DEF Init, Unborn, Looked, Armed, Alone, Lone
<1> QED
  BY <1>1, <1>2 DEF IInv

\* Connections, and the probes before they install: no request notices.
LEMMA ProbeStep ==
  ASSUME IInv, Connect \/ Drop \/ Obey \/ \E k \in Probe : ProbeAnswered(k) \/ ProbeFails(k)
  PROVE  IInv'
<1> USE DynConfigAssumption DEF DynConfigAssumption, IInv, Config, Probe, requestVars, linkVars
<1>1. CASE Connect
  <2>1. conn' \in 1 .. MaxConnects /\ conn' = connects + 1 /\ at[conn'] = "off"
    BY <1>1 DEF Connect, TypeOK, Unborn
  <2>2. TypeOK'
    <3>1. at' \in [Probe -> {"off", "probe", "install", "done"}]
      BY <1>1, <2>1 DEF Connect, TypeOK
    <3>2. installed' \in {0} \cup {k \in Probe : at'[k] = "done"}
      BY <1>1, <2>1 DEF Connect, TypeOK
    <3>3. conn' \in {0, connects'} /\ connects' \in 0 .. MaxConnects
      BY <1>1, <2>1 DEF Connect, TypeOK
    <3> QED
      BY <1>1, <3>1, <3>2, <3>3 DEF Connect, TypeOK
  <2>3. (Unborn /\ Looked /\ Armed /\ Alone)'
    BY <1>1, <2>1 DEF Connect, TypeOK, Unborn, Looked, Armed, Alone, Lone
  <2> QED
    BY <2>2, <2>3
<1>2. CASE Drop
  <2>1. TypeOK'
    BY <1>2 DEF Drop, probeVars, TypeOK
  <2>2. (Unborn /\ Looked /\ Armed)'
    BY <1>2 DEF Drop, probeVars, Unborn, Looked, Armed
  <2>3. Alone'
    <3>1. ASSUME NEW c \in Config, \A a \in unmade : a[1] # c
          PROVE  held'[c] = held[c]
      BY <1>2, <3>1 DEF Drop
    <3>2. ASSUME NEW q \in lone
          PROVE  Lone(q)'
      <4>1. target[q] \in Config /\ Lone(q)
        BY DEF TypeOK, Alone
      <4> QED
        BY <1>2, <3>1, <4>1 DEF Drop, Lone
    <3> QED
      BY <1>2, <3>2 DEF Drop, Alone
  <2> QED
    BY <2>1, <2>2, <2>3
<1>4. CASE Obey
  <2>1. PICK s \in unmade : /\ unmade' = unmade \ {s}
                            /\ held' \in {held, [held EXCEPT ![s[1]] = s[2]]}
    BY <1>4 DEF Obey
  <2>2. s[1] \in Config /\ s[2] \in Value
    BY <2>1 DEF TypeOK, Setting
  <2>3. TypeOK'
    BY <1>4, <2>1, <2>2 DEF Obey, probeVars, TypeOK
  <2>4. (Unborn /\ Looked /\ Armed)'
    BY <1>4 DEF Obey, probeVars, Unborn, Looked, Armed
  <2>5. Alone'
    BY <1>4, <2>1, <2>2 DEF Obey, probeVars, TypeOK, Alone, Lone
  <2> QED
    BY <2>3, <2>4, <2>5
<1>3. ASSUME NEW k \in Probe, ProbeAnswered(k) \/ ProbeFails(k)
      PROVE  IInv'
  <2>0. config \in [Probe -> Config] /\ config[k] \in Config
    BY DEF TypeOK
  <2> USE <1>3 DEF ProbeAnswered, ProbeFails, Proceed, CommandAnswered, CommandFails
  <2>1. TypeOK'
    <3>1. config' \in [Probe -> Config]
      <4>1. config[k] < Configs => config[k] + 1 \in Config
        BY <2>0
      <4>2. config' = config \/ (config[k] < Configs /\ config' = [config EXCEPT ![k] = config[k] + 1])
        OBVIOUS
      <4> QED
        BY <2>0, <4>1, <4>2, Zenon
    <3>2. tries' \in [Probe -> 0 .. Attempts - 1]
      <4>1. tries[k] \in 0 .. Attempts - 1
        BY DEF TypeOK
      <4>2. 0 \in 0 .. Attempts - 1 /\ (tries[k] + 1 < Attempts => tries[k] + 1 \in 0 .. Attempts - 1)
        BY <4>1
      <4>3. \/ tries' = [tries EXCEPT ![k] = 0]
            \/ (tries[k] + 1 < Attempts /\ tries' = [tries EXCEPT ![k] = tries[k] + 1])
        OBVIOUS
      <4>4. tries \in [Probe -> 0 .. Attempts - 1]
        BY DEF TypeOK
      <4> QED
        BY <4>2, <4>3, <4>4, Zenon
    <3>5. at' \in [Probe -> {"off", "probe", "install", "done"}]
      BY DEF TypeOK
    <3>6. found' \in [Probe -> SUBSET Config]
      <4>1. config[k] \in Config /\ found[k] \in SUBSET Config
        BY DEF TypeOK
      <4>2. found' = found \/ found' = [found EXCEPT ![k] = found[k] \cup {config[k]}]
        BY DEF TypeOK
      <4> QED
        BY <4>1, <4>2 DEF TypeOK
    <3>3. installed' \in {0} \cup {j \in Probe : at'[j] = "done"}
      BY DEF TypeOK
    <3>4. conn' \in {0, connects'} /\ connects' \in 0 .. MaxConnects /\ failures' \in 0 .. MaxFailures
      BY DEF TypeOK
    <3> QED
      BY <3>1, <3>2, <3>3, <3>4, <3>5, <3>6 DEF TypeOK
  <2>2. Unborn'
    BY DEF TypeOK, Unborn
  <2>3. (Looked /\ Armed /\ Alone)'
    BY DEF Looked, Armed, Alone, Lone
  <2> QED
    BY <2>1, <2>2, <2>3
<1> QED
  BY <1>1, <1>2, <1>3, <1>4

\* A new map: a set that is past its look-up is lone no more.
LEMMA InstallStep ==
  ASSUME IInv, NEW k \in Probe, Install(k)
  PROVE  IInv'
<1> USE DynConfigAssumption DEF DynConfigAssumption, IInv, Config, Probe, requestVars, modemVars, linkVars, Install
<1>1. TypeOK'
  BY DEF TypeOK
<1>2. Unborn'
  BY DEF TypeOK, Unborn
<1>3. (Looked /\ Armed /\ Alone)'
  BY DEF TypeOK, Looked, Armed, Alone, Lone
<1> QED
  BY <1>1, <1>2, <1>3

\* The types, variable by variable: a request leaves the probes alone.
LEMMA RequestTypeOK ==
  ASSUME IInv, NEW r \in Request, RequestStep(r)
  PROVE  (TypeOK /\ Unborn)'
<1> USE DynConfigAssumption DEF DynConfigAssumption, IInv, modemVars, linkVars, probeVars, RequestStep,
        BeginQuery, BeginSet, SendSet, SetFails, FindState, SendQuery, QueryFails, Store, Goto, Leave,
        CommandAnswered, OwnAnswer, CommandFails, Read, Refuse
<1>1. UNCHANGED <<probeVars, installed, overtaken, connects, conn>>
  OBVIOUS
<1>2. failures' \in 0 .. MaxFailures
  BY DEF TypeOK
<1>3. held' \in [Config -> Value]
  <2>1. held' # held => arg[r] \in Value
    BY DEF TypeOK, Armed
  <2> QED
    BY <2>1 DEF TypeOK
<1>4. pc' \in [Request -> {"idle", "set", "find", "query", "store"}]
  BY DEF TypeOK
<1>5. target' \in [Request -> Config]
  BY DEF TypeOK, Config
<1>6. arg' \in [Request -> Value \cup {Nothing}]
  BY DEF TypeOK
<1>7. answer' \in [Request -> Value \cup {Nothing, NoLine}]
  <2>1. CASE SendQuery(r)
    <3>1. held[target[r]] \in Value /\ \A a \in late : a[2] \in Value
      BY DEF TypeOK, Setting
    <3> QED
      BY <2>1, <3>1 DEF TypeOK
  <2>2. CASE ~SendQuery(r)
    BY <2>2 DEF TypeOK
  <2> QED
    BY <2>1, <2>2
<1>8. state' \in [Request -> Probe \cup {0}]
  BY DEF TypeOK, Known
<1>9. values' \in [Probe -> [Config -> Value \cup {Nothing, NoLine}]]
  <2>1. CASE values' = values
    BY <2>1 DEF TypeOK
  <2>2. CASE Store(r)
    <3>1. /\ state[r] \in Probe /\ target[r] \in Config /\ answer[r] \in Value \cup {Nothing, NoLine}
          /\ values' = [values EXCEPT ![state[r]] = [values[state[r]] EXCEPT ![target[r]] = answer[r]]]
      BY <2>2 DEF TypeOK, Looked
    <3>2. [values[state[r]] EXCEPT ![target[r]] = answer[r]] \in [Config -> Value \cup {Nothing, NoLine}]
      BY <3>1 DEF TypeOK
    <3> QED
      BY <3>1, <3>2 DEF TypeOK
  <2> QED
    BY <2>1, <2>2
<1>11. late' \subseteq Setting
  <2>1. LeftQuery(target[r]) \subseteq Setting
    BY Zenon DEF LeftQuery
  <2> QED
    BY <2>1 DEF TypeOK
<1>12. unmade' \subseteq Setting
  <2>1. CASE SendSet(r) \/ SetFails(r)
    <3>1. <<target[r], arg[r]>> \in Setting
      BY <2>1 DEF TypeOK, Armed, Setting
    <3> QED
      BY <2>1, <3>1 DEF TypeOK
  <2>2. CASE ~(SendSet(r) \/ SetFails(r))
    BY <2>2 DEF TypeOK
  <2> QED
    BY <2>1, <2>2
<1>10. lone' \in SUBSET Request
  BY DEF TypeOK, Touch, Forget
<1> QED
  BY <1>1, <1>2, <1>3, <1>4, <1>5, <1>6, <1>7, <1>8, <1>9, <1>10, <1>11, <1>12 DEF TypeOK, Unborn

\* A request only uses a state that it has looked up, and a value it was given.
LEMMA RequestLooked ==
  ASSUME IInv, NEW r \in Request, RequestStep(r)
  PROVE  (Looked /\ Armed)'
<1> USE DynConfigAssumption DEF DynConfigAssumption, IInv, Config, Probe, Looked, Armed, TypeOK, Goto, Leave
<1>0. \A c \in Config : Known(c) => installed \in Probe
  BY DEF Known
<1>1. ASSUME NEW c \in Config, BeginQuery(r, c) \/ \E v \in Value : BeginSet(r, c, v)
      PROVE  (Looked /\ Armed)'
  BY <1>0, <1>1 DEF BeginQuery, BeginSet
<1>2. CASE SendSet(r) \/ SetFails(r)
  BY <1>2 DEF SendSet, SetFails
<1>3. CASE FindState(r)
  BY <1>0, <1>3 DEF FindState
<1>4. CASE SendQuery(r) \/ QueryFails(r) \/ Store(r)
  BY <1>4 DEF SendQuery, QueryFails, Store, Read, Refuse
<1> QED
  BY <1>1, <1>2, <1>3, <1>4 DEF RequestStep

\* A request that touches a value ends the solitude of the others that set it.
LEMMA RequestAlone ==
  ASSUME IInv, NEW r \in Request, RequestStep(r)
  PROVE  Alone'
<1> USE DynConfigAssumption DEF DynConfigAssumption, IInv, Config, Probe
<1> SUFFICES ASSUME NEW q \in lone'
             PROVE  Lone(q)'
  BY DEF Alone
<1>1. q \in Request /\ (q \in lone => Lone(q))
  BY RequestTypeOK DEF TypeOK, Alone
<1>2. \A s \in Request \ {r} : /\ pc'[s] = pc[s] /\ target'[s] = target[s]
                              /\ state'[s] = state[s] /\ answer'[s] = answer[s]
  BY DEF TypeOK, RequestStep, BeginQuery, BeginSet, SendSet, SetFails, FindState, SendQuery, QueryFails,
     Store, Goto, Leave, Read, Refuse
<1>3. \A a \in LeftQuery(target[r]) : a[1] = target[r]
  BY Zenon DEF LeftQuery
<1>4. ASSUME NEW c \in Config, BeginQuery(r, c)
      PROVE  Lone(q)'
  BY <1>1, <1>2, <1>4 DEF BeginQuery, modemVars, linkVars, Goto, TypeOK, Lone
<1>5. ASSUME NEW c \in Config, NEW v \in Value, BeginSet(r, c, v)
      PROVE  Lone(q)'
  BY <1>1, <1>2, <1>5 DEF BeginSet, modemVars, linkVars, Goto, TypeOK, Lone
<1>6. CASE SendSet(r)
  BY <1>1, <1>2, <1>6 DEF SendSet, OwnAnswer, Touch, Goto, TypeOK, Lone
<1>7. CASE SetFails(r)
  BY <1>1, <1>2, <1>7 DEF SetFails, Touch, Forget, Goto, Leave, TypeOK, Lone
<1>8. CASE FindState(r)
  <2>1. UNCHANGED <<held, late, unmade, installed>> /\ q \in lone
    BY <1>8 DEF FindState, modemVars, linkVars
  <2>2. CASE Known(target[r])
    BY <1>1, <1>2, <1>8, <2>1, <2>2 DEF FindState, Goto, TypeOK, Lone
  <2>3. CASE ~Known(target[r])
    BY <1>1, <1>2, <1>8, <2>1, <2>3 DEF FindState, Goto, Leave, TypeOK, Lone
  <2> QED
    BY <2>2, <2>3
<1>9. ASSUME SendQuery(r) \/ QueryFails(r), Refuse(r)
      PROVE  Lone(q)'
  <2>1. UNCHANGED <<held, installed, unmade>> /\ late' \subseteq late \cup LeftQuery(target[r])
    BY <1>9 DEF SendQuery, QueryFails, OwnAnswer
  <2>2. q \in lone /\ q # r /\ pc[r] = "query" /\ pc'[r] = "idle" /\ target'[r] = 1
    BY <1>9 DEF SendQuery, QueryFails, Refuse, Goto, Leave, TypeOK
  <2>3. target[q] # target[r]
    BY <1>1, <2>2 DEF Lone
  <2> QED
    BY <1>1, <1>2, <1>3, <2>1, <2>2, <2>3 DEF Lone
<1>10. ASSUME NEW v, SendQuery(r), Read(r, v),
              r \in lone => v = NoLine \/ (v = held[target[r]] /\ unmade = {})
       PROVE  Lone(q)'
  <2>1. UNCHANGED <<held, installed, unmade>> /\ late' \subseteq late \cup LeftQuery(target[r])
    BY <1>10 DEF SendQuery, OwnAnswer
  <2>2. q \in lone /\ pc[r] = "query" /\ pc'[r] = "store" /\ answer'[r] = v
        /\ target' = target /\ state' = state
    BY <1>10 DEF SendQuery, Read, Goto, TypeOK
  <2>3. q # r => target[q] # target[r]
    BY <1>1, <2>2 DEF Lone
  <2>4. CASE q = r
    BY <1>1, <1>2, <1>10, <2>1, <2>2, <2>4 DEF Lone
  <2>5. CASE q # r
    BY <1>1, <1>2, <1>3, <2>1, <2>2, <2>3, <2>5 DEF Lone
  <2> QED
    BY <2>4, <2>5
<1>11. CASE SendQuery(r)
  <2>1. r \in lone => \A a \in late : a[1] # target[r]
    BY <1>11 DEF SendQuery, Alone, Lone
  <2> QED
    BY <1>9, <1>10, <1>11, <2>1 DEF SendQuery, OwnAnswer
<1>12. CASE Store(r)
  BY <1>1, <1>2, <1>12 DEF Store, modemVars, linkVars, Touch, Forget, Goto, Leave, TypeOK, Lone
<1> QED
  BY <1>4, <1>5, <1>6, <1>7, <1>8, <1>9, <1>11, <1>12 DEF RequestStep, QueryFails

\* Every reachable state satisfies the inductive invariant.
THEOREM Invariance == Spec => []IInv
<1>1. IInv /\ [Next]_vars => IInv'
  <2> SUFFICES ASSUME IInv, [Next]_vars PROVE IInv'
    OBVIOUS
  <2>1. CASE UNCHANGED vars
    BY <2>1 DEF vars, modemVars, linkVars, probeVars, requestVars, IInv, TypeOK, Unborn, Looked, Armed, Alone, Lone
  <2>2. ASSUME NEW r \in Request, RequestStep(r)
        PROVE  IInv'
    BY <2>2, RequestTypeOK, RequestLooked, RequestAlone DEF IInv
  <2>3. CASE Next
    BY <2>2, <2>3, ProbeStep, InstallStep DEF Next, RequestStep
  <2> QED
    BY <2>1, <2>3
<1> QED
  BY Initially, <1>1, PTL DEF Spec

\* The variables of the configurations keep their types.
THEOREM TypeCorrectness == Spec => []TypeOK
BY Invariance, PTL DEF IInv

\* A set that nothing crossed leaves the modem's value in the map in force, or an empty
\* list, but never an older value, however many connections and probes came and went
\* while it ran.
THEOREM Cached == Spec => LoneSetIsCached
<1>1. ASSUME IInv, [Next]_vars, NEW r \in Request, r \in lone, pc[r] = "store", pc'[r] = "idle"
      PROVE  values'[installed'][target[r]] \in {held[target[r]], NoLine}
  <2>1. ASSUME NEW s \in Request, s # r, RequestStep(s)
        PROVE  FALSE
    BY <1>1, <2>1 DEF RequestStep, BeginQuery, BeginSet, SendSet, SetFails, FindState, SendQuery,
       QueryFails, Store, Goto, Leave, Read, Refuse, IInv, TypeOK
  <2>2. Store(r)
    BY <1>1, <2>1 DEF Next, RequestStep, vars, requestVars, Connect, Drop, Obey, ProbeAnswered,
       ProbeFails, Install, BeginQuery, BeginSet, SendSet, SetFails, FindState, SendQuery, QueryFails,
       Goto, Leave, Read, Refuse
  <2> QED
    BY <1>1, <2>2 DEF Store, IInv, TypeOK, Alone, Lone, Looked
<1>2. IInv /\ [Next]_vars =>
        [\A r \in Request :
           r \in lone /\ pc[r] = "store" /\ pc'[r] = "idle" =>
             values'[installed'][target[r]] \in {held[target[r]], NoLine}]_vars
  BY <1>1
<1> QED
  BY <1>2, Invariance, PTL DEF Spec, LoneSetIsCached
=============================================================================
