----------------------------- MODULE DynConfig -----------------------------
(***************************************************************************)
(* The dynamic configurations of the daemon (daemon.go:311-420,            *)
(* commands/dynamic_config.go).                                            *)
(*                                                                         *)
(* Every connection to the modem starts a goroutine that probes the        *)
(* configurations one after the other, over whatever connection there is   *)
(* by then, and installs a new map of states when it is through.  Requests *)
(* read and set values and cache them in the state that they found.        *)
(*                                                                         *)
(* A state is named by the probe that made it and its configuration; its   *)
(* subcommands are left out (DynFormat models how they are parsed), and    *)
(* each configuration has one value.  CommandLink models the commands: one *)
(* step here, since they run under the command mutex.  What it shows of    *)
(* late answers is kept: a command may take the answer to an earlier one   *)
(* that its caller no longer waits for, and then leaves its own behind.    *)
(***************************************************************************)
EXTENDS Naturals

CONSTANTS Request,      \* goroutines that serve HTTP requests
          Value,        \* values of a configuration
          Nothing,      \* no value cached
          NoLine,       \* an empty list cached: an OK without a line of the configuration
          Configs,      \* number of configurations (4)
          Attempts,     \* attempts to probe a configuration (3)
          MaxConnects,  \* bound on the connections
          MaxFailures   \* bound on the commands that fail while connected

ASSUME DynConfigAssumption ==
  /\ Nothing \notin Value /\ NoLine \notin Value \cup {Nothing}
  /\ {Configs, Attempts} \subseteq Nat \ {0}
  /\ {MaxConnects, MaxFailures} \subseteq Nat

Config == 1 .. Configs
Probe  == 1 .. MaxConnects
Setting == Config \X Value

VARIABLES
  \* the modem
  held,        \* the value of each configuration
  conn,        \* the connection there is, or 0
  connects, failures,
  late,        \* answers to queries that nobody waits for, which this connection may yet bring
  unmade,      \* sets that nobody waits for, which the modem may yet carry out
  \* handleClientConnect
  at,          \* where each probe stands
  config,      \* the configuration it probes
  tries,       \* the attempts it made before
  found,       \* the configurations in its map
  \* the daemon
  installed,   \* the probe whose map is dynConfigsState, or 0
  values,      \* what each state caches
  \* the requests
  pc, target, arg, state, answer,
  \* history, read by the properties alone
  lone,        \* the requests that set, while no other command, outstanding ones included,
               \* touched the target's value, nor anything the map from the query on
  overtaken    \* an older probe installed its map over a newer one

linkVars    == <<late, unmade>>
modemVars   == <<held, conn, connects, failures, linkVars>>
probeVars   == <<at, config, tries, found>>
requestVars == <<pc, target, arg, state, answer>>
vars == <<modemVars, probeVars, installed, values, requestVars, lone, overtaken>>

TypeOK ==
  /\ held \in [Config -> Value]
  /\ conn \in {0, connects}
  /\ connects \in 0 .. MaxConnects /\ failures \in 0 .. MaxFailures
  /\ late \subseteq Setting /\ unmade \subseteq Setting
  /\ at \in [Probe -> {"off", "probe", "install", "done"}]
  /\ config \in [Probe -> Config]
  /\ tries \in [Probe -> 0 .. Attempts - 1]
  /\ found \in [Probe -> SUBSET Config]
  /\ installed \in {0} \cup {k \in Probe : at[k] = "done"}
  /\ values \in [Probe -> [Config -> Value \cup {Nothing, NoLine}]]
  /\ pc \in [Request -> {"idle", "set", "find", "query", "store"}]
  /\ target \in [Request -> Config]
  /\ arg \in [Request -> Value \cup {Nothing}]
  /\ state \in [Request -> Probe \cup {0}]
  /\ answer \in [Request -> Value \cup {Nothing, NoLine}]
  /\ lone \in SUBSET Request /\ overtaken \in BOOLEAN

Init ==
  /\ held \in [Config -> Value]
  /\ conn = 0 /\ connects = 0 /\ failures = 0
  /\ late = {} /\ unmade = {}
  /\ at = [k \in Probe |-> "off"]
  /\ config = [k \in Probe |-> 1]
  /\ tries = [k \in Probe |-> 0]
  /\ found = [k \in Probe |-> {}]
  /\ installed = 0
  /\ values = [k \in Probe |-> [c \in Config |-> Nothing]]
  /\ pc = [r \in Request |-> "idle"]
  /\ target = [r \in Request |-> 1]
  /\ arg = [r \in Request |-> Nothing]
  /\ state = [r \in Request |-> 0]
  /\ answer = [r \in Request |-> Nothing]
  /\ lone = {}
  /\ overtaken = FALSE

\* A command fails while there is no connection, and sometimes while there is.
CommandFails ==
  /\ \/ conn = 0 /\ UNCHANGED failures
     \/ conn # 0 /\ failures < MaxFailures /\ failures' = failures + 1
  /\ UNCHANGED <<conn, connects>>

CommandAnswered == conn # 0 /\ UNCHANGED <<conn, connects, failures>>

\* Its own answer comes after those to all commands before it.
OwnAnswer == CommandAnswered /\ unmade = {} /\ unmade' = {} /\ late' = {}

\* The answers that may come to a query of c that nobody waits for.
LeftQuery(c) == {a \in Setting : a[1] = c /\ (a[2] = held[c] \/ a \in unmade)}

\* The modem carries out, or refuses, a set whose caller has gone on.
Obey ==
  /\ \E s \in unmade :
       /\ unmade' = unmade \ {s}
       /\ held' \in {held, [held EXCEPT ![s[1]] = s[2]]}
  /\ UNCHANGED <<conn, connects, failures, late, probeVars, installed, values, requestVars, lone, overtaken>>

-----------------------------------------------------------------------------
(* Connections, and handleClientConnect *)

Connect ==
  /\ conn = 0 /\ connects < MaxConnects
  /\ connects' = connects + 1
  /\ conn' = connects'
  /\ at' = [at EXCEPT ![conn'] = "probe"]
  /\ UNCHANGED <<held, failures, linkVars, config, tries, found, installed, values, requestVars,
                 lone, overtaken>>

\* What the connection would still have brought is lost; a set may have arrived.
Drop ==
  /\ conn # 0 /\ connects < MaxConnects
  /\ conn' = 0
  /\ late' = {} /\ unmade' = {}
  /\ held' \in {h \in [Config -> Value] : \A c \in Config : h[c] = held[c] \/ <<c, h[c]>> \in unmade}
  /\ UNCHANGED <<connects, failures, probeVars, installed, values, requestVars, lone, overtaken>>

\* On to the next configuration, or to the end.
Proceed(k) ==
  /\ tries' = [tries EXCEPT ![k] = 0]
  /\ IF config[k] < Configs
     THEN config' = [config EXCEPT ![k] = @ + 1] /\ UNCHANGED at
     ELSE at' = [at EXCEPT ![k] = "install"] /\ UNCHANGED config

\* An answer, also ERROR: that is a state without subcommands.
ProbeAnswered(k) ==
  /\ at[k] = "probe" /\ CommandAnswered
  /\ found' = [found EXCEPT ![k] = @ \cup {config[k]}]
  /\ Proceed(k)
  /\ UNCHANGED <<held, linkVars, installed, values, requestVars, lone, overtaken>>

\* Fault variant: one attempt fewer.
ProbeGivesUp(k) ==
  /\ at[k] = "probe" /\ CommandFails
  /\ IF tries[k] + 1 < Attempts - 1
     THEN tries' = [tries EXCEPT ![k] = @ + 1] /\ UNCHANGED <<at, config>>
     ELSE Proceed(k)
  /\ UNCHANGED <<held, linkVars, found, installed, values, requestVars, lone, overtaken>>

\* Fault variant: the attempts are counted past their end.
ProbeCounts(k) ==
  /\ at[k] = "probe" /\ CommandFails
  /\ tries' = [tries EXCEPT ![k] = @ + 1]
  /\ UNCHANGED <<held, linkVars, at, config, found, installed, values, requestVars, lone, overtaken>>

\* After the last attempt the map goes without the configuration.
ProbeFails(k) ==
  /\ at[k] = "probe" /\ CommandFails
  /\ IF tries[k] + 1 < Attempts
     THEN tries' = [tries EXCEPT ![k] = @ + 1] /\ UNCHANGED <<at, config>>
     ELSE Proceed(k)
  /\ UNCHANGED <<held, linkVars, found, installed, values, requestVars, lone, overtaken>>

Install(k) ==
  /\ at[k] = "install"
  /\ at' = [at EXCEPT ![k] = "done"]
  /\ installed' = k
  /\ overtaken' = (overtaken \/ installed > k)
  /\ lone' = {r \in lone : pc[r] \in {"set", "find"}}
  /\ UNCHANGED <<modemVars, config, tries, found, values, requestVars>>

-----------------------------------------------------------------------------
(* QueryDynamicConfigValue and SetDynamicConfigValue *)

Goto(r, label) == pc' = [pc EXCEPT ![r] = label]

Leave(r) ==
  /\ Goto(r, "idle")
  /\ target' = [target EXCEPT ![r] = 1]
  /\ arg' = [arg EXCEPT ![r] = Nothing]
  /\ state' = [state EXCEPT ![r] = 0]
  /\ answer' = [answer EXCEPT ![r] = Nothing]

\* GetDynamicConfigState: a configuration without a state is an error.
Known(c) == installed # 0 /\ c \in found[installed]

\* The requests whose target's value the step of r touches are lone no more.
Touch(r)  == {s \in lone : s = r \/ target[s] # target[r]}
Forget(r) == Touch(r) \ {r}

BeginSet(r, c, v) ==
  /\ pc[r] = "idle" /\ Known(c)
  /\ Goto(r, "set")
  /\ target' = [target EXCEPT ![r] = c]
  /\ arg' = [arg EXCEPT ![r] = v]
  /\ state' = [state EXCEPT ![r] = installed]
  /\ lone' = IF /\ \A s \in Request \ {r} : pc[s] = "idle" \/ target[s] # c
                /\ \A a \in late : a[1] # c
             THEN lone \cup {r} ELSE lone
  /\ UNCHANGED <<modemVars, probeVars, installed, values, answer, overtaken>>

BeginQuery(r, c) ==
  /\ pc[r] = "idle" /\ Known(c)
  /\ Goto(r, "query")
  /\ target' = [target EXCEPT ![r] = c]
  /\ arg' = [arg EXCEPT ![r] = Nothing]
  /\ state' = [state EXCEPT ![r] = installed]
  /\ lone' = {s \in lone : target[s] # c}
  /\ UNCHANGED <<modemVars, probeVars, installed, values, answer, overtaken>>

\* The modem takes the value, or answers ERROR: the daemon goes on either way, also
\* with the answer to another command, before the modem has got to this one.
SendSet(r) ==
  /\ pc[r] = "set"
  /\ \/ OwnAnswer /\ held' \in {held, [held EXCEPT ![target[r]] = arg[r]]}
     \/ /\ CommandAnswered
        /\ unmade' = unmade \cup {<<target[r], arg[r]>>}
        /\ UNCHANGED <<held, late>>
  /\ lone' = Touch(r)
  /\ Goto(r, "find")
  /\ arg' = [arg EXCEPT ![r] = Nothing]                  \* not used any more
  /\ UNCHANGED <<probeVars, installed, values, target, state, answer, overtaken>>

\* The connection was lost, with the command or after it, or the answer takes too long.
SetFails(r) ==
  /\ pc[r] = "set" /\ CommandFails
  /\ \/ /\ conn = 0
        /\ held' \in {held, [held EXCEPT ![target[r]] = arg[r]]}
        /\ UNCHANGED unmade
     \/ /\ conn # 0
        /\ unmade' = unmade \cup {<<target[r], arg[r]>>}
        /\ UNCHANGED held
  /\ lone' = Forget(r)
  /\ Leave(r)
  /\ UNCHANGED <<late, probeVars, installed, values, overtaken>>

\* Fault variant: the query uses the state that the call began with.
KeepState(r) ==
  /\ pc[r] = "find"
  /\ Goto(r, "query")
  /\ UNCHANGED <<modemVars, probeVars, installed, values, target, arg, state, answer, lone, overtaken>>

\* The query after a set looks the state up again.
FindState(r) ==
  /\ pc[r] = "find"
  /\ IF Known(target[r])
     THEN /\ state' = [state EXCEPT ![r] = installed]
          /\ Goto(r, "query")
          /\ UNCHANGED <<target, arg, answer, lone>>
     ELSE Leave(r) /\ lone' = lone \ {r}
  /\ UNCHANGED <<modemVars, probeVars, installed, values, overtaken>>

\* An OK, with the line of the configuration or without one, makes a list to cache.
Read(r, v) ==
  /\ answer' = [answer EXCEPT ![r] = v]
  /\ Goto(r, "store")
  /\ UNCHANGED <<target, arg, state, lone>>

\* ERROR: nothing is cached.
Refuse(r) == Leave(r) /\ lone' = lone \ {r}

\* The query's own answer, or one to an earlier command: an earlier query of the
\* configuration, or anything else, without a line that has its prefix.
SendQuery(r) ==
  /\ pc[r] = "query"
  /\ \/ OwnAnswer /\ (Read(r, held[target[r]]) \/ Refuse(r))
     \/ /\ CommandAnswered
        /\ \/ \E a \in late : a[1] = target[r] /\ Read(r, a[2])
           \/ Read(r, NoLine)
           \/ Refuse(r)
        /\ late' = late \cup LeftQuery(target[r])
        /\ UNCHANGED unmade
  /\ UNCHANGED <<held, probeVars, installed, values, overtaken>>

\* After a timeout the answer may still come.
QueryFails(r) ==
  /\ pc[r] = "query" /\ CommandFails
  /\ late' = IF conn = 0 THEN late ELSE late \cup LeftQuery(target[r])
  /\ Refuse(r)
  /\ UNCHANGED <<held, unmade, probeVars, installed, values, overtaken>>

\* SetValue, in the state found before the query, and the return.
Store(r) ==
  /\ pc[r] = "store"
  /\ values' = [values EXCEPT ![state[r]][target[r]] = answer[r]]
  /\ lone' = Forget(r)
  /\ Leave(r)
  /\ UNCHANGED <<modemVars, probeVars, installed, overtaken>>

Next ==
  \/ Connect \/ Drop \/ Obey
  \/ \E k \in Probe : ProbeAnswered(k) \/ ProbeFails(k) \/ Install(k)
  \/ \E r \in Request :
       \/ \E c \in Config : BeginQuery(r, c) \/ \E v \in Value : BeginSet(r, c, v)
       \/ SendSet(r) \/ SetFails(r) \/ FindState(r) \/ SendQuery(r) \/ QueryFails(r) \/ Store(r)

\* The modem lets the client connect, and every command has a timeout: the
\* goroutines that probe go on.
Spec ==
  /\ Init /\ [][Next]_vars
  /\ WF_vars(Connect)
  /\ \A k \in Probe : WF_vars(ProbeAnswered(k) \/ ProbeFails(k) \/ Install(k))

-----------------------------------------------------------------------------
(* Properties *)

\* "Auto-query the new value to update cache" (daemon.go:418): a set that no other
\* request, nor a late answer of its own configuration, crossed leaves in the map there
\* is when it returns the value that the modem has by then, also when it refused the
\* set, and although a reconnect may have replaced the map while the set ran; or it
\* leaves an empty list, when the query took the OK to another command (daemon.go:372,
\* 402), and never an older value.  A map replaced between the query and its end
\* is lost with its value (daemon.go:402), which the definition of lone excepts.
LoneSetIsCached ==
  [][\A r \in Request :
       r \in lone /\ pc[r] = "store" /\ pc'[r] = "idle" =>
         values'[installed'][target[r]] \in {held[target[r]], NoLine}]_vars

\* Unless an older probe overtakes a newer one, a probe survives the failures
\* that its attempts allow for, on whichever connection, and every
\* configuration ends up with a state (daemon.go:320, 338).
LoadedUnlessOvertaken == <>overtaken \/ <>[](\A c \in Config : Known(c))
=============================================================================
