# A verification model of rgmiid

rgmiid (`src/`) keeps one TCP connection to a Quectel modem's AT port, sends AT
commands over it for a web interface, an MQTT publisher and its own poll loop,
and sends and reads SMS messages. This directory holds TLA+ models of that
program, the TLC configurations that check them on small instances, and proofs
that TLAPS checks for every instance.

## The system

| Part | State it keeps | Operations | Hard behaviour |
|---|---|---|---|
| Client, `client/client.go` | the current `Session` (connection, `responseChan`, `disconnectChan`), `cmdMu`, `activeInteractive` | `reconnectLoop`, `readerLoop`, `SendCommand`, `SendRawCommand`, `StartInteractive`, `Write`, `WriteCmd`, `ReadFrame`, `Close` | callers, the reader, the idle timer, reconnects and shutdown interleave; answers arrive late |
| Framing, `client/client.go:160-236` | the receive buffer of one connection | parse, resynchronise | TCP cuts the stream anywhere |
| Daemon, `daemon/daemon.go` | `cmdMutex`, the cached `ModemStatus`, the dynamic configuration, the callbacks | `SendCommand...`, `StartInteractive`, `PollAll`, `PollSMSOnly`, `SetAPN`, `DeleteSMS`, `SendSMS`, `QueryDynamicConfigValue`, `SetDynamicConfigValue`, `handleClientConnect` | a poll takes many turns of the mutex; its result replaces a cache others update |
| Commands, `commands/*.go` | none | one parser per AT command; SMS encoding, decoding, merging, sending, deletion | multi-part messages, index reuse, septet packing |
| Web sessions, `web/session.go` | the session map and its file | create, destroy, validate, clean up, load, save | concurrent saves, failing file operations, crashes, expiry |
| Web server, `web/server.go` and handlers | the HTTP server | routes | shutdown during start |
| MQTT, `mqtt/mqtt.go` | `lastStatus`, `discoveryPublished`, the connection | connect with retries, publish discovery and state, disconnect | the library's callbacks run in goroutines of their own |
| Wiring, `main.go` | configuration | start, shut down | order of the shutdown |

The web handlers, the poll loop, the connect callback and the configuration
probes are *callers* of the daemon. A caller holds `Daemon.cmdMutex` for one
*operation*: a command (`SendCommandWithTimeout`) or an interactive session
(`StartInteractive` to `Close`, used only by `commands.SendSMS`, one session for
each SMS part). Inside it the client takes `Client.cmdMu`. The reader goroutine
of the current connection hands frames to `responseChan`, where the operation
picks them up; nothing ties a frame to the request it answers. `reconnectLoop`
replaces the connection and closes the interactive session that was using it;
the idle timer of that session may close it too.

What makes each part correct is listed as hazards in `PROJECT.json`, each at the
line where it bites, with the properties that cover it.

## Modules

| Module | Models | Role |
|---|---|---|
| `SerialLink` | what `daemon.go:23` promises | abstract specification: operations take turns, transmit only in their turn, and end with one result |
| `CommandLink` | `client/client.go`, the mutex of `daemon/daemon.go`, one part of `SendSMS` | detailed specification |
| `CommandLinkInv` | | its inductive invariant |
| `CommandLinkProofs` | | theorems and proofs |
| `MCCommandLink` | | instances for TLC |
| `SessionStore` | `web/session.go`, the cleanup goroutine of `web/server.go` | the session map and its file |
| `SessionStoreProofs` | | its inductive invariant, theorems and proofs |
| `MCSessionStore` | | instances for TLC |
| `StatusCache` | the cached status of `daemon/daemon.go`, its polls, `SetAPN`, `DeleteSMS`, the callbacks | the modem, what the daemon believes of it, and what it publishes |
| `StatusCacheProofs` | | its inductive invariant, theorems and proofs |
| `MCStatusCache` | | instances for TLC |
| `SmsSend` | `SendSMS` in `commands/sms.go` | a message of several parts over the turns of `CommandLink`, and the modem's prompt and message format |
| `SmsSendProofs` | | its inductive invariant, theorems and proofs |
| `SmsCodec` | the encoder, parser and list of `commands/sms.go` | operators: what a text goes through |
| `FrameReader` | the parser in `readerLoop` | operators: what the bytes of a connection become |
| `DynFormat` | `ParseSubcommandFormat` in `commands/dynamic_config.go` | operators |
| `Formats` | | looks at samples for the three modules above |
| `FormatsProofs` | | what `FrameReader` computes for every stream, `DynFormat` for every description and `SmsCodec` for every text and number: lemmas, theorems and proofs |
| `MCSmsSend` | | `SmsSend` and `Formats` for TLC |
| `DynConfig`, `MCDynConfig` | the dynamic configurations of `daemon/daemon.go` | probes of several connections, queries and sets |
| `DynConfigProofs` | | its inductive invariant, theorems and proofs |
| `MqttPublisher`, `MCMqttPublisher` | `mqtt/mqtt.go` | what the subscribers are told |
| `MqttPublisherProofs` | | its inductive invariant, theorems and proofs |
| `Program`, `MCProgram` | `main.go`, the start and shutdown in `web/server.go`, the poll loop | composes what `main` starts |
| `ProgramProofs` | | its inductive invariant, theorems and proofs |

The modules abstract each other: `CommandLink` takes the frames that
`FrameReader` delivers, `SmsSend`, `StatusCache` and `DynConfig` take a command or
an exchange under the mutex as a few steps where `CommandLink` has many, `Program`
takes a poll or a request as a number of commands, and `MqttPublisher` takes a
finished poll as the start of a callback.

### CommandLink

Operations are numbered in the order they obtain `cmdMutex`, sessions in the
order they are dialled. `pc[c]` is the place of a caller in
`SendCommandWithTimeout`/`sendCommand` (`kind[c] = "cmd"`) or in
`StartInteractive` and the loop body of `SendSMS` (`"sms"`); every place is a
point where another goroutine can run: before each lock, at each turn of the
drain loop, before each write, at each `select`, between the two halves of
`Close`. `cmdMutex`, `cmdMu` and `activeInteractive` hold an operation's number,
so that a release by the wrong goroutine shows. `closeOnce[o]` is the
`sync.Once` of the interactive session of `o`: a second caller of `Close` waits
until the first has finished, as `Once.Do` does. `loop` is the place of
`reconnectLoop`, which runs `readerLoop` in the place `"read"`.

A request written to a connection that is up adds the modem's answer to
`pending`; the reader moves it frame by frame to `responseChan`, or drops it when
the buffer is full. A frame carries the operation it answers, which the code
cannot see and the properties can. The modem may stay silent, answer with an
error, or cut an answer short. A write to a connection the peer has left
succeeds and is lost; a write may also fail at its deadline. A timer may fire at
any moment after it was armed, so all the timeouts of the code, whatever their
length, are one action for each wait (`TimesOut`) and one for the idle timer
(`IdleFires`). The cancellation of the context, the goroutine at
`client.go:89` and the end of the loop are modelled.

The definitions named as faults (`CloseNotOnce`, `DrainSkipped`, ...) stand for
mistakes the code does not make; each is a variant of the definition after it,
and shows that a property notices the mistake. They are part of no
specification.

### SessionStore

A process is a goroutine that serves an HTTP request, or the cleanup goroutine.
`pc[p]` is its place in `createSession`, `destroySession`, `isSessionValid` or
`startSessionCleanup` and in the `saveSessions` they call; `change[p]` is what it
adds to the map or removes from it. A critical section of `sessMutex` never
blocks, so it is one step: the insertion, the deletion, the look-up (whose
comparison with the clock is a later step, as in the code) and the snapshot that
`json.Marshal` takes. `saveMutex` is held across the file operations:
`os.WriteFile` to the temporary file truncates and then fills it, `os.Rename`
replaces `sessions.json`; each of them and `os.MkdirAll` may fail, which the code
logs and otherwise ignores, so the request goes on to its answer. `Crash` may
strike between any two steps and keeps only the two files (a torn or missing
file reads as an empty map); `LoadSessions` is the start of the next server,
which drops what has expired. `LoadFails` is a start that cannot read or parse
`sessions.json`: it logs that, begins with an empty map and leaves the file to the
next save, which writes it anew. `MaxFailures` bounds the reads and writes that
fail. A graceful shutdown saves nothing and is no different.

`expiryOf`, `durable`, `forgotten` and `destroyed` are history: when a session ends,
whether its creation was saved without an error, whether it was in the file when a
start could not read it, and how far its removal got. Clients
present only cookies they were given; a session ID is a fresh UUID, so an
identifier is created once. Requests without a cookie, without a session behind
it, or with wrong credentials change nothing and are left out, and so is a
server without a data directory, where `saveSessions` returns at once.

### StatusCache

The modem is its connection, the messages in the slots of its SMS storage and one
APN; a message of two segments takes the two lowest free slots. The
processes are the poll loop of `Daemon.Start` and the goroutines of HTTP
requests, which poll (`handleRefresh`), send (of which only the SMS poll that
follows matters here), delete messages and set the APN. A poll is one step for
each command it sends and one that installs the result, so that anything can
happen to the modem and to the cache between them; a command is one step,
`CommandLink` being the model of the exchange behind it. A command can fail, be
refused with `ERROR` (which `sendCommand` returns without an error, so that
`SetAPN` caches a refused APN, a refused deletion counts as done, and a refused
`AT+CMGL` as an empty list) or lose its answer after the modem obeyed.
A critical section of `statusMutex` never blocks and is one step.
What a command returns is the answer to it: a late `OK` of an earlier command,
which `CommandLinkStale` shows, could let a delete return before the modem has
carried it out, and is left to that model, so `DeleteIsExact` speaks of deletes
whose commands got their own answers.
`notifyCallbacks` starts a goroutine with a copy of the status; the goroutines of
different processes run in any order, and the model keeps at most one for each
process.

The merge in `SMSList.ParseResponse` joins neighbours in the list; the model
takes messages whose sender or time differ, for which the merge tells segments of
different messages apart. `chosen`, `before` and `shown` are history: the message a
delete is about (if it has been listed), the storage when it began (as long as
nobody else changes it and the list was right), and the messages ever listed.

The time stamps, the SMS capacity and the other fields of the status are data
polled and installed in the same steps and left out.

### SmsSend

`pc[c]` is the place of a sender in `SendSMS`; one turn of the mutex is one
exchange, and between turns `OtherCommand` lets any other caller set either
message format or ask for a description, the kind of answer that contains a
`>`. The modem takes requests in order but at any time (`Obey`, `Refuse`,
`Swallow`, `Finish`), answers in frames, and after `AT+CMGS` takes the next thing
it is sent for the message, whatever that is (`asked`, `typed`). A read may time
out at any moment (`Fail`, `OtherFails`); its answer may come later, into the
inbox of another turn. A drop loses every answer and, of the requests on their way,
all behind the first n, for any n; those n reach the modem, each of them whole, which
obeys them unheard. Half a request is left out, as in `CommandLink`.

`accepted` is what the modem has really sent, and `garbled`, `misled`, `abandoned`
and `disturbed` say which of the ways the exchange can go wrong has happened: a
PDU sent as text, a `>` of another command taken for the prompt, a part whose sender
gave up its prompt or lost its connection, a caller (or an `AT+CMGF=0` that was refused
or lost) that left text mode on. The properties except exactly these, and
`PromptIsServed` part by part: that one sender gave up excuses no other prompt.

### SmsCodec, FrameReader, DynFormat

These are translations of sequential code into folds over sequences, checked
against what they should do: the text that the parts decode to is the text that
was sent; the modem's own copy reads back with number and text; the frames do
not depend on how the stream is cut; the arguments are the stretches between the
commas that separate, said without the loop. `Formats` is a state machine with one
variable, `sample`, that moves from `None` to any one sample of the input, so that
what holds in all states holds for all samples. Characters and bytes that the
code treats alike are represented by one of them. A date is a natural number of
seconds, or a negative number for a string that `parseSMSDate` refuses (the modem's
own copies of sent messages have no date): such dates are compared as strings, and
sort behind all others by their index.

### DynConfig

`at[k]`, `config[k]`, `tries[k]` are the place of the goroutine
`handleClientConnect` that connection `k` started; `found[k]` is the map it
builds; `installed` is whose map `dynConfigsState` points to. A request keeps the
state it looked up in `state[r]` across its commands.

A command is one step, but what `CommandLinkStale` shows of the exchange is kept: a
command may take the answer to an earlier one. A set may then go on before the modem
carries it out (`unmade`, `Obey`), and a query may get what an earlier query of the
same configuration was answered (`late`), or an `OK` or `ERROR` of another command. An
`OK` without a line of the configuration makes an empty list, `NoLine`, which the code
caches and reports as a success (`daemon.go:372`, `402`). An answer that is its own
comes after all those before it (`OwnAnswer`), and a drop ends all of this.

`lone` and `overtaken` are history: a set that no other command of the same
configuration crossed, not even one whose answer was still to come, and an older probe
that installed its map over a newer one. What `LoneSetIsCached` says of a lone set is
that the map in force holds the modem's value when it returns, or an empty list;
never an older value.

### MqttPublisher

`at[g]` is the place of a goroutine in `PublishStatus` or in the `OnConnect`
handler. The critical sections of `Client.mu` are one step each, every
announcement of a sensor is one, the state is one. The broker keeps `config`
(retained) and the subscribers have seen `state`. A publish without a connection
is lost. The library's automatic reconnect, its `OnConnect` call and the broker
are external.

### Program

`main` goes through connecting, starting, waiting and shutting down; `server` is
where `Server.Start` stands in its own goroutine; each worker (the poll loop, the
requests) sends a few commands, each under `cmdMutex`. `"missed"` is the server
whose `httpServer` was not assigned when `Shutdown` looked for it: it starts to
listen afterwards.

## Runs

| Run | Bounds | Question |
|---|---|---|
| `CommandLinkSafety` | 2 callers, 2 operations, 2 connections, buffer 2, answers of 2 frames | types, lock discipline, registration, freshness of answers, no answer across a reconnect, no unearned SMS confirmation, room in the buffer, contiguity on the wire, refinement of `SerialLink` |
| `CommandLinkReturns` | 2 callers, 2 operations, 1 connection, answers of 1 frame | every call returns |
| `CommandLinkDrop` | 1 caller, 2 operations, 2 connections | a drop closes the interactive session and wakes the caller |
| `CommandLinkStale` | 2 callers, 2 operations | *violated*: a call can return the answer of another |
| `CommandLinkCancel` | 1 caller, 1 operation | *violated*: a cancellation at the wrong moment leaves the reader blocked |
| `SessionStoreProgress` | 2 sessions, 1 request and the cleanup, clock to 2, 1 failing file operation (a write, or the read of a start), 1 crash | a removed session stays removed, a saved login survives unless a start could not read it, no save is lost, every request ends, expired sessions are forgotten |
| `StatusCacheProgress` | 3 slots, 2 messages (one of 2 segments), 1 APN, 1 request and the poll loop, 2 changes of the modem, 1 failing command | an undisturbed delete removes the listed message and nothing else; the cache and what is published become right |
| `StatusCacheSegments` | the same | *violated*: a delete can leave segments of a message behind |
| `SmsSendExchange` | 2 senders, messages of up to 2 parts, 2 other commands, 1 refusal, 1 drop that loses any of the requests on their way; streams of up to 5 bytes, descriptions of up to 5 characters, texts of up to 11, with and without dates | success means sent, an error leaves a prefix, prompts are served, PDU mode holds; the samples of `Formats` |
| `DynConfigRun` | 2 requests, 2 values, 1 configuration, 3 attempts, 2 connections, 2 failing commands, late answers | a lone set leaves in the map in force what the modem holds, or an empty list; the configurations end up loaded |
| `MqttPublisherRun` | 2 callbacks, 2 connections, 2 sensors, 1 change of the modem | no sensor of a status that was seen is forgotten; the subscribers end up with the daemon's status and every sensor |
| `ProgramLifetime` | 2 requests, 2 commands each | the program ends; it does not end in the middle of a request |

Two operations are enough for one to be late and the next to suffer, for an
idle timer of the first to fire during the second, and for two callers to
compete for the mutex; two connections for a reconnect between or within
operations; a buffer as long as an answer for the buffer to be full exactly when
stale frames are left in it. Deadlock is checked in every run: the only state
without another step is the program shut down with no call under way, which
`AllQuiet` repeats. `BeyondBound` ends calls made after the last operation; it
is the one action that is not in the code.

The liveness runs assume no more than each property needs.
`EveryCallReturns` assumes that runnable callers run, that a waiter of
`cmdMutex` is not overtaken forever (Go's mutex enters starvation mode after
1 ms), that timers fire, and that a `Close` that has begun ends; it assumes
nothing of the modem, the network or `reconnectLoop`. `DropWakesCaller` drops
the timers and asks instead that `reconnectLoop` runs; `DropClosesInteractive`
does not even assume that the callers run.

For `SessionStore`, a request and the cleanup are two goroutines for one
`saveMutex`; two sessions make a save carry a change of somebody else; a session
lives one unit of a clock that goes to 2, so that both can expire at different
times while others are saved. `FileCatchesUp` speaks of the runs without a failing
file operation, reads included, which TLC reaches in the same instance. The run assumes that
goroutines run, that a waiter of `saveMutex` is not overtaken forever and that the
ticker ticks; the clock itself may stop. What more processes could do to the
safety properties is covered by the proofs.

For `StatusCache`, three slots let a message of two segments have a neighbour on
either side, an innocent one. Its own two segments always lie next to each other
here: to split them takes a third message (the proof of `Deletion` is for any
storage and any messages). A second request would only
disturb the delete, which the property excludes; the poll loop already competes
for the cache. Two changes let the connection drop and come back in the middle of
anything. The run assumes that the poll loop goes on, that commands end (they have
timeouts: `EveryCallReturns`) and that a started callback runs. The modem may stop
changing, or change as long as the bound allows; "after the last change" is what
the liveness property speaks of.

For `SmsSend`, two parts are a first and a later one, two senders compete for
every turn, and two other commands suffice to switch the mode and to leave a `>`
behind. The two senders are symmetric. Deadlock is not checked there: the calls
end, and a sample has no successor. The sizes of the codec are small (10 and 9
septets, 3 and 2 UTF-16 units, 5 and 4 octets of 8-bit data instead of 160, 153, 70,
67, 140 and 134) so that the boundary
of the parts falls on every place of every text; they keep what matters, a full
part of 7-bit text filling whole octets (9 + 7 septets), two full parts of UTF-16
text as long as one of 8-bit data (the code's 67 + 67 is 134), and three of them as
long as no size. `MaxPayload` is the code's.

For `DynConfig`, one configuration is what a set and a query are about (an answer
to a command of another configuration is one without a line), two
connections are an older and a newer probe, and the two failing commands are one
fewer than the attempts: with three a probe may rightly give up. It assumes
that a probe goes on (each command has a timeout) and that the modem lets the client
connect again; the last connection stays. Deadlock is not checked: with all
requests idle and no map to look in, nothing more need happen.

For `MqttPublisher`, `Callback` are the callbacks that may overlap; two
suffice for an older one to end last. It assumes that goroutines run, that
polls go on, and that a broker that is there lets the client connect; its two
liveness properties except a run that is cancelled. For `Program`, `SF_vars(StopLoop)` says
that a `select` with both a tick and the cancellation ready does not choose the
tick for ever, and the strong fairness of `LockCmd` that Go's mutex starves nobody.

## What the checks found

* `client.go:271` discards "stale messages" before a request is written, but only
  those already buffered. After a timeout, an answer that is read later is given
  to the next operation (`CommandLinkStale`). `FreshAnswers` and
  `ConfirmedMeansAccepted` say what remains true: an operation that began with
  nothing outstanding is not affected.
* The goroutine at `client.go:89` runs once. If it runs between the dial and
  `client.go:123`, it finds no session, and the reader of the new connection is
  not woken (`CommandLinkCancel`).
* `DeleteSMS` looks up the segments of a message in the cached list
  (`daemon.go:294`). A full poll that listed the messages earlier may install its
  list after an SMS poll has shown a new message; a delete of that message then
  removes its first segment only and reports success (`StatusCacheSegments`).
* What a restart may bring back is limited to what a save failed to record, or to
  a crash before the save: the answer to a logout is sent even when its save
  failed (`session.go:89`). `DestroyedStaysDestroyed` says what holds in every case.
* A start that cannot read or parse `sessions.json` goes on with no sessions
  (`session.go:208`, `214`), and its next save replaces the file: logins that were on
  disk are lost although every save succeeded. `CreatedSurvives` excepts exactly
  the sessions that such a start found in the file (`forgotten`).
* `SendSMS` takes any frame with a `>` for its prompt (`sms.go:211`). The late
  answer to a query such as `AT+QMAP=?` contains one, so the PDU can be sent to a
  modem that has not asked for it, and an `OK` then reads as a confirmation: the
  call can report a message as sent that was not. `SentMeansAccepted` excepts it
  (`misled`); `AT+CMGF=1` from another caller between the turns is the other
  exception (`garbled`).
* `OnConnect` announces whatever status came last (`mqtt.go:76`), also one without
  model and SIM state, for which `PublishStatus` waits (comment at `mqtt.go:133`);
  and of two goroutines that announce at the same time the older may be last.
* A probe that ran while the modem was away can install its map after the newer
  one has installed a full one (`daemon.go:338`); it stays until the next connect.
* An `AT+CMGF=0` that is lost with the connection can seem to have succeeded: an `OK`
  that an earlier command left answers it, and the PDU goes out in the mode the modem
  was in. A PDU lost after the prompt leaves the modem waiting for it until the next
  command ends the text. `PduModeHolds` and `PromptIsServed` except both.
* A set whose command the modem answers with `ERROR` goes on to the query and
  reports its success (`daemon.go:413`).
* An `OK` that holds no line of the configuration, such as the late one of another
  command, is cached as an empty list and reported as success
  (`daemon.go:372`, `402`); `LoneSetIsCached` excepts it (`NoLine`).
* A character with two codes (`€`, an emoji) at the boundary of two parts is cut
  (`sms.go:779`, `843`), which a phone that joins the parts first does not show
  but `DecodeUserData` of each part does; a part with such characters has fewer
  characters than a full segment, so the list does not join it with the next
  (`sms.go:1050`). The other way round, two messages of one sender within five
  seconds are joined when the first has the length of a full segment; the list
  cannot tell them apart, and `LongMessageIsListedOnce` has a neighbour of another
  sender.

## What is proved

`CommandLinkProofs` proves for every set of callers, every number of operations
and connections, every buffer capacity and every bound on the length of answers
that `Spec` keeps the invariant `IInv` of `CommandLinkInv`, and from it

* `TypeCorrectness`, `LockDiscipline`, `RegistrationIsCurrent`,
* `AnswersAreFresh`, `AnswersStay`, `ConfirmationIsEarned`,
* `SerialExecution` (contiguity on the wire, an action property),
* `Implementation`: `Spec => Link!LinkSpec`, the refinement of `SerialLink`.

The only assumption is `BoundsAssumption` (the bounds are natural numbers, the
buffer holds a frame). None of the safety properties is inductive alone. That
no goroutine unlocks what it does not hold rests on `Turn` (one operation has
the turn, `cmdMu` is its or free), `Places` (what each place of a call knows of
`cmdMu` and of its interactive session) and `Interactive` (a session that is not
closed belongs to the operation whose turn it is, so an idle timer that fires
late finds a closed session). Freshness rests on `CleanQueues`: at the end of a
clean drain nothing is on its way to the session, and from then on only the
operation that holds the turn writes to it. That answers stay on their
connection rests on `Origin` and on `Starting`: an operation picks its session
once, before it consumes anything.

Steps are first classified by what they do to locks (one step of the proof for
each action) and, for the queues, by what they teach of an operation
(`HistoryCases`): a quiet step, the begin of a turn, the choice of a session,
the end of a drain, a write, a read or a failure.

The same module proves `RoomForAnswers` (`RoomForFreshAnswer`), with
`AnswerAssumption` (the length of an answer is a natural number). `IInv` says whose
the frames on a session are but not how many; `Fits` counts those ahead of each
frame of a clean operation, and `Clear` says that nothing comes between the end of
its drain and its write, and that the prompt is all there is of the answer to
`AT+CMGS`.

`SessionStoreProofs` proves for every set of sessions and requests, every
duration and every number of failures and crashes `TypeCorrectness`,
`Destruction` (`DestroyedStaysDestroyed`), `Survival` (`CreatedSurvives`) and
`Saved` (`FileCatchesUp`),
from `StoreAssumption`. None is inductive, because a file that is to be renamed
was marshalled earlier: `Snapshot` says that a snapshot taken under `saveMutex`
already has every change that was saved before and the change of its own process,
`Pending` that this change is still in memory, `Holder` that no second process
has a snapshot, and `Issued` that an identifier is never used for a second login.
What these say of a saved login they say of those that are not `forgotten`: after a
start that could not read the file the map is smaller than the file, and every
later save is right to say so.
There is one lemma for each conjunct, with a step for each action that can
disturb it.

`StatusCacheProofs` proves for every size of the storage, all messages, APNs and
requests `TypeCorrectness` and `Deletion` (`DeleteIsExact`), from
`CacheAssumption`. The property speaks of the end of a delete; `Deleting` says
what the storage looks like half-way, `Wanted` is what `TypeOK` lacks to be
inductive.

`SmsSendProofs` proves for every number of senders, parts, commands, refusals and
drops, from `SendAssumption`,

* `TypeCorrectness`, `PromptsServed` (`PromptIsServed`), `ModeHolds`
  (`PduModeHolds`),
* `SuccessIsDelivery` (`SentMeansAccepted`) and `FailureLeavesPrefix`
  (`ErrorLeavesPrefix`), from the invariance of `DInv`.

A prompt can be open, asked for or refused while nobody has seen it yet, so `Served`
follows it from the request on: every `AT+CMGS` of a part that is not abandoned has the
PDU of that part behind it, or is that of the sender whose turn it is and whose refusal
is not in the inbox. A drop keeps the first requests and abandons the parts whose PDU it
cuts off, so what it keeps is still paired. That the refused
one is the last request rests on `Once`, which needs `Counted` and `Asked`. `Fresh`
keeps the first `AT+CMGF=0` ahead of every `AT+CMGS` as long as the modem is in the
text mode it began in and no `AT+CMGF=0` was refused or lost.

What the network accepted of a message is a filtered sequence of parts. `DInv` says
at every moment that it is the first ones of them, and how many (`InParts`): as
many as its sender has finished, and one more between the network's acceptance and the
sender's reading of the `OK`. That the `OK` read is the answer to its own PDU follows
from `Prompted` (while a sender waits for its prompt its request is the last there
is), `Confirming` (then only its own request and PDU are under way) and `Refused` (no
`OK` answers an `AT+CMGS`). A `>` that is not the modem's prompt, or a change of mode,
breaks the chain, which is why both theorems except `misled` and `garbled`.

`FormatsProofs` proves of the parser in `readerLoop`, for every stream and not only
the samples,

* `SameFramesHoweverCut` and `CutsDoNotMatter`: the frames do not depend on how TCP
  cuts the stream, in two pieces or any number, also when it is corrupted;
* `FramesComeOutWhole`: frames with a legal length after noise that holds no header
  come out whole and in order;
* `ReaderRobustness`: hence `FormatsSpec => []ReaderIsRobust`.

They rest on `FrameReaderAssumption` and `FormatsAssumption`, and the last one on
`2 <= MaxPayload` (the code has 8192), because the samples hold payloads of two
bytes. The library's induction theorems cannot be used, so `Induction`
is derived for one set of numbers from its least element, and a fold is replaced by
the trace of its states (`TurnsTrace`, `ChunksTrace`). `FullRests` says that the
turns granted to the parser are enough to come to rest; `StepCommutes` that a step
on a buffer is a step on the buffer with more bytes behind it, up to the noise that
`Norm` takes away; `Continues` puts the two together.

Of `ParseSubcommandFormat` the module proves `DescriptionsAreSplitRight`, for every
description, and with it `FormatSplitting` (`FormatIsSplitRight`). The loop is a trace
too (`CharactersTrace`); after each of its turns `SoFar` holds: its three counters are
what the characters so far say of quotes and brackets (`Counts`), it is in the argument
behind the last separator, and has those between the separators before.
`CommaIsDropped` and `ParsedIs` are about what is trimmed before the loop.

Of `SmsCodec` it proves, for every text and number and all limits of a PDU and of a
part that satisfy `SmsCodecAssumption` (positive, a part no larger than a PDU; the code
has 160, 153, 70, 67, 140 and 134),

* `SeptetsSurvive`: unpacking gives back whatever septets were packed, also behind the
  six octets of a header and its bit of padding;
* `NumbersSurvive`: the digits of a number come back from its semi-octets;
* `MessagesReadBack`: a message that fits one PDU reads back from the modem's own
  storage, and `NumbersReadBack`: hence `FormatsSpec => []SubmitReadsBack`, if a PDU
  holds the longest text of these samples (`3 <= MaxSingle16`; the code has 70);
* `TextsArrive`: the parts of a text say it together unless a boundary cuts a
  character, and `SamplesArrive`: hence `FormatsSpec => []SentTextArrives`;
* `LongMessagesAreListedOnce`: a message whose parts arrive in time, or are all without
  a date, is one of the list, and `SamplesAreListedOnce`: hence `FormatsSpec => []LongMessageIsListedOnce`.

`InStep` carries the packing: an unpacking that has seen the same octets is even with
it, or the last septet is open, of which it has the low bits and the packing the rest;
`Flush` says what becomes of that septet at the end. A header leaves the unpacking
with six septets and six bits (`HeaderUnpacked`); the bit of padding makes them seven
septets, and then the two are in step. `Fields`
says where the fields of a PDU are, for any address, and `SubmitIsRead` that the
parser finds them. Of a split text, `EveryEnd` says that a boundary that cuts
no character is at the end of one; `Before` is how many characters the first parts
have, `PartsSay` that a part decodes to those between two
boundaries, and `TextsArrive` that these add up to the text. Of the list,
`Gathered` is the group after the first parts: their contents, in order, with their
indices; every part is full (`IsFull`) because without a character of two codes it
has as many characters as codes. The texts are sequences of the model's characters, so
these theorems speak of six of them, one for each kind of code that the encoder tells
apart (`Septets`, `Units`), and of all their sequences.

`DynConfigProofs` proves for all requests, values, connections and failures
`TypeCorrectness` and `Cached` (`LoneSetIsCached`), from `DynConfigAssumption`:
`Alone` says of a set that nothing has crossed that no other request of its
configuration is past its own set, that no answer to a query of it is still to come
until it has its own, which map it has, and that it was answered what the modem holds,
with no set outstanding that could change that, or an empty list.

`ProgramProofs` proves for every number of requests and commands `TypeCorrectness`
and `Service` (`RequestsAreServed`), from `ProgramAssumption`: `Explained` holds
from the end of `Shutdown` on, because only a server that listens gets requests
(`Quiet`), and after `Shutdown` none does except one that came late (`Serving`).

`MqttPublisherProofs` proves for every set of callbacks and sensors and every number
of connections and changes `TypeCorrect` and `SensorsRemembered`
(`NoSensorForgotten`), from `PublisherAssumption`. `Held` says that no callback
announces, and the flag is not set, before the client holds a status for the
goroutine of the next connection; `Handed` what a goroutine has been given, and that
one that is not announcing begins with the first sensor.

Every invariant and action property that a run checks is stated by a theorem.
Model-checked only are the liveness properties (`EveryCallReturns`, `CacheCatchesUp`,
`PublishedCatchesUp` and the like), which are beyond the prover.

## Not modelled, and the plan

Left out, with the reason:

* the AT parsers of `commands/` other than `IsTerminalResponse` (`service_cell.go`,
  `registration.go`, ...): each turns one text into fields, keeps no state, and has
  no property but its own definition;
* of `sms.go`, letters as a sender, the digits of the time stamp (only whether the
  date can be parsed is kept), UCS-2 in
  hexadecimal and the text-mode header: text, character by character;
* routes, templates, JSON, static files, flags and the environment;
* what the modem makes of half a frame or the phone of a reference number used
  twice: neither is in the repository.

What could be added: the frames of `FrameReader` as the `pending` of `CommandLink`.
