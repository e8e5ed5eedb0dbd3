# A TLA+ verification project for the WISE Agent

The WISE Agent (RMM agent) runs as a service on a device, keeps an MQTT session
with a management server, and lets handler plug-ins answer the server's requests
and report data. This directory holds TLA+ models of its core, the
configurations that TLC checks, and proofs that TLAPS checks. File names below
are relative to `src/`.

## 1. Inventory of the system

| part | state it keeps | operations | runs on | what makes it correct |
|---|---|---|---|---|
| `Platform/basequeue.c` | ring, two cursors, a mutex, two conditions | init, put, get, clear, uninit | the threads of its users | FIFO order; every record has one owner; a full ring refuses, an empty one returns NULL |
| `Library/SAClient/SAClient.c` (connection core) | `g_config`, `g_mosq`, `g_bConnected`, `g_bConnectOnce`, `g_bRetry`, `g_reconnThreadHandler` | initialize, uninitialize, connect, server_connect, disconnect, reconnect, publish, subscribe, three callbacks | API callers, a reconnect thread, the loop thread of mosquitto | one reconnect thread, one socket, a truthful session flag, nothing left behind by a disconnect, a session in the end |
| `Library3rdParty/mosquitto-1.3.4/lib` (client library, as far as the agent's threads meet it) | its state, its socket, its loop thread | disconnect, redial, CONNACK, loop, loop stop | loop thread, dialling and disconnecting threads | a loop thread that was told to end ends; one that was not redials |
| `Library/MQTTHelper/mqtthelper.c` | the callback pointers | connect, reconnect, disconnect, publish | as above | callbacks never reach a destroyed client |
| `Library/SAClient/eventqueue.c`, `smloader.c` | one-slot queue of status events, worker | push, clear, deliver, stop | pushing threads, event worker | events of the current server only; handlers learn the status |
| `Library/SAClient/msgqueue.c` | 1000-slot queue of messages, worker | push, clear, deliver, stop | loop thread, message worker | messages in order |
| `Library/SAClient/topic.c` | list of subscriptions | add, remove, find | loop thread, handler threads, message worker, API callers | what the broker sends finds its entry; an entry is not freed while used |
| `Library/SAManager` | configuration copy, handlers' topics | initialize, uninitialize, send, subscribe, server connect, status update | service thread, event and message workers, handler threads | topics are subscribed after a reconnection; threads end before what they use |
| `Library/SAManager/keepalive.c` | busy counters of handlers | poll, restart, feed the watchdog | keepalive thread | a handler restarts after three busy answers in a row |
| `Library/SAHandlerLoader` | list of handlers | load, start, stop, release | service thread, release threads; walked by three more | no walker is left when the list is freed |
| `Library/SAGeneralHandler` | update parameters, capability thread | server control, update start, stop, retry | message worker, update, monitor and capability threads | a stopped update leaves nothing in use |
| `Modules/ServerRedundancyHandler` | failure count, server list, place in it | status change, receive | event worker, message worker | a server that is down is given up for one that is up |
| `Application/CAgent` | connect thread | start, stop | service thread, connect thread | stop ends what start began |
| `Application/WatchdogL` | watched objects, message queues | start/stop watch, keepalive, restart | pipe thread, a watch thread per object | restarts exactly the services that stopped sending, and every one of them |
| `Platform/Linux/NamedPipe*.c` | the pipe and its callback | connect, send, read | keepalive thread, pipe thread | no message for the watch thread is overlooked |
| `Modules/IoTGWHandler` | sensor hubs | register a hub, connect all hubs | a thread per change to online, hub threads | the topic of each hub is heard |
| the other `Modules/*` | device data | report, control | a thread each | device input and output |

How the parts interact. The service initialises `SAClient`, and a thread of its
own calls `saclient_connect`. `SAClient` dials through `mqtthelper`; mosquitto's
loop thread calls back into `SAClient`, which sets the session flag, subscribes
the internal topics (`SAManager_InternalSubscribe`) and pushes a status record
into the event queue. The event worker hands each record to
`SAManager_UpdateConnectState`, which calls `Handler_OnStatusChange` of every
handler. The server redundancy handler may, *inside that call and so on the
event worker*, call `saclient_server_connect_config` for the next server.
Messages go by the message queue and its worker to the handlers, some of which
call the connection API again. Handlers may subscribe topics of their own, which
the manager keeps in a list and `SAClient` in another. Beside all that the agent's
keepalive thread polls the handlers and writes START, KEEPALIVE and STOP messages to a named pipe; a pipe
thread of the watchdog, another service, puts them into the queue of the watched
object, and the object's watch thread takes one per turn and runs the script that
stops and starts the agent's service when it falls silent.

What is hard here: none of the globals of `SAClient.c` has a lock; up to five
threads touch them; a call joins threads that push into queues only other
threads empty; both the program and the MQTT library retry; the library overwrites its own
state without a lock; the lists of topics and of handlers have none either; a stop joins
what may hang; records are dropped when a queue is full. `PROJECT.json` lists each
such hazard at its line with the property that covers it, or the reason there is none.

## 2. Modules

| module | models | notes |
|---|---|---|
| `BoundedFifo` | what the ring promises | abstract specification: put, get, clear on a sequence |
| `BaseQueue` | `basequeue.c` and the loops that use it | refines `BoundedFifo` |
| `BaseQueueProofs` | | invariant and refinement theorems |
| `SAClient` | `SAClient.c`, `mqtthelper.c`, the event queue and its worker, the state, socket and loop of the mosquitto client library | brokers are the environment | |
| `SAClientProofs` | | type and thread theorems |
| `SessionProofs` | | all other safety properties, for calls that do not overlap |
| `Failover` | `ServerRedundancyHandler.c` on top of `SAClient` | the event worker is one of the API callers |
| `FailoverProofs` | | the safety properties of `Failover` |
| `Subscriptions` | `topic.c`, `saclient_subscribe`, `saclient_on_recv`, the message queue and its worker, the sweep of `_disconnect`, the custom topics of `SAManager`, the threads of `IoTGWHandler` | the session is up or down |
| `SubscriptionsProofs` | | all its safety properties |
| `Handlers` | `SALoader.c`, `CheckHandlerStatus`, the walks of both workers and of the capability thread, start and end of `SAManager` | |
| `HandlersProofs` | | all its safety properties |
| `Watch` | `keepalive.c`, the named pipe, the watch thread of `SAWatchdog.c`, the service scripts | time in turns of the watch thread |
| `WatchProofs` | | types, that no message is overlooked, that no alarm is false |
| `MCBaseQueue`, `MCSAClient`, `MCSAClientStop`, `MCFailover`, `MCSubscriptions`, `MCHandlers`, `MCWatch` | instances for TLC | |

How they fit: `Failover` extends `SAClient`; `BaseQueue` is the ring under the
queues of `SAClient` and `Subscriptions`; `Subscriptions` takes from `SAClient`
only that a session opens on the loop thread, may be lost, and is ended by a call
that joins the loop thread; `Watch` takes from `Handlers` that a check of the
handlers may be late or block.

### BaseQueue

An action is one critical section of the queue's mutex. `pthread_cond_timedwait`
is given the deadline 0.5 s after the epoch, so a wait always ends: by the
timeout (`PutTimeout`, `GetTimeout`), or, since a signal or a spurious wake-up
may come first, by testing the ring again (`PutWake`, `GetWake`). The records
are malloc'd blocks: an address is free, held by one thread, or in one cell, and
an address that was freed can be allocated again. `Uninit` needs all threads
outside, as `evtqueue_uninit` and `msgqueue_uninit` join their worker and the
callers stop the pushing threads first; `Reinit` starts the queue's next life.

### SAClient

An API function is a *script*: the sequence of its statements that touch shared
state, with callees inlined (`UninitializeSteps` has a `quiesce` of its own and
the steps of `saclient_disconnect`). `todo[c]` is what caller `c` still has to
do; an action executes the head of the script, and any other thread may step in
between. `Quiesce` and `Join` are the recurring
`if(g_reconnThreadHandler) { g_bRetry = false; pthread_join(...); ... = 0; }`.
A dial is two steps, because opening a socket takes long: before it, the address
is set and mosquitto forgets that a disconnect was asked for; after it, the
loop thread runs or a failure is pushed. `g_bRetry` is read by the reconnect
thread after its sleep (`Sleep`) and after a failure (`Retry`). A callback is a
short list of statements too, executed by the loop thread one at a time.

Of mosquitto the module has what decides whether its loop thread goes on. The
state of the client is the one fact `stopping`, that it is
`mosq_cs_disconnecting`; `link` is the socket, `parting` a queued DISCONNECT, and
`loop` where the loop thread is. A hang-up is three steps: `HangUp` writes the
state, `Part` queues the DISCONNECT if there is a socket (`MOSQ_ERR_NO_CONN`
otherwise), `AwaitLoop` joins the loop thread. The loop thread overwrites the state
without looking at it in two places: `BeginRedial`, after `DecideToRedial` has
tested it (`mosquitto.c:476-478`), and `Acknowledge`, after the callback of a
CONNACK (`read_handle_client.c:64`). If a disconnect came in between, the loop goes
on and `AwaitLoop` may wait for ever; the operator `Unheard` names that situation,
and the liveness properties that exclude it do so by that name. After a loss the
loop redials (`AutoRedial`, whose failure makes no callback), unless a TLS error has
left `errno` at `EPROTO`: then it ends (`GiveUp`, `mosquitto.c:952`).

With `bForce` false, `MQTT_Disconnect` also runs `mosquitto_loop` on the calling
thread, which is left out: the callback this may run is serialised with those of the
loop thread by the library's callback lock and comes before the join, and so it is
the loop thread's in the model. Keepalive pings and the queues of messages in
flight are left out.

`online` is reported only if the agent information could be published, which a
disconnect in progress can prevent.

Abstractions: a configuration is the name of its server and `autoStart`;
the topic list is the single fact that the internal topics are in it; a record
of the event queue is a status and the server it was pushed for; the
profile, publishing and logging are left out. `wanted` and `faults` are history
variables: whether the last call asked for a session, and undefined behaviour
that happened (a thread joined twice, a NULL configuration or profile read, a
client destroyed in use). `Initialize` succeeds and runs alone; a call of
`saclient_connect` on top of a session is not made by any caller in the
repository and not modelled (`Call`).

### Failover

`NoteStatus` is `Handler_OnStatusChange` when the failure count stays within
`MAX_CONNECT_FAILED_CNT`; `SwitchServer` is the other case: it puts the script
of `saclient_server_connect_config` on the event worker, which is then "busy"
until the script has ended (`SwitchDone`). `CoreStep` is any step of `SAClient`,
with the server of a rebuilt client fixed to the one the handler chose.

`MCFailover` chooses one of three scenes at the start, so that one state graph
answers the questions about all of them: "changing", brokers that come and go;
"frozen", brokers that never change; and "calls", an application that makes every
call on one server, with no handler that acts on a failure. In the first two the
application starts the agent and makes no other call.

### Subscriptions

A thread that subscribes a topic goes from place to place: at the broker
(`Subscribe`, which fails without a session), the lookup (`FindEntry`), the removal
of an old entry (`RemoveEntry`), the new entry (`AddEntry`), then, for a custom
topic, the manager's own list (`BeginRecord`, `Record`). The lists have no lock, so
`topic_remove`, `topic_add` and `samanager_topic_add` are two steps each, the walk and
the change. `mark[t]` is the position of the entry a thread has walked to (`tail`
in the manager's list), `Gone` if another thread has unlinked it meanwhile. What
follows from the pointers is in `Linked`: a new entry linked behind an entry that is
no longer the last cuts off what came behind it, and one linked behind an entry that
is gone is in no list. `lost` and `forgotten` are history: the topics that were
cut off so. `topic_find`, which only reads, is one step.

`todo[t]` holds the topics a thread still has to subscribe: the internal ones for
the loop thread (`Accept`, again after each silent redial), one or all of the hubs for
a thread of the gateway handler. The worker looks a message up in one list
(`FindCallback`), calls the callback of what it found in a later step (`CallBack`), and
for a custom topic looks in the other list (`FindHandler`). `_disconnect` joins the
loop thread (`HangUp`) and then takes the entries out one by one, two steps a turn
(`FirstTopic`, `BeginTurn`, `EndTurn`); new entries may come in meanwhile, and the loop
ends at the entry that was the last when it was reached. `Found` is `topic_find`:
the exact name wins, else the last entry with a `+` that matches; `Covers` says
which names those are, and stands for the `strtok`/`strstr` comparison. The session is
clean (`mosquitto_new(devid, true)`), so the broker forgets everything when it ends.

Where one thread unlinks and frees an entry while another may be walking past it or
holding it (`Unlink`), the program may go on, as the memory is mostly still what it
was, or do anything: the flag `broken` is the second case, which may or may not be
taken. Nothing is claimed after it, and the model stops there.

`swept` of a message and `outcome` are history. Handlers use topic names without a
`+`, as the ones of the repository do; the manager would never deliver a custom topic
with one, as it looks for the message's own name. `Record` is the way out of a
successful subscription; a failed one is reported to the handler as a success by
the code, and changes nothing. The window in which the socket is open and CONNACK has
not come counts as no session, and a hang-up the library has overwritten is not
in this module. The end of the manager, which empties its own list, is after the
end of all the threads here (see `Handlers`) and left out.

### Handlers

The calling thread goes through the life of the manager (`main`): the keepalive
thread starts *before* the handlers are loaded and started (`Initialize`, `Load`,
`Start`), the workers after it (`Started`), and `saclient_uninitialize` joins the
message worker, the event worker and the keepalive thread before it releases the
list with a thread per handler. Every thread that walks the list is a place in it;
`Touch` is the reading of an entry, a fault if it was freed. `Ask` is
`CheckHandlerStatus` at one entry with its count, `Decide`, `StopBusy` and `Restart`
the parts of a restart, between which the thread may be told to end. A handler is
what its interface shows: it is up between start and stop, its thread may hang in a
call, and then it answers busy, as the 5 seconds in `Handler_Get_Status` of the
monitoring handler make it; a call may also fail. `Handler_Stop` joins the
handler's thread (`MonitoringHandler.c:765`, `HDDHandler.c:507`), so `StopBusy` and
`ReleaseStops` wait as long as the handler is `hung`; `Recover` is the return of the
call it hangs in, which may never come.

The handlers with no status function are those that always answer idle; a
handler that cannot be loaded is left out of the list (`Load`). The capability
thread is joined only after the list is freed (`Leave`); that it may then have read
a freed entry is in the model (`Collect`) and not in `WalkersAreGone`. The
keepalive thread checks handlers only while it is `linked` to the watchdog. It
tries the pipe (`Connect`), and where the pipe exists its `open` blocks until the
watchdog has it open too (`Opened`, `NamedPipeClient.c:52`), whatever the flag that
tells it to end says. A request may wait in a handler (`Received`) as long as the
thread of that handler does not move, or until a handler that is stopped is started
again (`HDDHandler.c:647`).

Left out: an `open` that fails although `access` found the pipe (the thread then
frees a name twice, `NamedPipeClient.c:72-78`), and a pipe that is full or has lost its
reader. A failed write is never seen, as `sendLen` is unsigned
(`NamedPipeClient.c:28`), so the inner loop is left only at the end.

### Watch

A turn of the watch thread (`Turn`) is one round of its loop, 100 ms apart; `Tick`
lets that time pass for everything with a timer: the keepalive thread, the watch
thread, and the second of `time(NULL)`, whose difference to the last sign of
life is `silence`. `Second`, the number of turns in a second, is a constant, as
the tolerance of the scheme depends on it. The keepalive thread is a chain of
sleeps: `boot` until it reaches the pipe, `greet` and `settle` for a second each,
then `sleep` between keepalives, `leaving` after STOP. In `CheckHandlerStatus` a
handler may keep it (`blocked`). The service ends `stopped` after a STOP, `gone`
when it was stopped before it could say anything or was killed, or `crashed`.

The pipe thread reads whatever is in the pipe and handles one message
(`Read`). A turn with an alarm runs the script: `GetSrvStatus` calls every
service running, so it is stopped (`Turn`, `StopReturns`) and started
(`StartService`), after which the watch thread pauses and, until it takes a START
message, does it all again, since `StartSrv` never returns `SERVICE_RUNNING`.

The queue between the pipe thread and the watch thread is a sequence: putting and
taking are whole critical sections of `watchMsgCS` (`SAWatchdog.c:360-369` and
`392-395`).

The model is about one service (`WIN_SERVICE`, what the agent asks for).
Outside it: watched processes, BUSY_WAIT messages, which nobody sends, start and
stop of the watchdog, and writes that fail. The scripts return within a turn of
the change they wait for. The queue needs no bound.

## 3. Runs

| run | instance | question | states |
|---|---|---|---|
| `base_queue` | 2 pushers, 1 worker, 4 record addresses, capacity 2 | Is the ring a bounded FIFO whose records have one owner each? | 5 thousand |
| `sa_client` | 1 caller, all operations, 2 thread identities, 2 servers, TLS | Is the connection core safe in every interleaving with its threads and the brokers? | 2.6 million |
| `sa_client_hang_up` | 1 caller that starts and disconnects | Does a hang-up return? **No** | |
| `sa_client_tls` | 1 caller, start only, TLS | Does a lost session come back when the server is reachable? **No** | |
| `sa_client_events` | 1 caller, start only | Do the handlers learn that the agent is online? **No** | |
| `sa_client_stop` | service and connect thread | Is a call on an API that is no longer initialised refused? **No** | |
| `failover` | 3 servers; three scenes | Is the core still safe when the event worker calls it? Do all calls return, and does the agent find a server? | 385 thousand |
| `failover_loss` | 2 servers in the list | Does the agent leave a server that died after it was dialled? **No** | |
| `subscriptions` | 2 internal topics, one with a `+`; 1 custom topic, 1 registering thread beside the loop thread | Do messages find their way to their handler? | 171 thousand |
| `subscriptions_custom` | the same | Is a custom topic heard after a reconnection? **No** | |
| `handlers` | 2 user handlers and the general one, limit 3 | Is the unlocked list of handlers safe, and are handlers that hang restarted? | 107 thousand |
| `watch` | the order of the times of the code; an exact and a rough world | Is only a silent agent given up, is one that stays up watched, does one that fell silent run again? | 715 thousand |

The properties, by what they are about:

- *Two sockets, two threads.* `OneReconnectThread` and `OneDialler`. Each public
  call first joins the reconnect thread; `saclient_reconnect` also stops the loop
  thread before it creates a new one. Leaving either out is the mutant.
- *Session flag.* `SettledSession`: between calls `g_bConnected` agrees with the
  library and a session has its topics. It relies on `_disconnect` resetting the
  flag after the loop thread was joined.
- *Quiet after a disconnect.* `QuietWhenNotWanted`: no thread, session or topic
  survives, although the reconnect thread may have opened a socket in between.
- *Events.* `QueuedEventsAreCurrent`: the queue is cleared after, not before,
  the threads that push into it have stopped.
- *Undefined behaviour.* `NoFault`, for calls that do not overlap. With overlapping
  calls it does not hold, see the findings.
- *Progress.* `CallsReturn`, `WorkerReturns`, `SessionReturns` and
  `FrozenFindsServer`, without TLS. The first two do not speak of a caller whose
  hang-up the library has overwritten (`Unheard`), and `FrozenFindsServer` not of an
  agent with such a caller: these wait for ever, see the findings.
- *Queue.* `OneOwner`, `CellsMatchCursors`, `FifoSpec`.
- *Topics.* `ServedIsListed`: whatever the order of redials, registrations and a
  disconnect, what the broker sends has its entry or gets it from a thread that is
  on its way, unless an overlapping `topic_add` has cut the entry off (`lost`). That
  it can be cut off is a fact of the code: the loop thread and a thread of a handler
  both walk to the same last entry (`topic.c:40-47`), and the second link overwrites
  the first. The property says that there is no other way to lose an entry.
  `OneInternalEntry`: the entry of a lost session is replaced. `SweptClean` and
  `DroppedForAReason`: nothing of an ended session stays, and a message is dropped
  only for one of three reasons. `InternalTopicsAreHeard` in a session that lasts.
- *Handler list.* `WalkersAreGone` and `NothingLeft` are what the order of joins is
  for; `NeverStartedTwice` is about restarts among first starts;
  `RestartsAfterBusyRow`, `HungIsRestarted` and `UninitializeReturns`, the last two
  with help from outside (`HelpedSpec`).
- *False alarms.* `ExactNoFalseAlarm`: the watch thread gives up only an agent that is
  blocked, has ended without STOP, or is on its way up after that, or one whose
  message waits in the pipe. Three turns without a keepalive at the third second
  make the alarm; the interval is two. `MaxLate = 2` is the exact tolerance: with 3
  the property fails.
- *Messages.* `NothingOverlooked` is what the sleeps between two messages are for.
  `RunningIsWatched` needs it: START is sent once per connection.
- *Restarts.* `Recovers`: when the crashes and blocks end, an agent that was
  abandoned is watched again, however many stale messages are in the queue. It
  depends on the boot: the watch thread never takes a restart for successful
  (`Global.c:542` returns 0 or 1, `SAWatchdog.c:486` tests for 4) and stops the
  service again after 2.1 seconds. With a boot that takes longer than that TLC
  finds an agent that is stopped at each attempt.

Six runs show that the code does not do what its documentation, or its
comments, say:

1. `HandlersLearnOnline`. A CONNACK right after a successful dial of the
   reconnect thread finds that thread's "offline" record in the one-slot queue,
   or an earlier failure; `evtqueue_push` drops the online record and nobody
   reports it again.
2. `NoInitIsReported`. `CAgentStop` calls `saclient_uninitialize` before it
   joins the thread that is in `saclient_connect`; when the dial fails, that
   thread reads `g_config->autoStart` after the free.
3. `FailsOverAfterLoss`. `saclient_on_lost_connect_cb` once called
   `saclient_reconnect` (the call is commented out). Now mosquitto redials
   without a callback on failure, so the failure count stays at one.
4. `HangUpReturns`. `mosquitto_disconnect` writes `mosq_cs_disconnecting`, and the
   loop thread writes `mosq_cs_new` or `mosq_cs_connected` over it: in a redial that
   has tested the state already, or at the end of a CONNACK whose callback is still
   subscribing. The loop then goes on, and `saclient_disconnect` joins it for ever.
5. `SessionReturns` with TLS. `mosquitto_loop_forever` returns when a TLS error left
   `EPROTO` in `errno`. The agent leaves every redial after a loss to the library,
   whose thread has ended.
6. `CustomTopicsAreHeard`. The manager keeps a custom topic in its list for good, and
   `SAManager_SubscribeCustTopic` subscribes only what is not in it. After a loss the
   library redials, the connect callback subscribes the three internal topics, and
   the gateway handler's own thread, which asks for its hubs again, is answered
   with success and no subscription.

### Bounds

- `Threads` is the set of identities `pthread_create` can return. One caller can
  create one reconnect thread at a time; the second identity is there so that a
  leaked thread and a new one can coexist, as they must in `sa_client`. With
  `Threads = {r1}`, `Spawn` waits for an identity; `OneReconnectThread` says that it
  never has to, and the runs that have one identity check other properties.
- Two servers tell "the old" from "the new" apart, and the wrap of the server
  list from its head; three, as in `failover`, make the walk take every kind of step.
- `EvtSlots = 1` and `MaxFailed = 2` are the values of the code
  (`smloader_init`, `MAX_CONNECT_FAILED_CNT`).
- Capacity 2 (three cells) makes both cursors wrap at different times; four
  addresses allow a stored, a held and a recycled record together.
- `watch` keeps the order of the code's times in fewer turns: a keepalive every two
  seconds, the keepalive time and the tries of the code, five turns in a second
  instead of ten, a boot and a greeting shorter than the pause between two
  restarts. A boot that takes longer, with which the restarts never end, is outside
  these bounds (see *Restarts*). In the exact world of `MCWatch` the boot takes one
  turn at most and the pipe is read at once; in the rough one the keepalive thread
  never oversleeps.
- Two internal topics stand for three (two with names of their own, one shared by
  all agents): one is found by its name and one by a `+`. One registering thread
  beside the loop thread is enough for one link to cut off another, and for a sweep
  and a registration to meet; what a second one adds is two entries of one custom
  topic, and overlaps in the manager's list. A state space with two,
  4.1 million states up to the symmetry of the threads, was searched for the safety
  properties without an error, and takes too long to be a run of its own beside the
  liveness property; the theorems are for any number. `Slots = 1` makes the message
  queue full; more slots only add messages that wait.
- Two user handlers are one that is restarted and one that is still being loaded
  or started; `Limit = 3` is the code's.
- `Tls` adds the end of the loop thread after an error; `sa_client` has it, the
  liveness properties of `failover` are for an agent without TLS, as finding 5 shows.
- Nothing else is bounded: the state spaces are finite as they are. Threads and
  servers are symmetric in `sa_client`, which checks no liveness.

### Fairness

`CoreFairness` is weak fairness of each thread of the program and of the MQTT
library's loop thread: the scheduler runs each thread that can run. All the
waits of the code are joins, sleeps or socket operations with a timeout.
Nothing is assumed of callers (they may never call) or of brokers (they change
at will, except in the frozen scene of `MCFailover`, whose name says so).
`SessionReturns` and `FrozenFindsServer` ask something only of runs in which a
server stays reachable and the client could be rebuilt: a client whose TLS options
are refused is NULL for good.

`FairSpec` of `Subscriptions` lets the loop thread, the worker, the disconnecting
caller and the registering threads go on with what they have begun, until an entry
was used after its end (`broken`); that a session opens, is lost or a message comes
is never owed. `FairSpec` of `Handlers` is the same for its threads, with strong
fairness of the waits for what comes and goes: a join of a worker, which was told to
end and takes one more message at most, a stop of a handler, and a request that waits
for a handler to be up.

What the agent needs of others and does not ensure itself is a specification of its
own, `HelpedSpec`: a hung call for which a thread of the agent waits returns in
the end, and the watchdog opens the pipe that is there. `HungIsRestarted` and
`UninitializeReturns` are checked under it. With `FairSpec` alone TLC finds
`UninitializeReturns` violated, by a handler whose thread never ends and by a pipe
that is never read.

`FairSpec` of `Watch` adds that time passes, that each thread which is due runs,
and that the service manager starts, stops and in the end kills. Handlers need
not return and operators need not act.

## 4. Proofs

| theorem | statement | for |
|---|---|---|
| `QueueInvariant` | `Spec => []IInv` | any threads, records, capacity |
| `TypeCorrect`, `RecordsHaveOneOwner`, `CellsFollowCursors` | the invariants of `base_queue` | same |
| `RingImplementsFifo` | `Spec => FifoSpec` | same |
| `TypeCorrect` | `Spec => []TypeOK` of `SAClient` | any callers, servers, threads, queue capacity |
| `OneReconnectThreadAlways` | `Spec /\ []OneCallAtATime => []OneReconnectThread` | any callers, thread identities |
| `SessionInvariant` | `Spec /\ []OneCallAtATime => []SessionInv` of `SAClient` | any callers, servers, thread identities, queue capacity |
| `NoFaultAlways`, `OneDiallerAlways`, `SessionSettles`, `QuietAlways`, `EventsAreCurrent` | the other five invariants of `sa_client` | same |
| `FailoverTypeCorrect` | `FailoverSpec => []FailoverTypeOK` | any callers, list, limit |
| `FailoverInvariant` | `FailoverSpec /\ []OneCallAtATime => []FailoverInv` | any callers, list, limit; the event worker calls from the handler only |
| `StartsWithoutOverlap` | `FailoverSpec => []OneCallAtATime` | an application that initialises and connects only; any servers, list, limit of at least 1 |
| `FailoverNoFault`, `FailoverOneDialler`, `FailoverEventsAreCurrent` | `FailoverSpec => []NoFault`, `[]OneDialler`, `[]QueuedEventsAreCurrent` | same |
| `TypeCorrect` | `Spec => []WatchTypeOK` of `Watch` | any constants |
| `NothingIsOverlooked` | `Spec => []NothingOverlooked` | any constants with `MaxStall < Second` |
| `NoFalseAlarms` | `MCSpec => ExactNoFalseAlarm` of `MCWatch` | any constants with `KeepaliveTime >= 3`, `MaxLate < TryTimes` |
| `Invariant` | `Spec => []IInv` of `Handlers` | any modules, any limit |
| `TypeCorrect`, `WalkersAlwaysGone`, `StartedOnce`, `NothingIsLeft` | the four invariants of `handlers` | same |
| `BusyRowBeforeRestart` | `Spec => RestartsAfterBusyRow` | same |
| `Invariant` | `Spec => []IInv` of `Subscriptions` | any topics, registering threads and queue length |
| `TypeCorrect`, `ServedAlwaysListed`, `OneInternalEntryAlways`, `SweptCleanAlways` | the four invariants of `subscriptions` | same |
| `DropsHaveReasons` | `Spec => DroppedForAReason` | same |

`BaseQueue`. `OneOwner` and `CellsMatchCursors` are not inductive alone: a put
stores what its thread holds, so `Holding` (a thread owns a record exactly while
it pushes or uses one) is needed, and the cursors mean nothing in a destroyed
queue, so `NoUseAfterUninit` is. `IInv` joins them with the types. The refinement
takes the stored records, oldest first, as the abstract queue (`Contents`):
`PutAppends` and `GetTakesOldest` show that put appends and get takes the tail,
with the arithmetic of the wrap, and every other step keeps or empties it.

`SAClient`. Types are proved by one lemma per thread; what needs an argument is
that scripts stay sequences of steps and that the event queue stays within its
capacity (`PushType`). `OneReconnectThread` needs to know where the caller is
in its script: `ThreadInv` says that a caller past its `quiesce` and `join`
finds `g_reconnThreadHandler` zero, so that a spawn cannot overwrite the name of
a thread, and that a caller that is joining joins the thread the variable names.
That a script never spawns twice, and joins only as its first step, is the shape
`Shaped` of scripts (`AdvanceShape`, `ReplacementShape`). Any threads may make the
calls, one after the other: `OneCallAtATime`, a hypothesis of the theorem, says that of
two callers one is idle. It is needed, as otherwise one may spawn between the
other's test and join; a single caller, as in the run `sa_client`, satisfies it
(`SingleCaller`).

The other invariants of `SAClient` are proved together, in `SessionProofs`. The
argument is about the steps that are `Left` of the call in progress. `CalmInv` is its
heart: when no session is wanted, or a call has its hang-up behind it, there is no
loop thread and no reconnect thread, and once its "forget" is behind it too the flag
and the topics are reset. From it follows that a spawn or a dial of a call finds
nobody dialling (`DialInv`), that a client is destroyed unused, that nobody pushes an
event between the clearing of the queue and the change of server (`EventsInv`), and
that the configuration is missing only before the last step of an uninitialisation
(`FreedInv`). `SettledSession` needs more: a client without callbacks is about to be
destroyed (`HookInv`), without its loop thread the library has no session and no
callback (`LoopInv`), and `CallbackInv` relates what a callback has left to do to the
flag and the session. `Ordered` is the order of the steps this rests on ("hangup" is
followed by "forget", "unhook" by a "destroy", "free" by the last step, "rebuild" comes
after "clear"); `TailOrder` and `HeadOrder` show that a script keeps it while it is
worked off. `OneCallAtATime` is needed here too: when calls overlap `NoFault` fails, as
`NoInitIsReported` shows.

`Failover`. The types rest on those of `SAClient`, which hold for any callers; that the
place stays in the list is `NextIsListed`. Here two threads make calls: the
application, and the event worker from inside the failover handler.
`FailoverInvariant` shows that a switch of the server is a call like any other: it
starts with the agent initialised (`WorkerGone`: the worker is joined before the
configuration is freed) and on a thread that is in no other call (`WorkerIdle`), so
`ThreadInv` and `SessionInv` hold whenever calls do not overlap. In the code nothing
keeps the worker's call from overlapping one of the application; what it takes is
more than `MaxFailed` failures while the application is in a call. For an application
that initialises and connects and makes no other call, as `CAgentStart` does before
the service is stopped, the overlap cannot happen and nothing has to be assumed:
`StartInv` counts the failures that are counted, being delivered or queued
(`Pending`). While `saclient_connect` runs there is neither a loop thread nor a
reconnect thread, its own dial reports one failure, and the limit is at least one (it
is 2 in `ServerRedundancyHandler.c:17`); once it has returned the application is done.
`StartsOnly` is that hypothesis; in the scenes "changing" and "frozen" of the run
`failover` the application makes no other calls.

The assumptions on constants (`SlotsAssumption`, `ThreadsAssumption`,
`NullAssumption`, `CallsAssumption`, `EvtSlotsAssumption`,
`AutoStartAssumption`, `TlsAssumption`) say only that the capacity is positive, NULL is not an
address or a thread, and the parameters have the right type.

`Watch`. That no message is overlooked is an argument about time: `Spaced` says
that while the pipe holds something, the sleep left to the thread that wrote it
and the time the pipe has waited make up a second, so the pipe is read before
the thread writes again; and that a blocked thread has left the pipe empty. It
needs the assumption that the pipe thread is never a second behind, and the
types, because a crash and a restart set the timer anew.

That no alarm is false in the exact world is an argument about the last message of an
agent that runs. `LastUnderWay`: it is in the pipe (which makes the agent `Silent`), or
it is the last one in the queue. While the queue is not empty each turn takes a
message, which resets the seconds or ends the watch, so no alarm is raised. Once it is
empty the last message was taken, not before it was sent, and `LastTaken` bounds what
the watch thread has counted since then by the time that has `Elapsed` since the
sending: K seconds of silence take more than `K - 1` whole seconds, and each miss one
turn more. An alarm needs the third second and `TryTimes` misses, more than
`2 * Second + TryTimes - 1` turns; the agent sends again after `2 * Second + MaxLate`
at the latest. Hence the two conditions, which the code's 3, 3 and an
oversleep of 200 ms meet; with `MaxLate = 3` TLC shows the property to fail, so the bound
is exact. `Punctual` is what makes the world exact: no message waits in the pipe while
time passes.

`Handlers`. The invariant follows the life of the manager. `Places` says which
thread can be where in each phase of `main`; `Gone` that the keepalive thread and the
workers are off from the phase after their join, so that `freed`, which is empty
until the release, cannot meet them. `StartedInTurn` says that a handler is up only
if the loop of `Loader_StartAllHandler` has passed it or the keepalive thread has not
stopped it. A handler is assumed to answer "busy" only between its start and its
stop; the keepalive thread then never restarts an entry that is still to be
started. `Rows` ties the count to the number of busy answers in a row, `Released` the
release threads to what they have stopped and freed.

`Subscriptions`. `Kept` is what `ServedIsListed` says of one topic: it is listed,
cut off, or being added. `ServedIsListed` needs `SessionInv` (a sweep runs with no
loop thread, hence no session and nothing served), and that every step but one of a
sweep keeps `Kept`: what a link cuts off is not forgotten (`CutOffKept`), and the entry
a thread unlinks is one of the topic it is about to add (`MarkInv`). `OneInternalEntry`
needs `ReplacedInv`: when the loop thread walks to the last entry and links, none of
its topic is left; no other thread adds it, and `Single` survives a link
(`LinkedSingle`) and the removal of an entry (`RemovedEntry`). `SweptClean` needs to
know that a sweep is always at the first entry, unless that has gone (`SweepInv`), and
that what comes after the entry it takes for the last is custom (`SweptInv`).
`DroppedForAReason` needs `AwaitedInv`: each queued message has a topic that is kept, or
a disconnect has marked it before the first entry was swept (`MarkedInv`); and
`KnownInv` with `HandInv`: a custom entry means that the manager has the topic, had it
cut off, or its thread is about to record it. What `topic_find` returns (`FoundEntry`)
uses that no name with a `+` is a custom topic. Positions keep naming the same entries
when the list changes (`PositionsLinked`, `PositionsUnlinked`). The proof covers the
runs that go on after the use of a freed entry, with the memory still what it was.
The assumptions on constants are `TopicsAssumption`, `CoversAssumption`,
`LoopAssumption` and `SlotsAssumption`.

Model-checked only: all liveness, for which the prover has no rule of fairness. Every
other property of the passing runs is stated by one of the theorems above.
Out of the prover's reach are liveness, induction over data, and recursive operators,
of which the project has none.

## 5. What is not modelled

- What the memory of a topic entry holds after it was freed.
- Inside mosquitto: pings, messages in flight, and the `mosquitto_loop` that
  `MQTT_Disconnect` runs on the calling thread.
- The opening of the pipe that fails, and a pipe that is full.
- The replacement of the server list by a message (`Handler_Recv` of the redundancy
  handler), publishing, auto report.
- The window between the worker's test of `g_on_event_func` and its call
  (`eventqueue.c:107`).
- Recovery of a client whose TLS options were refused (`SAClient.c:605`): the model has
  the outcome, and the liveness properties exclude it.
- Agent updates (`agentupdater.c`, `FtpHelper`); start and stop of the watchdog,
  watched processes.
- Configuration files, logging, message layout, encryption, device handlers:
  data and input/output without the control this project is about.
- Failures of `malloc` and `pthread_create`.
- The libraries that the repository carries along (SQLite, libxml2, cJSON, OpenSSL
  and others, most of its lines).

## 6. What could come next

In order of importance:

1. `Failover` with `Handler_Recv` and an uninitialising service: the server list
   replaced under `g_pCurServer`, and a stop during a switch.
2. `AgentUpdate`: update, download and monitor threads of `agentupdater.c` with
   the transfer context of `FtpHelper`; start, stop and retry.
3. `Watch`, the rest: start and stop of the watchdog with the queue it frees too
   early, failing writes.
4. `Session`, an abstract specification of the agent's session (closed, opening,
   open; wanted or not) for `SAClient` to implement.
5. A proof that `SAClient` implements the `Session` of item 4.
