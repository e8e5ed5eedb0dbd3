------------------------------ MODULE SAClient ------------------------------
(***************************************************************************)
(* The connection core of the agent, Library/SAClient/SAClient.c: the API  *)
(* calls, the reconnect thread, the callbacks that the MQTT client library *)
(* runs on its own loop thread, and the one-slot event queue through which *)
(* the handlers learn of a change of status.  None of the globals these    *)
(* threads share is protected by a lock.                                   *)
(*                                                                         *)
(* An API function is a script: the sequence of the steps it has left to   *)
(* do.  Calls inside calls are inlined, as in the source.  "todo" holds    *)
(* the rest of the script of each calling thread; any step of any other    *)
(* thread may happen between two of its steps.                             *)
(*                                                                         *)
(* Of the MQTT library, Library3rdParty/mosquitto-1.3.4/lib, the module    *)
(* has what decides whether its loop thread goes on: its state, which a    *)
(* disconnect, a redial and a CONNACK overwrite, its socket and its loop.  *)
(* Only the brokers are external.                                          *)
(***************************************************************************)
EXTENDS Integers, Sequences, FiniteSets

CONSTANTS
  Callers,    \* threads that call the API
  Calls,      \* the pairs <<caller, operation>> that occur
  Threads,    \* identities pthread_create can give a reconnect thread
  Servers,    \* brokers the agent may be told to use
  EvtSlots,   \* capacity asked of evtqueue_init (1 in smloader_init)
  AutoStart,  \* config->autoStart is "True"
  Tls,        \* the client may use TLS
  NULL

Operations == {"initialize", "uninitialize", "connect", "server_connect",
               "disconnect", "reconnect"}
Status == {"online", "offline", "failed"}
Net == {"up", "refusing", "down"}

ASSUME CallsAssumption == Calls \subseteq Callers \X Operations
ASSUME NullAssumption == NULL \notin Threads
ASSUME EvtSlotsAssumption == EvtSlots \in Nat \ {0}
ASSUME AutoStartAssumption == AutoStart \in BOOLEAN
ASSUME TlsAssumption == Tls \in BOOLEAN

VARIABLES
  \* globals of SAClient.c and mqtthelper.c
  inited,      \* g_config and g_profile are allocated
  server,      \* the server g_config names
  client,      \* g_mosq is not NULL
  hooked,      \* the on_mqtt_*_cb pointers are set
  connected,   \* g_bConnected
  once,        \* g_bConnectOnce
  retry,       \* g_bRetry
  handle,      \* g_reconnThreadHandler
  subscribed,  \* the internal topics are in the topic list
  \* the event queue and its worker
  events,      \* queued <<status, server>> records
  worker,      \* its thread: "off", "idle", "delivering", "busy"
  taken,       \* the record it took last
  seen,        \* the last record given to the handlers
  \* threads
  todo,        \* [Callers -> steps left of the call in progress]
  target,      \* [Callers -> reconnect thread being joined]
  recon,       \* [Threads -> where a reconnect thread is]
  \* the MQTT library
  loop,        \* its loop thread, mosquitto_loop_forever
  link,        \* its session: "closed", "opening", "refused", "up"
  callback,    \* statements left of the callback that loop thread runs
  stopping,    \* mosq->state is mosq_cs_disconnecting
  parting,     \* a DISCONNECT is in its queue of packets
  host,        \* mosquitto_connect has given the client an address
  net,         \* [Servers -> Net], the environment
  \* history
  wanted,      \* the last call asked for a session
  faults       \* undefined behaviour that happened

conf == <<inited, server>>
mqtt == <<client, hooked, once, host>>
session == <<connected, subscribed>>
retrying == <<retry, handle, target, recon>>
queue == <<events, worker, taken, seen>>
library == <<loop, link, callback, stopping, parting>>
ghosts == <<wanted, faults>>
vars == <<conf, mqtt, session, retrying, queue, library, todo, net, ghosts>>

-----------------------------------------------------------------------------
(* Scripts: the statements of each API function, callees inlined.  A       *)
(* function that calls another one quiesces again on the way in.           *)

ConnectSteps == <<"quiesce", "dial">>

(* Mutant: saclient_disconnect leaves a reconnect thread alone. *)
DisconnectKeepsThread == <<"hangup", "forget">>
DisconnectSteps == <<"quiesce", "hangup", "forget">>

(* Mutant: saclient_reconnect does not stop the loop thread first. *)
ReconnectKeepsLoop == <<"quiesce", "forget", "spawn">>
ReconnectSteps == <<"quiesce", "hangup", "forget", "spawn">>

(* The second to fourth steps are saclient_disconnect. *)
UninitializeSteps ==
  <<"quiesce", "quiesce", "hangup", "forget", "stop_events", "free", "destroy">>

(* Mutant: the queue is emptied before the loop thread has stopped. *)
ServerConnectClearsEarly ==
  <<"quiesce", "quiesce", "unhook", "clear", "hangup", "forget", "destroy",
    "rebuild", "quiesce", "dial">>

(* All but the first are saclient_reinitialize and saclient_connect. *)
ServerConnectSteps ==
  <<"quiesce", "quiesce", "unhook", "hangup", "forget", "clear", "destroy",
    "rebuild", "quiesce", "dial">>

Script(op) ==
  CASE op = "connect" -> ConnectSteps
    [] op = "server_connect" -> ServerConnectSteps
    [] op = "disconnect" -> DisconnectSteps
    [] op = "reconnect" -> ReconnectSteps
    [] op = "uninitialize" -> UninitializeSteps

Steps == {"quiesce", "join", "unhook", "hangup", "part", "await", "forget",
          "clear", "destroy", "rebuild", "dial", "dialling", "fallback",
          "spawn", "stop_events", "free"}

Idle(c) == todo[c] = <<>>
At(c, step) == ~Idle(c) /\ Head(todo[c]) = step
Advance(c) == todo' = [todo EXCEPT ![c] = Tail(@)]
Replace(c, steps) == todo' = [todo EXCEPT ![c] = steps \o Tail(@)]

Live(r) == recon[r] # "free"

(* Mutant: the queue takes one record more than it has room for. *)
PushOneTooMany(status) ==
  events' = IF worker # "off" /\ Len(events) <= EvtSlots
            THEN Append(events, <<status, server>>)
            ELSE events

(* evtqueue_push: a record that finds the queue full, or no queue, is      *)
(* dropped.                                                                *)
Push(status) ==
  events' = IF worker # "off" /\ Len(events) < EvtSlots
            THEN Append(events, <<status, server>>)
            ELSE events

-----------------------------------------------------------------------------
Init ==
  /\ inited = FALSE
  /\ server \in Servers
  /\ client = FALSE
  /\ hooked = FALSE
  /\ connected = FALSE
  /\ once = FALSE
  /\ retry = FALSE
  /\ handle = NULL
  /\ subscribed = FALSE
  /\ events = <<>>
  /\ worker = "off"
  /\ seen = <<"offline", server>>
  /\ taken = seen
  /\ todo = [c \in Callers |-> <<>>]
  /\ target = [c \in Callers |-> NULL]
  /\ recon = [r \in Threads |-> "free"]
  /\ loop = "none"
  /\ link = "closed"
  /\ callback = <<>>
  /\ stopping = FALSE
  /\ parting = FALSE
  /\ host = FALSE
  /\ net \in [Servers -> Net]
  /\ wanted = FALSE
  /\ faults = {}

-----------------------------------------------------------------------------
(* Calls *)

(* saclient_initialize that succeeds; one that fails changes nothing but   *)
(* g_bConnectOnce, which is FALSE already.  It runs alone.                 *)
Initialize(c) ==
  /\ <<c, "initialize">> \in Calls
  /\ \A d \in Callers : Idle(d)
  /\ ~inited
  /\ inited' = TRUE
  /\ server' \in Servers
  /\ client' = TRUE
  /\ hooked' = TRUE
  /\ once' = FALSE
  /\ host' = FALSE
  /\ events' = <<>>
  /\ worker' = "idle"
  /\ seen' = <<"offline", server'>>
  /\ taken' = seen'
  /\ UNCHANGED <<session, retrying, todo, library, net, ghosts>>

(* A thread enters an API function.  Callers use saclient_connect after     *)
(* saclient_initialize or saclient_disconnect, never on top of a session.  *)
Call(c, op) ==
  /\ <<c, op>> \in Calls
  /\ op # "initialize"
  /\ Idle(c)
  /\ inited
  /\ op = "connect" => ~wanted
  /\ todo' = [todo EXCEPT ![c] = Script(op)]
  /\ wanted' = (op \in {"connect", "server_connect", "reconnect"})
  /\ UNCHANGED <<conf, mqtt, session, retrying, queue, library, net,
                 faults>>

(* Every function first tells a reconnect thread to stop ...               *)
Quiesce(c) ==
  /\ At(c, "quiesce")
  /\ IF handle = NULL
     THEN Advance(c) /\ UNCHANGED <<retry, target>>
     ELSE /\ retry' = FALSE
          /\ target' = [target EXCEPT ![c] = handle]
          /\ Replace(c, <<"join">>)
  /\ UNCHANGED <<conf, mqtt, session, handle, recon, queue, library, net,
                 ghosts>>

(* Mutant: g_reconnThreadHandler is reset without waiting for the thread. *)
JoinWithoutWaiting(c) ==
  /\ At(c, "join")
  /\ handle' = NULL
  /\ target' = [target EXCEPT ![c] = NULL]
  /\ Advance(c)
  /\ UNCHANGED <<conf, mqtt, session, retry, recon, queue, library, net,
                 ghosts>>

(* ... and joins it.  A thread another caller has joined meanwhile is      *)
(* joined twice.                                                           *)
Join(c) ==
  /\ At(c, "join")
  /\ \/ /\ recon[target[c]] = "done"
        /\ recon' = [recon EXCEPT ![target[c]] = "free"]
        /\ UNCHANGED faults
     \/ /\ recon[target[c]] = "free"
        /\ faults' = faults \cup {"joined_twice"}
        /\ UNCHANGED recon
  /\ handle' = NULL
  /\ target' = [target EXCEPT ![c] = NULL]
  /\ Advance(c)
  /\ UNCHANGED <<conf, mqtt, session, retry, queue, library, net,
                 wanted>>

(* MQTT_Callback_Set(g_mosq, NULL ...). *)
Unhook(c) ==
  /\ At(c, "unhook")
  /\ hooked' = (hooked /\ ~client)
  /\ Advance(c)
  /\ UNCHANGED <<conf, client, once, host, session, retrying, queue, library,
                 net, ghosts>>

(* MQTT_Disconnect: mosquitto_disconnect writes the state of the client, ... *)
HangUp(c) ==
  /\ At(c, "hangup")
  /\ IF client THEN stopping' = TRUE /\ Replace(c, <<"part">>)
               ELSE Advance(c) /\ UNCHANGED stopping
  /\ UNCHANGED <<conf, mqtt, session, retrying, queue, loop, link, callback,
                 parting, net, ghosts>>

(* Mutant: MQTT_Disconnect forgets mosquitto_loop_stop. *)
PartWithoutWaiting(c) ==
  /\ At(c, "part")
  /\ parting' = (parting \/ link # "closed")
  /\ Advance(c)
  /\ UNCHANGED <<conf, mqtt, session, retrying, queue, loop, link, callback,
                 stopping, net, ghosts>>

(* ... queues a DISCONNECT if there is a socket at that moment, ...        *)
Part(c) ==
  /\ At(c, "part")
  /\ parting' = (parting \/ link # "closed")
  /\ Replace(c, <<"await">>)
  /\ UNCHANGED <<conf, mqtt, session, retrying, queue, loop, link, callback,
                 stopping, net, ghosts>>

(* ... and mosquitto_loop_stop joins the loop thread if there is one.      *)
AwaitLoop(c) ==
  /\ At(c, "await")
  /\ loop \in {"none", "ended"}
  /\ loop' = "none"
  /\ Advance(c)
  /\ UNCHANGED <<conf, mqtt, session, retrying, queue, link, callback,
                 stopping, parting, net, ghosts>>

(* Mutant: g_bConnected keeps its value. *)
ForgetTopicsOnly(c) ==
  /\ At(c, "forget")
  /\ subscribed' = FALSE
  /\ Advance(c)
  /\ UNCHANGED <<conf, mqtt, connected, retrying, queue, library, net,
                 ghosts>>

(* The end of _disconnect: the topics go, g_bConnected is reset. *)
Forget(c) ==
  /\ At(c, "forget")
  /\ subscribed' = FALSE
  /\ connected' = FALSE
  /\ Advance(c)
  /\ UNCHANGED <<conf, mqtt, retrying, queue, library, net, ghosts>>

(* The end of saclient_reconnect. *)
Spawn(c) ==
  /\ At(c, "spawn")
  /\ retry' = TRUE
  /\ \E r \in Threads : /\ ~Live(r)
                        /\ recon' = [recon EXCEPT ![r] = "sleep"]
                        /\ handle' = r
  /\ Advance(c)
  /\ UNCHANGED <<conf, mqtt, session, target, queue, library, net, ghosts>>

(* evtqueue_clear. *)
ClearEvents(c) ==
  /\ At(c, "clear")
  /\ events' = <<>>
  /\ Advance(c)
  /\ UNCHANGED <<conf, mqtt, session, retrying, worker, taken, seen, library,
                 net, ghosts>>

(* MQTT_Uninitialize, if there is a client. It must not be in use. *)
InUse == loop # "none" \/ \E r \in Threads : recon[r] = "dialling"

Destroy(c) ==
  /\ At(c, "destroy")
  /\ IF client
     THEN /\ faults' = IF InUse THEN faults \cup {"destroyed_in_use"}
                                ELSE faults
          /\ client' = FALSE
          /\ hooked' = FALSE
          /\ loop' = "none"
          /\ link' = "closed"
          /\ callback' = <<>>
          /\ parting' = FALSE
     ELSE UNCHANGED <<client, hooked, faults, loop, link, callback, parting>>
  /\ Advance(c)
  /\ UNCHANGED <<conf, once, host, session, retrying, queue, stopping, net,
                 wanted>>

(* Mutant: g_bConnectOnce still speaks of the client that was destroyed. *)
RebuildKeepsOnce(c) ==
  /\ At(c, "rebuild")
  /\ server' \in Servers
  /\ host' = FALSE
  /\ client' = TRUE
  /\ hooked' = TRUE
  /\ Advance(c)
  /\ UNCHANGED <<inited, once, session, retrying, queue, library, net,
                 ghosts>>

(* The rest of saclient_reinitialize: the new configuration and a new      *)
(* client, unless its TLS options are refused.                             *)
Rebuild(c) ==
  /\ At(c, "rebuild")
  /\ IF inited
     THEN /\ server' \in Servers
          /\ once' = FALSE
          /\ host' = FALSE
          /\ \/ client' = TRUE /\ hooked' = TRUE
             \/ UNCHANGED <<client, hooked>>
     ELSE UNCHANGED <<server, once, host, client, hooked>>
  /\ Advance(c)
  /\ UNCHANGED <<inited, session, retrying, queue, library, net,
                 ghosts>>

(* _connect, or _reconnect once _connect was tried: mosquitto forgets a    *)
(* disconnect and opens a socket.  _reconnect reads g_config unchecked.    *)
StartDial ==
  /\ stopping' = FALSE
  /\ parting' = FALSE
  /\ host' = (host \/ ~once)
  /\ faults' = IF once /\ ~inited THEN faults \cup {"null_config"} ELSE faults

CanDial == client /\ (once \/ inited)

Dial(c) ==
  /\ At(c, "dial")
  /\ IF CanDial
     THEN StartDial /\ Replace(c, <<"dialling">>)
     ELSE /\ Replace(c, <<"fallback">>)
          /\ UNCHANGED <<stopping, parting, host, faults>>
  /\ UNCHANGED <<conf, client, hooked, once, session, retrying, queue, loop,
                 link, callback, net, wanted>>

Reachable == host /\ net[server] # "down"

(* The socket is open and CONNECT is sent.  mosquitto_loop_start refuses a *)
(* second thread, also when the first has ended.                           *)
SocketOpens ==
  /\ Reachable
  /\ link' = "opening"
  /\ loop' = IF loop = "none" THEN "running" ELSE loop
  /\ UNCHANGED events

SocketFails ==
  /\ ~Reachable
  /\ Push("failed")
  /\ UNCHANGED <<loop, link>>

Dialled(c) ==
  /\ At(c, "dialling")
  /\ \/ SocketOpens /\ Advance(c)
     \/ SocketFails /\ Replace(c, <<"fallback">>)
  /\ once' = TRUE
  /\ UNCHANGED <<conf, client, hooked, host, session, retrying, worker, taken,
                 seen, callback, stopping, parting, net, ghosts>>

(* The end of saclient_connect: with autoStart a failure becomes a call of *)
(* saclient_reconnect.  g_config is read unchecked.                        *)
Fallback(c) ==
  /\ At(c, "fallback")
  /\ IF inited /\ AutoStart THEN Replace(c, ReconnectSteps) ELSE Advance(c)
  /\ faults' = IF inited THEN faults ELSE faults \cup {"null_config"}
  /\ UNCHANGED <<conf, mqtt, session, retrying, queue, library, net, wanted>>

(* smloader_uninit: the worker is joined, the queue destroyed. *)
StopEvents(c) ==
  /\ At(c, "stop_events")
  /\ worker \in {"idle", "off"}
  /\ worker' = "off"
  /\ events' = <<>>
  /\ Advance(c)
  /\ UNCHANGED <<conf, mqtt, session, retrying, taken, seen, library, net,
                 ghosts>>

FreeConfig(c) ==
  /\ At(c, "free")
  /\ inited' = FALSE
  /\ Advance(c)
  /\ UNCHANGED <<server, mqtt, session, retrying, queue, library, net,
                 ghosts>>

-----------------------------------------------------------------------------
(* The reconnect thread, ReconnThreadStart *)

MoveTo(r, place) == recon' = [recon EXCEPT ![r] = place]

(* Five seconds of sleep, in which g_bRetry is polled. *)
Sleep(r) ==
  /\ recon[r] = "sleep"
  /\ MoveTo(r, IF retry THEN "dial" ELSE "done")
  /\ UNCHANGED <<conf, mqtt, session, retry, handle, target, queue, todo,
                 library, net, ghosts>>

Redial(r) ==
  /\ recon[r] = "dial"
  /\ IF CanDial
     THEN StartDial /\ MoveTo(r, "dialling")
     ELSE MoveTo(r, "failed") /\ UNCHANGED <<stopping, parting, host, faults>>
  /\ UNCHANGED <<conf, client, hooked, once, session, retry, handle, target,
                 queue, todo, loop, link, callback, net, wanted>>

Redialled(r) ==
  /\ recon[r] = "dialling"
  /\ \/ SocketOpens /\ MoveTo(r, "opened")
     \/ SocketFails /\ MoveTo(r, "failed")
  /\ once' = TRUE
  /\ UNCHANGED <<conf, client, hooked, host, session, retry, handle, target,
                 worker, taken, seen, todo, callback, stopping, parting, net,
                 ghosts>>

(* After a successful dial the thread reports "offline" and ends. *)
ReportOpened(r) ==
  /\ recon[r] = "opened"
  /\ Push("offline")
  /\ MoveTo(r, "done")
  /\ UNCHANGED <<conf, mqtt, session, retry, handle, target, worker, taken,
                 seen, todo, library, net, ghosts>>

(* Mutant: the thread does not look at g_bRetry after a failure. *)
RetryAlways(r) ==
  /\ recon[r] = "failed"
  /\ MoveTo(r, "dial")
  /\ UNCHANGED <<conf, mqtt, session, retry, handle, target, queue, todo,
                 library, net, ghosts>>

Retry(r) ==
  /\ recon[r] = "failed"
  /\ MoveTo(r, IF retry THEN "sleep" ELSE "done")
  /\ UNCHANGED <<conf, mqtt, session, retry, handle, target, queue, todo,
                 library, net, ghosts>>

-----------------------------------------------------------------------------
(* The loop thread of the MQTT library, and the callbacks it runs.  It     *)
(* runs mosquitto_loop until that fails; then it ends, or sleeps and is    *)
(* "redialling" once it has tested the state and "dialling" once it has    *)
(* overwritten it.                                                         *)

OnConnect == <<"connected", "subscribe", "online">>
OnLostConnect == <<"disconnected", "failed">>
OnDisconnect == <<"disconnected", "offline">>

(* The loop thread runs a callback, if the pointers are still set, and     *)
(* then what comes next.                                                   *)
RunCallback(statements, next) ==
  callback' = (IF hooked THEN statements ELSE <<>>) \o next

LoopFree == loop = "running" /\ callback = <<>>

(* CONNACK: the callback comes first, then the state is overwritten. *)
ConnAck ==
  /\ LoopFree
  /\ link = "opening"
  /\ net[server] = "up"
  /\ link' = "up"
  /\ RunCallback(OnConnect, <<"acked">>)
  /\ UNCHANGED <<conf, mqtt, session, retrying, queue, todo, loop, stopping,
                 parting, net, ghosts>>

(* CONNACK with an error: the connect callback, and then the disconnect    *)
(* callback, both end up in saclient_on_lost_connect_cb.                   *)
Refused ==
  /\ LoopFree
  /\ link = "opening"
  /\ net[server] = "refusing"
  /\ link' = "refused"
  /\ RunCallback(OnLostConnect, <<>>)
  /\ UNCHANGED <<conf, mqtt, session, retrying, queue, todo, loop, stopping,
                 parting, net, ghosts>>

Broken == link = "refused" \/ (link \in {"opening", "up"} /\ net[server] = "down")

(* The socket fails.  With TLS the error may leave errno at EPROTO, for    *)
(* which the loop ends instead of dialling again.                          *)
Lost ==
  /\ LoopFree
  /\ ~stopping
  /\ Broken
  /\ link' = "closed"
  /\ parting' = FALSE
  /\ \/ RunCallback(OnLostConnect, <<>>)
     \/ Tls /\ link # "refused" /\ RunCallback(OnLostConnect, <<"give_up">>)
  /\ UNCHANGED <<conf, mqtt, session, retrying, queue, todo, loop, stopping,
                 net, ghosts>>

(* A DISCONNECT is sent and the socket closed, or the socket fails after   *)
(* mosquitto_disconnect: either way the session ends as it was asked to.   *)
Closed ==
  /\ LoopFree
  /\ link # "closed"
  /\ parting \/ (stopping /\ Broken)
  /\ link' = "closed"
  /\ parting' = FALSE
  /\ RunCallback(OnDisconnect, <<>>)
  /\ UNCHANGED <<conf, mqtt, session, retrying, queue, todo, loop, stopping,
                 net, ghosts>>

(* Without a socket mosquitto_loop fails, and mosquitto_loop_forever looks *)
(* for a disconnect, before and after a second of sleep.                   *)
LoopEnds ==
  /\ LoopFree
  /\ stopping
  /\ link = "closed"
  /\ loop' = "ended"
  /\ UNCHANGED <<conf, mqtt, session, retrying, queue, todo, link, callback,
                 stopping, parting, net, ghosts>>

DecideToRedial ==
  /\ LoopFree
  /\ ~stopping
  /\ link = "closed"
  /\ loop' = "redialling"
  /\ UNCHANGED <<conf, mqtt, session, retrying, queue, todo, link, callback,
                 stopping, parting, net, ghosts>>

(* _mosquitto_reconnect overwrites the state ... *)
BeginRedial ==
  /\ loop = "redialling"
  /\ loop' = "dialling"
  /\ stopping' = FALSE
  /\ UNCHANGED <<conf, mqtt, session, retrying, queue, todo, link, callback,
                 parting, net, ghosts>>

(* ... and opens a socket; a failure makes no callback.                    *)
AutoRedial ==
  /\ loop = "dialling"
  /\ loop' = "running"
  /\ link' = IF net[server] # "down" THEN "opening" ELSE "closed"
  /\ UNCHANGED <<conf, mqtt, session, retrying, queue, todo, callback,
                 stopping, parting, net, ghosts>>

InCallback(statements) == callback # <<>> /\ Head(callback) \in statements
EndStatement == callback' = Tail(callback)

(* g_bConnected = true or false, the first statement of each callback.     *)
(* saclient_on_connect_cb then reads g_profile unchecked.                  *)
SetConnected ==
  /\ InCallback({"connected", "disconnected"})
  /\ connected' = (Head(callback) = "connected")
  /\ faults' = IF Head(callback) = "connected" /\ ~inited
               THEN faults \cup {"null_profile"} ELSE faults
  /\ EndStatement
  /\ UNCHANGED <<conf, mqtt, subscribed, retrying, queue, todo, loop, link,
                 stopping, parting, net, wanted>>

(* smloader_internal_subscribe. *)
InternalSubscribe ==
  /\ InCallback({"subscribe"})
  /\ subscribed' = (subscribed \/ client)
  /\ EndStatement
  /\ UNCHANGED <<conf, mqtt, connected, retrying, queue, todo, loop, link,
                 stopping, parting, net, ghosts>>

(* smloader_connect_status_update.  Online is reported only if the agent   *)
(* information could be published: a disconnect may close the socket first. *)
ReportStatus ==
  /\ InCallback(Status)
  /\ \/ Push(Head(callback))
     \/ Head(callback) = "online" /\ stopping /\ UNCHANGED events
  /\ EndStatement
  /\ UNCHANGED <<conf, mqtt, session, retrying, worker, taken, seen, todo,
                 loop, link, stopping, parting, net, ghosts>>

(* After the callback of a CONNACK the state is mosq_cs_connected, what-   *)
(* ever it was.                                                            *)
Acknowledge ==
  /\ InCallback({"acked"})
  /\ stopping' = FALSE
  /\ EndStatement
  /\ UNCHANGED <<conf, mqtt, session, retrying, queue, todo, loop, link,
                 parting, net, ghosts>>

(* errno is EPROTO: the loop thread ends, with or without a disconnect. *)
GiveUp ==
  /\ InCallback({"give_up"})
  /\ loop' = "ended"
  /\ EndStatement
  /\ UNCHANGED <<conf, mqtt, session, retrying, queue, todo, link, stopping,
                 parting, net, ghosts>>

-----------------------------------------------------------------------------
(* The event worker, threat_event_queue *)

TakeEvent ==
  /\ worker = "idle"
  /\ events # <<>>
  /\ worker' = "delivering"
  /\ taken' = Head(events)
  /\ events' = Tail(events)
  /\ UNCHANGED <<conf, mqtt, session, retrying, seen, todo, library, net,
                 ghosts>>

(* SAManager_UpdateConnectState: Handler_OnStatusChange of every handler. *)
DeliverEvent ==
  /\ worker = "delivering"
  /\ seen' = taken
  /\ worker' = "idle"
  /\ UNCHANGED <<conf, mqtt, session, retrying, events, taken, todo, library,
                 net, ghosts>>

(* The environment: a broker comes, goes, or refuses the agent. *)
NetChange ==
  /\ \E s \in Servers, n \in Net : net' = [net EXCEPT ![s] = n]
  /\ UNCHANGED <<conf, mqtt, session, retrying, queue, todo, library, ghosts>>

-----------------------------------------------------------------------------
CallerStep(c) ==
  \/ Quiesce(c) \/ Join(c) \/ Unhook(c) \/ HangUp(c) \/ Part(c)
  \/ AwaitLoop(c) \/ Forget(c) \/ Spawn(c) \/ ClearEvents(c) \/ Destroy(c)
  \/ Rebuild(c) \/ Dial(c) \/ Dialled(c) \/ Fallback(c) \/ StopEvents(c)
  \/ FreeConfig(c)

ThreadStep(r) ==
  Sleep(r) \/ Redial(r) \/ Redialled(r) \/ ReportOpened(r) \/ Retry(r)

LoopStep ==
  \/ ConnAck \/ Refused \/ Lost \/ Closed \/ LoopEnds
  \/ DecideToRedial \/ BeginRedial \/ AutoRedial
  \/ SetConnected \/ InternalSubscribe \/ ReportStatus
  \/ Acknowledge \/ GiveUp

(* All but the delivery of an event, which Failover refines. *)
CoreNext ==
  \/ \E c \in Callers : Initialize(c) \/ CallerStep(c)
  \/ \E c \in Callers, op \in Operations : Call(c, op)
  \/ \E r \in Threads : ThreadStep(r)
  \/ LoopStep
  \/ TakeEvent
  \/ NetChange

Next == CoreNext \/ DeliverEvent

Spec == Init /\ [][Next]_vars

(* Every thread of the program and of the library is scheduled, and a call *)
(* that can return does.  Nothing is assumed of callers and brokers.       *)
CoreFairness ==
  /\ \A c \in Callers : WF_vars(CallerStep(c))
  /\ \A r \in Threads : WF_vars(ThreadStep(r))
  /\ WF_vars(LoopStep)
  /\ WF_vars(TakeEvent)

LiveSpec == Spec /\ CoreFairness /\ WF_vars(DeliverEvent)

-----------------------------------------------------------------------------
(* Properties *)

Places == {"free", "sleep", "dial", "dialling", "opened", "failed", "done"}
Records == Status \X Servers
Statements == Status \cup {"connected", "disconnected", "subscribe", "acked",
                           "give_up"}

(* Types, and the bound of the event queue. *)
TypeOK ==
  /\ inited \in BOOLEAN
  /\ server \in Servers
  /\ {client, hooked, connected, once, retry, subscribed} \subseteq BOOLEAN
  /\ handle \in Threads \cup {NULL}
  /\ events \in Seq(Records)
  /\ Len(events) <= EvtSlots
  /\ worker \in {"off", "idle", "delivering", "busy"}
  /\ taken \in Records
  /\ seen \in Records
  /\ todo \in [Callers -> Seq(Steps)]
  /\ target \in [Callers -> Threads \cup {NULL}]
  /\ recon \in [Threads -> Places]
  /\ loop \in {"none", "running", "redialling", "dialling", "ended"}
  /\ link \in {"closed", "opening", "refused", "up"}
  /\ callback \in Seq(Statements)
  /\ {stopping, parting, host, wanted} \subseteq BOOLEAN
  /\ net \in [Servers -> Net]
  /\ faults \subseteq {"joined_twice", "null_config", "null_profile",
                        "destroyed_in_use"}

NoCall == \A c \in Callers : Idle(c)

(* No thread is joined twice, g_config and g_profile are never read        *)
(* through a NULL pointer and the MQTT client is never destroyed while its *)
(* loop thread or a reconnect thread uses it (SAClient.c 120-126, 268-271, *)
(* 486-524, 532-557, 634).                                                 *)
NoFault == faults = {}

(* There is at most one reconnect thread and g_reconnThreadHandler names   *)
(* it: no call leaves one running that no later call can stop              *)
(* (SAClient.c 319-354 and every "if(g_reconnThreadHandler)").             *)
OneReconnectThread == \A r \in Threads : Live(r) => handle = r

(* The reconnect thread and the loop thread of a live session never dial   *)
(* at the same time: one MQTT client never has two sockets.                *)
OneDialler ==
  (\E r \in Threads : recon[r] \in {"dial", "dialling", "failed"}) => loop = "none"

(* Between calls, and outside a callback, g_bConnected says what the       *)
(* library knows of the session, and a session has its internal topics     *)
(* (SAClient.c 120-164, 289-317).                                          *)
SettledSession ==
  NoCall /\ callback = <<>> => /\ connected <=> (link = "up")
                               /\ connected => subscribed

(* Once saclient_disconnect or saclient_uninitialize has returned nothing  *)
(* is left that could dial: no thread, no session, no topic                *)
(* (SAClient.c 486-524, 696-706).                                          *)
QuietWhenNotWanted ==
  NoCall /\ ~wanted =>
    /\ \A r \in Threads : ~Live(r)
    /\ loop = "none" /\ link = "closed"
    /\ ~connected /\ ~subscribed

(* An event still queued when no call is in progress is about the server   *)
(* the agent is configured for: the events of the server it has left were  *)
(* all pushed before evtqueue_clear (SAClient.c 532-568).                  *)
QueuedEventsAreCurrent ==
  NoCall => \A i \in DOMAIN events : events[i][2] = server

(* The caller is in a hang-up, and a redial or a CONNACK of the library has *)
(* overwritten its disconnect (mosquitto.c 476-478, read_handle_client.c    *)
(* 64): the loop thread goes on and mosquitto_loop_stop waits for it.       *)
Unheard(c) == (At(c, "part") \/ At(c, "await")) /\ ~stopping

(* Every call returns whose hang-up the library has not overwritten: the   *)
(* reconnect thread and the loop thread it joins end                       *)
(* (SAClient.c 319-354; thread_mosq.c 54-84, mosquitto.c 932-991).         *)
CallsReturn == \A c \in Callers : []<>(Idle(c) \/ Unheard(c))

(* A hang-up returns.                                                      *)
(* Library3rdParty/mosquitto-1.3.4/lib/mosquitto.h 789-790: "For the       *)
(* network thread to end, you must have previously called                  *)
(* <mosquitto_disconnect> or have set the force parameter to true."        *)
HangUpReturns == \A c \in Callers : At(c, "await") ~> ~At(c, "await")

(* An agent that may disconnect and connect again, or move to another      *)
(* client, ends up with a session when it wants one and its server is      *)
(* reachable for good: by the first dial, the reconnect thread or the      *)
(* library's own redial (SAClient.c 167-287, 319-354, 559-720).            *)
(* Library3rdParty/mosquitto-1.3.4/lib/mosquitto.h 735, of                 *)
(* mosquitto_loop_forever: "It handles reconnecting in case server         *)
(* connection is lost."                                                    *)
SessionReturns ==
  <>[](net[server] = "up" /\ wanted /\ client /\ NoCall) => <>[]connected

(* The handlers end up knowing that the agent is connected.                *)
(* Include/susiaccess_handler_api.h 165-168: Handler_OnStatusChange is     *)
(* "CAgent status change notify."                                          *)
HandlersLearnOnline ==
  <>[](connected /\ NoCall) => <>[](seen[1] = "online")

(* A call made on an API that is not initialised returns an error.         *)
(* SAClient.h 54-56: "The status code for all SAClient API function will   *)
(* be saclient_no_init unless this function is called."                    *)
NoInitIsReported == "null_config" \notin faults

=============================================================================
