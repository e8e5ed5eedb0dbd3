------------------------------ MODULE Failover ------------------------------
(***************************************************************************)
(* Modules/ServerRedundancyHandler driving the connection core.  The event *)
(* worker of SAClient delivers each change of status to                    *)
(* Handler_OnStatusChange, which counts failures and, after more than      *)
(* MaxFailed of them, connects the agent to the next server of its list.   *)
(* That call of saclient_server_connect_config runs on the event worker    *)
(* itself: while it lasts no other event is taken from the queue.          *)
(***************************************************************************)
EXTENDS SAClient

CONSTANTS
  Worker,      \* the event worker, as a thread that calls the API
  ServerList,  \* g_ServerList: at least one server
  MaxFailed    \* MAX_CONNECT_FAILED_CNT

ASSUME WorkerAssumption == Worker \in Callers
ASSUME ServerListAssumption == ServerList \in Seq(Servers) /\ ServerList # <<>>
ASSUME MaxFailedAssumption == MaxFailed \in Nat

VARIABLES
  failedCnt,  \* g_connectedFailedCnt
  cur         \* g_pCurServer, as an index of ServerList, or 0 for NULL

handler == <<failedCnt, cur>>
allVars == <<vars, handler>>

FailoverInit == Init /\ failedCnt = 0 /\ cur = 0

(* The server after number i; after the last one the list starts again. *)
After(i) == IF i = Len(ServerList) THEN 1 ELSE i + 1

(* Mutant: the walk stops at the end of the list. *)
StopsAtTheEnd(i) ==
  CASE i = 0 -> After(1) [] i = Len(ServerList) -> i [] OTHER -> After(i)

(* g_pCurServer starts at the head of the list and moves on before use.    *)
NextServer(i) == IF i = 0 THEN After(1) ELSE After(i)

(* Online clears the count, everything else raises it. *)
Count(status) == IF status = "online" THEN 0 ELSE failedCnt + 1

(* Only a failure leaves the place in the list alone. *)
Place(status) == IF status = "failed" THEN cur ELSE 0

(* Handler_OnStatusChange with a count that stays within the limit. *)
NoteStatus ==
  /\ DeliverEvent
  /\ Count(taken[1]) <= MaxFailed
  /\ failedCnt' = Count(taken[1])
  /\ cur' = Place(taken[1])

(* Mutant: the count goes on after a switch. *)
SwitchKeepsCount ==
  /\ worker = "delivering"
  /\ Count(taken[1]) > MaxFailed
  /\ failedCnt' = Count(taken[1])
  /\ cur' = NextServer(Place(taken[1]))
  /\ seen' = taken
  /\ worker' = "busy"
  /\ todo' = [todo EXCEPT ![Worker] = ServerConnectSteps]
  /\ wanted' = TRUE
  /\ UNCHANGED <<conf, mqtt, session, retrying, events, taken, library, net,
                 faults>>

(* Handler_OnStatusChange that gives up on the server.  The call it makes  *)
(* goes on in the steps of Worker.                                         *)
SwitchServer ==
  /\ worker = "delivering"
  /\ Count(taken[1]) > MaxFailed
  /\ failedCnt' = 0
  /\ cur' = NextServer(Place(taken[1]))
  /\ seen' = taken
  /\ worker' = "busy"
  /\ todo' = [todo EXCEPT ![Worker] = ServerConnectSteps]
  /\ wanted' = TRUE
  /\ UNCHANGED <<conf, mqtt, session, retrying, events, taken, library, net,
                 faults>>

(* The handler returns to the event worker. *)
SwitchDone ==
  /\ worker = "busy"
  /\ Idle(Worker)
  /\ worker' = "idle"
  /\ UNCHANGED <<conf, mqtt, session, retrying, events, taken, seen, todo,
                 library, net, ghosts, handler>>

(* A step of SAClient.  The configuration the worker rebuilds the client   *)
(* with names the server the handler chose.                                *)
CoreStep ==
  /\ CoreNext
  /\ Rebuild(Worker) => (inited => server' = ServerList[cur])
  /\ UNCHANGED handler

FailoverNext == CoreStep \/ NoteStatus \/ SwitchServer \/ SwitchDone

FailoverSpec == FailoverInit /\ [][FailoverNext]_allVars

FailoverFairness ==
  /\ CoreFairness
  /\ WF_allVars(NoteStatus \/ SwitchServer)
  /\ WF_allVars(SwitchDone)

LiveFailover == FailoverSpec /\ FailoverFairness

-----------------------------------------------------------------------------
(* Properties *)

(* Types: the count never exceeds the limit between events, the place is   *)
(* in the list.                                                            *)
FailoverTypeOK ==
  /\ TypeOK
  /\ failedCnt \in 0 .. MaxFailed
  /\ cur \in 0 .. Len(ServerList)

(* The event worker comes back from a handler that connects to another     *)
(* server, although that call joins threads that push events into the      *)
(* queue only this worker empties, unless the library has overwritten its  *)
(* hang-up (SAClient.c 532-557, eventqueue.c 52-73, mosquitto.c 476-478).  *)
WorkerReturns == []<>(worker # "busy" \/ Unheard(Worker))

SomeServerUp == \E i \in DOMAIN ServerList : net[ServerList[i]] = "up"
ClientsRebuilt == \A c \in Callers : At(c, "dial") => client

(* No thread keeps dialling with a client that could not be rebuilt. *)
CanConnect == ClientsRebuilt /\ (client \/ \A r \in Threads : ~Live(r))
=============================================================================
