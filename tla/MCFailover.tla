----------------------------- MODULE MCFailover -----------------------------
(***************************************************************************)
(* Three scenes for Failover and for the liveness of SAClient:             *)
(*  - "changing": an application that starts the agent and nothing else,   *)
(*    brokers that come and go, but for one that is down;                  *)
(*  - "frozen": the same with brokers that never change;                   *)
(*  - "calls": one server, an application that makes every call, and no    *)
(*    handler that acts on a failure.                                      *)
(***************************************************************************)
EXTENDS Failover

CONSTANTS app, s1, s2, s3

MCCallers == {app, Worker}
MCThreeServers == {s1, s2, s3}
MCThreeServerList == <<s1, s2, s3>>
MCTwoServerList == <<s1, s2>>
MCCalls == {app} \X Operations

VARIABLE scene

(* The brokers that never change. *)
Still == CASE scene = "frozen" -> {s1, s2, s3}
           [] scene = "changing" -> {s3}
           [] scene = "calls" -> {s2, s3}

MCInit ==
  /\ FailoverInit
  /\ scene \in {"changing", "frozen", "calls"}
  /\ scene = "changing" => net[s3] = "down"
  /\ scene = "calls" => server = s1 /\ net[s2] = "down" /\ net[s3] = "down"

(* The handler is there, and the application makes the first calls only. *)
WithHandler ==
  /\ FailoverNext
  /\ \A op \in Operations \ {"initialize", "connect"} : ~Call(app, op)

(* No handler; a client is rebuilt for the one server. *)
WithoutHandler ==
  /\ CoreNext \/ DeliverEvent
  /\ server' = s1
  /\ UNCHANGED handler

MCNext ==
  /\ IF scene = "calls" THEN WithoutHandler ELSE WithHandler
  /\ \A s \in Still : net'[s] = net[s]
  /\ UNCHANGED scene

(* In the scene without the handler an event is delivered by DeliverEvent. *)
DeliverToNone ==
  /\ scene = "calls"
  /\ DeliverEvent
  /\ UNCHANGED <<handler, scene>>

MCFairness == FailoverFairness /\ WF_<<allVars, scene>>(DeliverToNone)

MCSpec == MCInit /\ [][MCNext]_<<allVars, scene>> /\ MCFairness

NoneUnheard == \A c \in Callers : ~Unheard(c)

(* With brokers that stay as they are and one of the list up, the agent    *)
(* ends up connected, whatever server it was configured for: it gives up   *)
(* each server that is down or refuses it, however often one failure is    *)
(* reported, unless the library overwrites a hang-up on the way            *)
(* (ServerRedundancyHandler.c 299-347, SAClient.c 319-354).                *)
FrozenFindsServer ==
  <>[](/\ scene = "frozen"
       /\ SomeServerUp /\ wanted
       /\ CanConnect /\ NoneUnheard) => <>[]connected

OnlyLastUp ==
  \A i \in DOMAIN ServerList :
     net[ServerList[i]] = IF i = Len(ServerList) THEN "up" ELSE "down"

(* The agent also leaves a server that dies after the agent has dialled it. *)
(* SAManager.c 826: "Server redundancy need to count how many times        *)
(* connect failed!"                                                        *)
FailsOverAfterLoss ==
  <>[](/\ scene = "changing"
       /\ OnlyLastUp /\ wanted
       /\ CanConnect /\ NoneUnheard) => <>[]connected
=============================================================================
