--------------------------- MODULE FailoverProofs ---------------------------
(***************************************************************************)
(* Proofs about Failover, for any list of servers, any limit of failures   *)
(* and any number of calling threads: the types, the bound of the count    *)
(* and the place in the list; and that switching to another server keeps   *)
(* what SessionProofs shows of the calls.  For an application that starts  *)
(* the agent and does nothing else, no call overlaps another, so nothing   *)
(* has to be assumed of that.                                              *)
(***************************************************************************)
EXTENDS Failover, SessionProofs

-----------------------------------------------------------------------------
(* The handler *)

(* Whatever the place in the list, the next one is in the list too. *)
LEMMA NextIsListed ==
  ASSUME NEW i \in 0 .. Len(ServerList)
  PROVE  NextServer(i) \in 1 .. Len(ServerList)
<1> DEFINE n == Len(ServerList)
<1>1. n \in Nat \ {0}
  BY ServerListAssumption, EmptySeq
<1>2. \A k \in 1 .. n : After(k) = IF k = n THEN 1 ELSE k + 1
  BY DEF After
<1>3. NextServer(i) = IF i = 0 THEN After(1) ELSE After(i)
  BY DEF NextServer
<1>4. i \in 0 .. n
  OBVIOUS
<1> HIDE DEF n
<1>5. \A k \in 1 .. n : After(k) \in 1 .. n
  BY <1>1, <1>2
<1>6. NextServer(i) \in 1 .. n
  BY <1>1, <1>3, <1>4, <1>5
<1> QED BY <1>6 DEF n

(* A status leaves the place in the list alone or forgets it, and adds at  *)
(* most one to the count.                                                  *)
LEMMA StatusEffect ==
  ASSUME FailoverTypeOK
  PROVE  /\ Count(taken[1]) \in Nat
         /\ Place(taken[1]) \in 0 .. Len(ServerList)
<1>1. Len(ServerList) \in Nat
  BY ServerListAssumption, LenProperties
<1> QED BY <1>1, MaxFailedAssumption DEF FailoverTypeOK, Count, Place

LEMMA HandlerKeepsTypes ==
  ASSUME FailoverTypeOK, NoteStatus \/ SwitchServer \/ SwitchDone
  PROVE  FailoverTypeOK'
<1>1. CASE NoteStatus
  BY <1>1, StatusEffect, WorkerKeepsTypes, MaxFailedAssumption
     DEF NoteStatus, FailoverTypeOK
<1>2. CASE SwitchServer
  <2>1. ServerConnectSteps \in Seq(Steps)
    BY ScriptType DEF Script, Operations
  <2>2. todo' \in [Callers -> Seq(Steps)]
    BY <1>2, <2>1 DEF SwitchServer, FailoverTypeOK, TypeOK
  <2>3. TypeOK'
    BY <1>2, <2>2 DEF SwitchServer, FailoverTypeOK, TypeOK, conf, mqtt, session,
       retrying, library
  <2>4. NextServer(Place(taken[1])) \in 0 .. Len(ServerList)
    BY StatusEffect, NextIsListed
  <2> QED BY <1>2, <2>3, <2>4, MaxFailedAssumption DEF SwitchServer, FailoverTypeOK
<1>3. CASE SwitchDone
  BY <1>3 DEF SwitchDone, FailoverTypeOK, TypeOK, conf, mqtt, session, retrying,
     library, ghosts, handler
<1> QED BY <1>1, <1>2, <1>3

(* Between two events the count of failures is within its limit, and the   *)
(* current server is one of the list or none (FailoverTypeOK).             *)
THEOREM FailoverTypeCorrect == FailoverSpec => []FailoverTypeOK
<1>1. FailoverInit => FailoverTypeOK
  <2>1. Len(ServerList) \in Nat
    BY ServerListAssumption, LenProperties
  <2> QED BY <2>1, InitTypes, MaxFailedAssumption DEF FailoverInit, FailoverTypeOK
<1>2. FailoverTypeOK /\ [FailoverNext]_allVars => FailoverTypeOK'
  <2> SUFFICES ASSUME FailoverTypeOK, [FailoverNext]_allVars PROVE FailoverTypeOK'
    OBVIOUS
  <2>1. CASE CoreStep
    BY <2>1, CoreKeepsTypes DEF CoreStep, handler, FailoverTypeOK
  <2>2. CASE NoteStatus \/ SwitchServer \/ SwitchDone
    BY <2>2, HandlerKeepsTypes
  <2>3. CASE UNCHANGED allVars
    BY <2>3 DEF allVars, handler, vars, conf, mqtt, session, retrying, queue, library,
       ghosts, TypeOK, FailoverTypeOK
  <2> QED BY <2>1, <2>2, <2>3 DEF FailoverNext
<1> QED BY <1>1, <1>2, PTL DEF FailoverSpec

-----------------------------------------------------------------------------
(* Switching among calls that do not overlap *)

(* The event worker calls the API from the handler only. *)
WorkerMakesNoCalls == \A op \in Operations : <<Worker, op>> \notin Calls

WorkerIdle == worker # "busy" => Idle(Worker)

(* The event worker is gone before the configuration is freed. *)
WorkerGone ==
  /\ ~inited => worker = "off"
  /\ "free" \in Left /\ "stop_events" \notin Left => worker = "off"

(* Which steps of the core change the worker. *)
LEMMA CallerAndWorker ==
  ASSUME NEW c \in Callers, CallerStep(c)
  PROVE  /\ worker' = worker \/ (worker = "idle" /\ worker' = "off")
         /\ Head(todo[c]) = "stop_events" => worker' = "off"
         /\ inited' = inited \/ (Head(todo[c]) = "free" /\ worker' = worker)
BY DEF CallerStep, Quiesce, Join, Unhook, HangUp, Part, AwaitLoop, Forget, Spawn, ClearEvents,
   Destroy, Rebuild, Dial, Dialled, Fallback, StopEvents, FreeConfig, At, queue, conf

LEMMA OthersAndWorker ==
  ASSUME \/ \E r \in Threads : ThreadStep(r)
         \/ LoopStep \/ TakeEvent \/ DeliverEvent \/ NetChange
  PROVE  /\ UNCHANGED <<todo, inited>>
         /\ \/ worker' = worker
            \/ worker = "idle" /\ worker' = "delivering"
            \/ worker = "delivering" /\ worker' = "idle"
BY DEF ThreadStep, Sleep, Redial, Redialled, ReportOpened, Retry, LoopStep, ConnAck,
   Refused, Lost, DecideToRedial, BeginRedial, AutoRedial, Closed, LoopEnds, SetConnected,
   InternalSubscribe, ReportStatus, Acknowledge, GiveUp, TakeEvent, DeliverEvent, NetChange,
   conf, queue

LEMMA WorkerIdleStep ==
  ASSUME WorkerMakesNoCalls, TypeOK, WorkerIdle, [FailoverNext]_allVars
  PROVE  WorkerIdle'
<1>1. ASSUME NEW c \in Callers, CallerStep(c) PROVE WorkerIdle'
  <2>1. c # Worker => todo'[Worker] = todo[Worker]
    BY <1>1, OwnScript, WorkerAssumption
  <2>2. c = Worker => ~Idle(Worker)
    BY <1>1, OwnScript
  <2> QED BY <1>1, <2>1, <2>2, CallerAndWorker DEF WorkerIdle, Idle
<1>2. ASSUME NEW c \in Callers, NEW op \in Operations, Initialize(c) \/ Call(c, op)
      PROVE  WorkerIdle'
  <2>1. CASE Initialize(c)
    BY <2>1, WorkerAssumption DEF Initialize, WorkerIdle, Idle
  <2>2. CASE Call(c, op)
    <3>1. c # Worker
      BY <2>2 DEF Call, WorkerMakesNoCalls
    <3> QED BY <2>2, <3>1, WorkerAssumption DEF Call, WorkerIdle, Idle, TypeOK, queue
  <2> QED BY <1>2, <2>1, <2>2
<1>3. CASE \/ \E r \in Threads : ThreadStep(r)
           \/ LoopStep \/ TakeEvent \/ NetChange \/ DeliverEvent
  BY <1>3, OthersAndWorker DEF WorkerIdle, Idle
<1>4. CASE SwitchServer
  BY <1>4 DEF SwitchServer, WorkerIdle
<1>5. CASE SwitchDone
  BY <1>5 DEF SwitchDone, WorkerIdle, Idle
<1>6. CASE UNCHANGED allVars
  BY <1>6 DEF allVars, vars, queue, WorkerIdle, Idle
<1> QED BY <1>1, <1>2, <1>3, <1>4, <1>5, <1>6
    DEF FailoverNext, CoreStep, CoreNext, NoteStatus, Operations

(* What is left of a call after one of its steps, as far as the event      *)
(* worker and the configuration are concerned.                             *)
LEMMA LeftOfStop ==
  ASSUME TypeOK, OneCallAtATime, ThreadInv, SessionInv, NEW c \in Callers, CallerStep(c)
  PROVE  /\ "free" \in Left' => "free" \in Left
         /\ "stop_events" \in Left => \/ "stop_events" \in Left'
                                       \/ Head(todo[c]) = "stop_events"
                                       \/ "free" \notin Left'
         /\ Head(todo[c]) = "free" => "free" \in Left /\ "stop_events" \notin Left
<1>0. /\ ~Idle(c) /\ Ordered(todo[c]) /\ Shaped(todo[c])
      /\ Head(todo[c]) \in Left /\ Left \subseteq Steps
  BY OwnScript, LeftFacts DEF SessionInv, ThreadInv
<1>s. "free" \in Steps /\ "stop_events" \in Steps
  BY DEF Steps
<1>1. CASE Advance(c)
  BY <1>0, <1>1, <1>s, Advances
<1>2. ASSUME NEW x \in Steps, Replace(c, <<x>>),
             <<Head(todo[c]), x>> \in
               {<<"quiesce", "join">>, <<"hangup", "part">>, <<"part", "await">>,
                <<"dial", "dialling">>, <<"dial", "fallback">>, <<"dialling", "fallback">>}
      PROVE  /\ "free" \in Left' => "free" \in Left
             /\ "stop_events" \in Left => "stop_events" \in Left'
             /\ Head(todo[c]) # "free"
  <2>1. /\ \A y \in Left : y = Head(todo[c]) \/ y \in Left'
        /\ \A y \in Left' : y = x \/ y \in Left
    BY <1>0, <1>2, Continues
  <2> QED BY <1>2, <2>1
<1>3. CASE Head(todo[c]) = "fallback" /\ Replace(c, ReconnectSteps)
  <2>1. Len(todo[c]) = 1
    BY <1>0, <1>3, LastLeft DEF LastSteps
  <2>2. todo'[c] = ReconnectSteps
    BY <1>0, <1>3, <2>1, Restarts
  <2> QED BY <1>3, <2>2, LeftAfter, ReconnectOrder
<1>4. \/ Advance(c)
      \/ Head(todo[c]) = "quiesce" /\ Replace(c, <<"join">>)
      \/ Head(todo[c]) = "hangup" /\ Replace(c, <<"part">>)
      \/ Head(todo[c]) = "part" /\ Replace(c, <<"await">>)
      \/ Head(todo[c]) = "dial" /\ Replace(c, <<"dialling">>)
      \/ Head(todo[c]) = "dial" /\ Replace(c, <<"fallback">>)
      \/ Head(todo[c]) = "dialling" /\ Replace(c, <<"fallback">>)
      \/ Head(todo[c]) = "fallback" /\ Replace(c, ReconnectSteps)
  BY DEF CallerStep, Quiesce, Join, Unhook, HangUp, Part, AwaitLoop, Forget, Spawn, ClearEvents,
     Destroy, Rebuild, Dial, Dialled, Fallback, StopEvents, FreeConfig, At
<1>5. {"join", "part", "await", "dialling", "fallback"} \subseteq Steps
  BY DEF Steps
<1> QED BY <1>1, <1>2, <1>3, <1>4, <1>5

(* Only an uninitialisation frees the configuration, after the worker. *)
LEMMA ScriptStops ==
  ASSUME NEW op \in Operations, op # "initialize", "free" \in StepsOf(Script(op))
  PROVE  "stop_events" \in StepsOf(Script(op))
<1>1. Script(op) = UninitializeSteps
  BY ScriptOrder DEF Script
<1>2. 5 \in 1 .. Len(UninitializeSteps) /\ UninitializeSteps[5] = "stop_events"
  BY DEF UninitializeSteps
<1> QED BY <1>1, <1>2 DEF StepsOf

(* The steps left when a thread has just entered an API function. *)
LEMMA LeftOnEntry ==
  ASSUME TypeOK, OneCallAtATime', NEW c \in Callers, NEW op \in Operations,
         op # "initialize", todo' = [todo EXCEPT ![c] = Script(op)]
  PROVE  Left' = StepsOf(Script(op))
<1>1. todo'[c] = Script(op) /\ Script(op) # <<>>
  BY ScriptType DEF TypeOK
<1>2. \A d \in Callers : d = c \/ todo'[d] = <<>>
  BY <1>1 DEF OneCallAtATime, Idle
<1> QED BY <1>1, <1>2, EmptyScript DEF Left

LEMMA WorkerGoneStep ==
  ASSUME WorkerMakesNoCalls, TypeOK, OneCallAtATime, OneCallAtATime', ThreadInv, SessionInv,
         WorkerGone, [FailoverNext]_allVars
  PROVE  WorkerGone'
<1>1. ASSUME NEW c \in Callers, CallerStep(c) PROVE WorkerGone'
  BY <1>1, CallerAndWorker, LeftOfStop DEF WorkerGone
<1>2. ASSUME NEW c \in Callers, NEW op \in Operations, Initialize(c) \/ Call(c, op)
      PROVE  WorkerGone'
  <2>1. CASE Initialize(c)
    <3>1. NoCall /\ Left' = Left /\ inited'
      BY <2>1 DEF Initialize, NoCall, Left
    <3>2. Left = {}
      BY <3>1, LeftFacts DEF SessionInv
    <3> QED BY <3>1, <3>2 DEF WorkerGone
  <2>2. CASE Call(c, op)
    <3>1. Left' = StepsOf(Script(op)) /\ op # "initialize" /\ inited'
      BY <2>2, LeftOnEntry DEF Call, conf
    <3> QED BY <3>1, ScriptStops DEF WorkerGone
  <2> QED BY <1>2, <2>1, <2>2
<1>3. CASE \/ \E r \in Threads : ThreadStep(r)
           \/ LoopStep \/ TakeEvent \/ NetChange \/ DeliverEvent
  BY <1>3, OthersAndWorker DEF WorkerGone, Left
<1>4. CASE SwitchServer
  <2>1. inited' /\ Left' = StepsOf(Script("server_connect"))
    BY <1>4, LeftOnEntry, WorkerAssumption
       DEF SwitchServer, WorkerGone, conf, Script, Operations
  <2>2. "free" \notin Left'
    BY <2>1, ScriptOrder DEF Operations
  <2> QED BY <2>1, <2>2 DEF WorkerGone
<1>5. CASE SwitchDone
  BY <1>5 DEF SwitchDone, WorkerGone, Left, conf
<1>6. CASE UNCHANGED allVars
  BY <1>6 DEF allVars, vars, queue, conf, WorkerGone, Left
<1> QED BY <1>1, <1>2, <1>3, <1>4, <1>5, <1>6
    DEF FailoverNext, CoreStep, CoreNext, NoteStatus, Operations

FailoverInv == ThreadInv /\ SessionInv /\ WorkerIdle /\ WorkerGone

(* A switch of the server is a call like any other: the event worker makes *)
(* it while the agent is initialised.                                      *)
LEMMA SwitchKeepsSession ==
  ASSUME TypeOK, OneCallAtATime, OneCallAtATime', FailoverInv, SwitchServer
  PROVE  ThreadInv' /\ SessionInv'
<1> DEFINE op == "server_connect"
<1>1. /\ Idle(Worker) /\ inited /\ op \in Operations
      /\ op # "initialize" /\ op # "connect"
      /\ Script(op) = ServerConnectSteps
  BY DEF SwitchServer, FailoverInv, WorkerIdle, WorkerGone, Operations, Script
<1>2. /\ todo' = [todo EXCEPT ![Worker] = Script(op)]
      /\ wanted' = (op \in {"connect", "server_connect", "reconnect"})
      /\ UNCHANGED <<conf, mqtt, session, retrying, events, library, faults>>
  BY <1>1 DEF SwitchServer
<1>3. UNCHANGED <<handle, target, recon>>
  BY <1>2 DEF retrying
<1> HIDE DEF op
<1> QED BY <1>1, <1>2, <1>3, EnterKeepsThread, EnterKeepsSession, WorkerAssumption
    DEF FailoverInv

LEMMA FailoverKeepsSession ==
  ASSUME WorkerMakesNoCalls, TypeOK, OneCallAtATime, OneCallAtATime', FailoverInv,
         [FailoverNext]_allVars
  PROVE  FailoverInv'
<1>1. WorkerIdle' /\ WorkerGone'
  BY WorkerIdleStep, WorkerGoneStep DEF FailoverInv
<1>2. CASE CoreStep \/ NoteStatus \/ UNCHANGED allVars
  <2>1. [Next]_vars
    BY <1>2 DEF CoreStep, NoteStatus, allVars, Next
  <2> QED BY <1>1, <2>1, NextKeepsThread, NextKeepsSession DEF FailoverInv
<1>3. CASE SwitchServer
  BY <1>1, <1>3, SwitchKeepsSession DEF FailoverInv
<1>4. CASE SwitchDone
  <2>1. UNCHANGED <<conf, mqtt, session, retrying, events, library, todo, ghosts>>
    BY <1>4 DEF SwitchDone
  <2>2. ThreadInv'
    BY <2>1 DEF FailoverInv, retrying, ThreadInv, OneReconnectThread, Live, Idle, At
  <2> QED BY <1>1, <2>1, <2>2, SessionUnchanged DEF FailoverInv
<1> QED BY <1>2, <1>3, <1>4 DEF FailoverNext

(* What the calls rely on holds also with the failover handler, which      *)
(* makes calls of its own on the event worker, when none of them overlaps  *)
(* another.                                                                *)
THEOREM FailoverInvariant ==
  ASSUME WorkerMakesNoCalls
  PROVE  FailoverSpec /\ []OneCallAtATime => []FailoverInv
<1>1. FailoverInit => FailoverInv
  <2>1. Init => WorkerIdle /\ WorkerGone
    <3> SUFFICES ASSUME Init PROVE WorkerIdle /\ WorkerGone
      OBVIOUS
    <3>1. Left = {} /\ Idle(Worker)
      BY EmptyScript, WorkerAssumption DEF Init, Left, Idle
    <3> QED BY <3>1 DEF Init, WorkerIdle, WorkerGone
  <2> QED BY <2>1, InitThread, InitSession DEF FailoverInit, FailoverInv
<1>2. TypeOK /\ OneCallAtATime /\ OneCallAtATime' /\ FailoverInv /\ [FailoverNext]_allVars
        => FailoverInv'
  BY FailoverKeepsSession
<1>3. FailoverTypeOK => TypeOK
  BY DEF FailoverTypeOK
<1> QED BY <1>1, <1>2, <1>3, FailoverTypeCorrect, PTL DEF FailoverSpec

-----------------------------------------------------------------------------
(* An application that starts the agent and makes no other call *)

StartsOnly(app) ==
  app \in Callers \ {Worker} /\ Calls \subseteq {app} \X {"initialize", "connect"}

(* The events the worker has not counted yet, and those it has. *)
Pending == Len(events) + (IF worker = "delivering" THEN 1 ELSE 0) + failedCnt

(* Nothing but the call in progress can raise an event. *)
Unmoved ==
  /\ handle = NULL /\ \A r \in Threads : ~Live(r)
  /\ loop = "none" /\ callback = <<>>
  /\ worker # "busy"

(* What can be left of saclient_connect before it has dialled, and after   *)
(* that has failed.                                                        *)
Dials == {ConnectSteps, <<"dial">>, <<"dialling">>}
FallsBack ==
  {<<"fallback">>, ReconnectSteps, <<"hangup", "forget", "spawn">>,
   <<"part", "forget", "spawn">>, <<"await", "forget", "spawn">>,
   <<"forget", "spawn">>, <<"spawn">>}

(* While app connects, one failure at most is reported, which is too few   *)
(* for the handler to give up on the server.  Afterwards app is done.      *)
StartInv(app) ==
  /\ \A c \in Callers \ {app, Worker} : Idle(c)
  /\ ~wanted => Idle(app) /\ Unmoved /\ Pending = 0
  /\ ~Idle(app) =>
       /\ Unmoved
       /\ \/ todo[app] \in Dials /\ Pending = 0
          \/ todo[app] \in FallsBack /\ Pending <= 1

(* The first step of each remainder, and what is left after it. *)
LEMMA ConnectScript ==
  /\ \A s \in Dials \cup FallsBack :
       /\ s # <<>>
       /\ Head(s) \in {"quiesce", "dial", "dialling", "fallback", "hangup", "part",
                       "await", "forget", "spawn"}
  /\ \A s \in Dials :
       /\ Head(s) = "quiesce" => Tail(s) = <<"dial">>
       /\ Head(s) \in {"quiesce", "dial", "dialling"}
       /\ Head(s) \in {"dial", "dialling"} =>
            Tail(s) = <<>> /\ \A x \in Steps : <<x>> \o Tail(s) = <<x>>
  /\ \A s \in FallsBack :
       /\ Head(s) \notin {"dial", "dialling"}
       /\ Head(s) \in {"quiesce", "hangup", "part", "await", "forget"} =>
            Tail(s) \in FallsBack
       /\ Head(s) = "hangup" => <<"part">> \o Tail(s) \in FallsBack
       /\ Head(s) = "part" => <<"await">> \o Tail(s) \in FallsBack
       /\ Head(s) \in {"fallback", "spawn"} => Tail(s) = <<>>
       /\ Head(s) = "fallback" => ReconnectSteps \o Tail(s) = ReconnectSteps
<1> DEFINE a == <<"quiesce", "dial">>
           f == <<"fallback">>
           r4 == <<"quiesce", "hangup", "forget", "spawn">>
           r3 == <<"hangup", "forget", "spawn">>
           p3 == <<"part", "forget", "spawn">>
           w3 == <<"await", "forget", "spawn">>
           r2 == <<"forget", "spawn">>
           r1 == <<"spawn">>
           d == <<"dial">>
           g == <<"dialling">>
<1>1. a # <<>> /\ Head(a) = "quiesce" /\ Tail(a) = d
  OBVIOUS
<1>2. d # <<>> /\ Head(d) = "dial" /\ Tail(d) = <<>>
  OBVIOUS
<1>3. g # <<>> /\ Head(g) = "dialling" /\ Tail(g) = <<>>
  OBVIOUS
<1>4. f # <<>> /\ Head(f) = "fallback" /\ Tail(f) = <<>>
  OBVIOUS
<1>5. r4 # <<>> /\ Head(r4) = "quiesce" /\ Tail(r4) = r3
  OBVIOUS
<1>6. r3 # <<>> /\ Head(r3) = "hangup" /\ Tail(r3) = r2
  OBVIOUS
<1>7. w3 # <<>> /\ Head(w3) = "await" /\ Tail(w3) = r2
  OBVIOUS
<1>8. r2 # <<>> /\ Head(r2) = "forget" /\ Tail(r2) = r1
  OBVIOUS
<1>9. r1 # <<>> /\ Head(r1) = "spawn" /\ Tail(r1) = <<>>
  OBVIOUS
<1>10. \A x \in Steps : <<x>> \o <<>> = <<x>>
  BY ConcatEmptySeq
<1>11. r4 \o <<>> = r4
  BY ConcatEmptySeq
<1>12. \A x \in {"part", "await"} : <<x>> \o r2 = <<x, "forget", "spawn">>
  <2> TAKE x \in {"part", "await"}
  <2> DEFINE o == <<x>>
             t == o \o r2
             w == <<x, "forget", "spawn">>
  <2>1. o \in Seq(Steps) /\ Len(o) = 1 /\ o[1] = x
    BY DEF Steps
  <2>2. r2 \in Seq(Steps) /\ Len(r2) = 2 /\ r2[1] = "forget" /\ r2[2] = "spawn"
    BY DEF Steps
  <2>3. w \in Seq(Steps) /\ Len(w) = 3 /\ w[1] = x /\ w[2] = "forget" /\ w[3] = "spawn"
    BY DEF Steps
  <2> HIDE DEF o, r2, w
  <2>4. /\ t \in Seq(Steps) /\ Len(t) = Len(o) + Len(r2)
        /\ \A i \in 1 .. Len(o) + Len(r2) :
             t[i] = IF i <= Len(o) THEN o[i] ELSE r2[i - Len(o)]
    BY <2>1, <2>2, ConcatProperties
  <2> HIDE DEF t
  <2>5. t \in Seq(Steps) /\ Len(t) = 3 /\ \A i \in 1 .. Len(t) : t[i] = w[i]
    BY <2>1, <2>2, <2>3, <2>4
  <2>6. t = w
    BY <2>3, <2>5, SeqEqual
  <2> QED BY <2>6 DEF t, o, w
<1>16. p3 # <<>> /\ Head(p3) = "part" /\ Tail(p3) = r2
  OBVIOUS
<1>17. <<"part">> \o r2 = p3 /\ <<"await">> \o r2 = w3
  BY <1>12
<1>13. Dials = {a, d, g} /\ FallsBack = {f, r4, r3, p3, w3, r2, r1} /\ ReconnectSteps = r4
  BY DEF Dials, FallsBack, ConnectSteps, ReconnectSteps
<1> HIDE DEF a, f, r4, r3, p3, w3, r2, r1, d, g
<1>14. \A s \in Dials :
       /\ s # <<>>
       /\ Head(s) = "quiesce" => Tail(s) = d
       /\ Head(s) \in {"quiesce", "dial", "dialling"}
       /\ Head(s) \in {"dial", "dialling"} =>
            Tail(s) = <<>> /\ \A x \in Steps : <<x>> \o Tail(s) = <<x>>
  BY <1>1, <1>2, <1>3, <1>10, <1>13
<1>15. \A s \in FallsBack :
       /\ s # <<>>
       /\ Head(s) \in {"quiesce", "fallback", "hangup", "part", "await", "forget", "spawn"}
       /\ Head(s) \in {"quiesce", "hangup", "part", "await", "forget"} =>
            Tail(s) \in FallsBack
       /\ Head(s) = "hangup" => <<"part">> \o Tail(s) \in FallsBack
       /\ Head(s) = "part" => <<"await">> \o Tail(s) \in FallsBack
       /\ Head(s) \in {"fallback", "spawn"} => Tail(s) = <<>>
       /\ Head(s) = "fallback" => ReconnectSteps \o Tail(s) = ReconnectSteps
  BY <1>4, <1>5, <1>6, <1>7, <1>8, <1>9, <1>11, <1>13, <1>16, <1>17,
     ZenonT(90)
<1> QED BY <1>14, <1>15 DEF d

(* While nothing moves only the application and the event worker can step. *)
LEMMA UnmovedSteps ==
  ASSUME TypeOK, Unmoved
  PROVE  ~LoopStep /\ \A r \in Threads : ~ThreadStep(r)
BY DEF Unmoved, Live, TypeOK, LoopStep, ConnAck, Refused, Lost, DecideToRedial, BeginRedial,
   AutoRedial, Closed, LoopEnds, SetConnected, InternalSubscribe, ReportStatus, Acknowledge,
   GiveUp, LoopFree, InCallback, ThreadStep, Sleep, Redial, Redialled, ReportOpened, Retry

(* A step that touches neither the threads nor the queue moves nothing. *)
LEMMA UnmovedStays ==
  ASSUME Unmoved, UNCHANGED <<handle, recon, loop, callback, worker, events, failedCnt>>
  PROVE  Unmoved' /\ Pending' = Pending
BY DEF Unmoved, Pending, Live

(* A step of saclient_connect while app starts the agent. *)
LEMMA ConnectStep ==
  ASSUME NEW app \in Callers, FailoverTypeOK, Unmoved, CallerStep(app), UNCHANGED handler,
         \/ todo[app] \in Dials /\ Pending = 0
         \/ todo[app] \in FallsBack /\ Pending <= 1
  PROVE  \/ todo'[app] = <<>>
         \/ Unmoved' /\ todo'[app] \in Dials /\ Pending' = 0
         \/ Unmoved' /\ todo'[app] \in FallsBack /\ Pending' <= 1
<1> DEFINE s == todo[app]
           h == Head(s)
<1>0. /\ s # <<>> /\ s \in Dials \cup FallsBack
      /\ h \in {"quiesce", "dial", "dialling", "fallback", "hangup", "part", "await",
                "forget", "spawn"}
      /\ h \in {"dial", "dialling"} <=> s \in Dials /\ h # "quiesce"
  BY ConnectScript
<1>t. todo \in [Callers -> Seq(Steps)] /\ TypeOK
  BY DEF FailoverTypeOK, TypeOK
<1>r. /\ Advance(app) => todo'[app] = Tail(s)
      /\ \A new : Replace(app, new) => todo'[app] = new \o Tail(s)
  BY <1>t DEF Advance, Replace
<1>f. failedCnt' = failedCnt
  BY DEF handler
<1>1. CASE h \in {"quiesce", "hangup", "part", "await", "forget"}
  <2>1. /\ \/ Advance(app)
           \/ h = "hangup" /\ Replace(app, <<"part">>)
           \/ h = "part" /\ Replace(app, <<"await">>)
        /\ UNCHANGED <<handle, recon, loop, callback, worker, events>>
    BY <1>1 DEF CallerStep, Quiesce, Join, Unhook, HangUp, Part, AwaitLoop, Forget, Spawn,
       ClearEvents, Destroy, Rebuild, Dial, Dialled, Fallback, StopEvents, FreeConfig, At,
       Unmoved, retrying, queue, library
  <2>2. Unmoved' /\ Pending' = Pending
    BY <2>1, <1>f, UnmovedStays
  <2>3. s \in Dials => h = "quiesce" /\ Tail(s) = <<"dial">> /\ <<"dial">> \in Dials
    BY <1>1, ConnectScript DEF Dials
  <2>4. s \in FallsBack => Tail(s) \in FallsBack
                           /\ (h = "hangup" => <<"part">> \o Tail(s) \in FallsBack)
                           /\ (h = "part" => <<"await">> \o Tail(s) \in FallsBack)
    BY <1>1, ConnectScript
  <2>5. s \in Dials => todo'[app] \in Dials
    BY <1>r, <2>1, <2>3
  <2>6. s \in FallsBack => todo'[app] \in FallsBack
    <3>1. CASE Advance(app)
      BY <1>r, <2>4, <3>1
    <3>2. CASE h = "hangup" /\ Replace(app, <<"part">>)
      <4>1. todo'[app] = <<"part">> \o Tail(s)
        BY <1>r, <3>2
      <4> QED BY <2>4, <3>2, <4>1
    <3>3. CASE h = "part" /\ Replace(app, <<"await">>)
      <4>1. todo'[app] = <<"await">> \o Tail(s)
        BY <1>r, <3>3
      <4> QED BY <2>4, <3>3, <4>1
    <3> QED BY <2>1, <3>1, <3>2, <3>3
  <2> QED BY <2>2, <2>5, <2>6
<1>2. CASE h = "dial"
  <2>1. /\ Replace(app, <<"dialling">>) \/ Replace(app, <<"fallback">>)
        /\ UNCHANGED <<handle, recon, loop, callback, worker, events>>
    BY <1>2 DEF CallerStep, Quiesce, Join, Unhook, HangUp, Part, AwaitLoop, Forget, Spawn,
       ClearEvents, Destroy, Rebuild, Dial, Dialled, Fallback, StopEvents, FreeConfig, At,
       retrying, queue
  <2>2. Unmoved' /\ Pending' = Pending
    BY <2>1, <1>f, UnmovedStays
  <2>3. todo'[app] \in {<<"dialling">>, <<"fallback">>} /\ s \in Dials
    BY <1>0, <1>2, <1>r, <2>1, ConnectScript, ZenonT(30) DEF Steps
  <2>4. s \notin FallsBack
    BY <1>2, ConnectScript
  <2> QED BY <2>2, <2>3, <2>4 DEF Dials, FallsBack
<1>3. CASE h = "dialling"
  <2>1. Dialled(app)
    BY <1>3 DEF CallerStep, Quiesce, Join, Unhook, HangUp, Part, AwaitLoop, Forget, Spawn,
       ClearEvents, Destroy, Rebuild, Dial, Fallback, StopEvents, FreeConfig, At
  <2>2. s \in Dials /\ s \notin FallsBack /\ Tail(s) = <<>>
    BY <1>0, <1>3, ConnectScript
  <2>3. CASE Advance(app)
    BY <1>r, <2>2, <2>3
  <2>4. CASE SocketFails /\ Replace(app, <<"fallback">>)
    <3>0. <<"fallback">> \o Tail(s) = <<"fallback">>
      BY <1>3, <2>2, ConnectScript DEF Steps
    <3>1. todo'[app] = <<"fallback">>
      BY <1>r, <2>4, <3>0
    <3>2. UNCHANGED <<handle, recon, loop, callback, worker>>
      BY <2>1, <2>4 DEF Dialled, SocketFails, retrying
    <3>3. Unmoved'
      BY <3>2 DEF Unmoved, Live
    <3>4. Len(events') <= Len(events) + 1 /\ Len(events) \in Nat /\ Len(events') \in Nat
      BY <1>t, <2>4 DEF SocketFails, Push, TypeOK
    <3>5. Pending' <= 1
      BY <1>f, <2>2, <3>2, <3>4 DEF Pending, FailoverTypeOK
    <3> QED BY <3>1, <3>3, <3>5 DEF FallsBack
  <2> QED BY <2>1, <2>3, <2>4 DEF Dialled
<1>4. CASE h = "fallback"
  <2>1. /\ Replace(app, ReconnectSteps) \/ Advance(app)
        /\ UNCHANGED <<handle, recon, loop, callback, worker, events>>
    BY <1>4 DEF CallerStep, Quiesce, Join, Unhook, HangUp, Part, AwaitLoop, Forget, Spawn,
       ClearEvents, Destroy, Rebuild, Dial, Dialled, Fallback, StopEvents, FreeConfig, At,
       retrying, queue, library
  <2>2. Unmoved' /\ Pending' = Pending
    BY <2>1, <1>f, UnmovedStays
  <2>3. s \in FallsBack /\ s \notin Dials
    BY <1>0, <1>4, ConnectScript
  <2>4. todo'[app] = <<>> \/ todo'[app] = ReconnectSteps
    BY <1>4, <1>r, <2>1, <2>3, ConnectScript
  <2> QED BY <2>2, <2>3, <2>4 DEF FallsBack
<1>5. CASE h = "spawn"
  <2>1. Advance(app)
    BY <1>5 DEF CallerStep, Quiesce, Join, Unhook, HangUp, Part, AwaitLoop, Forget, Spawn,
       ClearEvents, Destroy, Rebuild, Dial, Dialled, Fallback, StopEvents, FreeConfig, At
  <2> QED BY <1>0, <1>5, <1>r, <2>1, ConnectScript
<1> QED BY <1>0, <1>1, <1>2, <1>3, <1>4, <1>5

LEMMA StartCaller ==
  ASSUME NEW app, StartsOnly(app), FailoverTypeOK, WorkerIdle, StartInv(app),
         NEW c \in Callers, CallerStep(c), UNCHANGED handler
  PROVE  StartInv(app)'
<1>1. app \in Callers /\ app # Worker /\ TypeOK
  BY DEF StartsOnly, FailoverTypeOK
<1>2. ~Idle(c) /\ \A d \in Callers : d # c => todo'[d] = todo[d]
  BY <1>1, OwnScript
<1>3. c \in {app, Worker} /\ \A d \in Callers \ {app, Worker} : todo'[d] = <<>>
  BY <1>2 DEF StartInv, Idle
<1>4. wanted' = wanted
  BY DEF CallerStep, Quiesce, Join, Unhook, HangUp, Part, AwaitLoop, Forget, Spawn, ClearEvents,
     Destroy, Rebuild, Dial, Dialled, Fallback, StopEvents, FreeConfig, ghosts
<1>5. CASE c = Worker
  <2>1. worker = "busy"
    BY <1>2, <1>5 DEF WorkerIdle
  <2>2. wanted /\ todo[app] = <<>>
    BY <2>1 DEF StartInv, Unmoved, Idle
  <2> QED BY <1>1, <1>2, <1>3, <1>4, <1>5, <2>2 DEF StartInv, Idle
<1>6. CASE c = app
  <2>1. /\ Unmoved
        /\ \/ todo[app] \in Dials /\ Pending = 0
           \/ todo[app] \in FallsBack /\ Pending <= 1
        /\ wanted
    BY <1>2, <1>6 DEF StartInv
  <2>2. \/ todo'[app] = <<>>
        \/ Unmoved' /\ todo'[app] \in Dials /\ Pending' = 0
        \/ Unmoved' /\ todo'[app] \in FallsBack /\ Pending' <= 1
    BY <1>1, <1>6, <2>1, ConnectStep
  <2> QED BY <1>3, <1>4, <2>1, <2>2 DEF StartInv, Idle
<1> QED BY <1>3, <1>5, <1>6

LEMMA StartCall ==
  ASSUME NEW app, StartsOnly(app), FailoverTypeOK, StartInv(app), UNCHANGED handler,
         NEW c \in Callers, NEW op \in Operations, Initialize(c) \/ Call(c, op)
  PROVE  StartInv(app)'
<1>1. app \in Callers /\ app # Worker /\ TypeOK
  BY DEF StartsOnly, FailoverTypeOK
<1>2. CASE Initialize(c)
  <2>1. /\ \A d \in Callers : todo'[d] = <<>>
        /\ UNCHANGED <<handle, recon, loop, callback, wanted, failedCnt>>
        /\ worker' = "idle" /\ events' = <<>>
    BY <1>2 DEF Initialize, Idle, retrying, library, ghosts, handler
  <2>2. Unmoved => Unmoved'
    BY <2>1 DEF Unmoved, Live
  <2>3. Pending' = failedCnt /\ Pending = 0 => Pending' = 0
    <3>1. Len(events) \in Nat /\ failedCnt \in Nat /\ Len(events') = 0
      BY <1>1, <2>1, LenProperties, MaxFailedAssumption DEF FailoverTypeOK, TypeOK
    <3> QED BY <2>1, <3>1 DEF Pending
  <2>4. Pending' = failedCnt
    BY <2>1, MaxFailedAssumption DEF Pending, FailoverTypeOK
  <2> QED BY <1>1, <2>1, <2>2, <2>3, <2>4 DEF StartInv, Idle
<1>3. CASE Call(c, op)
  <2>1. c = app /\ op = "connect" /\ ~wanted
    BY <1>3 DEF StartsOnly, Call
  <2>2. /\ todo' = [todo EXCEPT ![app] = ConnectSteps] /\ wanted'
        /\ UNCHANGED <<handle, recon, loop, callback, worker, events, failedCnt>>
    BY <1>3, <2>1 DEF Call, Script, retrying, library, queue, handler
  <2>3. /\ todo'[app] = ConnectSteps
        /\ \A d \in Callers \ {app} : todo'[d] = todo[d]
    BY <1>1, <2>2 DEF TypeOK
  <2>4. Unmoved' /\ Pending' = 0
    BY <2>1, <2>2, UnmovedStays DEF StartInv
  <2> QED BY <2>2, <2>3, <2>4 DEF StartInv, Idle, Dials
<1> QED BY <1>2, <1>3

LEMMA StartStep ==
  ASSUME NEW app, StartsOnly(app), MaxFailed >= 1, FailoverTypeOK, WorkerIdle,
         StartInv(app), [FailoverNext]_allVars
  PROVE  StartInv(app)'
<1> DEFINE Starting == ~wanted \/ ~Idle(app)
<1>0. app \in Callers /\ app # Worker /\ TypeOK
  BY DEF StartsOnly, FailoverTypeOK
<1>s. Starting => Unmoved /\ Pending <= 1
  BY DEF StartInv
<1>n. Len(events) \in Nat /\ failedCnt \in Nat /\ Pending \in Nat
  BY <1>0, MaxFailedAssumption DEF FailoverTypeOK, TypeOK, Pending
<1>k. ASSUME UNCHANGED <<todo, wanted>>,
             Starting => Unmoved' /\ Pending' <= Pending /\ Pending' \in Nat
      PROVE  StartInv(app)'
  BY <1>k, <1>n DEF StartInv, Idle
<1>1. ASSUME NEW c \in Callers, CallerStep(c), UNCHANGED handler PROVE StartInv(app)'
  BY <1>1, StartCaller
<1>2. ASSUME NEW c \in Callers, NEW op \in Operations, Initialize(c) \/ Call(c, op),
             UNCHANGED handler
      PROVE  StartInv(app)'
  BY <1>2, StartCall
<1>3. CASE (LoopStep \/ \E r \in Threads : ThreadStep(r)) /\ UNCHANGED handler
  <2>1. ~Starting
    BY <1>0, <1>3, <1>s, UnmovedSteps
  <2>2. UNCHANGED <<todo, wanted>>
    BY <1>3 DEF ThreadStep, Sleep, Redial, Redialled, ReportOpened, Retry, LoopStep, ConnAck,
       Refused, Lost, DecideToRedial, BeginRedial, AutoRedial, Closed, LoopEnds, SetConnected,
       InternalSubscribe, ReportStatus, Acknowledge, GiveUp, ghosts
  <2> QED BY <1>k, <2>1, <2>2
<1>4. CASE TakeEvent /\ UNCHANGED handler
  <2>1. /\ UNCHANGED <<todo, wanted, handle, recon, loop, callback, failedCnt>>
        /\ worker = "idle" /\ worker' = "delivering"
        /\ events # <<>> /\ events' = Tail(events)
    BY <1>4 DEF TakeEvent, retrying, library, ghosts, handler
  <2>2. Len(events') = Len(events) - 1
    BY <1>0, <2>1 DEF TypeOK
  <2>3. Pending' = Pending
    BY <1>n, <2>1, <2>2 DEF Pending
  <2>4. Unmoved => Unmoved'
    BY <2>1 DEF Unmoved, Live
  <2> QED BY <1>k, <1>n, <1>s, <2>1, <2>3, <2>4
<1>5. CASE NoteStatus
  <2>1. /\ UNCHANGED <<todo, wanted, handle, recon, loop, callback, events>>
        /\ worker = "delivering" /\ worker' = "idle"
        /\ failedCnt' = 0 \/ failedCnt' = failedCnt + 1
    BY <1>5 DEF NoteStatus, DeliverEvent, Count, retrying, library, ghosts
  <2>2. Pending' <= Pending /\ Pending' \in Nat
    BY <1>n, <2>1 DEF Pending
  <2>3. Unmoved => Unmoved'
    BY <2>1 DEF Unmoved, Live
  <2> QED BY <1>k, <1>s, <2>1, <2>2, <2>3
<1>6. CASE SwitchServer
  <2>1. worker = "delivering" /\ failedCnt + 1 > 1
    BY <1>6, <1>n, MaxFailedAssumption DEF SwitchServer, Count
  <2>2. ~Starting
    BY <1>n, <1>s, <2>1 DEF Pending
  <2>3. wanted' /\ \A d \in Callers \ {Worker} : todo'[d] = todo[d]
    BY <1>0, <1>6 DEF SwitchServer, TypeOK
  <2> QED BY <1>0, <2>2, <2>3 DEF StartInv, Idle
<1>7. CASE SwitchDone
  <2>1. ~Starting
    BY <1>7, <1>s DEF SwitchDone, Unmoved
  <2>2. UNCHANGED <<todo, wanted>>
    BY <1>7 DEF SwitchDone, ghosts
  <2> QED BY <1>k, <2>1, <2>2
<1>8. CASE (NetChange /\ UNCHANGED handler) \/ UNCHANGED allVars
  <2>1. UNCHANGED <<todo, wanted, handle, recon, loop, callback, worker, events, failedCnt>>
    BY <1>8 DEF NetChange, allVars, vars, handler, retrying, library, queue, ghosts
  <2> QED BY <1>k, <1>n, <1>s, <2>1, UnmovedStays
<1>9. \E op : op \in Operations
  BY DEF Operations
<1> QED BY <1>1, <1>2, <1>3, <1>4, <1>5, <1>6, <1>7, <1>8, <1>9
    DEF FailoverNext, CoreStep, CoreNext

(* Of an application that only initialises and connects, no call overlaps  *)
(* another, the handler's own calls included: one failed dial raises one   *)
(* event, too few for the handler to call saclient_server_connect_config   *)
(* before saclient_connect has returned (SAClient.c 559-650, 319-354;      *)
(* ServerRedundancyHandler.c 299-347, whose limit is 2).                   *)
THEOREM StartsWithoutOverlap ==
  ASSUME NEW app, StartsOnly(app), MaxFailed >= 1
  PROVE  FailoverSpec => []OneCallAtATime
<1> DEFINE IInv == WorkerIdle /\ StartInv(app)
<1>1. FailoverInit => IInv
  <2> SUFFICES ASSUME FailoverInit PROVE IInv
    OBVIOUS
  <2>1. \A c \in Callers : todo[c] = <<>>
    BY DEF FailoverInit, Init
  <2>2. Len(events) = 0
    BY LenProperties DEF FailoverInit, Init
  <2>3. Unmoved /\ Pending = 0
    BY <2>2 DEF FailoverInit, Init, Unmoved, Live, Pending
  <2> QED BY <2>1, <2>3, WorkerAssumption DEF WorkerIdle, StartInv, Idle, StartsOnly
<1>2. FailoverTypeOK /\ IInv /\ [FailoverNext]_allVars => IInv'
  <2>1. WorkerMakesNoCalls
    BY DEF StartsOnly, WorkerMakesNoCalls
  <2> QED BY <2>1, WorkerIdleStep, StartStep DEF FailoverTypeOK
<1>3. IInv => OneCallAtATime
  <2> SUFFICES ASSUME IInv, NEW c \in Callers, NEW d \in Callers, c # d,
                      ~Idle(c), ~Idle(d)
               PROVE  FALSE
    BY DEF OneCallAtATime
  <2>1. {c, d} = {app, Worker}
    BY DEF StartInv
  <2>2. ~Idle(app) /\ ~Idle(Worker)
    BY <2>1
  <2> QED BY <2>2 DEF StartInv, WorkerIdle, Unmoved
<1> QED BY <1>1, <1>2, <1>3, FailoverTypeCorrect, PTL DEF FailoverSpec

(* Nothing the source leaves undefined happens to such an application: no  *)
(* thread is joined twice, no freed configuration is read, no client is    *)
(* destroyed in use, although the handler moves the agent from server to   *)
(* server on the event worker (NoFault).                                   *)
THEOREM FailoverNoFault ==
  ASSUME NEW app, StartsOnly(app), MaxFailed >= 1
  PROVE  FailoverSpec => []NoFault
<1>1. WorkerMakesNoCalls
  BY DEF StartsOnly, WorkerMakesNoCalls
<1>2. FailoverInv => NoFault
  BY DEF FailoverInv, SessionInv
<1>3. FailoverSpec /\ []OneCallAtATime => []FailoverInv
  BY <1>1, FailoverInvariant
<1>4. FailoverSpec => []OneCallAtATime
  BY StartsWithoutOverlap
<1> QED BY <1>2, <1>3, <1>4, PTL

(* Its reconnect thread and the library's loop thread never dial at the    *)
(* same time (OneDialler).                                                 *)
THEOREM FailoverOneDialler ==
  ASSUME NEW app, StartsOnly(app), MaxFailed >= 1
  PROVE  FailoverSpec => []OneDialler
<1>1. WorkerMakesNoCalls
  BY DEF StartsOnly, WorkerMakesNoCalls
<1>2. FailoverInv => OneDialler
  BY DEF FailoverInv, SessionInv, DialInv, OneDialler
<1>3. FailoverSpec /\ []OneCallAtATime => []FailoverInv
  BY <1>1, FailoverInvariant
<1>4. FailoverSpec => []OneCallAtATime
  BY StartsWithoutOverlap
<1> QED BY <1>2, <1>3, <1>4, PTL

(* And an event still queued between two calls is about the server the     *)
(* agent is configured for now, not about one the handler has given up     *)
(* (QueuedEventsAreCurrent).                                               *)
THEOREM FailoverEventsAreCurrent ==
  ASSUME NEW app, StartsOnly(app), MaxFailed >= 1
  PROVE  FailoverSpec => []QueuedEventsAreCurrent
<1>1. WorkerMakesNoCalls
  BY DEF StartsOnly, WorkerMakesNoCalls
<1>2. FailoverInv => QueuedEventsAreCurrent
  BY DEF FailoverInv, SessionInv, EventsInv, QueuedEventsAreCurrent
<1>3. FailoverSpec /\ []OneCallAtATime => []FailoverInv
  BY <1>1, FailoverInvariant
<1>4. FailoverSpec => []OneCallAtATime
  BY StartsWithoutOverlap
<1> QED BY <1>2, <1>3, <1>4, PTL

=============================================================================
