--------------------------- MODULE SAClientProofs ---------------------------
(***************************************************************************)
(* Proofs about SAClient for any set of servers, any number of thread      *)
(* identities and any capacity of the event queue.  Type correctness holds *)
(* however calls overlap; the rest is about calls that do not.             *)
(***************************************************************************)
EXTENDS SAClient, SequenceTheorems, TLAPS

-----------------------------------------------------------------------------
(* Scripts *)

(* A script is a sequence of steps that starts by quiescing.  Only its     *)
(* last step can dial or create a thread.                                  *)
LastSteps == {"dial", "dialling", "fallback", "spawn"}
Shaped(s) ==
  /\ \A i \in 1 .. Len(s) : s[i] \in LastSteps => i = Len(s)
  /\ \A i \in 2 .. Len(s) : s[i] # "join"

NoLastStep(s) == \A i \in 1 .. Len(s) : s[i] \notin LastSteps

LEMMA ScriptType ==
  ASSUME NEW op \in Operations, op # "initialize"
  PROVE  /\ Script(op) \in Seq(Steps)
         /\ Script(op) # <<>> /\ Head(Script(op)) = "quiesce"
         /\ Shaped(Script(op))
<1> DEFINE Good(s) == /\ s \in Seq(Steps) /\ s # <<>> /\ Head(s) = "quiesce"
                      /\ Shaped(s)
<1>1. Good(ConnectSteps)
  BY DEF ConnectSteps, Steps, Shaped, LastSteps
<1>2. Good(DisconnectSteps)
  BY DEF DisconnectSteps, Steps, Shaped, LastSteps
<1>3. Good(ReconnectSteps)
  BY DEF ReconnectSteps, Steps, Shaped, LastSteps
<1>4. Good(UninitializeSteps)
  BY DEF UninitializeSteps, Steps, Shaped, LastSteps
<1>5. Good(ServerConnectSteps)
  BY DEF ServerConnectSteps, Steps, Shaped, LastSteps
<1>6. \/ Script(op) = ConnectSteps \/ Script(op) = DisconnectSteps
      \/ Script(op) = ReconnectSteps \/ Script(op) = UninitializeSteps
      \/ Script(op) = ServerConnectSteps
  BY DEF Script, Operations
<1> QED BY <1>1, <1>2, <1>3, <1>4, <1>5, <1>6

(* Advancing drops the first step of one caller's script. *)
LEMMA AdvanceDrops ==
  ASSUME todo \in [Callers -> Seq(Steps)], NEW c \in Callers, ~Idle(c), Advance(c)
  PROVE  /\ todo' \in [Callers -> Seq(Steps)]
         /\ \A d \in Callers \ {c} : todo'[d] = todo[d]
         /\ Len(todo'[c]) = Len(todo[c]) - 1
         /\ \A i \in 1 .. Len(todo'[c]) : todo'[c][i] = todo[c][i + 1]
<1>1. /\ Tail(todo[c]) \in Seq(Steps)
      /\ Len(Tail(todo[c])) = Len(todo[c]) - 1
      /\ \A i \in 1 .. Len(Tail(todo[c])) : Tail(todo[c])[i] = todo[c][i + 1]
  BY HeadTailProperties DEF Idle
<1>2. todo' = [todo EXCEPT ![c] = Tail(todo[c])]
  BY DEF Advance
<1> QED BY <1>1, <1>2

(* Replacing puts other steps in the place of the first one. *)
LEMMA ReplacePrepends ==
  ASSUME todo \in [Callers -> Seq(Steps)], NEW c \in Callers, ~Idle(c),
         NEW s \in Seq(Steps), Replace(c, s)
  PROVE  /\ todo' \in [Callers -> Seq(Steps)]
         /\ \A d \in Callers \ {c} : todo'[d] = todo[d]
         /\ Len(todo'[c]) = Len(s) + Len(todo[c]) - 1
         /\ \A i \in 1 .. Len(todo'[c]) :
               todo'[c][i] = IF i <= Len(s) THEN s[i] ELSE todo[c][i - Len(s) + 1]
<1> DEFINE t == Tail(todo[c])
<1>1. /\ t \in Seq(Steps)
      /\ Len(t) = Len(todo[c]) - 1
      /\ \A i \in 1 .. Len(t) : t[i] = todo[c][i + 1]
  BY HeadTailProperties DEF Idle
<1>2. /\ s \o t \in Seq(Steps)
      /\ Len(s \o t) = Len(s) + Len(t)
      /\ \A i \in 1 .. Len(s) + Len(t) :
            (s \o t)[i] = IF i <= Len(s) THEN s[i] ELSE t[i - Len(s)]
  BY <1>1, ConcatProperties
<1>3. /\ todo'[c] = s \o t
      /\ todo' \in [Callers -> Seq(Steps)]
      /\ \A d \in Callers \ {c} : todo'[d] = todo[d]
  BY <1>2 DEF Replace
<1>4. Len(s) \in Nat /\ Len(todo[c]) \in Nat
  BY LenProperties
<1>5. ASSUME NEW i \in 1 .. Len(todo'[c])
      PROVE  todo'[c][i] = IF i <= Len(s) THEN s[i] ELSE todo[c][i - Len(s) + 1]
  <2>1. CASE i <= Len(s)
    BY <1>1, <1>2, <1>3, <1>4, <2>1
  <2>2. CASE i > Len(s)
    <3>1. i - Len(s) \in 1 .. Len(t)
      BY <1>1, <1>2, <1>3, <1>4, <2>2
    <3> QED BY <1>1, <1>2, <1>3, <1>4, <2>2, <3>1
  <2> QED BY <1>4, <2>1, <2>2
<1> QED BY <1>1, <1>2, <1>3, <1>4, <1>5

(* What replaces a step is itself a sequence of steps. *)
LEMMA ReplacementType ==
  /\ <<"join">> \in Seq(Steps) /\ Len(<<"join">>) = 1
  /\ <<"part">> \in Seq(Steps) /\ Len(<<"part">>) = 1
  /\ <<"await">> \in Seq(Steps) /\ Len(<<"await">>) = 1
  /\ <<"dialling">> \in Seq(Steps) /\ Len(<<"dialling">>) = 1
  /\ <<"fallback">> \in Seq(Steps) /\ Len(<<"fallback">>) = 1
  /\ ReconnectSteps \in Seq(Steps) /\ Len(ReconnectSteps) = 4
BY DEF Steps, ReconnectSteps

-----------------------------------------------------------------------------
(* Types *)

(* A push keeps the queue within its bound. *)
LEMMA PushType ==
  ASSUME TypeOK, NEW status \in Status, Push(status)
  PROVE  events' \in Seq(Records) /\ Len(events') <= EvtSlots
<1>1. <<status, server>> \in Records
  BY DEF TypeOK, Records
<1>2. /\ Append(events, <<status, server>>) \in Seq(Records)
      /\ Len(Append(events, <<status, server>>)) = Len(events) + 1
  BY <1>1, AppendProperties DEF TypeOK
<1> QED BY <1>2, LenProperties, EvtSlotsAssumption DEF TypeOK, Push

LEMMA CallerKeepsTypes ==
  ASSUME TypeOK, NEW c \in Callers, CallerStep(c)
  PROVE  TypeOK'
<1>a. Advance(c) /\ ~Idle(c) => todo' \in [Callers -> Seq(Steps)]
  BY AdvanceDrops DEF TypeOK
<1>b. \A s \in Seq(Steps) : Replace(c, s) /\ ~Idle(c) => todo' \in [Callers -> Seq(Steps)]
  BY ReplacePrepends DEF TypeOK
<1> USE <1>a, <1>b, ReplacementType
<1>1. CASE Quiesce(c)
  BY <1>1 DEF TypeOK, Quiesce, At, conf, mqtt, session, queue, library, ghosts
<1>2. CASE Join(c)
  BY <1>2 DEF TypeOK, Join, At, conf, mqtt, session, queue, library, Places
<1>3. CASE Unhook(c)
  BY <1>3 DEF TypeOK, Unhook, At, conf, session, retrying, queue, library, ghosts
<1>4. CASE HangUp(c)
  BY <1>4 DEF TypeOK, HangUp, At, conf, mqtt, session, retrying, queue, ghosts
<1>4a. CASE Part(c)
  BY <1>4a DEF TypeOK, Part, At, conf, mqtt, session, retrying, queue, ghosts
<1>5. CASE AwaitLoop(c)
  BY <1>5 DEF TypeOK, AwaitLoop, At, conf, mqtt, session, retrying, queue, ghosts
<1>6. CASE Forget(c)
  BY <1>6 DEF TypeOK, Forget, At, conf, mqtt, retrying, queue, library, ghosts
<1>7. CASE Spawn(c)
  BY <1>7 DEF TypeOK, Spawn, At, conf, mqtt, session, queue, library, ghosts, Places
<1>8. CASE ClearEvents(c)
  <2>1. events' \in Seq(Records) /\ Len(events') <= EvtSlots
    BY <1>8, EmptySeq, EvtSlotsAssumption DEF ClearEvents
  <2> QED BY <1>8, <2>1
      DEF TypeOK, ClearEvents, At, conf, mqtt, session, retrying, library, ghosts
<1>9. CASE Destroy(c)
  <2>1. callback' \in Seq(Statements)
    BY <1>9, EmptySeq DEF TypeOK, Destroy
  <2> QED BY <1>9, <2>1
      DEF TypeOK, Destroy, At, conf, session, retrying, queue
<1>10. CASE Rebuild(c)
  BY <1>10 DEF TypeOK, Rebuild, At, session, retrying, queue, library, ghosts
<1>11. CASE Dial(c)
  BY <1>11 DEF TypeOK, Dial, StartDial, At, conf, session, retrying, queue
<1>12. CASE Dialled(c)
  <2>1. events' \in Seq(Records) /\ Len(events') <= EvtSlots
    BY <1>12, PushType DEF TypeOK, Dialled, SocketOpens, SocketFails, Status
  <2> QED BY <1>12, <2>1
      DEF TypeOK, Dialled, SocketOpens, SocketFails, At, conf, session, retrying, ghosts
<1>13. CASE Fallback(c)
  BY <1>13 DEF TypeOK, Fallback, At, conf, mqtt, session, retrying, queue, library
<1>14. CASE StopEvents(c)
  <2>1. events' \in Seq(Records) /\ Len(events') <= EvtSlots
    BY <1>14, EmptySeq, EvtSlotsAssumption DEF StopEvents
  <2> QED BY <1>14, <2>1
      DEF TypeOK, StopEvents, At, conf, mqtt, session, retrying, library, ghosts
<1>15. CASE FreeConfig(c)
  BY <1>15 DEF TypeOK, FreeConfig, At, mqtt, session, retrying, queue, library, ghosts
<1> QED BY <1>1, <1>2, <1>3, <1>4, <1>4a, <1>5, <1>6, <1>7, <1>8, <1>9, <1>10, <1>11, <1>12,
           <1>13, <1>14, <1>15 DEF CallerStep

LEMMA ThreadKeepsTypes ==
  ASSUME TypeOK, NEW r \in Threads, ThreadStep(r)
  PROVE  TypeOK'
<1>1. CASE Sleep(r)
  BY <1>1 DEF TypeOK, Sleep, MoveTo, Places, conf, mqtt, session, queue, library, ghosts
<1>2. CASE Redial(r)
  BY <1>2 DEF TypeOK, Redial, StartDial, MoveTo, Places, conf, session, queue
<1>3. CASE Redialled(r)
  <2>1. events' \in Seq(Records) /\ Len(events') <= EvtSlots
    BY <1>3, PushType DEF TypeOK, Redialled, SocketOpens, SocketFails, Status
  <2> QED BY <1>3, <2>1
      DEF TypeOK, Redialled, SocketOpens, SocketFails, MoveTo, Places, conf, session, ghosts
<1>4. CASE ReportOpened(r)
  <2>1. events' \in Seq(Records) /\ Len(events') <= EvtSlots
    BY <1>4, PushType DEF ReportOpened, Status
  <2> QED BY <1>4, <2>1
      DEF TypeOK, ReportOpened, MoveTo, Places, conf, mqtt, session, library, ghosts
<1>5. CASE Retry(r)
  BY <1>5 DEF TypeOK, Retry, MoveTo, Places, conf, mqtt, session, queue, library, ghosts
<1> QED BY <1>1, <1>2, <1>3, <1>4, <1>5 DEF ThreadStep

LEMMA LoopKeepsTypes ==
  ASSUME TypeOK, LoopStep
  PROVE  TypeOK'
<1>a. \A s, t \in Seq(Statements) :
         RunCallback(s, t) => callback' \in Seq(Statements)
  BY EmptySeq, ConcatProperties DEF RunCallback
<1>b. /\ OnConnect \in Seq(Statements)
      /\ OnLostConnect \in Seq(Statements)
      /\ OnDisconnect \in Seq(Statements)
      /\ {<<>>, <<"acked">>, <<"give_up">>} \subseteq Seq(Statements)
  BY DEF OnConnect, OnLostConnect, OnDisconnect, Statements, Status
<1>1. CASE ConnAck \/ Refused \/ Lost \/ Closed
  <2>1. callback' \in Seq(Statements)
    BY <1>1, <1>a, <1>b DEF ConnAck, Refused, Lost, Closed
  <2> QED BY <1>1, <2>1
      DEF TypeOK, Statements, ConnAck, Refused, Lost, Closed, conf, mqtt, session,
          retrying, queue, ghosts
<1>2. CASE LoopEnds \/ DecideToRedial \/ BeginRedial \/ AutoRedial
  BY <1>2 DEF TypeOK, LoopEnds, DecideToRedial, BeginRedial, AutoRedial, conf, mqtt,
     session, retrying, queue, ghosts
<1>3. CASE SetConnected \/ InternalSubscribe \/ ReportStatus \/ Acknowledge \/ GiveUp
  <2>0. callback \in Seq(Statements) /\ callback # <<>> /\ callback' = Tail(callback)
    BY <1>3 DEF TypeOK, SetConnected, InternalSubscribe, ReportStatus, Acknowledge, GiveUp,
       InCallback, EndStatement
  <2>1. callback' \in Seq(Statements)
    BY <2>0, HeadTailProperties
  <2>2. CASE InternalSubscribe
    BY <2>1, <2>2 DEF TypeOK, Statements, InternalSubscribe, conf, mqtt, retrying, queue,
       ghosts
  <2>2a. CASE SetConnected
    <3>1. faults' \in {faults, faults \cup {"null_profile"}} /\ connected' \in BOOLEAN
      BY <2>2a DEF SetConnected
    <3> QED BY <2>1, <2>2a, <3>1
        DEF TypeOK, Statements, SetConnected, conf, mqtt, retrying, queue
  <2>3. CASE ReportStatus
    <3>1. events' \in Seq(Records) /\ Len(events') <= EvtSlots
      <4>1. CASE Push(Head(callback))
        BY <2>3, <4>1, PushType DEF ReportStatus, InCallback
      <4>2. CASE UNCHANGED events
        BY <4>2 DEF TypeOK
      <4> QED BY <2>3, <4>1, <4>2 DEF ReportStatus
    <3> QED BY <2>1, <2>3, <3>1
        DEF TypeOK, Statements, ReportStatus, conf, mqtt, session, retrying, ghosts
  <2>4. CASE Acknowledge \/ GiveUp
    BY <2>1, <2>4
       DEF TypeOK, Acknowledge, GiveUp, conf, mqtt, session, retrying, queue, ghosts
  <2> QED BY <1>3, <2>2, <2>2a, <2>3, <2>4
<1> QED BY <1>1, <1>2, <1>3 DEF LoopStep

LEMMA WorkerKeepsTypes ==
  ASSUME TypeOK, TakeEvent \/ DeliverEvent \/ NetChange
  PROVE  TypeOK'
<1>1. CASE TakeEvent
  <2>1. /\ Head(events) \in Records
        /\ Tail(events) \in Seq(Records) /\ Len(Tail(events)) = Len(events) - 1
    BY <1>1, HeadTailProperties DEF TypeOK, TakeEvent
  <2>2. Len(events') <= EvtSlots
    BY <1>1, <2>1, EvtSlotsAssumption, LenProperties DEF TypeOK, TakeEvent
  <2> QED BY <1>1, <2>1, <2>2
      DEF TypeOK, TakeEvent, conf, mqtt, session, retrying, library, ghosts
<1>2. CASE DeliverEvent
  BY <1>2 DEF TypeOK, DeliverEvent, conf, mqtt, session, retrying, library, ghosts
<1>3. CASE NetChange
  BY <1>3 DEF TypeOK, NetChange, conf, mqtt, session, retrying, queue, library, ghosts
<1> QED BY <1>1, <1>2, <1>3

LEMMA CallKeepsTypes ==
  ASSUME TypeOK, NEW c \in Callers, NEW op \in Operations, Initialize(c) \/ Call(c, op)
  PROVE  TypeOK'
<1>1. CASE Initialize(c)
  <2>1. events' \in Seq(Records) /\ Len(events') <= EvtSlots
    BY <1>1, EmptySeq, EvtSlotsAssumption DEF Initialize
  <2> QED BY <1>1, <2>1
      DEF TypeOK, Initialize, Records, Status, session, retrying, library, ghosts
<1>2. CASE Call(c, op)
  <2>1. todo' \in [Callers -> Seq(Steps)]
    BY <1>2, ScriptType DEF TypeOK, Call
  <2> QED BY <1>2, <2>1 DEF TypeOK, Call, conf, mqtt, session, retrying, queue, library
<1> QED BY <1>1, <1>2

LEMMA InitTypes == Init => TypeOK
<1> SUFFICES ASSUME Init PROVE TypeOK
  OBVIOUS
<1>1. /\ events \in Seq(Records) /\ Len(events) <= EvtSlots
      /\ callback \in Seq(Statements)
      /\ todo \in [Callers -> Seq(Steps)]
  BY EmptySeq, EvtSlotsAssumption DEF Init
<1>2. seen \in Records /\ taken \in Records
  BY DEF Init, Records, Status
<1> QED BY <1>1, <1>2 DEF Init, TypeOK, Places

LEMMA CoreKeepsTypes == TypeOK /\ CoreNext => TypeOK'
BY CallerKeepsTypes, ThreadKeepsTypes, LoopKeepsTypes, WorkerKeepsTypes, CallKeepsTypes
   DEF CoreNext, Operations

(* Every variable stays in its type and the event queue within its slots,  *)
(* whatever the threads do (TypeOK).                                       *)
THEOREM TypeCorrect == Spec => []TypeOK
<1>1. TypeOK /\ [Next]_vars => TypeOK'
  <2> SUFFICES ASSUME TypeOK, [Next]_vars PROVE TypeOK'
    OBVIOUS
  <2>1. CASE Next
    BY <2>1, CoreKeepsTypes, WorkerKeepsTypes DEF Next
  <2>2. CASE UNCHANGED vars
    BY <2>2 DEF vars, conf, mqtt, session, retrying, queue, library, ghosts, TypeOK
  <2> QED BY <2>1, <2>2
<1> QED BY <1>1, InitTypes, PTL DEF Spec

-----------------------------------------------------------------------------
(* One reconnect thread *)

(* Nothing in SAClient.c keeps two threads from calling at the same time.  *)
(* This says that they do not.                                             *)
OneCallAtATime == \A c, d \in Callers : c # d => Idle(c) \/ Idle(d)

LEMMA SingleCaller ==
  ASSUME \A c, d \in Callers : c = d
  PROVE  OneCallAtATime
BY DEF OneCallAtATime

(* A step of a call leaves the scripts of the other threads alone. *)
LEMMA OwnScript ==
  ASSUME TypeOK, NEW c \in Callers, CallerStep(c)
  PROVE  ~Idle(c) /\ \A d \in Callers \ {c} : todo'[d] = todo[d]
<1>1. At(c, Head(todo[c])) /\ ~Idle(c)
  BY DEF CallerStep, Quiesce, Join, Unhook, HangUp, Part, AwaitLoop, Forget, Spawn, ClearEvents,
         Destroy, Rebuild, Dial, Dialled, Fallback, StopEvents, FreeConfig, At
<1>2. Advance(c) \/ \E x \in Seq(Steps) : Replace(c, x)
  BY ReplacementType
     DEF CallerStep, Quiesce, Join, Unhook, HangUp, Part, AwaitLoop, Forget, Spawn, ClearEvents,
         Destroy, Rebuild, Dial, Dialled, Fallback, StopEvents, FreeConfig
<1> QED BY <1>1, <1>2 DEF Advance, Replace, TypeOK

(* The inductive strengthening of OneReconnectThread for such calls: past  *)
(* the first step of a call there is no reconnect thread until the last    *)
(* step creates one, and the thread that is joined is the one the          *)
(* handle names (the guard at the head of every function of SAClient.c     *)
(* 486-720).                                                               *)
ThreadInv ==
  /\ \A c \in Callers : Shaped(todo[c])
  /\ \A c \in Callers :
        ~Idle(c) /\ Head(todo[c]) \notin {"quiesce", "join"} => handle = NULL
  /\ \A c \in Callers : At(c, "join") => handle # NULL /\ target[c] = handle
  /\ OneReconnectThread

LEMMA TailShape ==
  ASSUME NEW s \in Seq(Steps), s # <<>>, Shaped(s),
         NEW t \in Seq(Steps), Len(t) = Len(s) - 1,
         \A i \in 1 .. Len(t) : t[i] = s[i + 1]
  PROVE  /\ Shaped(t)
         /\ Head(s) \in LastSteps => t = <<>>
         /\ t # <<>> => Head(t) # "join"
<1> HIDE DEF Steps, LastSteps
<1>1. Len(s) \in Nat \ {0} /\ Len(t) \in Nat
  BY LenProperties, EmptySeq
<1>2. /\ \A i \in 1 .. Len(s) : s[i] \in LastSteps => i = Len(s)
      /\ \A i \in 2 .. Len(s) : s[i] # "join"
  BY DEF Shaped
<1>3. Head(s) = s[1]
  OBVIOUS
<1>4. Shaped(t)
  <2>1. \A i \in 1 .. Len(t) : i + 1 \in 2 .. Len(s)
    BY <1>1
  <2>2. \A i \in 1 .. Len(t) : t[i] \in LastSteps => i = Len(t)
    BY <1>1, <1>2, <2>1
  <2>3. \A i \in 2 .. Len(t) : t[i] # "join"
    BY <1>1, <1>2, <2>1
  <2> QED BY <2>2, <2>3 DEF Shaped
<1>5. Head(s) \in LastSteps => t = <<>>
  <2>1. Head(s) \in LastSteps => Len(s) = 1
    BY <1>1, <1>2, <1>3
  <2> QED BY <1>1, <2>1, EmptySeq
<1>6. t # <<>> => Head(t) # "join"
  <2>1. t # <<>> => Head(t) = t[1] /\ Len(t) \in Nat \ {0}
    BY EmptySeq
  <2> QED BY <1>1, <1>2, <2>1
<1> QED BY <1>4, <1>5, <1>6

LEMMA AdvanceShape ==
  ASSUME TypeOK, NEW c \in Callers, ~Idle(c), Shaped(todo[c]), Advance(c)
  PROVE  /\ Shaped(todo'[c])
         /\ Head(todo[c]) \in LastSteps => todo'[c] = <<>>
         /\ todo'[c] # <<>> => Head(todo'[c]) # "join"
<1>1. /\ todo[c] \in Seq(Steps) /\ todo[c] # <<>>
      /\ todo'[c] \in Seq(Steps)
      /\ Len(todo'[c]) = Len(todo[c]) - 1
      /\ \A i \in 1 .. Len(todo'[c]) : todo'[c][i] = todo[c][i + 1]
  BY AdvanceDrops DEF TypeOK, Idle
<1> DEFINE s == todo[c]
           t == todo'[c]
<1>2. /\ s \in Seq(Steps) /\ s # <<>> /\ Shaped(s)
      /\ t \in Seq(Steps) /\ Len(t) = Len(s) - 1
      /\ \A i \in 1 .. Len(t) : t[i] = s[i + 1]
  BY <1>1
<1>3. /\ Shaped(t)
      /\ Head(s) \in LastSteps => t = <<>>
      /\ t # <<>> => Head(t) # "join"
  <2> HIDE DEF s, t
  <2> QED BY <1>2, TailShape
<1> QED BY <1>3

LEMMA JoinedShape ==
  ASSUME NEW s \in Seq(Steps), s # <<>>, Shaped(s),
         NEW o \in Seq(Steps), o # <<>>, Shaped(o),
         NEW t \in Seq(Steps), Len(t) = Len(s) + Len(o) - 1,
         \A i \in 1 .. Len(t) : t[i] = IF i <= Len(s) THEN s[i] ELSE o[i - Len(s) + 1],
         Head(o) \in LastSteps \/ NoLastStep(s)
  PROVE  /\ Shaped(t)
         /\ t # <<>>
         /\ Head(t) = s[1]
<1> HIDE DEF Steps, LastSteps
<1>1. Len(s) \in Nat \ {0} /\ Len(o) \in Nat \ {0} /\ Len(t) \in Nat \ {0}
  BY LenProperties, EmptySeq
<1>2. /\ \A i \in 1 .. Len(s) : s[i] \in LastSteps => i = Len(s)
      /\ \A i \in 2 .. Len(s) : s[i] # "join"
      /\ \A i \in 1 .. Len(o) : o[i] \in LastSteps => i = Len(o)
      /\ \A i \in 2 .. Len(o) : o[i] # "join"
  BY DEF Shaped
<1>3. t # <<>> /\ Head(t) = t[1] /\ t[1] = s[1] /\ Head(o) = o[1]
  BY <1>1, EmptySeq
<1>4. CASE Head(o) \in LastSteps
  <2>0. 1 \in 1 .. Len(o) /\ o[1] \in LastSteps
    BY <1>1, <1>3, <1>4
  <2>a. Len(o) = 1
    <3>1. \A i \in 1 .. Len(o) : o[i] \in LastSteps => i = Len(o)
      BY <1>2
    <3> HIDE <1>2
    <3> QED BY <2>0, <3>1
  <2>1. Len(o) = 1 /\ Len(t) = Len(s)
    BY <1>1, <2>a
  <2>2. \A i \in 1 .. Len(t) : t[i] = s[i]
    BY <1>1, <2>1
  <2> QED BY <1>1, <1>2, <1>3, <2>1, <2>2 DEF Shaped
<1>5. CASE Head(o) \notin LastSteps
  <2>1. \A i \in 1 .. Len(s) : t[i] = s[i] /\ s[i] \notin LastSteps
    BY <1>1, <1>5 DEF NoLastStep
  <2>2. \A i \in 1 .. Len(t) :
           i > Len(s) => /\ i - Len(s) + 1 \in 2 .. Len(o)
                         /\ t[i] = o[i - Len(s) + 1]
    BY <1>1
  <2>3. ASSUME NEW i \in 1 .. Len(t), t[i] \in LastSteps
        PROVE  i = Len(t)
    <3>1. i > Len(s)
      BY <1>1, <2>1, <2>3
    <3>2. i - Len(s) + 1 \in 1 .. Len(o) /\ o[i - Len(s) + 1] \in LastSteps
      BY <1>1, <2>2, <2>3, <3>1
    <3>3. i - Len(s) + 1 = Len(o)
      BY <1>2, <3>2
    <3> QED BY <1>1, <3>3
  <2>4. \A i \in 2 .. Len(t) : t[i] # "join"
    BY <1>1, <1>2, <2>1, <2>2
  <2> QED BY <1>3, <2>3, <2>4 DEF Shaped
<1> QED BY <1>4, <1>5

LEMMA ReplaceShape ==
  ASSUME TypeOK, NEW c \in Callers, ~Idle(c), Shaped(todo[c]),
         NEW s \in Seq(Steps), s # <<>>, Shaped(s), Replace(c, s),
         Head(todo[c]) \in LastSteps \/ NoLastStep(s)
  PROVE  /\ Shaped(todo'[c])
         /\ todo'[c] # <<>>
         /\ Head(todo'[c]) = s[1]
<1>1. /\ todo[c] \in Seq(Steps) /\ todo[c] # <<>>
      /\ todo'[c] \in Seq(Steps)
      /\ Len(todo'[c]) = Len(s) + Len(todo[c]) - 1
      /\ \A i \in 1 .. Len(todo'[c]) :
            todo'[c][i] = IF i <= Len(s) THEN s[i] ELSE todo[c][i - Len(s) + 1]
  BY ReplacePrepends DEF TypeOK, Idle
<1> DEFINE o == todo[c]
           t == todo'[c]
<1>2. /\ o \in Seq(Steps) /\ o # <<>> /\ Shaped(o)
      /\ t \in Seq(Steps) /\ Len(t) = Len(s) + Len(o) - 1
      /\ \A i \in 1 .. Len(t) : t[i] = IF i <= Len(s) THEN s[i] ELSE o[i - Len(s) + 1]
      /\ Head(o) \in LastSteps \/ NoLastStep(s)
  BY <1>1
<1>3. Shaped(t) /\ t # <<>> /\ Head(t) = s[1]
  <2> HIDE DEF o, t
  <2> QED BY <1>2, JoinedShape
<1> QED BY <1>3

(* What replaces a step has the shape of a script. *)
LEMMA ReplacementShape ==
  /\ Shaped(<<"join">>) /\ Shaped(<<"part">>) /\ Shaped(<<"await">>)
  /\ Shaped(<<"dialling">>) /\ Shaped(<<"fallback">>) /\ Shaped(ReconnectSteps)
  /\ ReconnectSteps # <<>> /\ ReconnectSteps[1] = "quiesce"
  /\ NoLastStep(<<"join">>) /\ NoLastStep(<<"part">>) /\ NoLastStep(<<"await">>)
BY DEF Shaped, NoLastStep, LastSteps, ReconnectSteps

LEMMA CallerKeepsThread ==
  ASSUME TypeOK, ThreadInv, OneCallAtATime, NEW c \in Callers, CallerStep(c)
  PROVE  ThreadInv'
<1>i. ~Idle(c) /\ Shaped(todo[c])
  BY DEF CallerStep, ThreadInv, Quiesce, Join, Unhook, HangUp, Part, AwaitLoop, Forget, Spawn,
         ClearEvents, Destroy, Rebuild, Dial, Dialled, Fallback, StopEvents, FreeConfig, At
<1>a. Advance(c) => /\ Shaped(todo'[c])
                    /\ Head(todo[c]) \in LastSteps => todo'[c] = <<>>
                    /\ todo'[c] # <<>> => Head(todo'[c]) # "join"
  BY <1>i, AdvanceShape
<1>d. \A d \in Callers \ {c} : todo[d] = <<>> /\ todo'[d] = <<>>
  BY OwnScript DEF OneCallAtATime, Idle
<1>s. ASSUME Shaped(todo'[c]),
             todo'[c] # <<>> /\ Head(todo'[c]) \notin {"quiesce", "join"} => handle' = NULL,
             todo'[c] # <<>> /\ Head(todo'[c]) = "join"
                => handle' # NULL /\ target'[c] = handle',
             \A r \in Threads : recon'[r] # "free" => handle' = r
      PROVE  ThreadInv'
  <2>1. Shaped(<<>>)
    BY EmptySeq DEF Shaped
  <2>2. \A d \in Callers : d = c \/ todo'[d] = <<>>
    BY <1>d
  <2> QED BY <1>s, <2>1, <2>2 DEF ThreadInv, Idle, At, OneReconnectThread, Live
<1>h. /\ Head(todo[c]) \notin {"quiesce", "join"} => handle = NULL
      /\ Head(todo[c]) = "join" => handle # NULL /\ target[c] = handle
      /\ \A r \in Threads : recon[r] # "free" => handle = r
  BY <1>i DEF ThreadInv, At, OneReconnectThread, Live
<1>1. CASE Quiesce(c)
  <2>0. UNCHANGED <<handle, recon>>
    BY <1>1 DEF Quiesce
  <2>1. CASE handle = NULL
    BY <1>1, <1>a, <1>h, <1>s, <2>0, <2>1 DEF Quiesce
  <2>2. CASE handle # NULL
    <3>0. Replace(c, <<"join">>) /\ Head(todo[c]) = "quiesce"
      BY <1>1, <2>2 DEF Quiesce, At
    <3>1. /\ Shaped(todo'[c]) /\ Head(todo'[c]) = "join"
      BY <1>i, <3>0, ReplaceShape, ReplacementType, ReplacementShape DEF LastSteps
    <3>2. target'[c] = handle
      BY <1>1, <2>2 DEF Quiesce, TypeOK
    <3> QED BY <1>h, <1>s, <2>0, <2>2, <3>1, <3>2
  <2> QED BY <2>1, <2>2
<1>2. CASE Join(c)
  <2>1. /\ handle \in Threads /\ target[c] = handle
        /\ \A r \in Threads : r # handle => recon[r] = "free"
    BY <1>2, <1>h DEF Join, TypeOK, At
  <2>2. \A r \in Threads : recon'[r] = "free"
    BY <1>2, <2>1 DEF Join, TypeOK
  <2>3. handle' = NULL /\ Advance(c)
    BY <1>2 DEF Join
  <2> QED BY <1>a, <1>s, <2>2, <2>3
<1>3. CASE Spawn(c)
  <2>1. handle = NULL /\ todo'[c] = <<>> /\ Shaped(todo'[c])
    BY <1>3, <1>a, <1>h DEF Spawn, At, LastSteps
  <2>2. \A r \in Threads : recon[r] = "free"
    BY <1>h, <2>1, NullAssumption
  <2>3. \A r \in Threads : recon'[r] # "free" => handle' = r
    BY <1>3, <2>2 DEF Spawn, TypeOK
  <2> QED BY <1>s, <2>1, <2>3
<1>4. CASE \/ Unhook(c) \/ AwaitLoop(c) \/ Forget(c) \/ ClearEvents(c)
           \/ Destroy(c) \/ Rebuild(c) \/ StopEvents(c) \/ FreeConfig(c)
  <2>1. /\ Advance(c) /\ UNCHANGED <<handle, recon>>
        /\ Head(todo[c]) \notin {"quiesce", "join"}
    BY <1>4 DEF Unhook, AwaitLoop, Forget, ClearEvents, Destroy, Rebuild,
       StopEvents, FreeConfig, At, retrying
  <2> QED BY <1>a, <1>h, <1>s, <2>1
<1>5. CASE HangUp(c) \/ Part(c) \/ Dial(c) \/ Dialled(c) \/ Fallback(c)
  <2>1. /\ UNCHANGED <<handle, recon>>
        /\ Head(todo[c]) \in {"hangup", "part", "dial", "dialling", "fallback"}
    BY <1>5 DEF HangUp, Part, Dial, Dialled, Fallback, At, retrying
  <2>3. \/ Advance(c)
        \/ Replace(c, <<"part">>) \/ Replace(c, <<"await">>)
        \/ /\ Head(todo[c]) \in LastSteps
           /\ \/ Replace(c, <<"dialling">>)
              \/ Replace(c, <<"fallback">>)
              \/ Replace(c, ReconnectSteps)
    BY <1>5 DEF HangUp, Part, Dial, Dialled, Fallback, At, LastSteps
  <2>4. Shaped(todo'[c]) /\ (todo'[c] # <<>> => Head(todo'[c]) # "join")
    <3>1. CASE Advance(c)
      BY <1>a, <3>1
    <3>2. CASE Replace(c, <<"part">>)
      BY <1>i, <3>2, ReplaceShape, ReplacementType, ReplacementShape DEF LastSteps
    <3>2a. CASE Replace(c, <<"await">>)
      BY <1>i, <3>2a, ReplaceShape, ReplacementType, ReplacementShape DEF LastSteps
    <3>3. CASE Head(todo[c]) \in LastSteps /\ Replace(c, <<"dialling">>)
      BY <1>i, <3>3, ReplaceShape, ReplacementType, ReplacementShape
    <3>4. CASE Head(todo[c]) \in LastSteps /\ Replace(c, <<"fallback">>)
      BY <1>i, <3>4, ReplaceShape, ReplacementType, ReplacementShape
    <3>5. CASE Head(todo[c]) \in LastSteps /\ Replace(c, ReconnectSteps)
      BY <1>i, <3>5, ReplaceShape, ReplacementType, ReplacementShape
    <3> QED BY <2>3, <3>1, <3>2, <3>2a, <3>3, <3>4, <3>5
  <2> QED BY <1>h, <1>s, <2>1, <2>4
<1> QED BY <1>1, <1>2, <1>3, <1>4, <1>5 DEF CallerStep

(* The other threads leave the scripts and the handle alone, and a thread  *)
(* that runs stays in existence until it is joined.                        *)
LEMMA OthersKeepThread ==
  ASSUME TypeOK, ThreadInv,
         \/ \E r \in Threads : ThreadStep(r)
         \/ LoopStep \/ TakeEvent \/ DeliverEvent \/ NetChange
  PROVE  ThreadInv'
<1>1. UNCHANGED <<todo, handle, target>>
  BY DEF ThreadStep, Sleep, Redial, Redialled, ReportOpened, Retry, LoopStep, ConnAck,
         Refused, Lost, Closed, LoopEnds, DecideToRedial, BeginRedial, AutoRedial,
         SetConnected, InternalSubscribe, ReportStatus, Acknowledge, GiveUp, TakeEvent,
         DeliverEvent, NetChange, retrying
<1>2. \A r \in Threads : recon'[r] = "free" <=> recon[r] = "free"
  <2>1. CASE \E r \in Threads : ThreadStep(r)
    <3>1. PICK r \in Threads : ThreadStep(r)
      BY <2>1
    <3>2. recon[r] # "free"
      BY <3>1 DEF ThreadStep, Sleep, Redial, Redialled, ReportOpened, Retry
    <3>3. \E p \in Places \ {"free"} : MoveTo(r, p)
      BY <3>1 DEF ThreadStep, Sleep, Redial, Redialled, ReportOpened, Retry, Places
    <3> QED BY <3>2, <3>3 DEF MoveTo, TypeOK
  <2>2. CASE LoopStep \/ TakeEvent \/ DeliverEvent \/ NetChange
    BY <2>2 DEF LoopStep, ConnAck, Refused, Lost, Closed, LoopEnds, DecideToRedial, BeginRedial,
       AutoRedial, SetConnected, InternalSubscribe, ReportStatus, Acknowledge, GiveUp,
       TakeEvent, DeliverEvent, NetChange, retrying
  <2> QED BY <2>1, <2>2
<1> QED BY <1>1, <1>2 DEF ThreadInv, OneReconnectThread, Live, Idle, At

(* A thread that enters an API function has not quiesced yet. *)
LEMMA EnterKeepsThread ==
  ASSUME TypeOK, ThreadInv, NEW c \in Callers, NEW op \in Operations, op # "initialize",
         todo' = [todo EXCEPT ![c] = Script(op)], UNCHANGED <<handle, target, recon>>
  PROVE  ThreadInv'
<1>1. Shaped(Script(op)) /\ Head(Script(op)) = "quiesce"
  BY ScriptType
<1>2. \A d \in Callers : todo'[d] = IF d = c THEN Script(op) ELSE todo[d]
  BY DEF TypeOK
<1> QED BY <1>1, <1>2 DEF ThreadInv, OneReconnectThread, Live, Idle, At

LEMMA CallKeepsThread ==
  ASSUME TypeOK, ThreadInv, NEW c \in Callers, NEW op \in Operations,
         Initialize(c) \/ Call(c, op)
  PROVE  ThreadInv'
<1>1. CASE Initialize(c)
  BY <1>1 DEF Initialize, retrying, ThreadInv, OneReconnectThread, Live, Idle, At
<1>2. CASE Call(c, op)
  BY <1>2, EnterKeepsThread DEF Call, retrying
<1> QED BY <1>1, <1>2

LEMMA NextKeepsThread == TypeOK /\ OneCallAtATime /\ ThreadInv /\ [Next]_vars => ThreadInv'
<1> SUFFICES ASSUME TypeOK, OneCallAtATime, ThreadInv, [Next]_vars PROVE ThreadInv'
  OBVIOUS
<1>1. CASE Next
  BY <1>1, CallerKeepsThread, OthersKeepThread, CallKeepsThread
     DEF Next, CoreNext, Operations
<1>2. CASE UNCHANGED vars
  BY <1>2 DEF vars, retrying, ThreadInv, OneReconnectThread, Live, Idle, At
<1> QED BY <1>1, <1>2

LEMMA InitThread == Init => ThreadInv
BY DEF Init, ThreadInv, Shaped, Idle, At, OneReconnectThread, Live

LEMMA ThreadInvariant == Spec /\ []OneCallAtATime => []ThreadInv
BY InitThread, NextKeepsThread, TypeCorrect, PTL DEF Spec

(* When calls do not overlap, as with one calling thread, there is never   *)
(* more than one reconnect thread, and it is the one g_reconnThreadHandler *)
(* names (OneReconnectThread).                                             *)
THEOREM OneReconnectThreadAlways == Spec /\ []OneCallAtATime => []OneReconnectThread
<1>1. ThreadInv => OneReconnectThread
  BY DEF ThreadInv
<1> QED BY <1>1, ThreadInvariant, PTL

=============================================================================
