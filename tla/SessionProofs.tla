---------------------------- MODULE SessionProofs ----------------------------
(***************************************************************************)
(* Proofs about the session of SAClient when the API calls of its threads  *)
(* do not overlap, for any set of servers, any number of thread identities and any  *)
(* capacity of the event queue: no undefined behaviour, one dialling       *)
(* thread, a flag that says what the library knows, nothing left after a   *)
(* disconnect, and no event of another server.                             *)
(***************************************************************************)
EXTENDS SAClientProofs

-----------------------------------------------------------------------------
(* The order of the steps *)

(* The steps that end the loop thread, and the steps before them. *)
HangUps == {"hangup", "part", "await"}
Before == {"quiesce", "join", "unhook"}

(* The order of the steps of a script, whatever is left of it. *)
Ordered(s) ==
  /\ \A i, j \in 1 .. Len(s) : s[i] \in HangUps /\ j < i => s[j] \in Before
  /\ \A i \in 1 .. Len(s) : s[i] \in HangUps => i < Len(s) /\ s[i + 1] = "forget"
  /\ \A i \in 1 .. Len(s) : s[i] = "free" => i + 1 = Len(s) /\ s[i + 1] = "destroy"
  /\ \A i \in 2 .. Len(s) : s[i] \notin {"part", "await", "dialling", "fallback"}
  /\ \A i \in 1 .. Len(s) : s[i] = "unhook" =>
       \E k \in 1 .. Len(s) : i < k /\ s[k] = "destroy"
  /\ \A i, j \in 1 .. Len(s) : s[i] \in HangUps /\ s[j] = "rebuild" =>
       \E k \in 1 .. Len(s) : i < k /\ s[k] = "clear"
  /\ \A i, j \in 1 .. Len(s) : s[i] = "clear" /\ s[j] = "rebuild" => i < j

StepsOf(s) == {s[i] : i \in 1 .. Len(s)}

(* What is left after the first step is in order, and what that step was   *)
(* for lies ahead or is over.                                              *)
LEMMA TailOrder ==
  ASSUME NEW s \in Seq(Steps), s # <<>>, Ordered(s),
         NEW t \in Seq(Steps), Len(t) = Len(s) - 1,
         \A i \in 1 .. Len(t) : t[i] = s[i + 1]
  PROVE  /\ Ordered(t)
         /\ \A x \in Steps : x \in StepsOf(s) <=> x = Head(s) \/ x \in StepsOf(t)
         /\ Head(s) \notin Before => StepsOf(t) \cap HangUps = {}
         /\ Head(s) \in HangUps => "forget" \in StepsOf(t)
         /\ Head(s) = "free" => StepsOf(t) = {"destroy"}
         /\ Head(s) = "unhook" => "destroy" \in StepsOf(t)
         /\ Head(s) = "rebuild" => "clear" \notin StepsOf(t)
         /\ t # <<>> => Head(t) \notin {"part", "await", "dialling", "fallback"}
<1> HIDE DEF Steps
<1>1. Len(s) \in Nat \ {0} /\ Len(t) \in Nat
  BY LenProperties, EmptySeq
<1>2. Head(s) = s[1]
  OBVIOUS
<1>3. \A i \in 2 .. Len(s) : i - 1 \in 1 .. Len(t) /\ t[i - 1] = s[i]
  BY <1>1
<1>4. \A i \in 1 .. Len(t) : i + 1 \in 2 .. Len(s)
  BY <1>1
<1>5. Ordered(t)
  <2>1. \A i, j \in 1 .. Len(t) : t[i] \in HangUps /\ j < i => t[j] \in Before
    BY <1>1, <1>4, SMTT(30) DEF Ordered
  <2>2. \A i \in 1 .. Len(t) : t[i] \in HangUps => i < Len(t) /\ t[i + 1] = "forget"
    BY <1>1, <1>4, SMTT(30) DEF Ordered
  <2>3. \A i \in 1 .. Len(t) : t[i] = "free" => i + 1 = Len(t) /\ t[i + 1] = "destroy"
    BY <1>1, <1>4 DEF Ordered
  <2>4. \A i \in 2 .. Len(t) : t[i] \notin {"part", "await", "dialling", "fallback"}
    BY <1>1, <1>4 DEF Ordered
  <2>5. ASSUME NEW i \in 1 .. Len(t), t[i] = "unhook"
        PROVE  \E k \in 1 .. Len(t) : i < k /\ t[k] = "destroy"
    <3>1. PICK k \in 1 .. Len(s) : i + 1 < k /\ s[k] = "destroy"
      BY <1>1, <1>4, <2>5 DEF Ordered
    <3>2. k - 1 \in 1 .. Len(t) /\ i < k - 1 /\ t[k - 1] = "destroy"
      BY <1>1, <1>3, <3>1
    <3> QED BY <3>2
  <2>6. ASSUME NEW i \in 1 .. Len(t), NEW j \in 1 .. Len(t),
               t[i] \in HangUps, t[j] = "rebuild"
        PROVE  \E k \in 1 .. Len(t) : i < k /\ t[k] = "clear"
    <3>0. /\ i + 1 \in 1 .. Len(s) /\ s[i + 1] \in HangUps
          /\ j + 1 \in 1 .. Len(s) /\ s[j + 1] = "rebuild"
      BY <1>1, <1>4, <2>6
    <3>1. PICK k \in 1 .. Len(s) : i + 1 < k /\ s[k] = "clear"
      <4>1. \A a, b \in 1 .. Len(s) : s[a] \in HangUps /\ s[b] = "rebuild" =>
              \E k \in 1 .. Len(s) : a < k /\ s[k] = "clear"
        BY DEF Ordered
      <4> QED BY <3>0, <4>1
    <3>2. k - 1 \in 1 .. Len(t) /\ i < k - 1 /\ t[k - 1] = "clear"
      BY <1>1, <1>3, <3>1
    <3> QED BY <3>2
  <2>7. \A i, j \in 1 .. Len(t) : t[i] = "clear" /\ t[j] = "rebuild" => i < j
    BY <1>1, <1>4 DEF Ordered
  <2> QED BY <2>1, <2>2, <2>3, <2>4, <2>5, <2>6, <2>7 DEF Ordered
<1>6. ASSUME NEW x \in Steps
      PROVE  x \in StepsOf(s) <=> x = Head(s) \/ x \in StepsOf(t)
  <2>1. ASSUME NEW i \in 1 .. Len(s) PROVE i = 1 \/ s[i] \in StepsOf(t)
    BY <1>1, <1>3 DEF StepsOf
  <2>2. ASSUME NEW i \in 1 .. Len(t) PROVE t[i] \in StepsOf(s)
    BY <1>1, <1>4 DEF StepsOf
  <2>3. s[1] \in StepsOf(s)
    BY <1>1 DEF StepsOf
  <2> QED BY <1>2, <2>1, <2>2, <2>3 DEF StepsOf
<1>7. Head(s) \notin Before => StepsOf(t) \cap HangUps = {}
  <2>1. ASSUME NEW i \in 1 .. Len(t), t[i] \in HangUps PROVE s[1] \in Before
    BY <1>1, <1>4, <2>1, SMTT(30) DEF Ordered
  <2> QED BY <1>2, <2>1 DEF StepsOf
<1>8. Head(s) \in HangUps => "forget" \in StepsOf(t)
  <2>1. Head(s) \in HangUps => 1 \in 1 .. Len(t) /\ t[1] = "forget"
    BY <1>1, <1>2 DEF Ordered
  <2> QED BY <2>1 DEF StepsOf
<1>9. Head(s) = "free" => StepsOf(t) = {"destroy"}
  <2>1. Head(s) = "free" => Len(t) = 1 /\ t[1] = "destroy"
    BY <1>1, <1>2 DEF Ordered
  <2> QED BY <2>1 DEF StepsOf
<1>10. Head(s) = "unhook" => "destroy" \in StepsOf(t)
  <2>1. Head(s) = "unhook" => \E k \in 2 .. Len(s) : s[k] = "destroy"
    BY <1>1, <1>2 DEF Ordered
  <2> QED BY <1>3, <2>1 DEF StepsOf
<1>11. Head(s) = "rebuild" => "clear" \notin StepsOf(t)
  <2>1. ASSUME NEW i \in 1 .. Len(t), t[i] = "clear" PROVE s[1] # "rebuild"
    BY <1>1, <1>4, <2>1 DEF Ordered
  <2> QED BY <1>2, <2>1 DEF StepsOf
<1>12. t # <<>> => Head(t) \notin {"part", "await", "dialling", "fallback"}
  <2>1. t # <<>> => 2 \in 2 .. Len(s) /\ Head(t) = s[2]
    BY <1>1, <1>4, EmptySeq
  <2> QED BY <2>1 DEF Ordered
<1> QED BY <1>5, <1>6, <1>7, <1>8, <1>9, <1>10, <1>11, <1>12

(* The second half of a step takes the place of the first. *)
LEMMA HeadOrder ==
  ASSUME NEW s \in Seq(Steps), s # <<>>, Ordered(s),
         NEW t \in Seq(Steps), Len(t) = Len(s),
         \A i \in 2 .. Len(t) : t[i] = s[i],
         <<Head(s), t[1]>> \in
           {<<"quiesce", "join">>, <<"hangup", "part">>, <<"part", "await">>,
            <<"dial", "dialling">>, <<"dial", "fallback">>, <<"dialling", "fallback">>}
  PROVE  /\ Ordered(t)
         /\ \A x \in Steps : x \in StepsOf(s) => x = Head(s) \/ x \in StepsOf(t)
         /\ \A x \in Steps : x \in StepsOf(t) => x = t[1] \/ x \in StepsOf(s)
         /\ t[1] \in StepsOf(t)
<1> HIDE DEF Steps
<1>1. Len(s) \in Nat \ {0} /\ Len(t) \in Nat \ {0}
  BY LenProperties, EmptySeq
<1>2. Head(s) = s[1]
  OBVIOUS
<1>3. /\ s[1] \in Before <=> t[1] \in Before
      /\ s[1] \in HangUps <=> t[1] \in HangUps
      /\ s[1] \notin {"free", "unhook", "rebuild", "clear", "destroy", "forget"}
      /\ t[1] \notin {"free", "unhook", "rebuild", "clear", "destroy", "forget"}
  BY <1>2 DEF Before, HangUps
<1>4. Ordered(t)
  <2>1. \A i, j \in 1 .. Len(t) : t[i] \in HangUps /\ j < i => t[j] \in Before
    BY <1>1, <1>3 DEF Ordered
  <2>2. \A i \in 1 .. Len(t) : t[i] \in HangUps => i < Len(t) /\ t[i + 1] = "forget"
    BY <1>1, <1>3 DEF Ordered
  <2>3. \A i \in 1 .. Len(t) : t[i] = "free" => i + 1 = Len(t) /\ t[i + 1] = "destroy"
    BY <1>1, <1>3 DEF Ordered
  <2>4. \A i \in 2 .. Len(t) : t[i] \notin {"part", "await", "dialling", "fallback"}
    BY <1>1 DEF Ordered
  <2>5. \A i \in 1 .. Len(t) : t[i] = "unhook" =>
          \E k \in 1 .. Len(t) : i < k /\ t[k] = "destroy"
    BY <1>1, <1>3 DEF Ordered
  <2>6. \A i, j \in 1 .. Len(t) : t[i] \in HangUps /\ t[j] = "rebuild" =>
          \E k \in 1 .. Len(t) : i < k /\ t[k] = "clear"
    BY <1>1, <1>3, SMTT(30) DEF Ordered
  <2>7. \A i, j \in 1 .. Len(t) : t[i] = "clear" /\ t[j] = "rebuild" => i < j
    BY <1>1, <1>3 DEF Ordered
  <2> QED BY <2>1, <2>2, <2>3, <2>4, <2>5, <2>6, <2>7 DEF Ordered
<1>5. \A i \in 1 .. Len(s) : i = 1 \/ (i \in 2 .. Len(t) /\ t[i] = s[i])
  BY <1>1
<1> QED BY <1>1, <1>2, <1>4, <1>5 DEF StepsOf

(* Every script is in order, forgets what it hangs up, and ends with a     *)
(* session only when it is one of the calls that ask for it.               *)
LEMMA ScriptOrder ==
  ASSUME NEW op \in Operations, op # "initialize"
  PROVE  /\ Ordered(Script(op))
         /\ StepsOf(Script(op)) \cap LastSteps # {} =>
              op \in {"connect", "server_connect", "reconnect"}
         /\ "free" \in StepsOf(Script(op)) => op = "uninitialize"
         /\ \/ op = "connect"
            \/ StepsOf(Script(op)) \cap HangUps # {} /\ "forget" \in StepsOf(Script(op))
         /\ "rebuild" \in StepsOf(Script(op)) => "clear" \in StepsOf(Script(op))
<1>1. CASE op = "connect"
  <2>1. /\ Script(op) = ConnectSteps /\ Ordered(ConnectSteps)
        /\ StepsOf(ConnectSteps) = {"quiesce", "dial"}
    BY <1>1 DEF Script, ConnectSteps, Ordered, HangUps, Before, StepsOf
  <2> QED BY <1>1, <2>1
<1>2. CASE op = "disconnect"
  <2>1. /\ Script(op) = DisconnectSteps /\ Ordered(DisconnectSteps)
        /\ StepsOf(DisconnectSteps) = {"quiesce", "hangup", "forget"}
    BY <1>2 DEF Script, DisconnectSteps, Ordered, HangUps, Before, StepsOf
  <2> QED BY <1>2, <2>1 DEF LastSteps, HangUps
<1>3. CASE op = "reconnect"
  <2>1. /\ Script(op) = ReconnectSteps /\ Ordered(ReconnectSteps)
        /\ StepsOf(ReconnectSteps) = {"quiesce", "hangup", "forget", "spawn"}
    BY <1>3 DEF Script, ReconnectSteps, Ordered, HangUps, Before, StepsOf
  <2> QED BY <1>3, <2>1 DEF HangUps
<1>4. CASE op = "uninitialize"
  <2>1. /\ Script(op) = UninitializeSteps /\ Ordered(UninitializeSteps)
        /\ StepsOf(UninitializeSteps) =
             {"quiesce", "hangup", "forget", "stop_events", "free", "destroy"}
    BY <1>4 DEF Script, UninitializeSteps, Ordered, HangUps, Before, StepsOf
  <2> QED BY <1>4, <2>1 DEF LastSteps, HangUps
<1>5. CASE op = "server_connect"
  <2>1. Script(op) = ServerConnectSteps /\ Ordered(ServerConnectSteps)
    BY <1>5 DEF Script, ServerConnectSteps, Ordered, HangUps, Before
  <2>2. StepsOf(ServerConnectSteps) =
          {"quiesce", "unhook", "hangup", "forget", "clear", "destroy", "rebuild", "dial"}
    BY DEF ServerConnectSteps, StepsOf
  <2> QED BY <1>5, <2>1, <2>2 DEF HangUps
<1> QED BY <1>1, <1>2, <1>3, <1>4, <1>5 DEF Operations

-----------------------------------------------------------------------------
(* The inductive invariant *)

(* The steps left of the call in progress. *)
Left == UNION {StepsOf(todo[c]) : c \in Callers}

(* A call that ends with a session is wanted; only an uninitialisation,    *)
(* which is not, frees the configuration.                                  *)
Purpose ==
  /\ Left \cap LastSteps # {} => wanted
  /\ "free" \in Left => ~wanted

(* Past the hang-up of a call, and when no session is wanted, no thread    *)
(* dials and the session is forgotten.                                     *)
Calm == Left \cap HangUps = {} => loop = "none" /\ handle = NULL
Forgotten == "forget" \notin Left => ~connected /\ ~subscribed
CalmInv == Left # {} \/ ~wanted => Calm /\ Forgotten

(* The configuration is missing only where nothing reads it. *)
FreedInv == ~inited => ~wanted /\ Left \subseteq {"destroy"}

(* The thread the handle names has not been joined. *)
HandleInv == handle # NULL => Live(handle)

(* A client that does not exist is not dialled. *)
ClientInv ==
  ~client => /\ loop = "none"
             /\ \A r \in Threads : recon[r] # "dialling"
             /\ \A c \in Callers : ~At(c, "dialling")

(* Without its loop thread the library has no session and no callback. *)
LoopInv == loop # "running" => callback = <<>> /\ link = "closed"

(* The loop thread gives up last of all, when its socket is gone. *)
GiveUpInv ==
  \A i \in 1 .. Len(callback) :
    callback[i] = "give_up" => i = Len(callback) /\ link = "closed"

(* A reconnect thread that may still dial is alone. *)
DialInv ==
  (\E r \in Threads : recon[r] \in {"sleep", "dial", "dialling", "failed"})
    => loop = "none"

(* A client without callbacks is about to be destroyed. *)
HookInv == client => hooked \/ "destroy" \in Left

(* What each callback, and the loop thread after it, has left to do, in    *)
(* terms of the session.                                                   *)
CallbackInv ==
  /\ callback = <<>> => (connected <=> link = "up") /\ (connected => subscribed)
  /\ callback # <<>> =>
       \/ /\ link = "up"
          /\ \/ callback = <<"connected", "subscribe", "online", "acked">>
             \/ callback = <<"subscribe", "online", "acked">> /\ connected
             \/ callback \in {<<"online", "acked">>, <<"acked">>} /\ connected /\ subscribed
       \/ /\ link # "up"
          /\ \/ callback \in {<<"disconnected", "offline">>, <<"disconnected", "failed">>,
                              <<"disconnected", "failed", "give_up">>}
             \/ /\ callback \in {<<"failed">>, <<"offline">>,
                                 <<"failed", "give_up">>, <<"give_up">>}
                /\ ~connected
SettledInv == Left = {} => CallbackInv

(* What is queued is about the current server, and nothing is queued when  *)
(* the server changes.                                                     *)
EventsInv ==
  /\ \A i \in DOMAIN events : events[i][2] = server
  /\ "rebuild" \in Left /\ "clear" \notin Left => events = <<>>

SessionInv ==
  /\ \A c \in Callers : Ordered(todo[c])
  /\ Purpose /\ CalmInv /\ FreedInv /\ HandleInv /\ ClientInv /\ LoopInv
  /\ DialInv /\ HookInv /\ GiveUpInv /\ SettledInv /\ EventsInv /\ NoFault

-----------------------------------------------------------------------------
(* The steps left when calls do not overlap *)

LEMMA EmptyScript == Ordered(<<>>) /\ StepsOf(<<>>) = {}
BY EmptySeq DEF Ordered, StepsOf

LEMMA LeftIs ==
  ASSUME NEW c \in Callers, OneCallAtATime, ~Idle(c)
  PROVE  Left = StepsOf(todo[c])
<1>1. \A d \in Callers : d = c \/ todo[d] = <<>>
  BY DEF OneCallAtATime, Idle
<1> QED BY <1>1, EmptyScript DEF Left

(* After a step of a call the steps left are those of that call. *)
LEMMA LeftAfter ==
  ASSUME TypeOK, OneCallAtATime, NEW c \in Callers, CallerStep(c)
  PROVE  Left' = StepsOf(todo'[c]) /\ \A d \in Callers : d = c \/ todo'[d] = <<>>
<1>1. \A d \in Callers : d = c \/ todo'[d] = <<>>
  BY OwnScript DEF OneCallAtATime, Idle
<1> QED BY <1>1, EmptyScript DEF Left

LEMMA LeftFacts ==
  ASSUME TypeOK, OneCallAtATime, \A c \in Callers : Ordered(todo[c])
  PROVE  /\ Left \subseteq Steps
         /\ Left = {} <=> NoCall
         /\ \A c \in Callers : ~Idle(c) => Head(todo[c]) \in Left
         /\ Left \cap HangUps # {} => "forget" \in Left
         /\ Left \cap HangUps # {} /\ "rebuild" \in Left => "clear" \in Left
<1>0. CASE NoCall
  BY <1>0, EmptyScript DEF NoCall, Idle, Left
<1>q. ASSUME NEW c \in Callers, ~Idle(c)
      PROVE  /\ Left \subseteq Steps
             /\ Left # {}
             /\ Head(todo[c]) \in Left
             /\ Left \cap HangUps # {} => "forget" \in Left
             /\ Left \cap HangUps # {} /\ "rebuild" \in Left => "clear" \in Left
  <2> DEFINE s == todo[c]
  <2>1. s \in Seq(Steps) /\ Ordered(s) /\ Left = StepsOf(s) /\ s # <<>>
    BY <1>q, LeftIs DEF TypeOK, Idle
  <2> HIDE DEF s
  <2>2. /\ Len(s) \in Nat /\ 1 \in 1 .. Len(s) /\ Head(s) = s[1]
        /\ \A i \in 1 .. Len(s) : s[i] \in Steps
    BY <2>1, LenProperties, EmptySeq, ElementOfSeq
  <2>3. StepsOf(s) \subseteq Steps /\ Head(s) \in StepsOf(s)
    BY <2>2 DEF StepsOf
  <2>5. ASSUME NEW i \in 1 .. Len(s), s[i] \in HangUps PROVE "forget" \in StepsOf(s)
    BY <2>1, <2>2, <2>5 DEF Ordered, StepsOf
  <2>6. ASSUME NEW i \in 1 .. Len(s), NEW j \in 1 .. Len(s),
               s[i] \in HangUps, s[j] = "rebuild"
        PROVE  "clear" \in StepsOf(s)
    BY <2>1, <2>6 DEF Ordered, StepsOf
  <2>7. StepsOf(s) \cap HangUps # {} => "forget" \in StepsOf(s)
    BY <2>5 DEF StepsOf
  <2>8. StepsOf(s) \cap HangUps # {} /\ "rebuild" \in StepsOf(s) => "clear" \in StepsOf(s)
    BY <2>6 DEF StepsOf
  <2> QED BY <2>1, <2>3, <2>7, <2>8 DEF s
<1> QED BY <1>0, <1>q DEF NoCall

(* The last steps of a script are alone. *)
LEMMA LastLeft ==
  ASSUME TypeOK, OneCallAtATime, NEW c \in Callers,
         Shaped(todo[c]), ~Idle(c), Head(todo[c]) \in LastSteps
  PROVE  Left = {Head(todo[c])} /\ Len(todo[c]) = 1
<1> DEFINE s == todo[c]
<1>1. s \in Seq(Steps) /\ s # <<>> /\ Shaped(s) /\ Left = StepsOf(s) /\ Head(s) \in LastSteps
  BY LeftIs DEF TypeOK, Idle
<1> HIDE DEF s
<1>2. Len(s) \in Nat \ {0} /\ Head(s) = s[1]
  BY <1>1, EmptySeq
<1>3. Len(s) = 1
  <2>1. 1 \in 1 .. Len(s) /\ s[1] \in LastSteps
    BY <1>1, <1>2
  <2>2. \A i \in 1 .. Len(s) : s[i] \in LastSteps => i = Len(s)
    BY <1>1 DEF Shaped
  <2> QED BY <2>1, <2>2
<1>4. StepsOf(s) = {s[1]}
  BY <1>3 DEF StepsOf
<1> QED BY <1>1, <1>2, <1>3, <1>4 DEF s

(* What a step that advances changes. *)
LEMMA Advances ==
  ASSUME TypeOK, OneCallAtATime, NEW c \in Callers, CallerStep(c),
         Ordered(todo[c]), Shaped(todo[c]), ~Idle(c), Advance(c)
  PROVE  /\ Ordered(todo'[c])
         /\ \A x \in Steps : x \in Left <=> x = Head(todo[c]) \/ x \in Left'
         /\ Left' \subseteq Left
         /\ Head(todo[c]) \notin Before => Left' \cap HangUps = {}
         /\ Head(todo[c]) \in HangUps => "forget" \in Left'
         /\ Head(todo[c]) = "free" => Left' = {"destroy"}
         /\ Head(todo[c]) = "unhook" => "destroy" \in Left'
         /\ Head(todo[c]) = "rebuild" => "clear" \notin Left'
         /\ Head(todo[c]) \in LastSteps => Left' = {}
         /\ \A x \in {"part", "await", "dialling", "fallback"} : ~At(c, x)'
<1> DEFINE s == todo[c]
           t == todo'[c]
<1>1. /\ s \in Seq(Steps) /\ s # <<>> /\ Ordered(s)
      /\ t \in Seq(Steps) /\ Len(t) = Len(s) - 1
      /\ \A i \in 1 .. Len(t) : t[i] = s[i + 1]
  BY AdvanceDrops DEF TypeOK, Idle
<1>2. Left = StepsOf(s) /\ Left' = StepsOf(t)
  BY LeftIs, LeftAfter
<1>3. Head(s) \in LastSteps => t = <<>>
  BY AdvanceShape
<1>4. \A x \in {"part", "await", "dialling", "fallback"} : At(c, x)' <=> t # <<>> /\ Head(t) = x
  BY DEF At, Idle
<1> HIDE DEF s, t
<1>5. /\ Ordered(t)
      /\ \A x \in Steps : x \in StepsOf(s) <=> x = Head(s) \/ x \in StepsOf(t)
      /\ Head(s) \notin Before => StepsOf(t) \cap HangUps = {}
      /\ Head(s) \in HangUps => "forget" \in StepsOf(t)
      /\ Head(s) = "free" => StepsOf(t) = {"destroy"}
      /\ Head(s) = "unhook" => "destroy" \in StepsOf(t)
      /\ Head(s) = "rebuild" => "clear" \notin StepsOf(t)
      /\ t # <<>> => Head(t) \notin {"part", "await", "dialling", "fallback"}
  BY <1>1, TailOrder
<1>6. StepsOf(t) \subseteq Steps /\ (t = <<>> => StepsOf(t) = {})
  BY <1>1, ElementOfSeq, EmptySeq DEF StepsOf
<1> QED BY <1>2, <1>3, <1>4, <1>5, <1>6 DEF s, t

(* What a step that goes on to its second half changes. *)
LEMMA Continues ==
  ASSUME TypeOK, OneCallAtATime, NEW c \in Callers, CallerStep(c),
         Ordered(todo[c]), ~Idle(c), NEW x \in Steps, Replace(c, <<x>>),
         <<Head(todo[c]), x>> \in
           {<<"quiesce", "join">>, <<"hangup", "part">>, <<"part", "await">>,
            <<"dial", "dialling">>, <<"dial", "fallback">>, <<"dialling", "fallback">>}
  PROVE  /\ Ordered(todo'[c])
         /\ \A y \in Left : y = Head(todo[c]) \/ y \in Left'
         /\ \A y \in Left' : y = x \/ y \in Left
         /\ x \in Left'
         /\ ~Idle(c)' /\ Head(todo'[c]) = x
<1> DEFINE s == todo[c]
           t == todo'[c]
<1>0. <<x>> \in Seq(Steps) /\ Len(<<x>>) = 1 /\ <<x>>[1] = x
  OBVIOUS
<1>1. /\ s \in Seq(Steps) /\ s # <<>> /\ Ordered(s)
      /\ t \in Seq(Steps) /\ Len(t) = Len(<<x>>) + Len(s) - 1
      /\ \A i \in 1 .. Len(t) : t[i] = IF i <= Len(<<x>>) THEN <<x>>[i]
                                                      ELSE s[i - Len(<<x>>) + 1]
  BY <1>0, ReplacePrepends DEF TypeOK, Idle
<1>2. Left = StepsOf(s) /\ Left' = StepsOf(t)
  BY LeftIs, LeftAfter
<1>3. Idle(c)' <=> t = <<>>
  BY DEF Idle
<1>4. <<Head(s), x>> \in
        {<<"quiesce", "join">>, <<"hangup", "part">>, <<"part", "await">>,
         <<"dial", "dialling">>, <<"dial", "fallback">>, <<"dialling", "fallback">>}
  OBVIOUS
<1> HIDE DEF s, t
<1>5. Len(s) \in Nat \ {0}
  BY <1>1, EmptySeq
<1>6. Len(t) = Len(s) /\ t[1] = x /\ \A i \in 2 .. Len(t) : t[i] = s[i]
  BY <1>0, <1>1, <1>5
<1>7. t # <<>> /\ Head(t) = x
  BY <1>1, <1>5, <1>6, EmptySeq
<1>8. /\ Ordered(t)
      /\ \A y \in Steps : y \in StepsOf(s) => y = Head(s) \/ y \in StepsOf(t)
      /\ \A y \in Steps : y \in StepsOf(t) => y = t[1] \/ y \in StepsOf(s)
      /\ t[1] \in StepsOf(t)
  BY <1>1, <1>4, <1>6, HeadOrder
<1>9. StepsOf(s) \subseteq Steps /\ StepsOf(t) \subseteq Steps
  BY <1>1, ElementOfSeq DEF StepsOf
<1> QED BY <1>2, <1>3, <1>6, <1>7, <1>8, <1>9 DEF s, t

(* A call that failed starts over with the steps of saclient_reconnect. *)
LEMMA Restarts ==
  ASSUME TypeOK, NEW c \in Callers, ~Idle(c), Len(todo[c]) = 1,
         Replace(c, ReconnectSteps)
  PROVE  todo'[c] = ReconnectSteps
<1> DEFINE s == ReconnectSteps
<1>1. s \in Seq(Steps) /\ Len(s) = 4
  BY ReplacementType
<1> HIDE DEF s
<1>2. /\ todo'[c] \in Seq(Steps) /\ Len(todo'[c]) = Len(s) + Len(todo[c]) - 1
      /\ \A i \in 1 .. Len(todo'[c]) :
            todo'[c][i] = IF i <= Len(s) THEN s[i] ELSE todo[c][i - Len(s) + 1]
  <2>1. Replace(c, s)
    BY DEF s
  <2> QED BY <1>1, <2>1, ReplacePrepends DEF TypeOK
<1>3. Len(todo'[c]) = Len(s) /\ \A i \in 1 .. Len(todo'[c]) : todo'[c][i] = s[i]
  BY <1>1, <1>2
<1>4. todo'[c] = s
  BY <1>1, <1>2, <1>3, SeqEqual
<1> QED BY <1>4 DEF s

LEMMA ReconnectOrder ==
  /\ Ordered(ReconnectSteps)
  /\ StepsOf(ReconnectSteps) = {"quiesce", "hangup", "forget", "spawn"}
BY DEF ReconnectSteps, Ordered, HangUps, Before, StepsOf

(* What is pushed is about the current server. *)
LEMMA PushCurrent ==
  ASSUME TypeOK, NEW status \in Status, Push(status),
         \A i \in DOMAIN events : events[i][2] = server
  PROVE  \A i \in DOMAIN events' : events'[i][2] = server
<1>1. CASE events' = events
  BY <1>1
<1>2. CASE events' = Append(events, <<status, server>>)
  <2>1. <<status, server>> \in Records /\ <<status, server>>[2] = server
    BY DEF TypeOK, Records
  <2>2. /\ events \in Seq(Records) /\ events' \in Seq(Records)
        /\ Len(events') = Len(events) + 1
        /\ \A i \in 1 .. Len(events) : events'[i] = events[i]
        /\ events'[Len(events) + 1] = <<status, server>>
    BY <1>2, <2>1, AppendProperties DEF TypeOK
  <2>3. DOMAIN events = 1 .. Len(events) /\ DOMAIN events' = 1 .. Len(events')
        /\ Len(events) \in Nat
    BY <2>2, LenProperties
  <2>4. ASSUME NEW i \in DOMAIN events' PROVE i \in DOMAIN events \/ i = Len(events) + 1
    BY <2>2, <2>3
  <2> QED BY <2>1, <2>2, <2>3, <2>4
<1> QED BY <1>1, <1>2 DEF Push

-----------------------------------------------------------------------------
(* Steps of the caller *)

LEMMA CallerKeepsSession ==
  ASSUME TypeOK, OneCallAtATime, ThreadInv, SessionInv, NEW c \in Callers, CallerStep(c)
  PROVE  SessionInv'
<1> DEFINE h == Head(todo[c])
<1>i. /\ ~Idle(c) /\ Shaped(todo[c]) /\ Ordered(todo[c])
      /\ h \in Left /\ Left \subseteq Steps /\ Left # {}
      /\ Left \cap HangUps # {} => "forget" \in Left
      /\ Left \cap HangUps # {} /\ "rebuild" \in Left => "clear" \in Left
  <2>1. ~Idle(c)
    BY DEF CallerStep, Quiesce, Join, Unhook, HangUp, Part, AwaitLoop, Forget, Spawn,
       ClearEvents, Destroy, Rebuild, Dial, Dialled, Fallback, StopEvents, FreeConfig, At
  <2> QED BY <2>1, LeftFacts DEF ThreadInv, SessionInv
<1>t. /\ h \notin {"quiesce", "join"} => handle = NULL
      /\ h = "join" => handle # NULL /\ target[c] = handle
      /\ handle = NULL => \A r \in Threads : recon[r] = "free"
      /\ handle # NULL => handle \in Threads /\ recon[handle] # "free"
  BY <1>i, NullAssumption DEF ThreadInv, At, OneReconnectThread, Live, SessionInv,
     HandleInv, TypeOK
<1>c. \A x \in Steps : At(c, x) <=> h = x
  BY <1>i DEF At
<1>a. Advance(c) =>
        /\ Ordered(todo'[c])
        /\ \A x \in Steps : x \in Left <=> x = h \/ x \in Left'
        /\ Left' \subseteq Left
        /\ h \notin Before => Left' \cap HangUps = {}
        /\ h \in HangUps => "forget" \in Left'
        /\ h = "free" => Left' = {"destroy"}
        /\ h = "unhook" => "destroy" \in Left'
        /\ h = "rebuild" => "clear" \notin Left'
        /\ h \in LastSteps => Left' = {}
        /\ ~At(c, "dialling")'
  BY <1>i, Advances
<1>o. /\ Ordered(todo'[c]) => \A d \in Callers : Ordered(todo'[d])
      /\ \A d \in Callers : At(d, "dialling") => d = c
      /\ \A d \in Callers : At(d, "dialling")' => d = c
  <2>1. \A d \in Callers : d = c \/ (todo[d] = <<>> /\ todo'[d] = <<>>)
    BY <1>i, LeftAfter DEF OneCallAtATime, Idle
  <2> QED BY <2>1, EmptyScript DEF At, Idle
<1>q. CalmInv /\ Calm /\ Forgotten
  BY <1>i DEF SessionInv, CalmInv
<1>1. CASE Unhook(c)
  <2>1. Advance(c) /\ h = "unhook"
    BY <1>1 DEF Unhook, At
  <2>2. h \in Steps /\ h \notin LastSteps
    BY <2>1 DEF Steps, LastSteps
  <2> QED BY <1>1, <1>i, <1>t, <1>c, <1>a, <1>o, <1>q, <2>1
      DEF Unhook, SessionInv, Purpose, CalmInv, Calm, Forgotten, FreedInv, HandleInv,
       ClientInv, LoopInv, DialInv, HookInv, GiveUpInv, SettledInv, CallbackInv, EventsInv,
       NoFault, Live, HangUps, Before, conf, session, retrying, queue, library, ghosts
<1>2. CASE AwaitLoop(c)
  <2>1. Advance(c) /\ h = "await"
    BY <1>2 DEF AwaitLoop, At
  <2>2. h \in Steps /\ h \notin LastSteps
    BY <2>1 DEF Steps, LastSteps
  <2> QED BY <1>2, <1>i, <1>t, <1>c, <1>a, <1>o, <1>q, <2>1
      DEF AwaitLoop, SessionInv, Purpose, CalmInv, Calm, Forgotten, FreedInv, HandleInv,
       ClientInv, LoopInv, DialInv, HookInv, GiveUpInv, SettledInv, CallbackInv, EventsInv,
       NoFault, Live, HangUps, Before, conf, mqtt, session, retrying, queue, ghosts
<1>3. CASE Forget(c)
  <2>1. Advance(c) /\ h = "forget"
    BY <1>3 DEF Forget, At
  <2>2. h \in Steps /\ h \notin LastSteps
    BY <2>1 DEF Steps, LastSteps
  <2> QED BY <1>3, <1>i, <1>t, <1>c, <1>a, <1>o, <1>q, <2>1
      DEF Forget, SessionInv, Purpose, CalmInv, Calm, Forgotten, FreedInv, HandleInv,
       ClientInv, LoopInv, DialInv, HookInv, GiveUpInv, SettledInv, CallbackInv, EventsInv,
       NoFault, Live, HangUps, Before, conf, mqtt, retrying, queue, library, ghosts
<1>4. CASE ClearEvents(c)
  <2>1. Advance(c) /\ h = "clear"
    BY <1>4 DEF ClearEvents, At
  <2>2. h \in Steps /\ h \notin LastSteps
    BY <2>1 DEF Steps, LastSteps
  <2> QED BY <1>4, <1>i, <1>t, <1>c, <1>a, <1>o, <1>q, <2>1
      DEF ClearEvents, SessionInv, Purpose, CalmInv, Calm, Forgotten, FreedInv, HandleInv,
       ClientInv, LoopInv, DialInv, HookInv, GiveUpInv, SettledInv, CallbackInv, EventsInv,
       NoFault, Live, HangUps, Before, conf, mqtt, session, retrying, library, ghosts
<1>5. CASE Rebuild(c)
  <2>1. Advance(c) /\ h = "rebuild"
    BY <1>5 DEF Rebuild, At
  <2>2. h \in Steps /\ h \notin LastSteps
    BY <2>1 DEF Steps, LastSteps
  <2> QED BY <1>5, <1>i, <1>t, <1>c, <1>a, <1>o, <1>q, <2>1
      DEF Rebuild, SessionInv, Purpose, CalmInv, Calm, Forgotten, FreedInv, HandleInv,
       ClientInv, LoopInv, DialInv, HookInv, GiveUpInv, SettledInv, CallbackInv, EventsInv,
       NoFault, Live, HangUps, Before, session, retrying, queue, library, ghosts
<1>6. CASE StopEvents(c)
  <2>1. Advance(c) /\ h = "stop_events"
    BY <1>6 DEF StopEvents, At
  <2>2. h \in Steps /\ h \notin LastSteps
    BY <2>1 DEF Steps, LastSteps
  <2> QED BY <1>6, <1>i, <1>t, <1>c, <1>a, <1>o, <1>q, <2>1
      DEF StopEvents, SessionInv, Purpose, CalmInv, Calm, Forgotten, FreedInv, HandleInv,
       ClientInv, LoopInv, DialInv, HookInv, GiveUpInv, SettledInv, CallbackInv, EventsInv,
       NoFault, Live, HangUps, Before, conf, mqtt, session, retrying, library, ghosts
<1>7. CASE FreeConfig(c)
  <2>1. Advance(c) /\ h = "free"
    BY <1>7 DEF FreeConfig, At
  <2>2. h \in Steps /\ h \notin LastSteps
    BY <2>1 DEF Steps, LastSteps
  <2> QED BY <1>7, <1>i, <1>t, <1>c, <1>a, <1>o, <1>q, <2>1
      DEF FreeConfig, SessionInv, Purpose, CalmInv, Calm, Forgotten, FreedInv, HandleInv,
       ClientInv, LoopInv, DialInv, HookInv, GiveUpInv, SettledInv, CallbackInv, EventsInv,
       NoFault, Live, HangUps, Before, mqtt, session, retrying, queue, library, ghosts
<1>8. CASE Destroy(c)
  <2>1. Advance(c) /\ h = "destroy"
    BY <1>8 DEF Destroy, At
  <2>2. h \in Steps /\ h \notin LastSteps
    BY <2>1 DEF Steps, LastSteps
  <2> QED BY <1>8, <1>i, <1>t, <1>c, <1>a, <1>o, <1>q, <2>1
      DEF Destroy, SessionInv, Purpose, CalmInv, Calm, Forgotten, FreedInv, HandleInv,
       ClientInv, LoopInv, DialInv, HookInv, GiveUpInv, SettledInv, CallbackInv, EventsInv,
       NoFault, Live, HangUps, Before, conf, session, retrying, queue, InUse
<1>9. CASE Spawn(c)
  <2>1. Advance(c) /\ h = "spawn"
    BY <1>9 DEF Spawn, At
  <2>2. h \in LastSteps /\ h \in Steps /\ h \notin Before /\ h \notin HangUps
    BY <2>1 DEF LastSteps, Steps, Before, HangUps
  <2>3. /\ Left' = {} /\ Left \cap HangUps = {} /\ "forget" \notin Left
        /\ Left \subseteq {"spawn"}
    BY <1>i, <1>a, <2>1, <2>2 DEF Steps, HangUps
  <2>4. /\ handle = NULL /\ loop = "none" /\ ~connected /\ ~subscribed
        /\ wanted /\ inited /\ callback = <<>> /\ link = "closed"
    BY <1>i, <1>q, <2>1, <2>2, <2>3 DEF Calm, Forgotten, SessionInv, Purpose, FreedInv, LoopInv
  <2>5. PICK r \in Threads : recon' = [recon EXCEPT ![r] = "sleep"] /\ handle' = r
    BY <1>9 DEF Spawn
  <2>6. recon'[handle'] = "sleep" /\ \A q \in Threads : recon'[q] \in {"sleep", recon[q]}
    BY <2>5 DEF TypeOK
  <2>7. UNCHANGED <<conf, mqtt, session, queue, library, net, ghosts>>
    BY <1>9 DEF Spawn
  <2> QED BY <1>a, <1>o, <2>1, <2>3, <2>4, <2>6, <2>7
      DEF SessionInv, Purpose, CalmInv, Calm, Forgotten, FreedInv, HandleInv, ClientInv,
       LoopInv, DialInv, HookInv, GiveUpInv, SettledInv, CallbackInv, EventsInv, NoFault, Live,
       conf, mqtt, session, queue, library, ghosts
<1>10. CASE Join(c)
  <2>1. Advance(c) /\ h = "join" /\ handle' = NULL
    BY <1>10 DEF Join, At
  <2>2. h \in Steps /\ h \notin LastSteps /\ h \notin HangUps
    BY <2>1 DEF LastSteps, Steps, HangUps
  <2>3. handle # NULL /\ target[c] = handle /\ recon[handle] # "free"
    BY <1>t, <2>1
  <2>4. recon' = [recon EXCEPT ![handle] = "free"] /\ UNCHANGED faults
    BY <1>10, <2>3 DEF Join
  <2>5. \A r \in Threads : recon'[r] \in {"free", recon[r]}
    BY <2>4 DEF TypeOK
  <2>6. Left \cap HangUps # {}
    BY <1>q, <2>3 DEF Calm
  <2>7. Left' \cap HangUps # {} /\ ("forget" \in Left => "forget" \in Left')
    BY <1>a, <2>1, <2>2, <2>6 DEF HangUps, Steps
  <2>8. UNCHANGED <<conf, mqtt, session, retry, queue, library, net, wanted>>
    BY <1>10 DEF Join
  <2> QED BY <1>i, <1>c, <1>a, <1>o, <1>q, <2>1, <2>2, <2>4, <2>5, <2>6, <2>7, <2>8
      DEF SessionInv, Purpose, CalmInv, Calm, Forgotten, FreedInv, HandleInv, ClientInv,
       LoopInv, DialInv, HookInv, GiveUpInv, SettledInv, EventsInv, NoFault, Live, LastSteps, Steps,
       conf, mqtt, session, queue, library
<1>11. CASE Quiesce(c)
  <2>1. CASE Advance(c)
    <3>1. h = "quiesce" /\ h \in Steps /\ h \notin LastSteps
      BY <1>11 DEF Quiesce, At, Steps, LastSteps
    <3>2. UNCHANGED <<conf, mqtt, session, handle, recon, queue, library, net, ghosts>>
      BY <1>11 DEF Quiesce
    <3> QED BY <1>i, <1>t, <1>c, <1>a, <1>o, <1>q, <2>1, <3>1, <3>2
        DEF SessionInv, Purpose, CalmInv, Calm, Forgotten, FreedInv, HandleInv, ClientInv,
         LoopInv, DialInv, HookInv, GiveUpInv, SettledInv, CallbackInv, EventsInv, NoFault, Live,
         HangUps, Before, conf, mqtt, session, queue, library, ghosts
  <2>2. CASE Replace(c, <<"join">>) /\ handle # NULL
    <3>1. h = "quiesce" /\ "join" \in Steps
      BY <1>11 DEF Quiesce, At, Steps
    <3>2. UNCHANGED <<conf, mqtt, session, handle, recon, queue, library, net, ghosts>>
      BY <1>11 DEF Quiesce
    <3>3. /\ Ordered(todo'[c])
          /\ \A y \in Left : y = h \/ y \in Left'
          /\ \A y \in Left' : y = "join" \/ y \in Left
          /\ "join" \in Left'
          /\ ~Idle(c)' /\ Head(todo'[c]) = "join"
      BY <1>i, <2>2, <3>1, Continues
    <3>4. ~At(c, "dialling")'
      BY <3>3 DEF At
    <3> QED BY <1>i, <1>o, <1>q, <2>2, <3>1, <3>2, <3>3, <3>4
        DEF SessionInv, Purpose, CalmInv, Calm, Forgotten, FreedInv, HandleInv, ClientInv,
         LoopInv, DialInv, HookInv, GiveUpInv, SettledInv, EventsInv, NoFault, Live, LastSteps,
         HangUps, conf, mqtt, session, queue, library, ghosts
  <2> QED BY <1>11, <2>1, <2>2 DEF Quiesce
<1>12. CASE HangUp(c)
  <2>1. CASE Advance(c) /\ ~client
    <3>1. h = "hangup" /\ h \in Steps /\ h \notin LastSteps
      BY <1>12 DEF HangUp, At, Steps, LastSteps
    <3>2. UNCHANGED <<conf, mqtt, session, retrying, queue, loop, link,
                     callback, parting, net, ghosts>>
      BY <1>12 DEF HangUp
    <3> QED BY <1>i, <1>t, <1>c, <1>a, <1>o, <1>q, <2>1, <3>1, <3>2
        DEF SessionInv, Purpose, CalmInv, Calm, Forgotten, FreedInv, HandleInv, ClientInv,
         LoopInv, DialInv, HookInv, GiveUpInv, SettledInv, EventsInv, NoFault, Live,
         HangUps, Before, conf, mqtt, session, retrying, queue, ghosts
  <2>2. CASE Replace(c, <<"part">>)
    <3>1. h = "hangup" /\ "part" \in Steps
      BY <1>12 DEF HangUp, At, Steps
    <3>2. UNCHANGED <<conf, mqtt, session, retrying, queue, loop, link,
                     callback, parting, net, ghosts>>
      BY <1>12 DEF HangUp
    <3>3. /\ Ordered(todo'[c])
          /\ \A y \in Left : y = h \/ y \in Left'
          /\ \A y \in Left' : y = "part" \/ y \in Left
          /\ "part" \in Left'
          /\ ~Idle(c)' /\ Head(todo'[c]) = "part"
      BY <1>i, <2>2, <3>1, Continues
    <3>4. ~At(c, "dialling")'
      BY <3>3 DEF At
    <3> QED BY <1>i, <1>o, <1>q, <2>2, <3>1, <3>2, <3>3, <3>4
        DEF SessionInv, Purpose, CalmInv, Calm, Forgotten, FreedInv, HandleInv, ClientInv,
         LoopInv, DialInv, HookInv, GiveUpInv, SettledInv, EventsInv, NoFault, Live, LastSteps,
         HangUps, conf, mqtt, session, retrying, queue, ghosts
  <2> QED BY <1>12, <2>1, <2>2 DEF HangUp
<1>16. CASE Part(c)
  <2>1. h = "part" /\ "await" \in Steps /\ Replace(c, <<"await">>)
    BY <1>16 DEF Part, At, Steps
  <2>2. UNCHANGED <<conf, mqtt, session, retrying, queue, loop, link, callback,
                   stopping, net, ghosts>>
    BY <1>16 DEF Part
  <2>3. /\ Ordered(todo'[c])
        /\ \A y \in Left : y = h \/ y \in Left'
        /\ \A y \in Left' : y = "await" \/ y \in Left
        /\ "await" \in Left'
        /\ ~Idle(c)' /\ Head(todo'[c]) = "await"
    BY <1>i, <2>1, Continues
  <2>4. ~At(c, "dialling")'
    BY <2>3 DEF At
  <2> QED BY <1>i, <1>o, <1>q, <2>1, <2>2, <2>3, <2>4
      DEF SessionInv, Purpose, CalmInv, Calm, Forgotten, FreedInv, HandleInv, ClientInv,
       LoopInv, DialInv, HookInv, GiveUpInv, SettledInv, EventsInv, NoFault, Live, LastSteps,
       HangUps, conf, mqtt, session, retrying, queue, ghosts
<1>l. ASSUME h \in LastSteps
      PROVE  /\ Left = {h} /\ Len(todo[c]) = 1 /\ handle = NULL
             /\ \A r \in Threads : recon[r] = "free"
             /\ wanted /\ inited /\ loop = "none" /\ ~connected /\ ~subscribed
             /\ callback = <<>> /\ link = "closed" /\ (client => hooked)
  <2>1. Left = {h} /\ Len(todo[c]) = 1
    BY <1>i, <1>l, LastLeft
  <2>2. h \notin HangUps /\ h \notin {"forget", "destroy", "quiesce", "join"}
    BY <1>l DEF LastSteps, HangUps
  <2> QED BY <1>t, <1>q, <1>l, <2>1, <2>2
      DEF Calm, Forgotten, SessionInv, Purpose, FreedInv, LoopInv, HookInv
<1>f. ASSUME h \in {"dial", "dialling"}, Replace(c, <<"fallback">>)
      PROVE  /\ Ordered(todo'[c]) /\ Left' # {} /\ ~At(c, "dialling")'
             /\ Left' \subseteq {"dial", "dialling", "fallback"}
  <2>1. h \in LastSteps /\ Left = {h} /\ "fallback" \in Steps
    BY <1>l, <1>f DEF LastSteps, Steps
  <2>2. /\ Ordered(todo'[c])
        /\ \A y \in Left' : y = "fallback" \/ y \in Left
        /\ "fallback" \in Left' /\ Head(todo'[c]) = "fallback"
    BY <1>i, <1>f, <2>1, Continues
  <2> QED BY <1>f, <2>1, <2>2 DEF At
<1>g. ASSUME h = "dial", Replace(c, <<"dialling">>)
      PROVE  /\ Ordered(todo'[c]) /\ Left' # {} /\ Left' \subseteq {"dial", "dialling"}
  <2>1. h \in LastSteps /\ Left = {h} /\ "dialling" \in Steps
    BY <1>l, <1>g DEF LastSteps, Steps
  <2>2. /\ Ordered(todo'[c])
        /\ \A y \in Left' : y = "dialling" \/ y \in Left
        /\ "dialling" \in Left'
    BY <1>i, <1>g, <2>1, Continues
  <2> QED BY <1>g, <2>1, <2>2
<1>13. CASE Dial(c)
  <2>1. h = "dial" /\ h \in LastSteps
    BY <1>13 DEF Dial, At, LastSteps
  <2>2. /\ UNCHANGED <<conf, client, hooked, once, session, retrying, queue, loop,
                     link, callback, net, wanted>>
        /\ UNCHANGED faults
    BY <1>13, <1>l, <2>1 DEF Dial, StartDial
  <2>3. /\ Ordered(todo'[c]) /\ Left' # {}
        /\ Left' \subseteq {"dial", "dialling", "fallback"}
        /\ client \/ ~At(c, "dialling")'
    BY <1>13, <1>f, <1>g, <2>1 DEF Dial, CanDial
  <2> QED BY <1>l, <1>o, <2>1, <2>2, <2>3
      DEF SessionInv, Purpose, CalmInv, Calm, Forgotten, FreedInv, HandleInv, ClientInv,
       LoopInv, DialInv, HookInv, GiveUpInv, SettledInv, CallbackInv, EventsInv, NoFault, Live,
       HangUps, conf, session, retrying, queue
<1>14. CASE Dialled(c)
  <2>1. h = "dialling" /\ h \in LastSteps /\ h \in Steps
    BY <1>14 DEF Dialled, At, LastSteps, Steps
  <2>2. client
    BY <1>c, <2>1 DEF SessionInv, ClientInv
  <2>3. UNCHANGED <<conf, client, hooked, host, session, retrying, worker, taken,
                    seen, callback, stopping, parting, net, ghosts>>
    BY <1>14 DEF Dialled
  <2>4. CASE SocketOpens /\ Advance(c)
    BY <1>a, <1>l, <1>o, <2>1, <2>2, <2>3, <2>4
       DEF SocketOpens, SessionInv, Purpose, CalmInv, Calm, Forgotten, FreedInv, HandleInv,
       ClientInv, LoopInv, DialInv, HookInv, GiveUpInv, SettledInv, CallbackInv, EventsInv,
       NoFault, Live, HangUps, conf, session, retrying, ghosts
  <2>5. CASE SocketFails /\ Replace(c, <<"fallback">>)
    <3>1. \A i \in DOMAIN events' : events'[i][2] = server
      BY <2>5, PushCurrent DEF SocketFails, SessionInv, EventsInv, Status
    <3> QED BY <1>f, <1>l, <1>o, <2>1, <2>2, <2>3, <2>5, <3>1
       DEF SocketFails, SessionInv, Purpose, CalmInv, Calm, Forgotten, FreedInv, HandleInv,
       ClientInv, LoopInv, DialInv, HookInv, GiveUpInv, SettledInv, CallbackInv, EventsInv,
       NoFault, Live, HangUps, conf, session, retrying, ghosts
  <2> QED BY <1>14, <2>4, <2>5 DEF Dialled
<1>15. CASE Fallback(c)
  <2>1. h = "fallback" /\ h \in LastSteps /\ inited
    BY <1>15, <1>l DEF Fallback, At, LastSteps
  <2>2. UNCHANGED <<conf, mqtt, session, retrying, queue, library, net, ghosts>>
    BY <1>15, <2>1 DEF Fallback, ghosts
  <2>3. CASE Advance(c)
    BY <1>a, <1>l, <1>o, <2>1, <2>2, <2>3
       DEF SessionInv, Purpose, CalmInv, Calm, Forgotten, FreedInv, HandleInv, ClientInv,
       LoopInv, DialInv, HookInv, GiveUpInv, SettledInv, CallbackInv, EventsInv, NoFault, Live,
       HangUps, conf, mqtt, session, retrying, queue, library, ghosts
  <2>4. CASE Replace(c, ReconnectSteps)
    <3>1. todo'[c] = ReconnectSteps
      BY <1>i, <1>l, <2>1, <2>4, Restarts
    <3>2. Ordered(todo'[c]) /\ Left' = {"quiesce", "hangup", "forget", "spawn"}
      BY <3>1, ReconnectOrder, LeftAfter
    <3>3. ~At(c, "dialling")'
      BY <3>1 DEF At, ReconnectSteps
    <3> QED BY <1>l, <1>o, <2>1, <2>2, <3>2, <3>3
       DEF SessionInv, Purpose, CalmInv, Calm, Forgotten, FreedInv, HandleInv, ClientInv,
       LoopInv, DialInv, HookInv, GiveUpInv, SettledInv, CallbackInv, EventsInv, NoFault, Live,
       HangUps, conf, mqtt, session, retrying, queue, library, ghosts
  <2> QED BY <1>15, <2>3, <2>4 DEF Fallback
<1> QED BY <1>1, <1>2, <1>3, <1>4, <1>5, <1>6, <1>7, <1>8, <1>9, <1>10, <1>11, <1>12,
       <1>13, <1>14, <1>15, <1>16 DEF CallerStep

-----------------------------------------------------------------------------
(* Steps of the other threads *)

(* A thread that can dial, or a loop thread, is left only by a call that   *)
(* asked for a session, or before the hang-up of the call in progress.     *)
LEMMA BusyMeansWanted ==
  ASSUME TypeOK, OneCallAtATime, SessionInv,
         handle # NULL \/ loop # "none"
  PROVE  /\ (Left = {} /\ wanted) \/ Left \cap HangUps # {}
         /\ inited
         /\ ~("rebuild" \in Left /\ "clear" \notin Left)
<1>1. (Left = {} /\ wanted) \/ Left \cap HangUps # {}
  BY DEF SessionInv, CalmInv, Calm
<1>2. inited
  BY <1>1 DEF SessionInv, FreedInv, HangUps
<1>3. Left \cap HangUps # {} /\ "rebuild" \in Left => "clear" \in Left
  BY LeftFacts DEF SessionInv
<1> QED BY <1>1, <1>2, <1>3

LEMMA ThreadKeepsSession ==
  ASSUME TypeOK, OneCallAtATime, ThreadInv, SessionInv,
         NEW r \in Threads, ThreadStep(r)
  PROVE  SessionInv'
<1>1. UNCHANGED <<todo, handle, connected, subscribed, conf, client, hooked, callback, wanted>>
  BY DEF ThreadStep, Sleep, Redial, Redialled, ReportOpened, Retry, StartDial, conf, mqtt,
     session, retrying, library, ghosts
<1>2. /\ Left' = Left
      /\ \A d \in Callers : /\ todo'[d] = todo[d]
                           /\ At(d, "dialling")' = At(d, "dialling")
  BY <1>1 DEF Left, At, Idle
<1>3. /\ recon[r] # "free" /\ handle = r /\ handle # NULL
      /\ \A q \in Threads : q # r => recon[q] = "free"
  <2>1. recon[r] # "free"
    BY DEF ThreadStep, Sleep, Redial, Redialled, ReportOpened, Retry
  <2> QED BY <2>1, NullAssumption DEF ThreadInv, OneReconnectThread, Live
<1>4. /\ (Left = {} /\ wanted) \/ Left \cap HangUps # {}
      /\ inited
      /\ ~("rebuild" \in Left /\ "clear" \notin Left)
  BY <1>3, BusyMeansWanted
<1>k. ASSUME \A q \in Threads : q # r => recon'[q] = recon[q],
             recon'[r] # "free", UNCHANGED faults,
             recon'[r] = "dialling" => client,
             \A i \in DOMAIN events' : events'[i][2] = server,
             \/ UNCHANGED <<loop, link>> /\ (loop = "none" \/ recon'[r] \in {"opened", "done"})
             \/ /\ loop = "none" /\ client /\ recon'[r] = "opened"
                /\ loop' = "running" /\ link' = "opening"
      PROVE  SessionInv'
  <2>1. SettledInv'
    BY <1>1, <1>2, <1>k DEF SessionInv, SettledInv, CallbackInv, LoopInv, session
  <2> QED BY <1>1, <1>2, <1>3, <1>4, <1>k, <2>1
     DEF SessionInv, Purpose, CalmInv, Calm, Forgotten, FreedInv, HandleInv, ClientInv,
       LoopInv, DialInv, HookInv, GiveUpInv, EventsInv, NoFault, Live, conf
<1>e. \A i \in DOMAIN events : events[i][2] = server
  BY DEF SessionInv, EventsInv
<1>n. recon[r] \in {"sleep", "dial", "dialling", "failed"} => loop = "none"
  BY DEF SessionInv, DialInv
<1>m. \A p \in Places : MoveTo(r, p) =>
        recon'[r] = p /\ \A q \in Threads : q # r => recon'[q] = recon[q]
  BY DEF MoveTo, TypeOK
<1>5. CASE Sleep(r)
  BY <1>5, <1>k, <1>e, <1>n, <1>m DEF Sleep, queue, library, ghosts, Places
<1>6. CASE Redial(r)
  BY <1>4, <1>6, <1>k, <1>e, <1>n, <1>m DEF Redial, StartDial, CanDial, queue, Places
<1>7. CASE Redialled(r)
  <2>1. client
    BY <1>7 DEF Redialled, SessionInv, ClientInv
  <2>2. CASE SocketOpens /\ MoveTo(r, "opened")
    BY <1>7, <1>k, <1>e, <1>n, <1>m, <2>1, <2>2 DEF Redialled, SocketOpens, ghosts, Places
  <2>3. CASE SocketFails /\ MoveTo(r, "failed")
    BY <1>7, <1>k, <1>e, <1>n, <1>m, <2>3, PushCurrent
       DEF Redialled, SocketFails, ghosts, Places, Status
  <2> QED BY <1>7, <2>2, <2>3 DEF Redialled
<1>8. CASE ReportOpened(r)
  BY <1>8, <1>k, <1>e, <1>m, PushCurrent DEF ReportOpened, library, ghosts, Places, Status
<1>9. CASE Retry(r)
  BY <1>9, <1>k, <1>e, <1>n, <1>m DEF Retry, queue, library, ghosts, Places
<1> QED BY <1>5, <1>6, <1>7, <1>8, <1>9 DEF ThreadStep

(* The statements of the callbacks, one by one. *)
LEMMA CallbackSteps ==
  /\ OnConnect \o <<"acked">> = <<"connected", "subscribe", "online", "acked">>
  /\ OnLostConnect \o <<"give_up">> = <<"disconnected", "failed", "give_up">>
  /\ OnLostConnect \o <<>> = <<"disconnected", "failed">>
  /\ OnDisconnect \o <<>> = <<"disconnected", "offline">>
  /\ \A x \in Statements : <<>> \o <<x>> = <<x>>
<1>1. ASSUME NEW s \in Seq(Statements), NEW x \in Statements, NEW t \in Seq(Statements),
             Len(t) = Len(s) + 1, t[Len(t)] = x,
             \A i \in 1 .. Len(s) : t[i] = s[i]
      PROVE  s \o <<x>> = t
  <2> DEFINE u == <<x>>
  <2>1. u \in Seq(Statements) /\ Len(u) = 1 /\ u[1] = x
    OBVIOUS
  <2>2. Len(s) \in Nat
    BY LenProperties
  <2> HIDE DEF u
  <2>3. /\ s \o u \in Seq(Statements) /\ Len(s \o u) = Len(s) + Len(u)
        /\ \A i \in 1 .. Len(s) + Len(u) :
             (s \o u)[i] = IF i <= Len(s) THEN s[i] ELSE u[i - Len(s)]
    BY <2>1, ConcatProperties
  <2>4. \A i \in 1 .. Len(t) : (s \o u)[i] = t[i]
    BY <1>1, <2>1, <2>2, <2>3
  <2>5. s \o u = t
    BY <1>1, <2>1, <2>2, <2>3, <2>4, SeqEqual
  <2> QED BY <2>5 DEF u
<1>2. OnConnect \o <<"acked">> = <<"connected", "subscribe", "online", "acked">>
  <2> DEFINE s == <<"connected", "subscribe", "online">>
             t == <<"connected", "subscribe", "online", "acked">>
  <2>1. /\ s \in Seq(Statements) /\ t \in Seq(Statements) /\ "acked" \in Statements
        /\ Len(s) = 3 /\ Len(t) = 4 /\ t[4] = "acked"
        /\ s[1] = t[1] /\ s[2] = t[2] /\ s[3] = t[3]
    BY DEF Statements, Status
  <2> HIDE DEF s, t
  <2>2. \A i \in 1 .. Len(s) : t[i] = s[i]
    BY <2>1
  <2>3. Len(t) = Len(s) + 1 /\ t[Len(t)] = "acked"
    BY <2>1
  <2>4. s \o <<"acked">> = t
    BY <1>1, <2>1, <2>2, <2>3
  <2> QED BY <2>4 DEF s, t, OnConnect
<1>3. OnLostConnect \o <<"give_up">> = <<"disconnected", "failed", "give_up">>
  <2> DEFINE s == <<"disconnected", "failed">>
             t == <<"disconnected", "failed", "give_up">>
  <2>1. /\ s \in Seq(Statements) /\ t \in Seq(Statements) /\ "give_up" \in Statements
        /\ Len(s) = 2 /\ Len(t) = 3 /\ t[3] = "give_up"
        /\ s[1] = t[1] /\ s[2] = t[2]
    BY DEF Statements, Status
  <2> HIDE DEF s, t
  <2>2. \A i \in 1 .. Len(s) : t[i] = s[i]
    BY <2>1
  <2>3. Len(t) = Len(s) + 1 /\ t[Len(t)] = "give_up"
    BY <2>1
  <2>4. s \o <<"give_up">> = t
    BY <1>1, <2>1, <2>2, <2>3
  <2> QED BY <2>4 DEF s, t, OnLostConnect
<1>4. /\ OnLostConnect \o <<>> = <<"disconnected", "failed">>
      /\ OnDisconnect \o <<>> = <<"disconnected", "offline">>
  BY DEF OnLostConnect, OnDisconnect
<1>5. \A x \in Statements : <<>> \o <<x>> = <<x>>
  BY ConcatEmptySeq
<1> QED BY <1>2, <1>3, <1>4, <1>5

LEMMA ShortSequences ==
  /\ \A w, x, y, z : /\ <<w, x, y, z>> # <<>> /\ Head(<<w, x, y, z>>) = w
                    /\ Tail(<<w, x, y, z>>) = <<x, y, z>>
  /\ \A x, y, z : <<x, y, z>> # <<>> /\ Head(<<x, y, z>>) = x /\ Tail(<<x, y, z>>) = <<y, z>>
  /\ \A x, y : <<x, y>> # <<>> /\ Head(<<x, y>>) = x /\ Tail(<<x, y>>) = <<y>>
  /\ \A x : <<x>> # <<>> /\ Head(<<x>>) = x /\ Tail(<<x>>) = <<>>
OBVIOUS

(* What a statement of a callback does to the rest of it.                  *)
LEMMA StatementOrder ==
  ASSUME CallbackInv, callback # <<>>
  PROVE  /\ Head(callback) \in {"connected", "subscribe", "online", "acked"} => link = "up"
         /\ Head(callback) \in {"disconnected", "failed", "offline", "give_up"} => link # "up"
         /\ Head(callback) = "connected" =>
              Tail(callback) = <<"subscribe", "online", "acked">>
         /\ Head(callback) = "subscribe" => connected /\ Tail(callback) = <<"online", "acked">>
         /\ Head(callback) = "online" =>
              connected /\ subscribed /\ Tail(callback) = <<"acked">>
         /\ Head(callback) = "acked" => connected /\ subscribed /\ Tail(callback) = <<>>
         /\ Head(callback) = "disconnected" =>
              Tail(callback) \in {<<"offline">>, <<"failed">>, <<"failed", "give_up">>}
         /\ Head(callback) = "failed" =>
              ~connected /\ Tail(callback) \in {<<>>, <<"give_up">>}
         /\ Head(callback) \in {"offline", "give_up"} => ~connected /\ Tail(callback) = <<>>
<1>1. CASE callback = <<"connected", "subscribe", "online", "acked">>
  <2>1. Head(callback) = "connected" /\ Tail(callback) = <<"subscribe", "online", "acked">>
    BY <1>1
  <2>2. link = "up"
    BY <1>1 DEF CallbackInv
  <2> QED BY <2>1, <2>2
<1>2. CASE callback = <<"subscribe", "online", "acked">>
  <2>1. Head(callback) = "subscribe" /\ Tail(callback) = <<"online", "acked">>
    BY <1>2
  <2>2. link = "up" /\ connected
    BY <1>2 DEF CallbackInv
  <2> QED BY <2>1, <2>2
<1>3. CASE callback = <<"online", "acked">>
  <2>1. Head(callback) = "online" /\ Tail(callback) = <<"acked">>
    BY <1>3
  <2>2. link = "up" /\ connected /\ subscribed
    BY <1>3 DEF CallbackInv
  <2> QED BY <2>1, <2>2
<1>4. CASE callback = <<"acked">>
  <2>1. Head(callback) = "acked" /\ Tail(callback) = <<>>
    BY <1>4
  <2>2. link = "up" /\ connected /\ subscribed
    BY <1>4 DEF CallbackInv
  <2> QED BY <2>1, <2>2
<1>5. CASE callback = <<"disconnected", "offline">>
  <2>1. Head(callback) = "disconnected" /\ Tail(callback) = <<"offline">>
    BY <1>5
  <2>2. link # "up"
    BY <1>5 DEF CallbackInv
  <2> QED BY <2>1, <2>2
<1>6. CASE callback = <<"disconnected", "failed">>
  <2>1. Head(callback) = "disconnected" /\ Tail(callback) = <<"failed">>
    BY <1>6
  <2>2. link # "up"
    BY <1>6 DEF CallbackInv
  <2> QED BY <2>1, <2>2
<1>7. CASE callback = <<"disconnected", "failed", "give_up">>
  <2>1. Head(callback) = "disconnected" /\ Tail(callback) = <<"failed", "give_up">>
    BY <1>7
  <2>2. link # "up"
    BY <1>7 DEF CallbackInv
  <2> QED BY <2>1, <2>2
<1>8. CASE callback = <<"failed">>
  <2>1. Head(callback) = "failed" /\ Tail(callback) = <<>>
    BY <1>8
  <2>2. link # "up" /\ ~connected
    BY <1>8 DEF CallbackInv
  <2> QED BY <2>1, <2>2
<1>9. CASE callback = <<"offline">>
  <2>1. Head(callback) = "offline" /\ Tail(callback) = <<>>
    BY <1>9
  <2>2. link # "up" /\ ~connected
    BY <1>9 DEF CallbackInv
  <2> QED BY <2>1, <2>2
<1>10. CASE callback = <<"failed", "give_up">>
  <2>1. Head(callback) = "failed" /\ Tail(callback) = <<"give_up">>
    BY <1>10
  <2>2. link # "up" /\ ~connected
    BY <1>10 DEF CallbackInv
  <2> QED BY <2>1, <2>2
<1>11. CASE callback = <<"give_up">>
  <2>1. Head(callback) = "give_up" /\ Tail(callback) = <<>>
    BY <1>11
  <2>2. link # "up" /\ ~connected
    BY <1>11 DEF CallbackInv
  <2> QED BY <2>1, <2>2
<1> QED BY <1>1, <1>2, <1>3, <1>4, <1>5, <1>6, <1>7, <1>8, <1>9, <1>10, <1>11 DEF CallbackInv

LEMMA LoopKeepsSession ==
  ASSUME TypeOK, OneCallAtATime, ThreadInv, SessionInv, LoopStep
  PROVE  SessionInv'
<1>1. UNCHANGED <<todo, retrying, conf, mqtt, wanted>>
  BY DEF LoopStep, ConnAck, Refused, Lost, DecideToRedial, BeginRedial, AutoRedial, Closed,
     LoopEnds, SetConnected, InternalSubscribe, ReportStatus, Acknowledge, GiveUp, ghosts
<1>2. /\ Left' = Left
      /\ \A d \in Callers : /\ todo'[d] = todo[d]
                           /\ At(d, "dialling")' = At(d, "dialling")
  BY <1>1 DEF Left, At, Idle
<1>3. loop \in {"running", "redialling", "dialling"} /\ client
  <2>1. loop \in {"running", "redialling", "dialling"}
    BY DEF LoopStep, ConnAck, Refused, Lost, DecideToRedial, BeginRedial, AutoRedial, Closed,
       LoopEnds, SetConnected, InternalSubscribe, ReportStatus, Acknowledge, GiveUp,
       LoopFree, InCallback, SessionInv, LoopInv
  <2> QED BY <2>1 DEF SessionInv, ClientInv
<1>4. /\ (Left = {} /\ wanted) \/ Left \cap HangUps # {}
      /\ inited
      /\ ~("rebuild" \in Left /\ "clear" \notin Left)
      /\ Left \cap HangUps # {} => "forget" \in Left
  BY <1>3, BusyMeansWanted, LeftFacts DEF SessionInv
<1>5. Left = {} => hooked /\ CallbackInv
  BY <1>3 DEF SessionInv, HookInv, SettledInv
<1>k. ASSUME UNCHANGED faults, Left = {} => CallbackInv',
             GiveUpInv', \A i \in DOMAIN events' : events'[i][2] = server,
             \/ loop' = "running"
             \/ /\ loop' \in {"redialling", "dialling", "ended"}
                /\ callback' = <<>> /\ link' = "closed"
      PROVE  SessionInv'
  <2>1. DialInv'
    BY <1>1, <1>3 DEF SessionInv, DialInv, retrying
  <2> QED BY <1>1, <1>2, <1>3, <1>4, <1>k, <2>1
     DEF SessionInv, Purpose, CalmInv, Calm, Forgotten, FreedInv, HandleInv, ClientInv,
       LoopInv, HookInv, SettledInv, EventsInv, NoFault, Live, conf, mqtt, retrying
<1>e. \A i \in DOMAIN events : events[i][2] = server
  BY DEF SessionInv, EventsInv
<1>g. ASSUME callback # <<>>, callback' = Tail(callback), link' = link
      PROVE  GiveUpInv'
  <2>1. /\ callback \in Seq(Statements) /\ Len(callback) \in Nat \ {0}
        /\ Len(callback') = Len(callback) - 1
        /\ \A i \in 1 .. Len(callback') : callback'[i] = callback[i + 1]
    BY <1>g, HeadTailProperties, LenProperties, EmptySeq DEF TypeOK
  <2>2. ASSUME NEW i \in 1 .. Len(callback'), callback'[i] = "give_up"
        PROVE  i = Len(callback') /\ link' = "closed"
    <3>1. i + 1 \in 1 .. Len(callback) /\ callback[i + 1] = "give_up"
      BY <2>1, <2>2
    <3>2. i + 1 = Len(callback) /\ link = "closed"
      BY <3>1 DEF SessionInv, GiveUpInv
    <3>3. i = Len(callback')
      BY <2>1, <3>2
    <3>4. link' = "closed"
      BY <1>g, <3>2
    <3> QED BY <3>3, <3>4
  <2> QED BY <2>2 DEF GiveUpInv
<1>h. ASSUME callback' = <<>> PROVE GiveUpInv'
  BY <1>h, EmptySeq DEF GiveUpInv
<1>6. CASE ConnAck
  <2>1. \/ hooked /\ callback' = <<"connected", "subscribe", "online", "acked">>
        \/ ~hooked /\ callback' = <<"acked">>
    BY <1>6, CallbackSteps DEF ConnAck, RunCallback, Statements
  <2>2. GiveUpInv'
    <3>1. CASE callback' = <<"connected", "subscribe", "online", "acked">>
      <4>1. \A i \in 1 .. Len(callback') : callback'[i] # "give_up"
        BY <3>1
      <4> QED BY <4>1 DEF GiveUpInv
    <3>2. CASE callback' = <<"acked">>
      BY <3>2 DEF GiveUpInv
    <3> QED BY <2>1, <3>1, <3>2
  <2> QED BY <1>3, <1>5, <1>6, <1>k, <1>e, <2>1, <2>2, ShortSequences
      DEF ConnAck, LoopFree, CallbackInv, session, queue, ghosts
<1>7. CASE Refused
  <2>1. \/ hooked /\ callback' = <<"disconnected", "failed">>
        \/ ~hooked /\ callback' = <<>>
    BY <1>7, CallbackSteps DEF Refused, RunCallback
  <2>2. GiveUpInv'
    BY <1>h, <2>1 DEF GiveUpInv
  <2> QED BY <1>3, <1>5, <1>7, <1>k, <1>e, <2>1, <2>2, ShortSequences
      DEF Refused, LoopFree, CallbackInv, session, queue, ghosts
<1>8. CASE Lost
  <2>1. \/ hooked /\ callback' \in {<<"disconnected", "failed">>,
                                    <<"disconnected", "failed", "give_up">>}
        \/ ~hooked /\ callback' \in {<<>>, <<"give_up">>}
    <3>1. CASE RunCallback(OnLostConnect, <<>>)
      BY <3>1, CallbackSteps DEF RunCallback
    <3>2. CASE RunCallback(OnLostConnect, <<"give_up">>)
      BY <3>2, CallbackSteps DEF RunCallback, Statements
    <3> QED BY <1>8, <3>1, <3>2 DEF Lost
  <2>2. link' = "closed"
    BY <1>8 DEF Lost
  <2>3. GiveUpInv'
    <3>1. CASE callback' = <<"disconnected", "failed", "give_up">>
      <4>1. /\ Len(callback') = 3 /\ callback'[1] # "give_up"
            /\ callback'[2] # "give_up"
        BY <3>1
      <4>2. \A i \in 1 .. Len(callback') : callback'[i] = "give_up" => i = Len(callback')
        BY <4>1
      <4> QED BY <2>2, <4>2 DEF GiveUpInv
    <3>2. CASE callback' = <<"disconnected", "failed">>
      BY <3>2 DEF GiveUpInv
    <3>3. CASE callback' = <<"give_up">>
      BY <2>2, <3>3 DEF GiveUpInv
    <3> QED BY <1>h, <2>1, <3>1, <3>2, <3>3
  <2> QED BY <1>3, <1>5, <1>8, <1>k, <1>e, <2>1, <2>2, <2>3, ShortSequences
      DEF Lost, LoopFree, CallbackInv, session, queue, ghosts
<1>9. CASE DecideToRedial
  BY <1>3, <1>5, <1>9, <1>h, <1>k, <1>e
     DEF DecideToRedial, LoopFree, CallbackInv, session, queue, ghosts
<1>15. CASE BeginRedial
  BY <1>5, <1>15, <1>h, <1>k, <1>e
     DEF BeginRedial, CallbackInv, SessionInv, LoopInv, session, queue, ghosts
<1>16. CASE AutoRedial
  BY <1>5, <1>16, <1>h, <1>k, <1>e
     DEF AutoRedial, CallbackInv, SessionInv, LoopInv, session, queue, ghosts
<1>10. CASE Closed
  <2>1. \/ hooked /\ callback' = <<"disconnected", "offline">>
        \/ ~hooked /\ callback' = <<>>
    BY <1>10, CallbackSteps DEF Closed, RunCallback
  <2>2. GiveUpInv'
    BY <1>h, <2>1 DEF GiveUpInv
  <2> QED BY <1>3, <1>5, <1>10, <1>k, <1>e, <2>1, <2>2, ShortSequences
      DEF Closed, LoopFree, CallbackInv, session, queue, ghosts
<1>11. CASE LoopEnds
  BY <1>3, <1>5, <1>11, <1>h, <1>k, <1>e
     DEF LoopEnds, LoopFree, CallbackInv, session, queue, ghosts
<1>12. CASE SetConnected
  <2>1. ASSUME Left = {} PROVE CallbackInv'
    <3>0. /\ CallbackInv /\ callback # <<>> /\ callback' = Tail(callback)
          /\ link' = link /\ subscribed' = subscribed
          /\ Head(callback) \in {"connected", "disconnected"}
          /\ connected' = (Head(callback) = "connected")
      BY <1>5, <1>12, <2>1 DEF SetConnected, InCallback, EndStatement
    <3>1. CASE Head(callback) = "connected"
      <4>1. callback' = <<"subscribe", "online", "acked">> /\ connected' /\ link' = "up"
        BY <3>0, <3>1, StatementOrder
      <4> QED BY <4>1, ShortSequences DEF CallbackInv
    <3>2. CASE Head(callback) = "disconnected"
      <4>1. /\ callback' \in {<<"failed">>, <<"offline">>, <<"failed", "give_up">>}
            /\ ~connected' /\ link' # "up"
        BY <3>0, <3>2, StatementOrder
      <4> QED BY <4>1, ShortSequences DEF CallbackInv
    <3> QED BY <3>0, <3>1, <3>2
  <2>2. UNCHANGED <<events, loop, faults>>
    BY <1>4, <1>12 DEF SetConnected, queue
  <2>3. loop = "running" /\ GiveUpInv'
    BY <1>12, <1>g DEF SetConnected, InCallback, EndStatement, SessionInv, LoopInv
  <2> QED BY <1>k, <1>e, <2>1, <2>2, <2>3
<1>13. CASE InternalSubscribe
  <2>1. ASSUME Left = {} PROVE CallbackInv'
    <3>1. CallbackInv /\ Head(callback) = "subscribe" /\ callback # <<>>
      BY <1>5, <1>13, <2>1 DEF InternalSubscribe, InCallback
    <3>2. Tail(callback) = <<"online", "acked">> /\ link = "up" /\ connected
      BY <3>1, StatementOrder
    <3>3. /\ callback' = <<"online", "acked">> /\ link' = "up"
          /\ connected' /\ subscribed'
      BY <1>3, <1>13, <3>2 DEF InternalSubscribe, EndStatement
    <3> QED BY <3>3, ShortSequences DEF CallbackInv
  <2>2. UNCHANGED <<events, loop, faults>>
    BY <1>13 DEF InternalSubscribe, queue, ghosts
  <2>3. loop = "running" /\ GiveUpInv'
    BY <1>13, <1>g DEF InternalSubscribe, InCallback, EndStatement, SessionInv, LoopInv
  <2> QED BY <1>k, <1>e, <2>1, <2>2, <2>3
<1>14. CASE ReportStatus
  <2>1. \A i \in DOMAIN events' : events'[i][2] = server
    BY <1>14, <1>e, PushCurrent DEF ReportStatus, InCallback
  <2>2. loop = "running" /\ UNCHANGED <<loop, faults>>
    BY <1>14 DEF ReportStatus, InCallback, SessionInv, LoopInv, ghosts
  <2>3. ASSUME Left = {} PROVE CallbackInv'
    <3>1. /\ CallbackInv /\ callback # <<>> /\ Head(callback) \in Status
          /\ callback' = Tail(callback) /\ UNCHANGED <<link, connected, subscribed>>
      BY <1>5, <1>14, <2>3 DEF ReportStatus, InCallback, EndStatement, session
    <3>2. \/ callback' = <<"acked">> /\ link = "up" /\ connected /\ subscribed
          \/ callback' \in {<<>>, <<"give_up">>} /\ link # "up" /\ ~connected
      BY <3>1, StatementOrder DEF Status
    <3> QED BY <3>1, <3>2, ShortSequences DEF CallbackInv
  <2>4. GiveUpInv'
    BY <1>14, <1>g DEF ReportStatus, InCallback, EndStatement
  <2> QED BY <1>k, <2>1, <2>2, <2>3, <2>4
<1>17. CASE Acknowledge
  <2>1. loop = "running" /\ UNCHANGED <<events, loop, faults>>
    BY <1>17 DEF Acknowledge, InCallback, SessionInv, LoopInv, queue, ghosts
  <2>2. ASSUME Left = {} PROVE CallbackInv'
    <3>1. /\ CallbackInv /\ callback # <<>> /\ Head(callback) = "acked"
          /\ callback' = Tail(callback) /\ UNCHANGED <<link, connected, subscribed>>
      BY <1>5, <1>17, <2>2 DEF Acknowledge, InCallback, EndStatement, session
    <3>2. callback' = <<>> /\ link = "up" /\ connected /\ subscribed
      BY <3>1, StatementOrder
    <3> QED BY <3>1, <3>2 DEF CallbackInv
  <2>3. GiveUpInv'
    BY <1>17, <1>g DEF Acknowledge, InCallback, EndStatement
  <2> QED BY <1>e, <1>k, <2>1, <2>2, <2>3
<1>18. CASE GiveUp
  <2>1. UNCHANGED <<events, faults>> /\ loop' = "ended"
    BY <1>18 DEF GiveUp, queue, ghosts
  <2>2. ASSUME Left = {} PROVE CallbackInv'
    <3>1. /\ CallbackInv /\ callback # <<>> /\ Head(callback) = "give_up"
          /\ callback' = Tail(callback) /\ UNCHANGED <<link, connected, subscribed>>
      BY <1>5, <1>18, <2>2 DEF GiveUp, InCallback, EndStatement, session
    <3>2. callback' = <<>> /\ link # "up" /\ ~connected
      BY <3>1, StatementOrder
    <3> QED BY <3>1, <3>2 DEF CallbackInv
  <2>3. callback' = <<>> /\ link' = "closed"
    <3>1. /\ callback # <<>> /\ Head(callback) = "give_up" /\ link' = link
          /\ callback' = Tail(callback)
      BY <1>18 DEF GiveUp, InCallback, EndStatement
    <3>2. /\ callback \in Seq(Statements) /\ callback[1] = "give_up"
          /\ Len(callback) \in Nat \ {0} /\ Tail(callback) \in Seq(Statements)
          /\ Len(Tail(callback)) = Len(callback) - 1
      BY <3>1, HeadTailProperties, LenProperties, EmptySeq DEF TypeOK
    <3>3. 1 = Len(callback) /\ link = "closed"
      <4>1. 1 \in 1 .. Len(callback)
        BY <3>2
      <4> QED BY <3>2, <4>1 DEF SessionInv, GiveUpInv
    <3> QED BY <3>1, <3>2, <3>3, EmptySeq
  <2> QED BY <1>e, <1>h, <1>k, <2>1, <2>2, <2>3
<1> QED BY <1>6, <1>7, <1>8, <1>9, <1>10, <1>11, <1>12, <1>13, <1>14, <1>15, <1>16, <1>17,
       <1>18 DEF LoopStep

(* The worker, and the brokers. *)
LEMMA WorkerKeepsSession ==
  ASSUME TypeOK, SessionInv, TakeEvent \/ DeliverEvent \/ NetChange
  PROVE  SessionInv'
<1>1. /\ UNCHANGED <<conf, mqtt, session, retrying, library, todo, ghosts>>
      /\ \/ UNCHANGED events
         \/ events # <<>> /\ events' = Tail(events)
  BY DEF TakeEvent, DeliverEvent, NetChange, queue
<1>2. /\ Left' = Left
      /\ \A d \in Callers : /\ todo'[d] = todo[d]
                           /\ At(d, "dialling")' = At(d, "dialling")
  BY <1>1 DEF Left, At, Idle
<1>3. EventsInv'
  <2>1. CASE UNCHANGED events
    BY <1>1, <1>2, <2>1 DEF SessionInv, EventsInv, conf
  <2>2. CASE events # <<>> /\ events' = Tail(events)
    <3>1. /\ events \in Seq(Records) /\ events' \in Seq(Records)
          /\ Len(events') = Len(events) - 1 /\ Len(events) \in Nat
          /\ \A i \in 1 .. Len(events') : events'[i] = events[i + 1]
      BY <2>2, HeadTailProperties, LenProperties DEF TypeOK
    <3>2. \A i \in DOMAIN events' : i + 1 \in DOMAIN events /\ events'[i] = events[i + 1]
      BY <3>1
    <3> QED BY <1>1, <1>2, <2>2, <3>2 DEF SessionInv, EventsInv, conf
  <2> QED BY <1>1, <2>1, <2>2
<1> QED BY <1>1, <1>2, <1>3
    DEF SessionInv, Purpose, CalmInv, Calm, Forgotten, FreedInv, HandleInv, ClientInv,
       LoopInv, DialInv, HookInv, GiveUpInv, SettledInv, CallbackInv, NoFault, Live,
       conf, mqtt, session, retrying, library, ghosts

-----------------------------------------------------------------------------
(* New calls *)

(* A thread enters an API function while no other thread is in one: the    *)
(* event worker may be the one, with the record it has taken.              *)
LEMMA EnterKeepsSession ==
  ASSUME TypeOK, OneCallAtATime, OneCallAtATime', ThreadInv, SessionInv,
         NEW c \in Callers, NEW op \in Operations, op # "initialize",
         Idle(c), inited, op = "connect" => ~wanted,
         todo' = [todo EXCEPT ![c] = Script(op)],
         wanted' = (op \in {"connect", "server_connect", "reconnect"}),
         UNCHANGED <<conf, mqtt, session, retrying, events, library, faults>>
  PROVE  SessionInv'
<1>1. /\ Script(op) \in Seq(Steps) /\ Script(op) # <<>> /\ Head(Script(op)) = "quiesce"
      /\ todo'[c] = Script(op)
  BY ScriptType DEF TypeOK
<1>2. \A d \in Callers : todo[d] = <<>> /\ (d # c => todo'[d] = <<>>)
  BY <1>1 DEF OneCallAtATime, Idle, TypeOK
<1>3. Left = {} /\ Left' = StepsOf(Script(op))
  <2>1. Left = {}
    BY <1>2, EmptyScript DEF Left
  <2>2. Left' = StepsOf(todo'[c])
    BY <1>2, EmptyScript DEF Left
  <2> QED BY <1>1, <2>1, <2>2
<1>4. "quiesce" \in StepsOf(Script(op))
  <2>1. 1 \in 1 .. Len(Script(op)) /\ Script(op)[1] = "quiesce"
    BY <1>1, EmptySeq
  <2> QED BY <2>1 DEF StepsOf
<1>5. \A d \in Callers : Ordered(todo'[d]) /\ ~At(d, "dialling")'
  <2>1. Ordered(Script(op))
    BY ScriptOrder
  <2> QED BY <1>1, <1>2, <2>1, EmptyScript DEF At, Idle
<1>6. /\ StepsOf(Script(op)) \cap LastSteps # {} => wanted'
      /\ "free" \in StepsOf(Script(op)) => ~wanted'
      /\ \/ op = "connect" /\ ~wanted
         \/ StepsOf(Script(op)) \cap HangUps # {} /\ "forget" \in StepsOf(Script(op))
      /\ "rebuild" \in StepsOf(Script(op)) => "clear" \in StepsOf(Script(op))
  BY ScriptOrder
<1> QED BY <1>3, <1>4, <1>5, <1>6
    DEF SessionInv, Purpose, CalmInv, Calm, Forgotten, FreedInv, HandleInv,
     ClientInv, LoopInv, DialInv, HookInv, GiveUpInv, SettledInv, EventsInv, NoFault,
     Live, conf, mqtt, session, retrying, library

LEMMA CallKeepsSession ==
  ASSUME TypeOK, OneCallAtATime, OneCallAtATime', ThreadInv, SessionInv,
         NEW c \in Callers, NEW op \in Operations, Initialize(c) \/ Call(c, op)
  PROVE  SessionInv'
<1>1. CASE Initialize(c)
  <2>1. Left = {} /\ Left' = Left
        /\ \A d \in Callers : todo'[d] = todo[d] /\ ~At(d, "dialling")'
    BY <1>1, LeftFacts DEF Initialize, SessionInv, Left, At, Idle, NoCall
  <2>2. ~wanted /\ loop = "none"
    BY <1>1, <2>1 DEF Initialize, SessionInv, FreedInv, CalmInv, Calm
  <2>3. handle = NULL /\ \A r \in Threads : recon[r] = "free"
    BY <2>1, <2>2, NullAssumption
       DEF SessionInv, CalmInv, Calm, ThreadInv, OneReconnectThread, Live
  <2> QED BY <1>1, <2>1, <2>2, <2>3
      DEF Initialize, SessionInv, Purpose, CalmInv, Calm, Forgotten, FreedInv, HandleInv,
       ClientInv, LoopInv, DialInv, HookInv, GiveUpInv, SettledInv, CallbackInv, EventsInv, NoFault,
       Live, session, retrying, library, ghosts
<1>2. CASE Call(c, op)
  BY <1>2, EnterKeepsSession DEF Call, queue
<1> QED BY <1>1, <1>2

(* Nothing but these variables matters to the session. *)
LEMMA SessionUnchanged ==
  ASSUME SessionInv,
         UNCHANGED <<conf, mqtt, session, retrying, events, library, todo, ghosts>>
  PROVE  SessionInv'
<1>1. /\ Left' = Left
      /\ \A d \in Callers : /\ todo'[d] = todo[d]
                           /\ At(d, "dialling")' = At(d, "dialling")
  BY DEF Left, At, Idle
<1> QED BY <1>1
    DEF SessionInv, Purpose, CalmInv, Calm, Forgotten, FreedInv, HandleInv, ClientInv,
     LoopInv, DialInv, HookInv, GiveUpInv, SettledInv, CallbackInv, EventsInv, NoFault, Live,
     conf, mqtt, session, retrying, library, ghosts

LEMMA NextKeepsSession ==
  TypeOK /\ OneCallAtATime /\ OneCallAtATime' /\ ThreadInv /\ SessionInv /\ [Next]_vars
    => SessionInv'
<1> SUFFICES ASSUME TypeOK, OneCallAtATime, OneCallAtATime', ThreadInv,
                    SessionInv, [Next]_vars
             PROVE  SessionInv'
  OBVIOUS
<1>1. CASE Next
  BY <1>1, CallerKeepsSession, ThreadKeepsSession, LoopKeepsSession,
     WorkerKeepsSession, CallKeepsSession DEF Next, CoreNext, Operations
<1>2. CASE UNCHANGED vars
  BY <1>2, SessionUnchanged DEF vars, queue
<1> QED BY <1>1, <1>2

LEMMA InitSession == Init => SessionInv
<1> SUFFICES ASSUME Init PROVE SessionInv
  OBVIOUS
<1>1. /\ Left = {}
      /\ \A c \in Callers : Ordered(todo[c]) /\ ~At(c, "dialling")
  BY EmptyScript DEF Init, Left, At, Idle
<1> QED BY <1>1 DEF Init, SessionInv, Purpose, CalmInv, Calm, Forgotten, FreedInv,
    HandleInv, ClientInv, LoopInv, DialInv, HookInv, GiveUpInv, SettledInv, CallbackInv,
    EventsInv, NoFault

-----------------------------------------------------------------------------
(* Theorems *)

(* What the calls, the threads and the callbacks rely on holds in every    *)
(* reachable state when calls do not overlap.                              *)
THEOREM SessionInvariant == Spec /\ []OneCallAtATime => []SessionInv
BY InitSession, NextKeepsSession, ThreadInvariant, TypeCorrect, PTL DEF Spec

(* No thread is joined twice, no freed configuration is read, and the MQTT *)
(* client is never destroyed while a thread uses it (NoFault).             *)
THEOREM NoFaultAlways == Spec /\ []OneCallAtATime => []NoFault
<1>1. SessionInv => NoFault
  BY DEF SessionInv
<1> QED BY <1>1, SessionInvariant, PTL

(* The reconnect thread and the library's loop thread never dial at the    *)
(* same time (OneDialler).                                                 *)
THEOREM OneDiallerAlways == Spec /\ []OneCallAtATime => []OneDialler
<1>1. SessionInv => OneDialler
  BY DEF SessionInv, DialInv, OneDialler
<1> QED BY <1>1, SessionInvariant, PTL

(* Between calls and outside callbacks g_bConnected agrees with the        *)
(* library, and a session has its topics (SettledSession).                 *)
THEOREM SessionSettles == Spec /\ []OneCallAtATime => []SettledSession
<1>1. TypeOK /\ OneCallAtATime /\ SessionInv => SettledSession
  BY LeftFacts DEF SessionInv, SettledInv, CallbackInv, SettledSession, NoCall
<1> QED BY <1>1, SessionInvariant, TypeCorrect, PTL

(* After a disconnect or an uninitialisation no thread, session or topic   *)
(* is left (QuietWhenNotWanted).                                           *)
THEOREM QuietAlways == Spec /\ []OneCallAtATime => []QuietWhenNotWanted
<1>1. TypeOK /\ OneCallAtATime /\ ThreadInv /\ SessionInv => QuietWhenNotWanted
  <2> SUFFICES ASSUME TypeOK, OneCallAtATime, ThreadInv, SessionInv, NoCall, ~wanted
               PROVE  /\ \A r \in Threads : ~Live(r)
                      /\ loop = "none" /\ link = "closed"
                      /\ ~connected /\ ~subscribed
    BY DEF QuietWhenNotWanted
  <2>1. Left = {}
    BY LeftFacts DEF NoCall, SessionInv
  <2>2. loop = "none" /\ handle = NULL /\ ~connected /\ ~subscribed
    BY <2>1 DEF SessionInv, CalmInv, Calm, Forgotten
  <2> QED BY <2>2, NullAssumption
      DEF SessionInv, LoopInv, ThreadInv, OneReconnectThread, Live
<1> QED BY <1>1, ThreadInvariant, SessionInvariant, TypeCorrect, PTL

(* What waits in the event queue is about the server the agent is          *)
(* configured for (QueuedEventsAreCurrent).                                *)
THEOREM EventsAreCurrent == Spec /\ []OneCallAtATime => []QueuedEventsAreCurrent
<1>1. SessionInv => QueuedEventsAreCurrent
  BY DEF SessionInv, EventsInv, QueuedEventsAreCurrent
<1> QED BY <1>1, SessionInvariant, PTL

=============================================================================
