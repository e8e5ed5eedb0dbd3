---------------------------- MODULE Subscriptions ----------------------------
(***************************************************************************)
(* From a subscription to the handler that gets the message: the topic     *)
(* list of Library/SAClient/topic.c, saclient_subscribe, saclient_on_recv  *)
(* and the message queue, the sweep of _disconnect, and the manager's own  *)
(* list of custom topics (SAManager.c, topic.c).                           *)
(*                                                                         *)
(* Subscribing threads are the loop thread, which subscribes the internal  *)
(* topics whenever a session opens, and threads of a handler, which        *)
(* subscribe custom topics: IoTGWHandler starts one each time it is told   *)
(* that the agent is online.  The message worker reads the list and a      *)
(* caller of saclient_disconnect empties it, none of them under a lock: an *)
(* entry one thread has read can be unlinked by another before it is used. *)
(* A function of topic.c that changes the list is therefore two steps, the *)
(* walk and the change; topic_find, which only walks, is one.              *)
(*                                                                         *)
(* Where an entry may be used after it was freed, the program may crash or *)
(* go on: the model ends in the first case and claims nothing after it.    *)
(*                                                                         *)
(* The session is no more than up or down, see SAClient for the rest.  It  *)
(* is clean: a broker forgets the subscriptions of a session that ends.    *)
(***************************************************************************)
EXTENDS Integers, Sequences, FiniteSets, SequencesExt

CONSTANTS
  Internal,   \* topics of SAManager_InternalSubscribe, in its order
  Hubs,       \* custom topics of the handler, in its order
  Covers,     \* [topics with a '+' -> names they match]
  Names,      \* names messages are published under
  Loop,       \* the loop thread of the MQTT library
  Registrars, \* threads of the handler
  Slots,      \* messages that fit in the message queue (1000)
  None

Custom == ToSet(Hubs)
Topics == ToSet(Internal) \cup Custom
Threads == Registrars \cup {Loop}

(* Handlers use names without a '+', and names of their own.               *)
ASSUME TopicsAssumption ==
  /\ Internal \in Seq(ToSet(Internal)) /\ Internal # <<>>
  /\ Hubs \in Seq(Custom)
  /\ Custom \cap (ToSet(Internal) \cup DOMAIN Covers) = {}
  /\ None \notin Topics
ASSUME CoversAssumption == \A t \in DOMAIN Covers : Covers[t] \cap DOMAIN Covers = {}
ASSUME LoopAssumption == Loop \notin Registrars
ASSUME SlotsAssumption == Slots \in Nat \ {0}

VARIABLES
  loop,     \* the loop thread runs
  session,  \* it has a session
  served,   \* topics the broker sends messages of
  list,     \* names of the entries from g_subscribe_topics, in order
  lost,     \* history: topics whose entry was cut off the list
  managed,  \* the same for the list of SAManager, of custom topics
  forgotten,
  place,    \* [Threads -> where a subscribing thread is]
  todo,     \* [Threads -> topics it has yet to subscribe, the current first]
  mark,     \* [Threads -> position of the entry it has walked to]
  tail,     \* [Registrars -> the same, in the list of SAManager]
  api,      \* the caller: "idle", "hanging_up", "first", "sweeping", "removing"
  sweep,    \* positions of iter_topic and tmp_topic of _disconnect
  queue,    \* the message queue
  hand,     \* what the message worker is handling
  outcome,  \* history: what became of the message handled last
  broken    \* an entry was used after it was freed

sessionVars == <<loop, session, served>>
topicVars == <<list, lost, mark, sweep, broken>>
managerVars == <<managed, forgotten, tail>>
listVars == <<topicVars, managerVars>>
subscribing == <<place, todo>>
messageVars == <<queue, hand, outcome>>
vars == <<sessionVars, listVars, subscribing, api, messageVars>>

(* A message; swept if a disconnect has ended the session it came in. *)
Messages == [name : Names, swept : BOOLEAN]
Hands == [at : {"finding", "internal", "custom", "manager"}, message : Messages]
Nothing == [at |-> "idle", message |-> None]
NoSweep == [iter |-> 0, next |-> 0]

Init ==
  /\ loop = FALSE /\ session = FALSE /\ served = {}
  /\ list = <<>> /\ lost = {} /\ managed = <<>> /\ forgotten = {}
  /\ place = [t \in Threads |-> "idle"] /\ todo = [t \in Threads |-> <<>>]
  /\ mark = [t \in Threads |-> 0] /\ tail = [r \in Registrars |-> 0]
  /\ api = "idle" /\ sweep = NoSweep /\ broken = FALSE
  /\ queue = <<>> /\ hand = Nothing /\ outcome = "none"

-----------------------------------------------------------------------------
(* topic_find, in the list l: the entry of that very name, else the last   *)
(* one with a '+' that matches it.  A name with a '+' of its own matches   *)
(* no other.                                                               *)
Matching(l, name) ==
  {i \in DOMAIN l : l[i] \in DOMAIN Covers /\ name \in Covers[l[i]]}

(* Mutant: entries with a '+' are compared like the others. *)
FoundExactly(l, name) == IF name \in ToSet(l) THEN name ELSE None

Found(l, name) ==
  IF name \in ToSet(l) THEN name
  ELSE IF Matching(l, name) # {}
  THEN l[CHOOSE i \in Matching(l, name) : \A j \in Matching(l, name) : j <= i]
  ELSE None

(* topic_remove walks to the first entry of that name. *)
First(l, name) ==
  CHOOSE i \in DOMAIN l : l[i] = name /\ \A j \in 1 .. i - 1 : l[j] # name

-----------------------------------------------------------------------------
(* The lists under several threads.  A position is that of an entry a      *)
(* thread holds a pointer to: 0 is NULL, Gone an entry no longer listed.   *)
Gone == -1

(* topic_add writes lasttopic->next: what was linked behind that entry     *)
(* since the walk is cut off.  Behind an entry that is gone the new one is *)
(* in no list.                                                             *)
Linked(l, k, u) == IF k = Gone THEN l ELSE Append(SubSeq(l, 1, k), u)
CutOff(cut, l, u, linked) == (cut \cup ToSet(l) \cup {u}) \ ToSet(linked)

(* What becomes of a position p when an entry is linked behind k, and when *)
(* the entry at i is unlinked.                                             *)
AfterLink(p, k) == IF k # Gone /\ p > k THEN Gone ELSE p
AfterUnlink(p, i) == IF p = i THEN Gone ELSE IF p > i THEN p - 1 ELSE p

(* Threads that walk in the topic list or hold an entry of it.  One freed  *)
(* entry is enough for them to read memory that is not theirs.             *)
Walks(t) == place[t] \in {"find", "remove", "unlink", "add", "link"}
WorkerReads == hand.at \in {"finding", "internal", "custom"}
Sweeps == api \in {"sweeping", "removing"}

-----------------------------------------------------------------------------
(* saclient_subscribe, on any thread *)

Current(t) == Head(todo[t])
Go(t, p) == place' = [place EXCEPT ![t] = p]

(* The topic is done with; the next one, if any, begins at p. *)
NextTopic(t, p) ==
  /\ todo' = [todo EXCEPT ![t] = Tail(@)]
  /\ Go(t, IF Len(todo[t]) > 1 THEN p ELSE IF t = Loop THEN "report" ELSE "idle")

Begin(t) == IF t = Loop THEN "subscribe" ELSE "look"

(* Mutant: a topic that is in the list is taken for subscribed. *)
SubscribeOnce(t) ==
  /\ place[t] = "subscribe"
  /\ IF session /\ Found(list, Current(t)) = None
     THEN served' = served \cup {Current(t)} /\ Go(t, "find") /\ UNCHANGED todo
     ELSE NextTopic(t, Begin(t)) /\ UNCHANGED served
  /\ UNCHANGED <<loop, session, listVars, api, messageVars>>

(* MQTT_Subscribe, which fails without a session. *)
Subscribe(t) ==
  /\ place[t] = "subscribe"
  /\ IF session
     THEN served' = served \cup {Current(t)} /\ Go(t, "find") /\ UNCHANGED todo
     ELSE NextTopic(t, Begin(t)) /\ UNCHANGED served
  /\ UNCHANGED <<loop, session, listVars, api, messageVars>>

(* Mutant: an entry of that name is left where it is. *)
KeepEntry(t) ==
  /\ place[t] = "find"
  /\ Go(t, "add")
  /\ UNCHANGED <<sessionVars, listVars, todo, api, messageVars>>

FindEntry(t) ==
  /\ place[t] = "find"
  /\ Go(t, IF Found(list, Current(t)) # None THEN "remove" ELSE "add")
  /\ UNCHANGED <<sessionVars, listVars, todo, api, messageVars>>

(* topic_remove: the walk, and the unlinking and free of the entry.        *)
BeginRemove(t) ==
  /\ place[t] = "remove"
  /\ IF Current(t) \in ToSet(list)
     THEN mark' = [mark EXCEPT ![t] = First(list, Current(t))] /\ Go(t, "unlink")
     ELSE Go(t, "add") /\ UNCHANGED mark
  /\ UNCHANGED <<sessionVars, list, lost, sweep, broken, managerVars, todo, api, messageVars>>

(* The entry at position i leaves the list; w are the others who may be    *)
(* using it.                                                               *)
Unlink(i, w) ==
  /\ list' = RemoveAt(list, i)
  /\ broken' \in {FALSE, w}

(* Mutant: a topic that was found gets no new entry. *)
UnlinkWithoutAdding(t) ==
  /\ place[t] = "unlink" /\ mark[t] # Gone
  /\ Unlink(mark[t], (\E x \in Threads \ {t} : Walks(x)) \/ WorkerReads \/ Sweeps)
  /\ mark' = [x \in Threads |-> IF x = t THEN 0 ELSE AfterUnlink(mark[x], mark[t])]
  /\ sweep' = [iter |-> AfterUnlink(sweep.iter, mark[t]),
               next |-> AfterUnlink(sweep.next, mark[t])]
  /\ IF t = Loop THEN NextTopic(t, "subscribe") ELSE Go(t, "record") /\ UNCHANGED todo
  /\ UNCHANGED <<sessionVars, lost, managerVars, api, messageVars>>

UnlinkEntry(t) ==
  /\ place[t] = "unlink" /\ mark[t] # Gone
  /\ Unlink(mark[t], (\E x \in Threads \ {t} : Walks(x)) \/ WorkerReads \/ Sweeps)
  /\ mark' = [x \in Threads |-> IF x = t THEN 0 ELSE AfterUnlink(mark[x], mark[t])]
  /\ sweep' = [iter |-> AfterUnlink(sweep.iter, mark[t]),
               next |-> AfterUnlink(sweep.next, mark[t])]
  /\ Go(t, "add")
  /\ UNCHANGED <<sessionVars, lost, managerVars, todo, api, messageVars>>

(* Another thread has unlinked and freed the entry. *)
UnlinkFreed(t) ==
  /\ place[t] = "unlink" /\ mark[t] = Gone
  /\ broken' = TRUE
  /\ UNCHANGED <<sessionVars, list, lost, mark, sweep, managerVars, subscribing, api,
                 messageVars>>

RemoveEntry(t) == BeginRemove(t) \/ UnlinkEntry(t) \/ UnlinkFreed(t)

(* topic_add, the last call of saclient_subscribe: the walk to the last    *)
(* entry, and the link behind it.                                          *)
BeginAdd(t) ==
  /\ place[t] = "add"
  /\ mark' = [mark EXCEPT ![t] = Len(list)]
  /\ Go(t, "link")
  /\ UNCHANGED <<sessionVars, list, lost, sweep, broken, managerVars, todo, api, messageVars>>

LinkEntry(t) ==
  /\ place[t] = "link"
  /\ list' = Linked(list, mark[t], Current(t))
  /\ lost' = CutOff(lost, list, Current(t), list')
  /\ mark' = [x \in Threads |-> IF x = t THEN 0 ELSE AfterLink(mark[x], mark[t])]
  /\ sweep' = [iter |-> AfterLink(sweep.iter, mark[t]), next |-> AfterLink(sweep.next, mark[t])]
  /\ IF t = Loop THEN NextTopic(t, "subscribe") ELSE Go(t, "record") /\ UNCHANGED todo
  /\ UNCHANGED <<sessionVars, broken, managerVars, api, messageVars>>

AddEntry(t) == BeginAdd(t) \/ LinkEntry(t)

SaclientSubscribe(t) == Subscribe(t) \/ FindEntry(t) \/ RemoveEntry(t) \/ AddEntry(t)

-----------------------------------------------------------------------------
(* Threads of the handler *)

Start(r, topics) ==
  /\ place[r] = "idle" /\ topics # <<>>
  /\ todo' = [todo EXCEPT ![r] = topics]

(* A sensor hub registers. *)
Register(r) ==
  /\ \E u \in Custom : Start(r, <<u>>)
  /\ Go(r, "look")
  /\ UNCHANGED <<sessionVars, listVars, api, messageVars>>

(* SAManager_SubscribeCustTopic: a topic the manager knows gets its new    *)
(* callback and is not subscribed.                                         *)
Look(r) ==
  /\ place[r] = "look"
  /\ IF Current(r) \in ToSet(managed) THEN NextTopic(r, "look")
                                      ELSE Go(r, "subscribe") /\ UNCHANGED todo
  /\ UNCHANGED <<sessionVars, listVars, api, messageVars>>

(* samanager_topic_add, once saclient_subscribe has succeeded: the same    *)
(* two steps.                                                              *)
BeginRecord(r) ==
  /\ place[r] = "record"
  /\ tail' = [tail EXCEPT ![r] = Len(managed)]
  /\ Go(r, "recording")
  /\ UNCHANGED <<sessionVars, topicVars, managed, forgotten, todo, api, messageVars>>

Record(r) ==
  /\ place[r] = "recording"
  /\ managed' = Linked(managed, tail[r], Current(r))
  /\ forgotten' = CutOff(forgotten, managed, Current(r), managed')
  /\ tail' = [x \in Registrars |-> IF x = r THEN 0 ELSE AfterLink(tail[x], tail[r])]
  /\ NextTopic(r, "look")
  /\ UNCHANGED <<sessionVars, topicVars, api, messageVars>>

RegistrarStep(r) == Look(r) \/ SaclientSubscribe(r) \/ BeginRecord(r) \/ Record(r)

-----------------------------------------------------------------------------
(* The loop thread *)

(* A session opens, again after a loss: saclient_on_connect_cb begins. *)
Accept ==
  /\ loop /\ ~session /\ place[Loop] = "idle"
  /\ session' = TRUE
  /\ todo' = [todo EXCEPT ![Loop] = Internal]
  /\ Go(Loop, "subscribe")
  /\ UNCHANGED <<loop, served, listVars, api, messageVars>>

(* The callback ends with the report of the status, after which the        *)
(* handler starts a thread, unless the report is lost on the way.          *)
Report ==
  /\ place[Loop] = "report"
  /\ \/ /\ Go(Loop, "idle")
        /\ UNCHANGED todo
     \/ \E r \in Registrars :
          /\ Start(r, Hubs)
          /\ place' = [place EXCEPT ![Loop] = "idle", ![r] = "look"]
  /\ UNCHANGED <<sessionVars, listVars, api, messageVars>>

LoopStep == SaclientSubscribe(Loop) \/ Report

(* The loop thread meets the end of the session. *)
Lose ==
  /\ session /\ place[Loop] = "idle"
  /\ session' = FALSE /\ served' = {}
  /\ UNCHANGED <<loop, listVars, subscribing, api, messageVars>>

(* Mutant: the queue takes one message too many. *)
PublishOneMore(name) ==
  /\ session /\ place[Loop] = "idle"
  /\ \E t \in served : name = t \/ (t \in DOMAIN Covers /\ name \in Covers[t])
  /\ queue' = IF Len(queue) <= Slots THEN Append(queue, [name |-> name, swept |-> FALSE])
                                     ELSE queue
  /\ UNCHANGED <<sessionVars, listVars, subscribing, api, hand, outcome>>

(* A message of a served topic arrives and is queued if there is room. *)
Publish(name) ==
  /\ session /\ place[Loop] = "idle"
  /\ \E t \in served : name = t \/ (t \in DOMAIN Covers /\ name \in Covers[t])
  /\ queue' = IF Len(queue) < Slots THEN Append(queue, [name |-> name, swept |-> FALSE])
                                    ELSE queue
  /\ UNCHANGED <<sessionVars, listVars, subscribing, api, hand, outcome>>

-----------------------------------------------------------------------------
(* The message worker *)

Take ==
  /\ hand = Nothing /\ queue # <<>>
  /\ hand' = [at |-> "finding", message |-> Head(queue)]
  /\ queue' = Tail(queue)
  /\ outcome' = "none"
  /\ UNCHANGED <<sessionVars, listVars, subscribing, api>>

(* saclient_on_recv looks for the entry, *)
FindCallback ==
  /\ hand.at = "finding"
  /\ LET entry == Found(list, hand.message.name) IN
     IF entry = None
     THEN hand' = Nothing /\ outcome' = "dropped"
     ELSE /\ hand' = [hand EXCEPT !.at = IF entry \in Custom THEN "custom" ELSE "internal"]
          /\ UNCHANGED outcome
  /\ UNCHANGED <<sessionVars, listVars, subscribing, api, queue>>

(* and calls its callback once it has parsed the message: of an internal   *)
(* entry SAManager_RecvInternalCommandReq, of a custom one                 *)
(* SAManager_CustMessageRecv.                                              *)
CallBack ==
  /\ hand.at \in {"internal", "custom"}
  /\ IF hand.at = "custom"
     THEN hand' = [hand EXCEPT !.at = "manager"] /\ UNCHANGED outcome
     ELSE hand' = Nothing /\ outcome' = "handled"
  /\ UNCHANGED <<sessionVars, listVars, subscribing, api, queue>>

(* SAManager_CustMessageRecv looks for the handler's callback, by the name *)
(* of the message.                                                         *)
FindHandler ==
  /\ hand.at = "manager"
  /\ hand' = Nothing
  /\ outcome' = IF hand.message.name \in ToSet(managed) THEN "handled" ELSE "dropped"
  /\ UNCHANGED <<sessionVars, listVars, subscribing, api, queue>>

WorkerStep == Take \/ FindCallback \/ CallBack \/ FindHandler

-----------------------------------------------------------------------------
(* The caller *)

Connect ==
  /\ api = "idle" /\ ~loop
  /\ loop' = TRUE
  /\ UNCHANGED <<session, served, listVars, subscribing, api, messageVars>>

Disconnect ==
  /\ api = "idle"
  /\ api' = "hanging_up"
  /\ UNCHANGED <<sessionVars, listVars, subscribing, messageVars>>

(* History: the messages that came before the sweep. *)
MarkMessages ==
  /\ queue' = [i \in DOMAIN queue |-> [queue[i] EXCEPT !.swept = TRUE]]
  /\ hand' = IF hand = Nothing THEN hand ELSE [hand EXCEPT !.message.swept = TRUE]

(* Mutant: the loop thread is not waited for. *)
HangUpAtOnce ==
  /\ api = "hanging_up"
  /\ loop' = FALSE /\ session' = FALSE /\ served' = {}
  /\ api' = "first"
  /\ MarkMessages
  /\ UNCHANGED <<listVars, subscribing, outcome>>

(* MQTT_Disconnect ends the session and joins the loop thread. *)
HangUp ==
  /\ api = "hanging_up" /\ place[Loop] = "idle"
  /\ loop' = FALSE /\ session' = FALSE /\ served' = {}
  /\ api' = "first"
  /\ MarkMessages
  /\ UNCHANGED <<listVars, subscribing, outcome>>

(* The loop over the list in _disconnect: topic_first, *)
FirstTopic ==
  /\ api = "first"
  /\ IF list = <<>> THEN api' = "idle" /\ UNCHANGED sweep
                    ELSE api' = "sweeping" /\ sweep' = [iter |-> 1, next |-> 0]
  /\ UNCHANGED <<sessionVars, list, lost, mark, broken, managerVars, subscribing, messageVars>>

(* in each turn the next entry, *)
BeginTurn ==
  /\ api = "sweeping" /\ sweep.iter # Gone
  /\ sweep' = [sweep EXCEPT !.next = IF sweep.iter < Len(list) THEN sweep.iter + 1 ELSE 0]
  /\ api' = "removing"
  /\ UNCHANGED <<sessionVars, list, lost, mark, broken, managerVars, subscribing, messageVars>>

(* and topic_remove of the entry at hand, the first of its name for it is  *)
(* the first of the list.  Nothing is left to unsubscribe at the broker.   *)
EndTurn ==
  /\ api = "removing" /\ sweep.iter # Gone
  /\ Unlink(sweep.iter, (\E t \in Threads : Walks(t)) \/ WorkerReads)
  /\ mark' = [t \in Threads |-> AfterUnlink(mark[t], sweep.iter)]
  /\ sweep' = [iter |-> AfterUnlink(sweep.next, sweep.iter), next |-> 0]
  /\ api' = IF sweep.next = 0 THEN "idle" ELSE "sweeping"
  /\ UNCHANGED <<sessionVars, lost, managerVars, subscribing, messageVars>>

(* The entry at hand was freed by another thread, or cut off. *)
TurnFreed ==
  /\ Sweeps /\ sweep.iter = Gone
  /\ broken' = TRUE
  /\ UNCHANGED <<sessionVars, list, lost, mark, sweep, managerVars, subscribing, api,
                 messageVars>>

Sweep == FirstTopic \/ BeginTurn \/ EndTurn \/ TurnFreed

Step ==
  \/ Connect \/ Disconnect \/ HangUp \/ Sweep
  \/ Accept \/ LoopStep \/ Lose
  \/ \E name \in Names : Publish(name)
  \/ WorkerStep
  \/ \E r \in Registrars : Register(r) \/ RegistrarStep(r)

Next ==
  \/ ~broken /\ Step
  \/ broken /\ UNCHANGED vars

Spec == Init /\ [][Next]_vars

(* Threads that can run do.  Brokers, callers and hubs do as they like. *)
FairSpec ==
  /\ Spec
  /\ WF_vars(~broken /\ LoopStep) /\ WF_vars(~broken /\ WorkerStep)
  /\ WF_vars(~broken /\ (HangUp \/ Sweep))
  /\ \A r \in Registrars : WF_vars(~broken /\ RegistrarStep(r))

-----------------------------------------------------------------------------
(* Properties *)

Places ==
  {"idle", "look", "subscribe", "find", "remove", "unlink", "add", "link",
   "record", "recording", "report"}

(* Types, the bound of the message queue, and that a position is one in    *)
(* its list.                                                               *)
TypeOK ==
  /\ {loop, session, broken} \subseteq BOOLEAN
  /\ served \subseteq Topics
  /\ list \in Seq(Topics) /\ lost \subseteq Topics
  /\ managed \in Seq(Custom) /\ forgotten \subseteq Custom
  /\ place \in [Threads -> Places]
  /\ todo \in [Threads -> Seq(Topics)]
  /\ todo[Loop] \in Seq(ToSet(Internal))
  /\ \A r \in Registrars : todo[r] \in Seq(Custom)
  /\ \A t \in Threads : place[t] \in {"idle", "report"} <=> todo[t] = <<>>
  /\ mark \in [Threads -> Gone .. Len(list)]
  /\ tail \in [Registrars -> Gone .. Len(managed)]
  /\ sweep \in [iter : Gone .. Len(list), next : Gone .. Len(list)]
  /\ api \in {"idle", "hanging_up", "first", "sweeping", "removing"}
  /\ queue \in Seq(Messages) /\ Len(queue) <= Slots
  /\ hand \in Hands \cup {Nothing}
  /\ outcome \in {"none", "handled", "dropped"}

(* Thread t will add an entry of topic u, or has added one it has yet to   *)
(* record.                                                                 *)
Adding(t, u) == Walks(t) /\ Current(t) = u
Recording(t, u) == place[t] \in {"record", "recording"} /\ Current(t) = u
Registering(t, u) == Adding(t, u) \/ Recording(t, u)

(* Whatever the broker sends has its entry, or a thread is about to add    *)
(* it, or an overlapping topic_add has cut it off: no other order of       *)
(* subscriptions, silent redials and a disconnect leaves a topic that is   *)
(* served and not in the list (SAClient.c 289-317, 765-793).               *)
ServedIsListed ==
  \A u \in served : u \in ToSet(list) \cup lost \/ \E t \in Threads : Adding(t, u)

(* A topic that is subscribed again with each session never gets a second  *)
(* entry: the old one, which a silent redial leaves, is replaced           *)
(* (SAClient.c 779-783, SAManager.c 806-822).                              *)
OneInternalEntry ==
  \A i, j \in DOMAIN list : list[i] = list[j] /\ list[i] \notin Custom => i = j

(* What saclient_disconnect leaves in the list are entries handlers added  *)
(* meanwhile, and the manager knows them or will, or had them cut off its  *)
(* own list (SAClient.c 299-314, SAManager.c 672-678).                     *)
SweptClean ==
  api = "idle" /\ ~loop =>
    \A u \in ToSet(list) :
      \/ u \in ToSet(managed) \cup forgotten
      \/ \E r \in Registrars : Registering(r, u)

(* Why a message may be dropped: a disconnect has ended its session, its   *)
(* topic is just being subscribed, or an overlap has cut off its entry.    *)
Excused(m) ==
  \/ m.swept
  \/ \E u \in Topics :
       /\ Found(<<u>>, m.name) = u
       /\ u \in lost \cup forgotten \/ \E t \in Threads : Registering(t, u)

(* A message that got into the queue reaches its handler, but for those    *)
(* three reasons (SAClient.c 166-183, SAManager.c 653-664).                *)
DroppedForAReason ==
  [][hand # Nothing /\ hand' = Nothing /\ outcome' = "dropped" => Excused(hand.message)]_vars

(* In a session that lasts every internal topic is served in the end, and  *)
(* listed unless an overlap has cut it off, whether the session was opened *)
(* by a call or by a silent redial (SAClient.c 120-138).                   *)
InternalTopicsAreHeard ==
  <>[]session => []<>(broken \/ ToSet(Internal) \subseteq served \cap (ToSet(list) \cup lost))

(* So is a custom topic the manager has in its list.                       *)
(* Include/susiaccess_handler_api.h 137: "Client subscribe the custom      *)
(* topic to receive message from Cloud Server".                            *)
CustomTopicsAreHeard ==
  \A u \in Custom :
    <>[](session /\ u \in ToSet(managed)) => []<>(broken \/ u \in served)
=============================================================================
