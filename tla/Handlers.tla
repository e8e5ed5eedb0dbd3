------------------------------ MODULE Handlers ------------------------------
(***************************************************************************)
(* The list of loaded handlers and the threads that walk it, from          *)
(* SAManager_Initialize to SAManager_Uninitialize: the thread that makes   *)
(* those calls, the keepalive thread (Library/SAManager/keepalive.c),      *)
(* which restarts a handler that answers "busy" too often, the message     *)
(* worker, which hands requests to a handler, the event worker, which      *)
(* tells each handler the status of the agent, the thread with which the   *)
(* general handler collects capabilities, and the threads that release     *)
(* the handlers at the end (Library/SAHandlerLoader/SALoader.c).  The list *)
(* has no lock: what protects it is the order in which threads start and   *)
(* are joined.                                                             *)
(*                                                                         *)
(* A handler is a library behind an interface.  It answers "busy" only     *)
(* between its start and its stop.  Its stop waits for its own thread, and *)
(* so does not return while that thread is in a call that makes no         *)
(* progress (MonitoringHandler.c 758-767, HDDHandler.c 503-509); its       *)
(* receive function may wait until it is started (HDDHandler.c 647) or for *)
(* its thread.  Its other functions return.                                *)
(***************************************************************************)
EXTENDS Integers, Sequences, FiniteSets

CONSTANTS
  Modules,  \* the user handlers of the module configuration, in its order
  General,  \* the general handler, a core handler
  Limit     \* busy answers that make a restart (3 in CheckHandlerStatus)

Users == {Modules[i] : i \in DOMAIN Modules}
Handlers == Users \cup {General}

ASSUME ModulesAssumption ==
  /\ Modules \in Seq(Users) /\ General \notin Users
  /\ \A i, j \in DOMAIN Modules : Modules[i] = Modules[j] => i = j
ASSUME LimitAssumption == Limit \in Nat \ {0}

VARIABLES
  main,    \* where the calling thread is
  next,    \* module it loads, or entry it starts or releases, next
  list,    \* entries linked from g_handlerList.items, in order
  freed,   \* entries whose memory was given back
  up,      \* handlers between Handler_Start and Handler_Stop
  hung,    \* handlers whose own thread makes no progress
  release, \* [Handlers -> where the thread that releases a handler is]
  beat,    \* isThreadRunning of the keepalive thread
  ka,      \* where that thread is
  at,      \* entry it is at
  count,   \* [Users -> handlers_countdown; no entry is 0]
  msg,     \* the message worker: "off", "idle", "walking", "calling", "joining"
  evt,     \* the event worker: "off", "idle", "walking"
  cap,     \* the capability thread: "none", "walking", "done"
  place,   \* entry each of these three is at
  said,    \* history: busy answers of each handler in a row since its restart
  faults   \* history: undefined behaviour and misuse that happened

mainVars == <<main, next>>
listVars == <<list, freed>>
handlerVars == <<up, hung>>
kaVars == <<beat, ka, at, count>>
workerVars == <<msg, evt, cap, place>>
history == <<said, faults>>
vars == <<mainVars, listVars, handlerVars, release, kaVars, workerVars, history>>

Walkers == {"message", "event", "capability"}

Init ==
  /\ main = "off" /\ next = 1
  /\ list = <<>> /\ freed = {}
  /\ up = {} /\ hung = {}
  /\ release = [h \in Handlers |-> "none"]
  /\ beat = FALSE /\ ka = "none" /\ at = 1
  /\ count = [h \in Users |-> 0]
  /\ msg = "off" /\ evt = "off" /\ cap = "none"
  /\ place = [w \in Walkers |-> 1]
  /\ said = [h \in Users |-> 0]
  /\ faults = {}

-----------------------------------------------------------------------------
(* Initialisation *)

(* SAManager_Initialize starts the keepalive thread before it adds the     *)
(* general handler and loads the others.                                   *)
Initialize ==
  /\ main = "off" /\ list = <<>> /\ freed = {}
  /\ main' = "loading" /\ next' = 1
  /\ beat' = TRUE /\ ka' = "resting"
  /\ list' = <<General>>
  /\ UNCHANGED <<freed, handlerVars, release, at, count, workerVars, history>>

(* Loader_LoadHandler: a handler that fails is left out. *)
Load ==
  /\ main = "loading" /\ next <= Len(Modules)
  /\ list' \in {list, Append(list, Modules[next])}
  /\ next' = next + 1
  /\ UNCHANGED <<main, freed, handlerVars, release, kaVars, workerVars, history>>

Loaded ==
  /\ main = "loading" /\ next > Len(Modules)
  /\ main' = "starting" /\ next' = 1
  /\ UNCHANGED <<listVars, handlerVars, release, kaVars, workerVars, history>>

Fault(f) == faults' = faults \cup {f}

(* Handler_Start, which no handler expects twice in a row. *)
StartHandler(h) ==
  /\ up' = up \cup {h}
  /\ UNCHANGED hung
  /\ IF h \in up THEN Fault(<<"handler", "started_twice">>) ELSE UNCHANGED faults

(* Loader_StartAllHandler. *)
Start ==
  /\ main = "starting" /\ next <= Len(list)
  /\ StartHandler(list[next])
  /\ next' = next + 1
  /\ UNCHANGED <<main, listVars, release, kaVars, workerVars, said>>

(* saclient_initialize returns: both workers run. *)
Started ==
  /\ main = "starting" /\ next > Len(list)
  /\ main' = "ready"
  /\ msg' = "idle" /\ evt' = "idle"
  /\ UNCHANGED <<next, listVars, handlerVars, release, kaVars, cap, place, history>>

(* The thread of a handler stops making progress ... *)
Hang(h) ==
  /\ h \in up \cap Users
  /\ hung' = hung \cup {h}
  /\ UNCHANGED <<mainVars, listVars, up, release, kaVars, workerVars, history>>

(* ... and the call it is in returns, if it ever does. *)
Recover(h) ==
  /\ h \in hung
  /\ hung' = hung \ {h}
  /\ UNCHANGED <<mainVars, listVars, up, release, kaVars, workerVars, history>>

-----------------------------------------------------------------------------
(* The keepalive thread *)

(* Reading an entry whose memory was given back. *)
Touch(thread, i) ==
  IF list[i] \in freed THEN Fault(<<thread, "used_freed">>) ELSE UNCHANGED faults

(* NamedPipeClientConnect fails at once while the pipe is not there, and   *)
(* the thread rests again; once it is, open waits until the watchdog has   *)
(* the pipe open too.                                                      *)
Connect ==
  /\ ka = "resting" /\ beat
  /\ ka' = "opening"
  /\ UNCHANGED <<mainVars, listVars, handlerVars, release, beat, at, count,
                 workerVars, history>>

(* A send never reports a failure, so the thread stays in the inner loop.  *)
Opened ==
  /\ ka = "opening"
  /\ ka' = "linked"
  /\ UNCHANGED <<mainVars, listVars, handlerVars, release, beat, at, count,
                 workerVars, history>>

BeginCheck ==
  /\ ka = "linked" /\ beat
  /\ ka' = "asking"
  /\ UNCHANGED <<mainVars, listVars, handlerVars, release, beat, at, count,
                 workerVars, history>>

(* The answers Handler_Get_Status may give. *)
Answers(h) ==
  {answer \in {"idle", "fail", "busy"} :
     /\ answer = "busy" => h \in up
     /\ h \in up \cap hung => answer = "busy"}

(* Mutant: an idle answer leaves the count. *)
CountedOn(h, answer) ==
  IF answer = "busy" THEN count[h] + 1 ELSE count[h]

(* Mutant: each busy answer gets a new entry. *)
CountedAnew(h, answer) == IF answer = "busy" THEN 1 ELSE 0

(* Mutant: the limit is passed, not reached. *)
TooLate(n) == n > Limit

(* A failed call neither counts nor forgets. *)
Counted(h, answer) ==
  IF answer = "busy" THEN count[h] + 1
  ELSE IF answer = "idle" THEN 0 ELSE count[h]

TooBusy(n) == n >= Limit

(* How many answers in a row were busy, Limit at most. *)
Remember(h, answer) ==
  said' = [said EXCEPT ![h] = IF answer = "idle" THEN 0
                              ELSE IF answer = "busy" /\ @ < Limit THEN @ + 1
                              ELSE @]

(* CheckHandlerStatus returns. *)
Break == ka' = "linked" /\ at' = 1

(* CheckHandlerStatus at one entry, up to the decision to restart it. *)
Ask ==
  /\ ka = "asking" /\ at <= Len(list)
  /\ Touch("keepalive", at)
  /\ LET h == list[at] IN
     IF h = General
     THEN at' = at + 1 /\ UNCHANGED <<ka, count, said>>
     ELSE IF ~beat
     THEN Break /\ UNCHANGED <<count, said>>
     ELSE \E answer \in Answers(h) :
            /\ Remember(h, answer)
            /\ LET n == Counted(h, answer) IN
               /\ count' = [count EXCEPT ![h] = IF TooBusy(n) THEN 0 ELSE n]
               /\ IF TooBusy(n) THEN ka' = "deciding" /\ UNCHANGED at
                                ELSE at' = at + 1 /\ UNCHANGED ka
  /\ UNCHANGED <<mainVars, listVars, handlerVars, release, beat, workerVars>>

EndCheck ==
  /\ ka = "asking" /\ at > Len(list)
  /\ Break
  /\ UNCHANGED <<mainVars, listVars, handlerVars, release, beat, count, workerVars,
                 history>>

(* Handler_Stop is called, if the thread is still to run ... *)
Decide ==
  /\ ka = "deciding"
  /\ Touch("keepalive", at)
  /\ IF beat THEN ka' = "stopping" /\ UNCHANGED at ELSE Break
  /\ UNCHANGED <<mainVars, listVars, handlerVars, release, beat, count, workerVars, said>>

(* Mutant: the handler is not stopped before it is started again. *)
SkipStop ==
  /\ ka = "stopping"
  /\ said' = [said EXCEPT ![list[at]] = 0]
  /\ ka' = "restarting"
  /\ UNCHANGED <<mainVars, listVars, handlerVars, release, beat, at, count,
                 workerVars, faults>>

(* ... and returns when the handler's thread, which it joins, has ended.   *)
StopBusy ==
  /\ ka = "stopping" /\ list[at] \notin hung
  /\ up' = up \ {list[at]}
  /\ said' = [said EXCEPT ![list[at]] = 0]
  /\ ka' = "restarting"
  /\ UNCHANGED <<mainVars, listVars, hung, release, beat, at, count, workerVars, faults>>

Restart ==
  /\ ka = "restarting"
  /\ IF beat
     THEN /\ StartHandler(list[at])
          /\ ka' = "asking" /\ at' = at + 1
     ELSE Break /\ UNCHANGED <<handlerVars, faults>>
  /\ UNCHANGED <<mainVars, listVars, release, beat, count, workerVars, said>>

EndKeepalive ==
  /\ ka \in {"resting", "linked"} /\ ~beat
  /\ ka' = "ended"
  /\ UNCHANGED <<mainVars, listVars, handlerVars, release, beat, at, count,
                 workerVars, history>>

(* The steps that wait for nothing. *)
KeepaliveRuns == BeginCheck \/ Ask \/ EndCheck \/ Decide \/ Restart \/ EndKeepalive

KeepaliveStep == Connect \/ Opened \/ StopBusy \/ KeepaliveRuns

-----------------------------------------------------------------------------
(* The workers *)

(* hlloader_handler_recv looks for the handler of a request from the head  *)
(* of the list and calls it; a request to the general handler may walk     *)
(* the whole list (StartAutoReport, StopAutoReport, SendHandlerList).      *)
Receive ==
  /\ msg = "idle" /\ main \in {"ready", "joining_message"}
  /\ msg' = "walking"
  /\ UNCHANGED <<mainVars, listVars, handlerVars, release, kaVars, evt, cap, place,
                 history>>

Find ==
  /\ msg = "walking"
  /\ Touch("message", place["message"])
  /\ \/ /\ place["message"] < Len(list)
        /\ place' = [place EXCEPT !["message"] = @ + 1] /\ UNCHANGED msg
     \/ msg' = "calling" /\ UNCHANGED place
     \/ msg' = "idle" /\ place' = [place EXCEPT !["message"] = 1]
  /\ UNCHANGED <<mainVars, listVars, handlerVars, release, kaVars, evt, cap, said>>

(* Handler_Recv of the handler that was found returns. *)
Received ==
  /\ msg = "calling"
  /\ msg' = "idle" /\ place' = [place EXCEPT !["message"] = 1]
  /\ UNCHANGED <<mainVars, listVars, handlerVars, release, kaVars, evt, cap, history>>

(* general_info_spec_req: the last capability thread is joined before the  *)
(* next one is created.                                                    *)
AskCapability ==
  /\ msg = "idle" /\ main \in {"ready", "joining_message"}
  /\ msg' = "joining"
  /\ UNCHANGED <<mainVars, listVars, handlerVars, release, kaVars, evt, cap,
                 place, history>>

StartCapability ==
  /\ msg = "joining" /\ cap # "walking"
  /\ msg' = "idle" /\ cap' = "walking"
  /\ UNCHANGED <<mainVars, listVars, handlerVars, release, kaVars, evt, place, history>>

(* Loader_SetAgentStatus: a status goes to every handler in turn. *)
Notify ==
  /\ evt = "idle" /\ main \in {"ready", "joining_message", "joining_event"}
  /\ evt' = "walking"
  /\ UNCHANGED <<mainVars, listVars, handlerVars, release, kaVars, msg, cap, place,
                 history>>

Tell ==
  /\ evt = "walking"
  /\ Touch("event", place["event"])
  /\ IF place["event"] < Len(list)
     THEN place' = [place EXCEPT !["event"] = @ + 1] /\ UNCHANGED evt
     ELSE evt' = "idle" /\ place' = [place EXCEPT !["event"] = 1]
  /\ UNCHANGED <<mainVars, listVars, handlerVars, release, kaVars, msg, cap, said>>

(* g_handlerList.items is NULL. *)
Emptied == main \in {"leaving", "off"}

(* thread_agent_get_capability at one entry. *)
Collect ==
  /\ cap = "walking"
  /\ IF Emptied /\ place["capability"] = 1
     THEN cap' = "done" /\ UNCHANGED <<place, faults>>
     ELSE /\ Touch("capability", place["capability"])
          /\ IF place["capability"] < Len(list) /\ list[place["capability"]] \notin freed
             THEN place' = [place EXCEPT !["capability"] = @ + 1] /\ UNCHANGED cap
             ELSE cap' = "done" /\ place' = [place EXCEPT !["capability"] = 1]
  /\ UNCHANGED <<mainVars, listVars, handlerVars, release, kaVars, msg, evt, said>>

-----------------------------------------------------------------------------
(* Uninitialisation: saclient_uninitialize and SAManager_Uninitialize *)

(* Mutant: the keepalive thread is told to end first. *)
EndKeepaliveFirst ==
  /\ main = "ready"
  /\ main' = "joining_message"
  /\ beat' = FALSE
  /\ UNCHANGED <<next, listVars, handlerVars, release, ka, at, count, workerVars, history>>

Uninitialize ==
  /\ main = "ready"
  /\ main' = "joining_message"
  /\ UNCHANGED <<next, listVars, handlerVars, release, kaVars, workerVars, history>>

(* msgqueue_uninit. *)
JoinMessages ==
  /\ main = "joining_message" /\ msg = "idle"
  /\ msg' = "off"
  /\ main' = "joining_event"
  /\ UNCHANGED <<next, listVars, handlerVars, release, kaVars, evt, cap, place, history>>

(* Mutant: the event worker is told to end and not joined. *)
LeaveEvents ==
  /\ main = "joining_event"
  /\ main' = "stopping_keepalive"
  /\ UNCHANGED <<next, listVars, handlerVars, release, kaVars, workerVars, history>>

(* evtqueue_uninit. *)
JoinEvents ==
  /\ main = "joining_event" /\ evt = "idle"
  /\ evt' = "off"
  /\ main' = "stopping_keepalive"
  /\ UNCHANGED <<next, listVars, handlerVars, release, kaVars, msg, cap, place, history>>

StopKeepalive ==
  /\ main = "stopping_keepalive"
  /\ main' = "joining_keepalive"
  /\ beat' = FALSE
  /\ UNCHANGED <<next, listVars, handlerVars, release, ka, at, count, workerVars, history>>

JoinKeepalive ==
  /\ main = "joining_keepalive" /\ ka = "ended"
  /\ ka' = "none"
  /\ main' = "releasing" /\ next' = Len(list)
  /\ UNCHANGED <<listVars, handlerVars, release, beat, at, count, workerVars, history>>

(* Loader_ConcurrentReleaseAllHandler: a thread for each entry, from the   *)
(* last to the first ...                                                   *)
SpawnRelease ==
  /\ main = "releasing" /\ next > 0
  /\ release' = [release EXCEPT ![list[next]] = "stopping"]
  /\ next' = next - 1
  /\ UNCHANGED <<main, listVars, handlerVars, kaVars, workerVars, history>>

(* ... which stops the handler, and so waits for the handler's thread ...  *)
ReleaseStops(h) ==
  /\ release[h] = "stopping" /\ h \notin hung
  /\ up' = up \ {h}
  /\ release' = [release EXCEPT ![h] = "freeing"]
  /\ UNCHANGED <<mainVars, listVars, hung, kaVars, workerVars, history>>

(* ... unloads it and frees its entry. *)
ReleaseFrees(h) ==
  /\ release[h] = "freeing"
  /\ freed' = freed \cup {h}
  /\ release' = [release EXCEPT ![h] = "done"]
  /\ UNCHANGED <<mainVars, list, handlerVars, kaVars, workerVars, history>>

(* Mutant: the threads are not joined. *)
LeaveReleases ==
  /\ main = "releasing" /\ next = 0
  /\ main' = "leaving"
  /\ UNCHANGED <<next, listVars, handlerVars, release, kaVars, workerVars, history>>

JoinReleases ==
  /\ main = "releasing" /\ next = 0
  /\ \A i \in DOMAIN list : release[list[i]] = "done"
  /\ main' = "leaving"
  /\ UNCHANGED <<next, listVars, handlerVars, release, kaVars, workerVars, history>>

(* General_Uninitialize; after it all libraries are unloaded. *)
Leave ==
  /\ main = "leaving" /\ cap # "walking"
  /\ cap' = "none"
  /\ main' = "off"
  /\ UNCHANGED <<next, listVars, handlerVars, release, kaVars, msg, evt, place, history>>

MainStep ==
  \/ Load \/ Loaded \/ Start \/ Started
  \/ JoinMessages \/ JoinEvents \/ StopKeepalive \/ JoinKeepalive
  \/ SpawnRelease \/ JoinReleases \/ Leave

WorkerStep ==
  \/ Receive \/ Find \/ Received \/ AskCapability \/ StartCapability
  \/ Notify \/ Tell
  \/ Collect

ReleaseStep(h) == ReleaseStops(h) \/ ReleaseFrees(h)

Next ==
  \/ Initialize \/ MainStep \/ Uninitialize
  \/ KeepaliveStep \/ WorkerStep
  \/ \E h \in Users : Hang(h) \/ Recover(h)
  \/ \E h \in Handlers : ReleaseStep(h)

Spec == Init /\ [][Next]_vars

(* A request is with a handler that is started and whose thread moves. *)
CalledIsUp == list[place["message"]] \in up \ hung

(* Each thread that can run does; nobody has to call, to send or to hang.  *)
(* A worker that is told to end takes one more message at most, and the    *)
(* thread of a handler one more turn, so their joins are not overtaken for *)
(* ever.                                                                   *)
FairSpec ==
  /\ Spec
  /\ WF_vars(MainStep) /\ SF_vars(JoinMessages \/ JoinEvents)
  /\ WF_vars(KeepaliveRuns) /\ SF_vars(StopBusy)
  /\ WF_vars(Find \/ StartCapability) /\ SF_vars(Received /\ CalledIsUp)
  /\ WF_vars(Tell) /\ WF_vars(Collect)
  /\ SF_vars(\E h \in Handlers : ReleaseStep(h))

(* Some thread of the agent waits for the thread of this handler. *)
AwaitedBy(h) ==
  \/ ka = "stopping" /\ list[at] = h
  \/ release[h] = "stopping"
  \/ msg = "calling" /\ list[place["message"]] = h

(* What the agent needs of others, and does not ensure itself: a hung call *)
(* for which it waits returns, and the watchdog opens the pipe that is     *)
(* there.  Without the first a Handler_Stop, and without the second the    *)
(* join of the keepalive thread, never returns.                            *)
HelpedSpec ==
  /\ FairSpec
  /\ WF_vars(\E h \in Users : AwaitedBy(h) /\ Recover(h))
  /\ WF_vars(Opened)

-----------------------------------------------------------------------------
(* Properties *)

(* Types; the workers and the keepalive thread run only while the list     *)
(* they walk is there.                                                     *)
TypeOK ==
  /\ main \in {"off", "loading", "starting", "ready", "joining_message",
               "joining_event", "stopping_keepalive", "joining_keepalive",
               "releasing", "leaving"}
  /\ next \in 0 .. Len(Modules) + 2
  /\ list \in Seq(Handlers) /\ freed \subseteq Handlers
  /\ up \subseteq Handlers /\ hung \subseteq Users
  /\ release \in [Handlers -> {"none", "stopping", "freeing", "done"}]
  /\ beat \in BOOLEAN
  /\ ka \in {"none", "resting", "opening", "linked", "asking", "deciding", "stopping",
             "restarting", "ended"}
  /\ at \in 1 .. Len(list) + 1
  /\ count \in [Users -> 0 .. Limit - 1]
  /\ msg \in {"off", "idle", "walking", "calling", "joining"}
  /\ evt \in {"off", "idle", "walking"}
  /\ cap \in {"none", "walking", "done"}
  /\ place \in [Walkers -> Nat \ {0}]
  /\ \A w \in Walkers : place[w] <= Len(list) + 1
  /\ said \in [Users -> 0 .. Limit]

(* No thread reads an entry of the list after it was freed: the threads    *)
(* that walk the list are joined before Loader_ConcurrentReleaseAllHandler *)
(* frees it (SAClient.c 495-500, smloader.c 118-121, SAManager.c 749-754). *)
(* The capability thread is not among them, see README.                    *)
WalkersAreGone ==
  \A t \in {"keepalive", "message", "event"} : <<t, "used_freed">> \notin faults

(* A handler is never started twice without a stop in between, although    *)
(* the keepalive thread restarts handlers while the others are still being *)
(* loaded and started (SAManager.c 706-740).                               *)
NeverStartedTwice == <<"handler", "started_twice">> \notin faults

(* Handler_Stop is called by the keepalive thread only after Limit busy    *)
(* answers of that handler in a row, all of them given since its last      *)
(* restart; an idle answer in between starts the count again, a status     *)
(* call that fails leaves it (keepalive.c 183-230).                        *)
RestartsAfterBusyRow ==
  [][ka = "stopping" /\ ka' = "restarting" =>
       said[list[at]] = Limit]_vars

(* After SAManager_Uninitialize every handler that was loaded is stopped   *)
(* and its entry freed, and no thread is left in a library that is about   *)
(* to be unloaded (SALoader.c 564-599, SAGeneralHandler.c 350-364).        *)
NothingLeft ==
  main = "off" /\ list # <<>> =>
    /\ up = {}
    /\ \A i \in DOMAIN list : list[i] \in freed
    /\ ka = "none" /\ msg = "off" /\ evt = "off" /\ cap = "none"

(* The keepalive thread has the pipe open. *)
Linked == ka \in {"linked", "asking", "deciding", "stopping", "restarting"}

(* A handler that hangs while the keepalive thread has the pipe open is    *)
(* stopped by it, unless it moves again or the agent ends first: no other  *)
(* handler's busy answers, failures or restarts keep it from its turn      *)
(* (keepalive.c 183-240, 264-281).  This needs every earlier stop to       *)
(* return: one that does not ends the supervision of all handlers.         *)
HungIsRestarted ==
  \A h \in Users :
    h \in hung /\ Linked ~> \/ h \notin hung
                            \/ ka = "stopping" /\ list[at] = h
                            \/ main \notin {"loading", "starting", "ready"}

(* SAManager_Uninitialize returns, although it joins threads that wait for *)
(* handlers, for the restart of a handler and for one another: the message *)
(* worker is joined while the keepalive thread still restarts handlers     *)
(* (SAClient.c 495-500, SAManager.c 744-784).                              *)
UninitializeReturns == main = "joining_message" ~> main = "off"
=============================================================================
