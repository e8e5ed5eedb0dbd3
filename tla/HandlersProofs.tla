--------------------------- MODULE HandlersProofs ---------------------------
(***************************************************************************)
(* Proofs about the handler list, for any number of user handlers: the     *)
(* types, that the threads that walk the list are gone before its entries  *)
(* are freed, that no handler is started twice, that a handler is stopped  *)
(* only after Limit busy answers in a row, and that nothing is left in the *)
(* end.                                                                    *)
(***************************************************************************)
EXTENDS Handlers, TLAPS

Ending == {"releasing", "leaving", "off"}

-----------------------------------------------------------------------------
(* The inductive invariant *)

(* What the ranges of the indices rest on. *)
Places ==
  /\ ka \in {"deciding", "stopping", "restarting"} => at <= Len(list) /\ list[at] \in Users
  /\ Len(list) <= Len(Modules) + 1
  /\ main = "loading" => Len(list) <= next /\ next <= Len(Modules) + 1
  /\ main \in {"loading", "starting"} => next >= 1
  /\ main = "starting" => next <= Len(list) + 1
  /\ main = "releasing" => next <= Len(list)

(* No handler is in the list twice. *)
Distinct ==
  /\ \A i, j \in DOMAIN list : list[i] = list[j] => i = j
  /\ main = "loading" =>
       \A i \in DOMAIN list :
         list[i] = General \/ \E k \in 1 .. next - 1 : list[i] = Modules[k]

(* Which threads run while the calling thread is where it is. *)
Gone ==
  /\ ka # "none" => main \notin Ending
  /\ msg # "off" => main \in {"ready", "joining_message"}
  /\ evt # "off" => main \in {"ready", "joining_message", "joining_event"}
  /\ main = "off" => cap = "none"
  /\ list = <<>> => main = "off"
  /\ freed # {} => main \in Ending /\ list # <<>>
  /\ \A h \in Handlers : release[h] # "none" => main \in Ending /\ list # <<>>

(* A handler is started by its turn, and restarted after it was stopped.   *)
StartedInTurn ==
  /\ \A h \in up : \E i \in DOMAIN list : list[i] = h
  /\ main \in {"off", "loading"} => up = {}
  /\ main = "starting" => \A h \in up : \E i \in 1 .. next - 1 : list[i] = h
  /\ ka \in {"deciding", "stopping", "restarting"} /\ main = "starting" => at < next
  /\ ka \in {"deciding", "stopping", "restarting"} => main # "loading"
  /\ ka = "restarting" => list[at] \notin up

(* The count never exceeds the busy answers in a row. *)
Rows ==
  /\ \A h \in Users : count[h] <= said[h]
  /\ ka \in {"deciding", "stopping"} => said[list[at]] = Limit /\ count[list[at]] = 0

(* How far the release of each entry is. *)
Released ==
  /\ \A h \in Handlers : release[h] \in {"freeing", "done"} => h \notin up
  /\ \A h \in Handlers : release[h] = "done" => h \in freed
  /\ main \in {"leaving", "off"} => \A i \in DOMAIN list : release[list[i]] = "done"

IInv ==
  /\ TypeOK /\ Places /\ Distinct /\ Gone /\ StartedInTurn /\ Rows /\ Released
  /\ WalkersAreGone /\ NeverStartedTwice

-----------------------------------------------------------------------------
(* What a step that has several outcomes may do *)

(* An entry that is asked is not freed; the answers leave four outcomes,   *)
(* and only a busy handler, which was started, is to be restarted.         *)
LEMMA AskOutcomes ==
  ASSUME IInv, Ask
  PROVE  /\ UNCHANGED faults /\ main \notin Ending
         /\ at \in DOMAIN list /\ list[at] \in Handlers
         /\ \/ ka' = "linked" /\ at' = 1 /\ UNCHANGED <<count, said>>
            \/ ka' = ka /\ at' = at + 1 /\ UNCHANGED <<count, said>>
            \/ /\ ka' = ka /\ at' = at + 1 /\ list[at] \in Users
               /\ count' = [count EXCEPT ![list[at]] = count'[list[at]]]
               /\ said' = [said EXCEPT ![list[at]] = said'[list[at]]]
               /\ count'[list[at]] \in 0 .. Limit - 1 /\ said'[list[at]] \in 0 .. Limit
               /\ count'[list[at]] <= said'[list[at]]
            \/ /\ ka' = "deciding" /\ at' = at /\ list[at] \in Users \cap up
               /\ count' = [count EXCEPT ![list[at]] = 0]
               /\ said' = [said EXCEPT ![list[at]] = Limit]
<1> DEFINE h == list[at]
<1> USE LimitAssumption, ModulesAssumption
<1>1. at \in DOMAIN list /\ h \in Handlers /\ ka = "asking" /\ main \notin Ending /\ freed = {}
  BY SMT DEF IInv, TypeOK, Gone, Ask, Ending
<1>2. UNCHANGED faults
  BY <1>1, SMT DEF Ask, Touch
<1>3. h # General => h \in Users
  BY <1>1 DEF Handlers
<1>4. CASE h = General
  BY <1>1, <1>2, <1>4, SMT DEF Ask
<1>5. CASE h # General /\ ~beat
  BY <1>1, <1>2, <1>5, SMT DEF Ask, Break
<1>6. CASE h # General /\ beat
  <2>1. PICK answer \in Answers(h) :
          /\ Remember(h, answer)
          /\ count' = [count EXCEPT ![h] = IF TooBusy(Counted(h, answer)) THEN 0
                                           ELSE Counted(h, answer)]
          /\ IF TooBusy(Counted(h, answer))
             THEN ka' = "deciding" /\ UNCHANGED at
             ELSE at' = at + 1 /\ UNCHANGED ka
    BY <1>6, SMT DEF Ask
  <2>2. /\ h \in Users /\ count[h] \in 0 .. Limit - 1 /\ said[h] \in 0 .. Limit
        /\ count[h] <= said[h] /\ said \in [Users -> 0 .. Limit]
        /\ count \in [Users -> 0 .. Limit - 1]
    BY <1>3, <1>6, SMT DEF IInv, TypeOK, Rows
  <2>3. answer \in {"idle", "fail", "busy"} /\ (answer = "busy" => h \in up)
    BY <2>1, SMT DEF Answers
  <2> DEFINE n == Counted(h, answer)
  <2>4. /\ n \in 0 .. Limit
        /\ n = Limit => answer = "busy"
    BY <2>2, <2>3, SMT DEF Counted
  <2>5. /\ said'[h] \in 0 .. Limit /\ n <= said'[h]
        /\ said' = [said EXCEPT ![h] = said'[h]]
    <3>1. said' = [said EXCEPT ![h] = IF answer = "idle" THEN 0
                                      ELSE IF answer = "busy" /\ said[h] < Limit
                                           THEN said[h] + 1 ELSE said[h]]
      BY <2>1, Zenon DEF Remember
    <3>2. said'[h] = IF answer = "idle" THEN 0
                     ELSE IF answer = "busy" /\ said[h] < Limit THEN said[h] + 1 ELSE said[h]
      BY <2>2, <3>1, Zenon
    <3>3. said'[h] \in 0 .. Limit /\ n <= said'[h]
      BY <2>2, <2>3, <3>2, SMT DEF Counted
    <3>4. said' = [said EXCEPT ![h] = said'[h]]
      BY <2>2, <3>1, <3>2, Zenon
    <3> QED BY <3>3, <3>4
  <2> HIDE DEF n
  <2>6. CASE n = Limit
    <3>1. /\ ka' = "deciding" /\ at' = at /\ count' = [count EXCEPT ![h] = 0]
      BY <2>1, <2>6, SMT DEF TooBusy, n
    <3>2. said' = [said EXCEPT ![h] = Limit]
      BY <2>4, <2>5, <2>6, SMT
    <3> QED BY <1>1, <1>2, <2>2, <2>3, <2>4, <2>6, <3>1, <3>2, SMT
  <2>7. CASE n # Limit
    <3>1. n \in 0 .. Limit - 1 /\ ~TooBusy(n)
      BY <2>4, <2>7, SMT DEF TooBusy
    <3>2. ka' = ka /\ at' = at + 1 /\ count' = [count EXCEPT ![h] = n] /\ count'[h] = n
      BY <2>1, <2>2, <3>1, SMT DEF n
    <3> QED BY <1>1, <1>2, <2>2, <2>5, <3>1, <3>2, SMT
  <2> QED BY <2>6, <2>7
<1> QED BY <1>4, <1>5, <1>6

(* The threads that walk the list find no freed entry; the capability      *)
(* thread may.                                                             *)
LEMMA WorkerFrame ==
  ASSUME IInv, WorkerStep
  PROVE  /\ UNCHANGED <<main, next, list, freed, up, hung, release, beat, ka, at, count, said>>
         /\ faults' = faults \/ faults' = faults \cup {<<"capability", "used_freed">>}
<1> USE DEF mainVars, listVars, handlerVars, kaVars, workerVars, history
<1>1. msg # "off" \/ evt # "off" => freed = {}
  BY SMT DEF IInv, Gone, Ending
<1>2. CASE Receive \/ Received \/ AskCapability \/ StartCapability \/ Notify
  BY <1>2, SMT DEF Receive, Received, AskCapability, StartCapability, Notify
<1>3. CASE Find
  BY <1>1, <1>3, SMT DEF Find, Touch
<1>4. CASE Tell
  BY <1>1, <1>4, SMT DEF Tell, Touch
<1>5. CASE Collect
  BY <1>5, SMT DEF Collect, Touch, Fault
<1> QED BY <1>2, <1>3, <1>4, <1>5 DEF WorkerStep

(* A thread that releases a handler changes its state and its entry only.  *)
LEMMA ReleaseFrame ==
  ASSUME IInv, NEW h \in Handlers, ReleaseStep(h)
  PROVE  /\ UNCHANGED <<main, next, list, beat, ka, at, count, msg, evt, cap, place, said, faults>>
         /\ main \in Ending /\ list # <<>>
         /\ \/ /\ release' = [release EXCEPT ![h] = "freeing"]
               /\ up' = up \ {h} /\ hung' = hung /\ freed' = freed
            \/ /\ release[h] = "freeing" /\ release' = [release EXCEPT ![h] = "done"]
               /\ freed' = freed \cup {h} /\ UNCHANGED <<up, hung>>
<1> USE DEF mainVars, listVars, handlerVars, kaVars, workerVars, history
<1>1. CASE ReleaseStops(h)
  BY <1>1, SMT DEF ReleaseStops, IInv, Gone
<1>2. CASE ReleaseFrees(h)
  BY <1>2, SMT DEF ReleaseFrees, IInv, Gone
<1> QED BY <1>1, <1>2 DEF ReleaseStep

(* The entry of a handler that is being restarted is not freed.            *)
LEMMA RestartOutcomes ==
  ASSUME IInv, Decide \/ StopBusy \/ Restart
  PROVE  /\ UNCHANGED <<faults, main, next, list, freed, release, beat, count,
                        msg, evt, cap, place>>
         /\ main \notin Ending /\ at \in DOMAIN list /\ list[at] \in Users
         /\ UNCHANGED hung
         /\ \/ ka' = "linked" /\ at' = 1 /\ UNCHANGED <<up, said>>
            \/ /\ ka = "deciding" /\ ka' = "stopping" /\ at' = at
               /\ UNCHANGED <<up, said>>
            \/ /\ ka = "stopping" /\ ka' = "restarting" /\ at' = at
               /\ up' = up \ {list[at]}
               /\ said' = [said EXCEPT ![list[at]] = 0]
            \/ /\ ka = "restarting" /\ ka' = "asking" /\ at' = at + 1
               /\ up' = up \cup {list[at]} /\ UNCHANGED said
<1> USE DEF mainVars, listVars, handlerVars, kaVars, workerVars, history
<1>1. /\ ka \in {"deciding", "stopping", "restarting"} /\ main \notin Ending /\ freed = {}
      /\ at \in DOMAIN list /\ list[at] \in Users
  BY SMT DEF IInv, TypeOK, Places, Gone, Decide, StopBusy, Restart, Ending
<1>2. CASE Decide
  BY <1>1, <1>2, SMT DEF Decide, Touch, Break
<1>4. CASE StopBusy
  BY <1>1, <1>4, SMT DEF StopBusy
<1>3. CASE Restart
  BY <1>1, <1>3, SMT DEF Restart, StartHandler, Fault, Break, IInv, StartedInTurn
<1> QED BY <1>2, <1>3, <1>4

(* Loading appends the next module or nothing.                             *)
LEMMA LoadOutcomes ==
  ASSUME IInv, Load
  PROVE  /\ main = "loading" /\ next \in DOMAIN Modules /\ next' = next + 1
         /\ list' \in Seq(Handlers)
         /\ \/ list' = list
            \/ /\ Len(list') = Len(list) + 1 /\ list'[Len(list) + 1] = Modules[next]
               /\ \A i \in DOMAIN list : list'[i] = list[i]
<1>1. /\ main = "loading" /\ next \in DOMAIN Modules /\ next' = next + 1
      /\ list' \in {list, Append(list, Modules[next])}
  BY ModulesAssumption, SMT DEF Load, IInv, TypeOK, Places
<1>2. list \in Seq(Handlers) /\ Modules[next] \in Handlers
  BY <1>1, ModulesAssumption, SMT DEF IInv, TypeOK, Users, Handlers
<1> QED BY <1>1, <1>2, SMT

(* Only the calling thread moves, and lengthens the list.                  *)
LEMMA ListFrame ==
  ASSUME IInv, [Next]_vars, ~(Initialize \/ MainStep \/ Uninitialize)
  PROVE  UNCHANGED <<main, next, list>>
<1> USE DEF mainVars, listVars
<1>1. CASE Ask BY <1>1 DEF Ask
<1>2. CASE Decide \/ StopBusy \/ Restart BY <1>2 DEF Decide, StopBusy, Restart
<1>3. CASE Connect \/ Opened \/ BeginCheck \/ EndCheck \/ EndKeepalive
  BY <1>3 DEF Connect, Opened, BeginCheck, EndCheck, EndKeepalive
<1>4. CASE WorkerStep BY <1>4, WorkerFrame
<1>5. ASSUME NEW h \in Handlers, ReleaseStep(h) PROVE UNCHANGED <<main, next, list>>
  BY <1>5, ReleaseFrame
<1>6. ASSUME NEW h \in Users, Hang(h) \/ Recover(h) PROVE UNCHANGED <<main, next, list>>
  BY <1>6 DEF Hang, Recover
<1>7. CASE UNCHANGED vars BY <1>7 DEF vars
<1> QED BY <1>1, <1>2, <1>3, <1>4, <1>5, <1>6, <1>7 DEF Next, KeepaliveStep, KeepaliveRuns

(* Entries stay where they are; only Load and Initialize add one.          *)
LEMMA ListGrows ==
  ASSUME IInv, [Next]_vars
  PROVE  /\ \A i \in DOMAIN list : i \in DOMAIN list' /\ list'[i] = list[i]
         /\ Len(list') >= Len(list) /\ list' \in Seq(Handlers)
         /\ ~Load /\ ~Initialize => list' = list
<1>0. list \in Seq(Handlers)
  BY DEF IInv, TypeOK
<1>1. CASE Load
  BY <1>0, <1>1, LoadOutcomes, SMT
<1>2. CASE Initialize
  BY <1>0, <1>2, SMT DEF Initialize, Handlers
<1>3. CASE ~Load /\ ~Initialize
  <2>1. list' = list
    BY <1>3, ListFrame
       DEF MainStep, Loaded, Start, Started, Uninitialize, JoinMessages, JoinEvents,
           StopKeepalive, JoinKeepalive, SpawnRelease, JoinReleases, Leave, listVars
  <2> QED BY <1>0, <1>3, <2>1, SMT
<1> QED BY <1>1, <1>2, <1>3

(* The keepalive thread alone moves along the list.                        *)
LEMMA KeepaliveFrame ==
  ASSUME IInv, [Next]_vars, ~KeepaliveStep, ~Initialize, ~JoinKeepalive
  PROVE  UNCHANGED <<ka, at>>
<1> USE DEF kaVars
<1>1. CASE MainStep \/ Uninitialize
  BY <1>1 DEF MainStep, Load, Loaded, Start, Started, Uninitialize, JoinMessages, JoinEvents,
              StopKeepalive, SpawnRelease, JoinReleases, Leave
<1>2. CASE WorkerStep BY <1>2, WorkerFrame
<1>3. ASSUME NEW h \in Handlers, ReleaseStep(h) PROVE UNCHANGED <<ka, at>>
  BY <1>3, ReleaseFrame
<1>4. ASSUME NEW h \in Users, Hang(h) \/ Recover(h) PROVE UNCHANGED <<ka, at>>
  BY <1>4 DEF Hang, Recover
<1>5. CASE UNCHANGED vars BY <1>5 DEF vars
<1> QED BY <1>1, <1>2, <1>3, <1>4, <1>5 DEF Next

-----------------------------------------------------------------------------
(* Each part of the invariant is kept *)

(* The indices stay within the list. *)
LEMMA PlacesStep == IInv /\ [Next]_vars => Places'
<1> SUFFICES ASSUME IInv, [Next]_vars PROVE Places'
  OBVIOUS
<1> DEFINE Entry == ka \in {"deciding", "stopping", "restarting"}
                    => at <= Len(list) /\ list[at] \in Users
           Bound == /\ Len(list) <= Len(Modules) + 1
                    /\ main = "loading" => Len(list) <= next /\ next <= Len(Modules) + 1
                    /\ main \in {"loading", "starting"} => next >= 1
                    /\ main = "starting" => next <= Len(list) + 1
                    /\ main = "releasing" => next <= Len(list)
<1>0. /\ Entry /\ Bound /\ list \in Seq(Handlers) /\ at \in Nat \ {0} /\ next \in Nat
      /\ Modules \in Seq(Users) /\ (ka # "none" => main # "off")
  BY ModulesAssumption, SMT DEF IInv, TypeOK, Places, Gone, Ending
<1>1. Bound'
  <2>1. CASE Initialize
    BY <1>0, <2>1, SMT DEF Initialize
  <2>2. CASE Load
    BY <1>0, <2>2, LoadOutcomes, SMT DEF Load
  <2>3. CASE Loaded \/ Start \/ Started \/ Uninitialize \/ JoinMessages \/ JoinEvents
    BY <1>0, <2>3, SMT DEF Loaded, Start, Started, Uninitialize, JoinMessages, JoinEvents, listVars
  <2>4. CASE StopKeepalive \/ JoinKeepalive \/ SpawnRelease \/ JoinReleases \/ Leave
    BY <1>0, <2>4, SMT DEF StopKeepalive, JoinKeepalive, SpawnRelease, JoinReleases, Leave, listVars
  <2>5. CASE UNCHANGED <<main, next, list>>
    BY <1>0, <2>5
  <2> QED BY <2>1, <2>2, <2>3, <2>4, <2>5, ListFrame DEF MainStep
<1>2. Entry'
  <2>1. CASE KeepaliveStep
    <3>0. list' = list
      BY <2>1
         DEF KeepaliveStep, KeepaliveRuns, Connect, Opened, BeginCheck, Ask, EndCheck, Decide,
             StopBusy, Restart, EndKeepalive, listVars
    <3>1. CASE Ask
      <4>1. at \in DOMAIN list /\ (ka' = "deciding" => at' = at /\ list[at] \in Users)
            /\ ka' \notin {"stopping", "restarting"}
        BY <3>1, AskOutcomes DEF Ask
      <4> QED BY <1>0, <3>0, <4>1, SMT
    <3>2. CASE Decide \/ StopBusy \/ Restart
      <4>1. /\ at \in DOMAIN list /\ list[at] \in Users
            /\ (ka' \in {"stopping", "restarting"} => at' = at) /\ ka' # "deciding"
        BY <3>2, RestartOutcomes
      <4> QED BY <1>0, <3>0, <4>1, SMT
    <3>3. CASE Connect \/ Opened \/ BeginCheck \/ EndCheck \/ EndKeepalive
      BY <3>3 DEF Connect, Opened, BeginCheck, EndCheck, EndKeepalive, Break
    <3> QED BY <2>1, <3>1, <3>2, <3>3 DEF KeepaliveStep, KeepaliveRuns
  <2>2. CASE Initialize \/ JoinKeepalive
    BY <2>2 DEF Initialize, JoinKeepalive
  <2>3. CASE ~KeepaliveStep /\ ~Initialize /\ ~JoinKeepalive
    <3>1. UNCHANGED <<ka, at>>
      BY <2>3, KeepaliveFrame
    <3> QED BY <1>0, <3>1, ListGrows, SMT
  <2> QED BY <2>1, <2>2, <2>3
<1> QED BY <1>1, <1>2 DEF Places

(* A module is loaded once, and the general handler is not a module. *)
LEMMA DistinctStep == IInv /\ [Next]_vars => Distinct'
<1> SUFFICES ASSUME IInv, [Next]_vars PROVE Distinct'
  OBVIOUS
<1>0. Distinct /\ list \in Seq(Handlers) /\ next \in Nat
  BY DEF IInv, TypeOK
<1>1. CASE Initialize
  BY <1>1, SMT DEF Initialize, Distinct
<1>2. CASE Load
  <2>1. CASE list' = list
    BY <1>0, <1>2, <2>1, LoadOutcomes, SMT DEF Load, Distinct
  <2>2. CASE list' # list
    <3> DEFINE n == Len(list)
    <3>1. /\ DOMAIN list' = 1 .. n + 1 /\ DOMAIN list = 1 .. n /\ n \in Nat
          /\ list'[n + 1] = Modules[next] /\ \A i \in 1 .. n : list'[i] = list[i]
          /\ main = "loading" /\ next' = next + 1 /\ next \in DOMAIN Modules
      BY <1>0, <1>2, <2>2, LoadOutcomes, SMT
    <3>2. \A i \in 1 .. n : list[i] # Modules[next]
      <4>1. Modules[next] # General
        BY <3>1, ModulesAssumption DEF Users
      <4>2. \A k \in 1 .. next - 1 : Modules[k] # Modules[next]
        BY <1>0, <3>1, ModulesAssumption, SMT
      <4> QED BY <1>0, <3>1, <4>1, <4>2 DEF Distinct
    <3>3. \A i, j \in 1 .. n + 1 : list'[i] = list'[j] => i = j
      <4>1. \A i, j \in 1 .. n : list[i] = list[j] => i = j
        BY <1>0, <3>1 DEF Distinct
      <4> HIDE DEF n
      <4> QED BY <3>1, <3>2, <4>1, SMT
    <3>4. \A i \in 1 .. n + 1 :
            list'[i] = General \/ \E k \in 1 .. next' - 1 : list'[i] = Modules[k]
      <4>1. \A i \in 1 .. n : list[i] = General \/ \E k \in 1 .. next - 1 : list[i] = Modules[k]
        BY <1>0, <3>1 DEF Distinct
      <4> HIDE DEF n
      <4> QED BY <1>0, <3>1, <4>1, SMT
    <3> QED BY <3>1, <3>3, <3>4 DEF Distinct
  <2> QED BY <2>1, <2>2
<1>3. CASE ~Initialize /\ ~Load
  <2>1. list' = list
    BY <1>3, ListGrows
  <2>2. main' = "loading" => main = "loading" /\ next' = next
    BY <1>3, ListFrame
       DEF MainStep, Loaded, Start, Started, Uninitialize, JoinMessages, JoinEvents,
           StopKeepalive, JoinKeepalive, SpawnRelease, JoinReleases, Leave
  <2> QED BY <1>0, <2>1, <2>2 DEF Distinct
<1> QED BY <1>1, <1>2, <1>3

(* Threads are created and joined where the invariant says. *)
LEMMA GoneStep == IInv /\ [Next]_vars => Gone'
<1> SUFFICES ASSUME IInv, [Next]_vars PROVE Gone'
  OBVIOUS
<1> USE DEF mainVars, listVars, handlerVars, kaVars, workerVars, history, Ending
<1>0. /\ Gone /\ list \in Seq(Handlers) /\ freed \subseteq Handlers
      /\ release \in [Handlers -> {"none", "stopping", "freeing", "done"}]
      /\ (main = "releasing" => next \in Nat /\ next <= Len(list))
  BY SMT DEF IInv, TypeOK, Places
<1>1. CASE Initialize
  BY <1>0, <1>1, SMT DEF Initialize, Gone
<1>2. CASE Load
  <2>1. list' # <<>>
    BY <1>0, <1>2, LoadOutcomes, SMT DEF Gone
  <2> QED BY <1>0, <1>2, <2>1, SMT DEF Load, Gone
<1>3. CASE Loaded \/ Start \/ Started
  BY <1>0, <1>3, SMT DEF Loaded, Start, Started, Gone
<1>4. CASE Uninitialize \/ JoinMessages \/ JoinEvents
  BY <1>0, <1>4, SMT DEF Uninitialize, JoinMessages, JoinEvents, Gone
<1>5. CASE StopKeepalive
  BY <1>0, <1>5, Zenon DEF StopKeepalive, Gone
<1>6. CASE JoinKeepalive \/ JoinReleases \/ Leave
  BY <1>0, <1>6, SMT DEF JoinKeepalive, JoinReleases, Leave, Gone
<1>7. CASE SpawnRelease
  BY <1>0, <1>7, SMT DEF SpawnRelease, Gone
<1>8. CASE KeepaliveStep
  <2>1. /\ UNCHANGED <<main, list, freed, release, msg, evt, cap>> /\ ka # "none"
    BY <1>8
       DEF KeepaliveStep, KeepaliveRuns, Connect, Opened, BeginCheck, Ask, EndCheck, Decide,
           StopBusy, Restart, EndKeepalive
  <2> QED BY <1>0, <2>1 DEF Gone
<1>9. CASE WorkerStep
  <2>1. UNCHANGED <<main, list, freed, release, ka>>
    BY <1>9, WorkerFrame
  <2>2. /\ (msg' # "off" => msg # "off" \/ main \in {"ready", "joining_message"})
        /\ (evt' # "off" => evt # "off" \/ main \in {"ready", "joining_message", "joining_event"})
        /\ (cap' # "none" => cap # "none" \/ msg # "off")
    BY <1>9
       DEF WorkerStep, Receive, Find, Received, AskCapability, StartCapability, Notify, Tell,
           Collect
  <2> QED BY <1>0, <2>1, <2>2 DEF Gone
<1>10. ASSUME NEW h \in Handlers, ReleaseStep(h) PROVE Gone'
  <2>1. /\ UNCHANGED <<main, list, ka, msg, evt, cap>> /\ main \in Ending /\ list # <<>>
    BY <1>10, ReleaseFrame
  <2> QED BY <1>0, <2>1 DEF Gone
<1>11. ASSUME NEW h \in Users, Hang(h) \/ Recover(h) PROVE Gone'
  BY <1>0, <1>11 DEF Hang, Recover, Gone
<1>12. CASE UNCHANGED vars
  BY <1>0, <1>12 DEF vars, Gone
<1> QED BY <1>1, <1>2, <1>3, <1>4, <1>5, <1>6, <1>7, <1>8, <1>9, <1>10, <1>11, <1>12
   DEF Next, MainStep

(* The count of a handler never exceeds its busy answers in a row. *)
LEMMA RowsStep == IInv /\ [Next]_vars => Rows'
<1> SUFFICES ASSUME IInv, [Next]_vars PROVE Rows'
  OBVIOUS
<1> USE DEF mainVars, listVars, handlerVars, kaVars, workerVars, history
<1>0. /\ Rows /\ count \in [Users -> 0 .. Limit - 1] /\ said \in [Users -> 0 .. Limit]
      /\ Limit \in Nat \ {0}
      /\ (ka \in {"deciding", "stopping"} => at \in DOMAIN list /\ list[at] \in Users)
  BY LimitAssumption, SMT DEF IInv, TypeOK, Places
<1>1. CASE Ask
  <2>1. list' = list /\ ka \notin {"deciding", "stopping"}
    BY <1>1 DEF Ask
  <2> DEFINE h == list[at]
  <2>2. \/ UNCHANGED <<count, said>> /\ ka' \notin {"deciding", "stopping"}
        \/ /\ ka' \notin {"deciding", "stopping"} /\ count'[h] <= said'[h] /\ h \in Users
           /\ count' = [count EXCEPT ![h] = count'[h]] /\ said' = [said EXCEPT ![h] = said'[h]]
        \/ /\ h \in Users /\ at' = at
           /\ count' = [count EXCEPT ![h] = 0] /\ said' = [said EXCEPT ![h] = Limit]
    BY <1>1, <2>1, AskOutcomes DEF Ask
  <2> HIDE DEF h
  <2>3. \A u \in Users : count'[u] <= said'[u]
    BY <1>0, <2>2, SMT DEF Rows
  <2>4. ka' \in {"deciding", "stopping"} => said'[h] = Limit /\ count'[h] = 0 /\ list'[at'] = h
    BY <1>0, <2>1, <2>2, SMT DEF h
  <2> QED BY <2>3, <2>4 DEF Rows
<1>2. CASE Decide \/ StopBusy \/ Restart
  <2>1. /\ UNCHANGED <<list, count>> /\ list[at] \in Users /\ ka' # "deciding"
        /\ \/ ka = "deciding" /\ ka' = "stopping" /\ at' = at /\ said' = said
           \/ ka' # "stopping" /\ said' = said
           \/ ka' # "stopping" /\ ka = "stopping" /\ said' = [said EXCEPT ![list[at]] = 0]
    BY <1>2, RestartOutcomes
  <2> QED BY <1>0, <2>1, SMT DEF Rows
<1>3. CASE Connect \/ Opened \/ BeginCheck \/ EndCheck \/ EndKeepalive
  BY <1>0, <1>3 DEF Connect, Opened, BeginCheck, EndCheck, EndKeepalive, Break, Rows
<1>4. CASE ~KeepaliveStep
  <2>1. UNCHANGED <<count, said>>
    <3>1. CASE Initialize \/ MainStep \/ Uninitialize
      BY <3>1 DEF MainStep, Initialize, Load, Loaded, Start, Started, Uninitialize, JoinMessages,
         JoinEvents, StopKeepalive, JoinKeepalive, SpawnRelease, JoinReleases, Leave
    <3>2. CASE WorkerStep BY <3>2, WorkerFrame
    <3>3. ASSUME NEW h \in Handlers, ReleaseStep(h) PROVE UNCHANGED <<count, said>>
      BY <3>3, ReleaseFrame
    <3>4. ASSUME NEW h \in Users, Hang(h) \/ Recover(h) PROVE UNCHANGED <<count, said>>
      BY <3>4 DEF Hang, Recover
    <3>5. CASE UNCHANGED vars BY <3>5 DEF vars
    <3> QED BY <1>4, <3>1, <3>2, <3>3, <3>4, <3>5 DEF Next
  <2>2. ka' \in {"deciding", "stopping"} => ka' = ka /\ at' = at
    <3>1. CASE Initialize \/ JoinKeepalive BY <3>1 DEF Initialize, JoinKeepalive
    <3>2. CASE ~Initialize /\ ~JoinKeepalive BY <1>4, <3>2, KeepaliveFrame
    <3> QED BY <3>1, <3>2
  <2>3. ka \in {"deciding", "stopping"} => list'[at] = list[at]
    BY <1>0, ListGrows
  <2> QED BY <1>0, <2>1, <2>2, <2>3 DEF Rows
<1> QED BY <1>1, <1>2, <1>3, <1>4 DEF KeepaliveStep, KeepaliveRuns

(* Which handlers are up, by the step that changes it.                     *)
LEMMA UpOutcomes ==
  ASSUME IInv, [Next]_vars
  PROVE  \/ up' \subseteq up
         \/ Start /\ up' = up \cup {list[next]}
         \/ Restart /\ up' = up \cup {list[at]}
<1> USE DEF handlerVars
<1>1. CASE Start BY <1>1 DEF Start, StartHandler
<1>2. CASE Restart BY <1>2 DEF Restart, StartHandler
<1>3. CASE StopBusy BY <1>3 DEF StopBusy
<1>4. CASE Connect \/ Opened \/ BeginCheck \/ Ask \/ EndCheck \/ EndKeepalive \/ Decide
  BY <1>4 DEF Connect, Opened, BeginCheck, Ask, EndCheck, EndKeepalive, Decide
<1>5. CASE (Initialize \/ MainStep \/ Uninitialize) /\ ~Start
  BY <1>5 DEF MainStep, Initialize, Load, Loaded, Started, Uninitialize, JoinMessages,
     JoinEvents, StopKeepalive, JoinKeepalive, SpawnRelease, JoinReleases, Leave
<1>6. CASE WorkerStep BY <1>6, WorkerFrame
<1>7. ASSUME NEW h \in Handlers, ReleaseStep(h) PROVE up' \subseteq up
  BY <1>7, ReleaseFrame
<1>8. ASSUME NEW h \in Users, Hang(h) \/ Recover(h) PROVE up' \subseteq up
  BY <1>8 DEF Hang, Recover
<1>9. CASE UNCHANGED vars BY <1>9 DEF vars
<1> QED BY <1>1, <1>2, <1>3, <1>4, <1>5, <1>6, <1>7, <1>8, <1>9
           DEF Next, KeepaliveStep, KeepaliveRuns

(* A handler is up only after its turn. *)
LEMMA StartedStep == IInv /\ [Next]_vars => StartedInTurn'
<1> SUFFICES ASSUME IInv, [Next]_vars PROVE StartedInTurn'
  OBVIOUS
<1> USE DEF mainVars, listVars, handlerVars, kaVars, workerVars, history
<1>0. /\ StartedInTurn /\ list \in Seq(Handlers) /\ next \in Nat /\ at \in Nat \ {0}
      /\ \A i, j \in DOMAIN list : list[i] = list[j] => i = j
      /\ (ka \in {"deciding", "stopping", "restarting"} => at \in DOMAIN list /\ list[at] \in Users)
      /\ (main \in {"loading", "starting"} => next >= 1)
  BY SMT DEF IInv, TypeOK, Places, Distinct
<1>1. \A h \in up' : \E i \in DOMAIN list' : list'[i] = h
  <2>1. \A h \in up' : \E i \in DOMAIN list : list[i] = h
    <3>1. CASE up' \subseteq up BY <1>0, <3>1 DEF StartedInTurn
    <3>2. CASE Start /\ up' = up \cup {list[next]}
      <4>1. next \in DOMAIN list
        BY <1>0, <3>2, SMT DEF Start
      <4> QED BY <1>0, <3>2, <4>1 DEF StartedInTurn
    <3>3. CASE Restart /\ up' = up \cup {list[at]}
      <4>1. at \in DOMAIN list
        BY <1>0, <3>3 DEF Restart
      <4> QED BY <1>0, <3>3, <4>1 DEF StartedInTurn
    <3> QED BY <3>1, <3>2, <3>3, UpOutcomes
  <2> QED BY <2>1, ListGrows
<1>2. main' \in {"off", "loading"} => up' = {}
  <2>1. CASE main' = main
    <3>1. main \in {"off", "loading"} => ~Start /\ ~Restart
      BY <1>0, SMT DEF Start, Restart, StartedInTurn, IInv, Gone, Ending
    <3> QED BY <1>0, <2>1, <3>1, UpOutcomes DEF StartedInTurn
  <2>2. CASE Initialize BY <1>0, <2>2 DEF Initialize, StartedInTurn
  <2>3. CASE Leave
    <3>1. up = {}
      <4>1. \A h \in up : \E i \in DOMAIN list : list[i] = h
        BY <1>0 DEF StartedInTurn
      <4>2. \A i \in DOMAIN list : list[i] \in Handlers /\ list[i] \notin up
        BY <1>0, <2>3, SMT DEF Leave, IInv, Released
      <4> QED BY <4>1, <4>2
    <3> QED BY <2>3, <3>1 DEF Leave
  <2>4. CASE main' # main /\ ~Initialize /\ ~Leave
    BY <2>4, ListFrame
       DEF MainStep, Load, Loaded, Start, Started, Uninitialize, JoinMessages, JoinEvents,
           StopKeepalive, JoinKeepalive, SpawnRelease, JoinReleases
  <2> QED BY <2>1, <2>2, <2>3, <2>4
<1>3. main' = "starting" => \A h \in up' : \E i \in 1 .. next' - 1 : list'[i] = h
  <2>1. CASE Loaded
    BY <1>0, <2>1 DEF Loaded, StartedInTurn
  <2>2. CASE Start
    BY <1>0, <2>2, UpOutcomes, SMT DEF Start, Restart, StartHandler, StartedInTurn
  <2>3. CASE main' = "starting" /\ ~Loaded /\ ~Start
    <3>1. main = "starting" /\ UNCHANGED <<next, list>>
      BY <2>3, ListFrame
         DEF MainStep, Initialize, Load, Started, Uninitialize, JoinMessages, JoinEvents,
             StopKeepalive, JoinKeepalive, SpawnRelease, JoinReleases, Leave
    <3>2. CASE up' \subseteq up BY <1>0, <3>1, <3>2 DEF StartedInTurn
    <3>3. CASE Restart /\ up' = up \cup {list[at]}
      <4>1. at \in 1 .. next - 1
        BY <1>0, <3>1, <3>3, SMT DEF Restart, StartedInTurn
      <4> QED BY <1>0, <3>1, <3>3, <4>1 DEF StartedInTurn
    <3> QED BY <2>3, <3>2, <3>3, UpOutcomes
  <2> QED BY <2>1, <2>2, <2>3
<1>4. /\ (ka' \in {"deciding", "stopping", "restarting"} /\ main' = "starting" => at' < next')
      /\ (ka' \in {"deciding", "stopping", "restarting"} => main' # "loading")
      /\ (ka' = "restarting" => list'[at'] \notin up')
  <2>1. CASE Ask
    <3>1. /\ UNCHANGED <<main, next, list>> /\ ka' \notin {"stopping", "restarting"}
          /\ (ka' = "deciding" => at' = at /\ list[at] \in up /\ at \in DOMAIN list)
      BY <2>1, AskOutcomes DEF Ask
    <3>2. ka' = "deciding" /\ main = "starting" => at < next
      <4>1. ASSUME ka' = "deciding", main = "starting" PROVE at < next
        <5>1. PICK i \in 1 .. next - 1 : list[i] = list[at]
          BY <1>0, <3>1, <4>1 DEF StartedInTurn
        <5>2. next - 1 <= Len(list)
          BY <4>1, SMT DEF IInv, Places, TypeOK
        <5>3. i \in DOMAIN list
          BY <1>0, <5>1, <5>2, SMT
        <5> QED BY <1>0, <3>1, <4>1, <5>1, <5>3, SMT
      <4> QED BY <4>1
    <3>3. ka' = "deciding" => main # "loading"
      BY <1>0, <3>1 DEF StartedInTurn
    <3> QED BY <3>1, <3>2, <3>3
  <2>2. CASE Decide \/ StopBusy \/ Restart
    <3>1. /\ UNCHANGED <<main, next, list>> /\ ka' # "deciding"
          /\ (ka' = "stopping" => ka = "deciding" /\ at' = at)
          /\ (ka' = "restarting" => ka = "stopping" /\ at' = at /\ up' = up \ {list[at]})
      BY <2>2, RestartOutcomes
    <3> QED BY <1>0, <3>1 DEF StartedInTurn
  <2>3. CASE Connect \/ Opened \/ BeginCheck \/ EndCheck \/ EndKeepalive
    BY <2>3 DEF Connect, Opened, BeginCheck, EndCheck, EndKeepalive, Break
  <2>4. CASE Initialize \/ JoinKeepalive
    BY <2>4 DEF Initialize, JoinKeepalive
  <2>5. CASE ~KeepaliveStep /\ ~Initialize /\ ~JoinKeepalive
    <3>1. UNCHANGED <<ka, at>>
      BY <2>5, KeepaliveFrame
    <3>2. ka \in {"deciding", "stopping", "restarting"} => list'[at] = list[at]
      BY <1>0, ListGrows
    <3>3. CASE Start
      <4>1. next \in DOMAIN list /\ main = "starting" /\ next' = next + 1 /\ main' = main
            /\ up' = up \cup {list[next]}
        BY <1>0, <3>3, SMT DEF Start, StartHandler
      <4>2. ka = "restarting" => at # next
        BY <1>0, <4>1, SMT DEF StartedInTurn
      <4> QED BY <1>0, <3>1, <3>2, <4>1, <4>2, SMT DEF StartedInTurn
    <3>4. CASE ~Start
      <4>1. up' \subseteq up
        BY <2>5, <3>4, UpOutcomes DEF KeepaliveStep, KeepaliveRuns
      <4>2. main' = "loading" => main = "loading"
        BY <2>5, ListFrame
           DEF MainStep, Load, Loaded, Started, Start, Uninitialize, JoinMessages, JoinEvents,
               StopKeepalive, JoinKeepalive, SpawnRelease, JoinReleases, Leave
      <4>3. main' = "starting" => main = "loading" \/ (main = "starting" /\ next' = next)
        BY <2>5, <3>4, ListFrame
           DEF MainStep, Load, Loaded, Started, Start, Uninitialize, JoinMessages, JoinEvents,
               StopKeepalive, JoinKeepalive, SpawnRelease, JoinReleases, Leave
      <4> QED BY <1>0, <3>1, <3>2, <4>1, <4>2, <4>3 DEF StartedInTurn
    <3> QED BY <3>3, <3>4
  <2> QED BY <2>1, <2>2, <2>3, <2>4, <2>5 DEF KeepaliveStep, KeepaliveRuns
<1> QED BY <1>1, <1>2, <1>3, <1>4 DEF StartedInTurn

(* An entry is done when its handler is stopped and its memory freed. *)
LEMMA ReleasedStep == IInv /\ [Next]_vars => Released'
<1> SUFFICES ASSUME IInv, [Next]_vars PROVE Released'
  OBVIOUS
<1> USE DEF mainVars, listVars, handlerVars, kaVars, workerVars, history
<1>0. /\ Released /\ list \in Seq(Handlers) /\ freed \subseteq Handlers /\ up \subseteq Handlers
      /\ release \in [Handlers -> {"none", "stopping", "freeing", "done"}]
      /\ \A h \in Handlers : release[h] # "none" => main \in Ending /\ list # <<>>
  BY DEF IInv, TypeOK, Gone
<1>1. ASSUME NEW h \in Handlers, ReleaseStep(h) PROVE Released'
  <2>1. /\ UNCHANGED <<main, list>>
        /\ \/ release' = [release EXCEPT ![h] = "freeing"] /\ up' = up \ {h} /\ freed' = freed
           \/ /\ release[h] = "freeing" /\ release' = [release EXCEPT ![h] = "done"]
              /\ freed' = freed \cup {h} /\ up' = up
    BY <1>1, ReleaseFrame
  <2>2. main \in {"leaving", "off"} => \A i \in DOMAIN list : release'[list[i]] = "done"
    <3>1. main \in {"leaving", "off"} =>
            /\ \A i \in DOMAIN list : release[list[i]] = "done"
            /\ \A i \in DOMAIN list : list[i] # h
      BY <1>0, <1>1, SMT DEF Released, ReleaseStep, ReleaseStops, ReleaseFrees
    <3> QED BY <1>0, <2>1, <3>1, SMT
  <2>3. \A g \in Handlers : release'[g] \in {"freeing", "done"} => g \notin up'
    BY <1>0, <2>1, SMT DEF Released
  <2>4. \A g \in Handlers : release'[g] = "done" => g \in freed'
    BY <1>0, <2>1, SMT DEF Released
  <2> QED BY <2>1, <2>2, <2>3, <2>4 DEF Released
<1>2. CASE SpawnRelease
  <2>1. /\ UNCHANGED <<list, freed, up>> /\ main' = "releasing"
        /\ \A h \in Handlers : release'[h] = release[h] \/ release'[h] = "stopping"
    BY <1>0, <1>2, SMT DEF SpawnRelease
  <2> QED BY <1>0, <2>1, SMT DEF Released
<1>3. CASE Start \/ Restart
  <2>1. main \notin Ending /\ main' = main /\ UNCHANGED <<list, freed, release>>
    BY <1>3, RestartOutcomes DEF Start, Ending
  <2> QED BY <1>0, <2>1, SMT DEF Released, Ending
<1>4. CASE JoinReleases
  BY <1>0, <1>4 DEF JoinReleases, Released
<1>5. CASE Initialize
  BY <1>0, <1>5 DEF Initialize, Released
<1>6. CASE Load
  BY <1>0, <1>6 DEF Load, Released
<1>7. ASSUME ~Initialize, ~Load, ~Start, ~Restart, ~JoinReleases, ~SpawnRelease,
             ~(\E h \in Handlers : ReleaseStep(h))
      PROVE  Released'
  <2>1. UNCHANGED <<list, freed, release>> /\ up' \subseteq up
    <3>1. CASE MainStep \/ Uninitialize
      BY <1>7, <3>1 DEF MainStep, Loaded, Started, Uninitialize, JoinMessages, JoinEvents,
         StopKeepalive, JoinKeepalive, Leave
    <3>2. CASE KeepaliveStep
      BY <1>7, <3>2
         DEF KeepaliveStep, KeepaliveRuns, Connect, Opened, BeginCheck, Ask, EndCheck, Decide,
             StopBusy, EndKeepalive
    <3>3. CASE WorkerStep BY <3>3, WorkerFrame
    <3>4. ASSUME NEW h \in Users, Hang(h) \/ Recover(h)
          PROVE  UNCHANGED <<list, freed, release>> /\ up' \subseteq up
      BY <3>4 DEF Hang, Recover
    <3>5. CASE UNCHANGED vars BY <3>5 DEF vars
    <3> QED BY <1>7, <3>1, <3>2, <3>3, <3>4, <3>5 DEF Next
  <2>2. main' \in {"leaving", "off"} => main \in {"leaving", "off"}
    BY <1>7, ListFrame DEF MainStep, Loaded, Started, Uninitialize, JoinMessages, JoinEvents,
       StopKeepalive, JoinKeepalive, Leave
  <2> QED BY <1>0, <2>1, <2>2 DEF Released
<1> QED BY <1>1, <1>2, <1>3, <1>4, <1>5, <1>6, <1>7

(* No fault of a thread that walks the list, and none of a start. *)
LEMMA FaultsStep == IInv /\ [Next]_vars => WalkersAreGone' /\ NeverStartedTwice'
<1> SUFFICES ASSUME IInv, [Next]_vars
             PROVE  faults' = faults \/ faults' = faults \cup {<<"capability", "used_freed">>}
  <2>1. \A t \in {"keepalive", "message", "event"} :
          <<t, "used_freed">> # <<"capability", "used_freed">>
    BY SMT
  <2>2. <<"handler", "started_twice">> # <<"capability", "used_freed">>
    BY SMT
  <2> QED BY <2>1, <2>2 DEF IInv, WalkersAreGone, NeverStartedTwice
<1> USE DEF history
<1>1. CASE Start
  <2>1. next \in DOMAIN list /\ list[next] \notin up
    <3>1. /\ next \in DOMAIN list /\ next \in Nat /\ main = "starting"
          /\ \A i, j \in DOMAIN list : list[i] = list[j] => i = j
          /\ \A h \in up : \E i \in 1 .. next - 1 : list[i] = h
          /\ list \in Seq(Handlers)
      BY <1>1, SMT DEF Start, IInv, TypeOK, Places, Distinct, StartedInTurn
    <3> QED BY <3>1, SMT
  <2> QED BY <1>1, <2>1 DEF Start, StartHandler
<1>2. CASE Ask BY <1>2, AskOutcomes
<1>3. CASE Decide \/ StopBusy \/ Restart BY <1>3, RestartOutcomes
<1>4. CASE Connect \/ Opened \/ BeginCheck \/ EndCheck \/ EndKeepalive
  BY <1>4 DEF Connect, Opened, BeginCheck, EndCheck, EndKeepalive
<1>5. CASE WorkerStep BY <1>5, WorkerFrame
<1>6. CASE (Initialize \/ MainStep \/ Uninitialize) /\ ~Start
  BY <1>6 DEF MainStep, Initialize, Load, Loaded, Started, Uninitialize, JoinMessages,
     JoinEvents, StopKeepalive, JoinKeepalive, SpawnRelease, JoinReleases, Leave
<1>7. ASSUME NEW h \in Handlers, ReleaseStep(h) PROVE UNCHANGED faults
  BY <1>7, ReleaseFrame
<1>8. ASSUME NEW h \in Users, Hang(h) \/ Recover(h) PROVE UNCHANGED faults
  BY <1>8 DEF Hang, Recover
<1>9. CASE UNCHANGED vars BY <1>9 DEF vars
<1> QED BY <1>1, <1>2, <1>3, <1>4, <1>5, <1>6, <1>7, <1>8, <1>9
           DEF Next, KeepaliveStep, KeepaliveRuns

(* Replacing a value of a function by another of its range. *)
LEMMA ExceptType ==
  ASSUME NEW S, NEW T, NEW f \in [S -> T], NEW x, NEW v \in T
  PROVE  [f EXCEPT ![x] = v] \in [S -> T]
OBVIOUS

(* Every step keeps the types. *)
LEMMA TypeStep == IInv /\ [Next]_vars => TypeOK'
<1> SUFFICES ASSUME IInv, [Next]_vars PROVE TypeOK'
  OBVIOUS
<1> USE ModulesAssumption, LimitAssumption
    DEF mainVars, listVars, handlerVars, kaVars, workerVars, history
<1>0. /\ TypeOK /\ Places /\ Modules \in Seq(Users)
  BY DEF IInv
<1>1. beat' \in BOOLEAN
  <2>1. beat' = beat \/ beat' \in BOOLEAN
    <3>1. CASE Initialize \/ MainStep \/ Uninitialize
      BY <3>1, Zenon DEF MainStep, Initialize, Load, Loaded, Start, Started, Uninitialize,
         JoinMessages, JoinEvents, StopKeepalive, JoinKeepalive, SpawnRelease, JoinReleases, Leave
    <3>2. CASE KeepaliveStep
      BY <3>2, Zenon
         DEF KeepaliveStep, KeepaliveRuns, Connect, Opened, BeginCheck, Ask, EndCheck, Decide,
             StopBusy, Restart, EndKeepalive
    <3>3. CASE WorkerStep BY <3>3, WorkerFrame
    <3>4. ASSUME NEW h \in Handlers, ReleaseStep(h) PROVE beat' = beat
      BY <3>4, ReleaseFrame
    <3>5. ASSUME NEW h \in Users, Hang(h) \/ Recover(h) PROVE beat' = beat
      BY <3>5 DEF Hang, Recover
    <3>6. CASE UNCHANGED vars BY <3>6 DEF vars
    <3> QED BY <3>1, <3>2, <3>3, <3>4, <3>5, <3>6 DEF Next
  <2> QED BY <1>0, <2>1, Zenon DEF TypeOK
<1>2. /\ main' \in {"off", "loading", "starting", "ready", "joining_message", "joining_event",
                    "stopping_keepalive", "joining_keepalive", "releasing", "leaving"}
      /\ next' \in 0 .. Len(Modules) + 2
  <2>0. /\ list \in Seq(Handlers) /\ Len(Modules) \in Nat /\ next \in 0 .. Len(Modules) + 2
        /\ Len(list) <= Len(Modules) + 1
    BY <1>0, SMT DEF TypeOK, Places
  <2>1. CASE Initialize \/ Load \/ Loaded \/ Start \/ Started \/ Uninitialize
    BY <1>0, <2>0, <2>1, SMT DEF Initialize, Load, Loaded, Start, Started, Uninitialize
  <2>2. CASE JoinMessages \/ JoinEvents \/ StopKeepalive \/ JoinKeepalive
    BY <1>0, <2>0, <2>2, SMT DEF JoinMessages, JoinEvents, StopKeepalive, JoinKeepalive
  <2>3. CASE SpawnRelease \/ JoinReleases \/ Leave
    BY <1>0, <2>0, <2>3, SMTT(30) DEF SpawnRelease, JoinReleases, Leave, TypeOK
  <2>4. CASE UNCHANGED <<main, next, list>> BY <1>0, <2>4 DEF TypeOK
  <2> QED BY <2>1, <2>2, <2>3, <2>4, ListFrame DEF MainStep
<1>3. list' \in Seq(Handlers)
  BY ListGrows
<1>4. /\ freed' \subseteq Handlers
      /\ release' \in [Handlers -> {"none", "stopping", "freeing", "done"}]
  <2>0. /\ freed \subseteq Handlers /\ list \in Seq(Handlers)
        /\ release \in [Handlers -> {"none", "stopping", "freeing", "done"}]
        /\ (main = "releasing" => next \in Nat /\ next <= Len(list))
    BY <1>0, SMT DEF TypeOK, Places
  <2>1. CASE SpawnRelease
    BY <2>0, <2>1, SMT DEF SpawnRelease
  <2>2. CASE (Initialize \/ MainStep \/ Uninitialize) /\ ~SpawnRelease
    BY <2>0, <2>2 DEF MainStep, Initialize, Load, Loaded, Start, Started, Uninitialize,
       JoinMessages, JoinEvents, StopKeepalive, JoinKeepalive, JoinReleases, Leave
  <2>3. CASE KeepaliveStep
    BY <2>0, <2>3
       DEF KeepaliveStep, KeepaliveRuns, Connect, Opened, BeginCheck, Ask, EndCheck, Decide,
           StopBusy, Restart, EndKeepalive
  <2>4. CASE WorkerStep BY <2>0, <2>4, WorkerFrame
  <2>5. ASSUME NEW h \in Handlers, ReleaseStep(h)
        PROVE  /\ freed' \subseteq Handlers
               /\ release' \in [Handlers -> {"none", "stopping", "freeing", "done"}]
    BY <2>0, <2>5, ReleaseFrame
  <2>6. ASSUME NEW h \in Users, Hang(h) \/ Recover(h) PROVE UNCHANGED <<freed, release>>
    BY <2>6 DEF Hang, Recover
  <2>7. CASE UNCHANGED vars BY <2>0, <2>7 DEF vars
  <2> QED BY <2>0, <2>1, <2>2, <2>3, <2>4, <2>5, <2>6, <2>7 DEF Next
<1>5. up' \subseteq Handlers
  <2>1. list[next] \in Handlers \/ ~Start
    BY <1>0, SMT DEF TypeOK, Places, Start
  <2>2. list[at] \in Handlers \/ ~Restart
    BY RestartOutcomes DEF Handlers
  <2> QED BY <1>0, <2>1, <2>2, UpOutcomes DEF TypeOK
<1>6. hung' \subseteq Users
  <2>1. hung' \subseteq hung \/ \E h \in Users : hung' = hung \cup {h}
    <3>1. CASE Initialize \/ MainStep \/ Uninitialize
      BY <3>1 DEF MainStep, Initialize, Load, Loaded, Start, StartHandler, Started, Uninitialize,
         JoinMessages, JoinEvents, StopKeepalive, JoinKeepalive, SpawnRelease, JoinReleases, Leave
    <3>2. CASE KeepaliveStep
      BY <3>2
         DEF KeepaliveStep, KeepaliveRuns, Connect, Opened, BeginCheck, Ask, EndCheck, Decide,
             StopBusy, Restart, StartHandler,
         EndKeepalive
    <3>3. CASE WorkerStep BY <3>3, WorkerFrame
    <3>4. ASSUME NEW h \in Handlers, ReleaseStep(h) PROVE hung' \subseteq hung
      BY <3>4, ReleaseFrame
    <3>5. ASSUME NEW h \in Users, Hang(h) \/ Recover(h)
          PROVE  hung' \subseteq hung \/ hung' = hung \cup {h}
      BY <3>5 DEF Hang, Recover
    <3>6. CASE UNCHANGED vars BY <3>6 DEF vars
    <3> QED BY <3>1, <3>2, <3>3, <3>4, <3>5, <3>6 DEF Next
  <2> QED BY <1>0, <2>1 DEF TypeOK
<1>7. /\ ka' \in {"none", "resting", "opening", "linked", "asking", "deciding", "stopping",
                 "restarting", "ended"}
      /\ at' \in 1 .. Len(list') + 1
  <2>0. /\ list \in Seq(Handlers) /\ at \in 1 .. Len(list) + 1
        /\ ka \in {"none", "resting", "opening", "linked", "asking", "deciding", "stopping",
                  "restarting", "ended"}
        /\ Len(list') \in Nat /\ Len(list) <= Len(list')
        /\ (ka \in {"deciding", "stopping", "restarting"} => at <= Len(list))
    BY <1>0, <1>3, ListGrows, SMT DEF TypeOK, Places
  <2>1. CASE KeepaliveStep
    BY <2>0, <2>1, SMT
       DEF KeepaliveStep, KeepaliveRuns, Connect, Opened, BeginCheck, Ask, EndCheck, Decide,
           StopBusy, Restart, EndKeepalive, Break
  <2>2. CASE Initialize \/ JoinKeepalive
    BY <2>0, <2>2, SMT DEF Initialize, JoinKeepalive
  <2>3. CASE UNCHANGED <<ka, at>> BY <2>0, <2>3, SMT
  <2> QED BY <2>1, <2>2, <2>3, KeepaliveFrame
<1>8. count' \in [Users -> 0 .. Limit - 1] /\ said' \in [Users -> 0 .. Limit]
  <2>0. count \in [Users -> 0 .. Limit - 1] /\ said \in [Users -> 0 .. Limit] /\ Limit \in Nat \ {0}
    BY <1>0 DEF TypeOK
  <2>1. CASE Ask
    <3>1. \/ UNCHANGED <<count, said>>
          \/ \E n \in 0 .. Limit - 1, s \in 0 .. Limit :
               count' = [count EXCEPT ![list[at]] = n] /\ said' = [said EXCEPT ![list[at]] = s]
      <4>1. 0 \in 0 .. Limit - 1 /\ Limit \in 0 .. Limit
        BY SMT
      <4> QED BY <2>1, <4>1, AskOutcomes, Zenon
    <3>2. CASE UNCHANGED <<count, said>>
      BY <2>0, <3>2
    <3>3. ASSUME NEW n \in 0 .. Limit - 1, NEW s \in 0 .. Limit,
                 count' = [count EXCEPT ![list[at]] = n], said' = [said EXCEPT ![list[at]] = s]
          PROVE  count' \in [Users -> 0 .. Limit - 1] /\ said' \in [Users -> 0 .. Limit]
      <4>1. [count EXCEPT ![list[at]] = n] \in [Users -> 0 .. Limit - 1]
        BY <2>0, ExceptType, Zenon
      <4>2. [said EXCEPT ![list[at]] = s] \in [Users -> 0 .. Limit]
        BY <2>0, ExceptType, Zenon
      <4> QED BY <3>3, <4>1, <4>2, Zenon
    <3> QED BY <3>1, <3>2, <3>3, Zenon
  <2>2. CASE Decide \/ StopBusy \/ Restart
    BY <2>0, <2>2, RestartOutcomes, SMT
  <2>3. CASE Connect \/ Opened \/ BeginCheck \/ EndCheck \/ EndKeepalive
    BY <2>0, <2>3 DEF Connect, Opened, BeginCheck, EndCheck, EndKeepalive
  <2>4. CASE Initialize \/ MainStep \/ Uninitialize
    BY <2>0, <2>4 DEF MainStep, Initialize, Load, Loaded, Start, Started, Uninitialize,
       JoinMessages, JoinEvents, StopKeepalive, JoinKeepalive, SpawnRelease, JoinReleases, Leave
  <2>5. CASE WorkerStep BY <2>0, <2>5, WorkerFrame
  <2>6. ASSUME NEW h \in Handlers, ReleaseStep(h) PROVE UNCHANGED <<count, said>>
    BY <2>6, ReleaseFrame
  <2>7. ASSUME NEW h \in Users, Hang(h) \/ Recover(h) PROVE UNCHANGED <<count, said>>
    BY <2>7 DEF Hang, Recover
  <2>8. CASE UNCHANGED vars BY <2>0, <2>8 DEF vars
  <2> QED BY <2>0, <2>1, <2>2, <2>3, <2>4, <2>5, <2>6, <2>7, <2>8
             DEF Next, KeepaliveStep, KeepaliveRuns
<1>9. /\ msg' \in {"off", "idle", "walking", "calling", "joining"}
      /\ evt' \in {"off", "idle", "walking"}
      /\ cap' \in {"none", "walking", "done"} /\ place' \in [Walkers -> Nat \ {0}]
      /\ \A w \in Walkers : place'[w] <= Len(list') + 1
  <2>0. /\ msg \in {"off", "idle", "walking", "calling", "joining"}
        /\ evt \in {"off", "idle", "walking"}
        /\ cap \in {"none", "walking", "done"} /\ place \in [Walkers -> Nat \ {0}]
        /\ \A w \in Walkers : place[w] <= Len(list) + 1
        /\ list \in Seq(Handlers) /\ Len(list) \in Nat /\ Len(list') \in Nat
        /\ Len(list) <= Len(list')
    BY <1>0, <1>3, ListGrows, SMT DEF TypeOK
  <2>1. CASE WorkerStep
    <3>1. list' = list
      BY <2>1, WorkerFrame
    <3> QED BY <2>0, <2>1, <3>1, SMT
       DEF WorkerStep, Receive, Find, Received, AskCapability, StartCapability, Notify, Tell,
           Collect, Walkers
  <2>2. CASE ~WorkerStep
    <3>1. place' = place
      <4>1. CASE Initialize \/ MainStep \/ Uninitialize
        BY <4>1 DEF MainStep, Initialize, Load, Loaded, Start, Started, Uninitialize, JoinMessages,
           JoinEvents, StopKeepalive, JoinKeepalive, SpawnRelease, JoinReleases, Leave
      <4>2. CASE KeepaliveStep
        BY <4>2
           DEF KeepaliveStep, KeepaliveRuns, Connect, Opened, BeginCheck, Ask, EndCheck, Decide,
               StopBusy, Restart, EndKeepalive
      <4>3. ASSUME NEW h \in Handlers, ReleaseStep(h) PROVE place' = place
        BY <4>3, ReleaseFrame
      <4>4. ASSUME NEW h \in Users, Hang(h) \/ Recover(h) PROVE place' = place
        BY <4>4 DEF Hang, Recover
      <4>5. CASE UNCHANGED vars BY <4>5 DEF vars
      <4> QED BY <2>2, <4>1, <4>2, <4>3, <4>4, <4>5 DEF Next
    <3>2. /\ msg' \in {msg, "idle", "off"} /\ evt' \in {evt, "idle", "off"}
          /\ cap' \in {cap, "none"}
      <4>1. CASE Initialize \/ MainStep \/ Uninitialize
        BY <4>1 DEF MainStep, Initialize, Load, Loaded, Start, Started, Uninitialize, JoinMessages,
           JoinEvents, StopKeepalive, JoinKeepalive, SpawnRelease, JoinReleases, Leave
      <4>2. CASE KeepaliveStep
        BY <4>2
           DEF KeepaliveStep, KeepaliveRuns, Connect, Opened, BeginCheck, Ask, EndCheck, Decide,
               StopBusy, Restart, EndKeepalive
      <4>3. ASSUME NEW h \in Handlers, ReleaseStep(h) PROVE UNCHANGED <<msg, evt, cap>>
        BY <4>3, ReleaseFrame
      <4>4. ASSUME NEW h \in Users, Hang(h) \/ Recover(h) PROVE UNCHANGED <<msg, evt, cap>>
        BY <4>4 DEF Hang, Recover
      <4>5. CASE UNCHANGED vars BY <4>5 DEF vars
      <4> QED BY <2>2, <4>1, <4>2, <4>3, <4>4, <4>5 DEF Next
    <3>3. \A w \in Walkers : place'[w] <= Len(list') + 1
      BY <2>0, <3>1, SMT
    <3> QED BY <2>0, <3>1, <3>2, <3>3
  <2> QED BY <2>1, <2>2
<1> QED BY <1>1, <1>2, <1>3, <1>4, <1>5, <1>6, <1>7, <1>8, <1>9 DEF TypeOK

-----------------------------------------------------------------------------
(* Theorems *)

LEMMA InvariantInit == Init => IInv
<1> SUFFICES ASSUME Init PROVE IInv
  OBVIOUS
<1> USE LimitAssumption, ModulesAssumption
<1>1. TypeOK
  <2>1. beat \in BOOLEAN BY Zenon DEF Init
  <2>2. /\ main = "off" /\ next = 1 /\ list = <<>> /\ freed = {} /\ up = {} /\ hung = {}
        /\ release \in [Handlers -> {"none", "stopping", "freeing", "done"}]
        /\ ka = "none" /\ at = 1 /\ msg = "off" /\ evt = "off" /\ cap = "none"
    BY DEF Init
  <2>3. count \in [Users -> 0 .. Limit - 1] /\ said \in [Users -> 0 .. Limit]
    BY SMT DEF Init
  <2>4. place \in [Walkers -> Nat \ {0}] /\ \A w \in Walkers : place[w] = 1
    BY SMT DEF Init
  <2>5. Len(Modules) \in Nat /\ list \in Seq(Handlers) /\ Len(list) = 0
    BY <2>2, SMT
  <2> QED BY <2>1, <2>2, <2>3, <2>4, <2>5, SMT DEF TypeOK
<1>2. Places /\ Distinct /\ Gone /\ StartedInTurn /\ Rows /\ Released
  BY SMT DEF Init, Places, Distinct, Gone, StartedInTurn, Rows, Released, Ending
<1>3. WalkersAreGone /\ NeverStartedTwice
  BY DEF Init, WalkersAreGone, NeverStartedTwice
<1> QED BY <1>1, <1>2, <1>3 DEF IInv

(* The inductive invariant holds in every behaviour. *)
THEOREM Invariant == Spec => []IInv
<1>1. IInv /\ [Next]_vars => IInv'
  BY TypeStep, PlacesStep, DistinctStep, GoneStep, StartedStep, RowsStep, ReleasedStep,
     FaultsStep DEF IInv
<1> QED BY InvariantInit, <1>1, PTL DEF Spec

(* The types of the variables, for any modules and any limit. *)
THEOREM TypeCorrect == Spec => []TypeOK
<1>1. IInv => TypeOK
  BY DEF IInv
<1> QED BY Invariant, <1>1, PTL

(* The keepalive thread, the message worker and the event worker never     *)
(* read an entry after SAManager_Uninitialize has freed it.                *)
THEOREM WalkersAlwaysGone == Spec => []WalkersAreGone
<1>1. IInv => WalkersAreGone
  BY DEF IInv
<1> QED BY Invariant, <1>1, PTL

(* Neither Loader_StartAllHandler nor the keepalive thread starts a        *)
(* handler that is already started.                                        *)
THEOREM StartedOnce == Spec => []NeverStartedTwice
<1>1. IInv => NeverStartedTwice
  BY DEF IInv
<1> QED BY Invariant, <1>1, PTL

(* After SAManager_Uninitialize no handler is started, no entry is left    *)
(* and no thread runs.                                                     *)
THEOREM NothingIsLeft == Spec => []NothingLeft
<1>1. IInv => NothingLeft
  <2> SUFFICES ASSUME IInv, main = "off", list # <<>>
               PROVE  /\ up = {} /\ \A i \in DOMAIN list : list[i] \in freed
                      /\ ka = "none" /\ msg = "off" /\ evt = "off" /\ cap = "none"
    BY DEF NothingLeft
  <2>1. up = {}
    BY DEF IInv, StartedInTurn
  <2>2. \A i \in DOMAIN list : list[i] \in Handlers
    BY SMT DEF IInv, TypeOK
  <2>3. \A i \in DOMAIN list : list[i] \in freed
    BY <2>2 DEF IInv, Released
  <2>4. ka = "none" /\ msg = "off" /\ evt = "off" /\ cap = "none"
    BY DEF IInv, Gone, Ending
  <2> QED BY <2>1, <2>3, <2>4
<1> QED BY Invariant, <1>1, PTL

(* The keepalive thread stops a handler only after Limit busy answers of   *)
(* it in a row since it was last restarted.                                *)
THEOREM BusyRowBeforeRestart == Spec => RestartsAfterBusyRow
<1>1. IInv /\ [Next]_vars => [ka = "stopping" /\ ka' = "restarting" => said[list[at]] = Limit]_vars
  BY DEF IInv, Rows
<1> QED BY Invariant, <1>1, PTL DEF Spec, RestartsAfterBusyRow
=============================================================================
