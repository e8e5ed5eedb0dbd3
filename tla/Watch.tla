------------------------------- MODULE Watch -------------------------------
(***************************************************************************)
(* The watchdog and the agent it watches.  The keepalive thread of the     *)
(* agent (Library/SAManager/keepalive.c) writes messages to a named pipe,  *)
(* the pipe thread of the watchdog puts them into a message queue and the  *)
(* watch thread (Application/WatchdogL/SAWatchdog.c) takes one per turn    *)
(* and restarts the service of an agent that fell silent.                  *)
(*                                                                         *)
(* Time passes in turns of the watch thread, 100 ms each.  The constants   *)
(* of the code are given in turns (Second) or in seconds (KeepaliveTime,   *)
(* which the watch thread compares with a difference of time(NULL)).       *)
(* The watchdog is the Linux one, where StartSrv of Global.c returns 0 or  *)
(* 1 and so never SERVICE_RUNNING: a restart is never taken for successful *)
(* and goes on until a START message is taken from the queue.              *)
(***************************************************************************)
EXTENDS Integers, Sequences, Functions

CONSTANTS
  Second,         \* turns of the watch thread in a second
  KeepaliveTime,  \* DEF_KEEPALIVE_TIME_S
  TryTimes,       \* DEF_KEEPALIVE_TRY_TIMES
  MaxBoot,        \* bound: turns from the start of the service to its pipe
  MaxLate,        \* bound: turns the keepalive thread may wake up late
  MaxStall        \* bound: turns the pipe thread may leave the pipe unread

ASSUME SecondAssumption == Second \in Nat \ {0}
ASSUME KeepaliveAssumption == KeepaliveTime \in Nat \ {0} /\ TryTimes \in Nat \ {0}
ASSUME BoundAssumption == MaxBoot \in Nat \ {0} /\ MaxLate \in Nat /\ MaxStall \in Nat

VARIABLES
  agent,    \* where the keepalive thread of the agent is, or how it ended
  timer,    \* turns until that thread wakes up, negative when it is late
  quit,     \* the service was told to stop: isThreadRunning is FALSE
  pipe,     \* messages in the named pipe
  stall,    \* turns since the pipe thread last found the pipe empty
  queue,    \* watchMsgQueue, a list under the lock watchMsgCS
  wd,       \* the watch thread: "turning", "stopping" or "starting"
  rest,     \* turns until its next turn
  isWatch,
  alarm,    \* isKeepaliveTryTimesOut
  misses,   \* notContinueKeepaliveCnt
  silence,  \* seconds between lastKeepaliveTime and now, at most KeepaliveTime
  phase     \* turn within the second of time(NULL)

agentVars == <<agent, timer, quit>>
pipeVars == <<pipe, stall>>
watchVars == <<wd, rest, isWatch, alarm, misses>>
clockVars == <<silence, phase>>
vars == <<agentVars, pipeVars, queue, watchVars, clockVars>>

Interval == 2 * Second  \* DEF_KEEPALIVE_INTERVAL_S
Pause == 2 * Second     \* the sleep after a restart that did not succeed

Down == {"stopped", "gone", "crashed"}  \* after a STOP message; on request; by itself
Asleep == {"boot", "greet", "settle", "sleep", "leaving"}
Messages == {"connect", "START", "KEEPALIVE", "STOP"}

Init ==
  /\ agent = "stopped" /\ timer = 0 /\ quit = FALSE
  /\ pipe = <<>> /\ stall = 0 /\ queue = <<>>
  /\ wd = "turning" /\ rest = 0
  /\ isWatch = FALSE /\ alarm = FALSE /\ misses = 0
  /\ silence = 0 /\ phase = 0

----------------------------------------------------------------------------
(* The agent.  A thread that sleeps wakes up at the end of its time or     *)
(* up to MaxLate turns later.                                              *)

Awake(place) == agent = place /\ timer <= 0

SleepsIn(place, turns) == agent' = place /\ timer' = turns

(* A write to the pipe is never refused: the watchdog has it open. *)
Send(msg) == pipe' = Append(pipe, msg) /\ UNCHANGED stall

(* Mutant: no sleep between the two messages. *)
ConnectInHaste ==
  /\ Awake("boot")
  /\ IF quit
     THEN SleepsIn("gone", 0) /\ UNCHANGED pipeVars
     ELSE SleepsIn("greet", 0) /\ Send("connect")
  /\ UNCHANGED <<quit, queue, watchVars, clockVars>>

(* The keepalive thread finds the pipe, or that it has to end. *)
Connect ==
  /\ Awake("boot")
  /\ IF quit
     THEN SleepsIn("gone", 0) /\ UNCHANGED pipeVars
     ELSE SleepsIn("greet", Second) /\ Send("connect")
  /\ UNCHANGED <<quit, queue, watchVars, clockVars>>

StartWatch ==
  /\ Awake("greet")
  /\ SleepsIn("settle", Second)
  /\ Send("START")
  /\ UNCHANGED <<quit, queue, watchVars, clockVars>>

(* CheckHandlerStatus has returned and the keepalive is sent. *)
BeatOnce ==
  /\ SleepsIn("sleep", Interval)
  /\ Send("KEEPALIVE")
  /\ UNCHANGED <<quit, queue, watchVars, clockVars>>

Keepalive == (Awake("settle") \/ Awake("sleep")) /\ ~quit /\ BeatOnce

(* A handler keeps CheckHandlerStatus from returning ... *)
Block ==
  /\ Awake("settle") \/ Awake("sleep")
  /\ ~quit
  /\ SleepsIn("blocked", 0)
  /\ UNCHANGED <<quit, pipeVars, queue, watchVars, clockVars>>

(* ... and may let it return after all. *)
Unblock == agent = "blocked" /\ BeatOnce

StopWatch ==
  /\ Awake("settle") \/ Awake("sleep")
  /\ quit
  /\ SleepsIn("leaving", Second)
  /\ Send("STOP")
  /\ UNCHANGED <<quit, queue, watchVars, clockVars>>

Leave ==
  /\ Awake("leaving")
  /\ SleepsIn("stopped", 0)
  /\ UNCHANGED <<quit, pipeVars, queue, watchVars, clockVars>>

AgentStep == Connect \/ StartWatch \/ Keepalive \/ Block \/ StopWatch \/ Leave

Crash ==
  /\ agent \notin Down
  /\ SleepsIn("crashed", 0)
  /\ UNCHANGED <<quit, pipeVars, queue, watchVars, clockVars>>

(* The service manager kills a service that was told to stop and does not. *)
Kill ==
  /\ agent = "blocked" /\ quit
  /\ SleepsIn("gone", 0)
  /\ UNCHANGED <<quit, pipeVars, queue, watchVars, clockVars>>

Boot == /\ agent' = "boot"
        /\ timer' \in 1 .. MaxBoot
        /\ quit' = FALSE

(* An operator, or the system, starts and stops the service. *)
OperatorStarts ==
  /\ agent \in Down
  /\ Boot
  /\ UNCHANGED <<pipeVars, queue, watchVars, clockVars>>

OperatorStops ==
  /\ agent \notin Down
  /\ quit' = TRUE
  /\ UNCHANGED <<agent, timer, pipeVars, queue, watchVars, clockVars>>

----------------------------------------------------------------------------
(* The watchdog. *)

Due == wd = "turning" /\ rest = 0

(* One read empties the pipe and only the first message in it is handled. *)
Read ==
  /\ pipe # <<>>
  /\ pipe' = <<>> /\ stall' = 0
  /\ queue' = IF Head(pipe) = "connect" THEN queue ELSE Append(queue, Head(pipe))
  /\ UNCHANGED <<agentVars, watchVars, clockVars>>

Taken == IF queue = <<>> THEN "none" ELSE Head(queue)

(* What a turn that takes msg makes of the time since the last keepalive. *)
Watching(msg) == msg = "START" \/ (isWatch /\ msg # "STOP")

(* Seconds since the last sign of life. *)
Gap(msg) == IF msg \in {"START", "KEEPALIVE"} THEN 0 ELSE silence

(* Mutants: a keepalive in time does not reset the count, each turn does. *)
MissedEver(msg) == IF Gap(msg) >= KeepaliveTime THEN misses + 1 ELSE misses
MissedNow(msg) == IF Gap(msg) >= KeepaliveTime THEN 1 ELSE 0

Missed(msg) == IF Gap(msg) >= KeepaliveTime THEN misses + 1 ELSE 0

(* Mutant: the count goes one further than its limit. *)
RaisedLate(msg) == Watching(msg) /\ Missed(msg) > TryTimes

Raised(msg) == Watching(msg) /\ Missed(msg) >= TryTimes

Alarmed(msg) == Raised(msg) \/ (alarm /\ msg # "START")

(* A turn of the watch thread.  With an alarm it asks for the status of    *)
(* the service, which is always "running", and stops it.                   *)
Turn ==
  /\ Due
  /\ LET msg == Taken IN
     /\ queue' = IF queue = <<>> THEN queue ELSE Tail(queue)
     /\ silence' = Gap(msg)
     /\ misses' = CASE ~Watching(msg) -> misses
                    [] Raised(msg) -> 0
                    [] OTHER -> Missed(msg)
     /\ isWatch' = (Watching(msg) /\ ~Raised(msg))
     /\ alarm' = Alarmed(msg)
     /\ IF Alarmed(msg)
        THEN wd' = "stopping" /\ quit' = (agent \notin Down) /\ UNCHANGED rest
        ELSE rest' = 1 /\ UNCHANGED <<wd, quit>>
  /\ UNCHANGED <<agent, timer, pipe, stall, phase>>

(* StopSrv returns when the service it stopped is down. *)
StopReturns ==
  /\ wd = "stopping" /\ (agent \in Down \/ ~quit)
  /\ wd' = "starting"
  /\ UNCHANGED <<agentVars, pipeVars, queue, rest, isWatch, alarm, misses, clockVars>>

(* StartSrv starts a service that is down; whatever it returns, the watch  *)
(* thread sleeps and tries again.                                          *)
StartService ==
  /\ wd = "starting"
  /\ IF agent \in Down THEN Boot ELSE UNCHANGED agentVars
  /\ wd' = "turning" /\ rest' = Pause + 1
  /\ UNCHANGED <<pipeVars, queue, isWatch, alarm, misses, clockVars>>

(* A turn of time passes.  The scripts return within a turn of the change  *)
(* they wait for.                                                          *)
Tick ==
  /\ ~Due /\ wd # "starting" /\ (wd = "stopping" => quit /\ agent \notin Down)
  /\ agent \in Asleep => timer > -MaxLate
  /\ pipe = <<>> \/ stall < MaxStall
  /\ timer' = IF agent \in Asleep THEN timer - 1 ELSE timer
  /\ stall' = IF pipe = <<>> THEN 0 ELSE stall + 1
  /\ rest' = IF rest > 0 THEN rest - 1 ELSE rest
  /\ phase' = (phase + 1) % Second
  /\ silence' = IF phase' = 0 /\ silence < KeepaliveTime THEN silence + 1 ELSE silence
  /\ UNCHANGED <<agent, quit, pipe, queue, wd, isWatch, alarm, misses>>

Restart == StopReturns \/ StartService

Next ==
  \/ AgentStep \/ Unblock \/ Crash \/ Kill
  \/ OperatorStarts \/ OperatorStops
  \/ Read \/ Turn \/ Restart \/ Tick

Spec == Init /\ [][Next]_vars

(* Time passes, every thread that is due runs, and the service manager     *)
(* starts, stops and kills.  Nothing promises that a handler returns, that *)
(* the agent crashes or that an operator acts.                             *)
FairSpec ==
  /\ Spec
  /\ WF_vars(Tick) /\ WF_vars(AgentStep) /\ WF_vars(Read) /\ WF_vars(Turn)
  /\ WF_vars(Restart) /\ WF_vars(Kill)

----------------------------------------------------------------------------
(* The types of the variables; a turn never leaves a count at its limit,   *)
(* and the watch thread does not watch a service it has to restart.        *)
WatchTypeOK ==
  /\ agent \in Asleep \cup Down \cup {"blocked"}
  /\ timer \in (-MaxLate) .. (Interval + MaxBoot)
  /\ quit \in BOOLEAN
  /\ pipe \in Seq(Messages) /\ stall \in 0 .. MaxStall
  /\ queue \in Seq(Messages \ {"connect"})
  /\ wd \in {"turning", "stopping", "starting"}
  /\ rest \in 0 .. Pause + 1
  /\ isWatch \in BOOLEAN /\ alarm \in BOOLEAN
  /\ misses \in 0 .. TryTimes - 1
  /\ silence \in 0 .. KeepaliveTime /\ phase \in 0 .. Second - 1
  /\ wd # "turning" => alarm
  /\ alarm => ~isWatch

(* The pipe thread handles only the first message of what it reads, so a   *)
(* message for the watch thread must not come second: the keepalive thread *)
(* sleeps before each of them, also after a crash and a restart.           *)
NothingOverlooked == \A i \in 2 .. Len(pipe) : pipe[i] = "connect"

(* An agent that is blocked, gone without a STOP, on its way up again      *)
(* after that, or whose message waits in the pipe.                         *)
Silent == agent \in {"blocked", "gone", "crashed", "boot", "greet"} \/ pipe # <<>>

(* The watch thread gives up only an agent that is really silent.  An      *)
(* agent that beats in time, or that said STOP and left, is never given    *)
(* up.                                                                     *)
NoFalseAlarm == [][~alarm /\ alarm' => Silent]_vars

Running == agent \in {"settle", "sleep"}

Protected == Running /\ isWatch /\ ~alarm

(* Every agent that stays up is watched in the end, although it sends its  *)
(* START only once (keepalive.c 253) and messages of its earlier runs are  *)
(* still in the queue when it comes.                                       *)
RunningIsWatched == <>[]Running => <>[]Protected

(* The agent is down or blocked, and the watch thread has found that out   *)
(* or has to: it watches and no STOP is on its way.                        *)
Abandoned ==
  /\ agent \in Down \cup {"blocked"}
  /\ alarm \/ (isWatch /\ "STOP" \notin Range(pipe \o queue))

Calm == <>[][~Crash /\ ~Block /\ ~OperatorStops]_vars

(* When it no longer crashes and operators leave it alone, an agent is not *)
(* left abandoned, nor abandoned again and again, without running under    *)
(* the eyes of the watchdog in between.                                    *)
Recovers == Calm /\ []<>Abandoned => []<>Protected
=============================================================================
