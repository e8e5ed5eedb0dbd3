---------------------------- MODULE WatchProofs ----------------------------
(***************************************************************************)
(* Proofs about the watchdog: the types of its variables; that no message  *)
(* for the watch thread is overlooked in the pipe when the pipe thread is  *)
(* never a second behind; and that an agent that beats in time is never    *)
(* given up in the exact world of MCWatch.                                 *)
(***************************************************************************)
EXTENDS MCWatch, SequenceTheorems, TLAPS

(* The constants are numbers, the speeds and limits positive ones. *)
LEMMA Bounds ==
  /\ Second \in Nat /\ Second > 0 /\ KeepaliveTime \in Nat /\ KeepaliveTime > 0
  /\ TryTimes \in Nat /\ TryTimes > 0 /\ MaxBoot \in Nat /\ MaxBoot > 0
  /\ MaxLate \in Nat /\ MaxStall \in Nat
BY SecondAssumption, KeepaliveAssumption, BoundAssumption

(* The head of a sequence is one of its elements. *)
LEMMA HeadOfSeq ==
  ASSUME NEW S, NEW s \in Seq(S), s # <<>>
  PROVE  Head(s) \in S
BY SMT

(* The only one is its last one. *)
LEMMA OneOfSeq ==
  ASSUME NEW S, NEW s \in Seq(S), s # <<>>, Tail(s) = <<>>
  PROVE  Head(s) = s[Len(s)]
<1>1. Len(s) \in Nat /\ Len(s) # 0 /\ Len(<<>>) = 0
  BY EmptySeq, LenProperties
<1>2. Len(Tail(s)) = Len(s) - 1
  BY HeadTailProperties
<1>3. Len(s) - 1 = 0
  BY <1>1, <1>2, Zenon
<1>4. Len(s) = 1
  BY <1>1, <1>3, SMT
<1> QED BY <1>4, SMT

(* The Boolean variables, which one prover handles, and the others. *)
Flags == quit \in BOOLEAN /\ isWatch \in BOOLEAN /\ alarm \in BOOLEAN

Rest ==
  /\ agent \in Asleep \cup Down \cup {"blocked"}
  /\ timer \in (-MaxLate) .. (Interval + MaxBoot)
  /\ pipe \in Seq(Messages) /\ stall \in 0 .. MaxStall
  /\ queue \in Seq(Messages \ {"connect"})
  /\ wd \in {"turning", "stopping", "starting"}
  /\ rest \in 0 .. Pause + 1
  /\ misses \in 0 .. TryTimes - 1
  /\ silence \in 0 .. KeepaliveTime /\ phase \in 0 .. Second - 1
  /\ wd # "turning" => alarm
  /\ alarm => ~isWatch

(* Initially all variables have their types. *)
LEMMA TypeInit == Init => WatchTypeOK
<1> SUFFICES ASSUME Init PROVE WatchTypeOK
  OBVIOUS
<1>1. Flags
  BY Zenon DEF Init, Flags
<1>2. Rest
  BY Bounds, SMT DEF Init, Rest, Messages, Down, Asleep, Pause, Interval
<1> QED BY <1>1, <1>2 DEF Flags, Rest, WatchTypeOK

(* Every step keeps the Boolean variables Boolean. *)
LEMMA FlagsStep == WatchTypeOK /\ [Next]_vars => Flags'
<1> SUFFICES ASSUME WatchTypeOK, [Next]_vars PROVE Flags'
  OBVIOUS
<1> USE DEF WatchTypeOK, Flags, agentVars, pipeVars, watchVars, clockVars, Send
<1>1. CASE Connect BY <1>1, Zenon DEF Connect
<1>2. CASE StartWatch BY <1>2, Zenon DEF StartWatch
<1>3. CASE Keepalive BY <1>3, Zenon DEF Keepalive, BeatOnce
<1>4. CASE Block BY <1>4, Zenon DEF Block
<1>5. CASE Unblock BY <1>5, Zenon DEF Unblock, BeatOnce
<1>6. CASE StopWatch BY <1>6, Zenon DEF StopWatch
<1>7. CASE Leave BY <1>7, Zenon DEF Leave
<1>8. CASE Crash BY <1>8, Zenon DEF Crash
<1>9. CASE Kill BY <1>9, Zenon DEF Kill
<1>10. CASE OperatorStarts BY <1>10, Zenon DEF OperatorStarts, Boot
<1>11. CASE OperatorStops BY <1>11, Zenon DEF OperatorStops
<1>12. CASE Read BY <1>12, Zenon DEF Read
<1>13. CASE StopReturns BY <1>13, Zenon DEF StopReturns
<1>14. CASE StartService BY <1>14, Zenon DEF StartService, Boot
<1>15. CASE Tick BY <1>15, Zenon DEF Tick
<1>16. CASE Turn
  <2>1. quit' \in BOOLEAN
    BY <1>16, Zenon DEF Turn
  <2>2. isWatch' \in BOOLEAN /\ alarm' \in BOOLEAN
    BY <1>16, Zenon DEF Turn, Alarmed
  <2> QED BY <2>1, <2>2
<1>17. CASE UNCHANGED vars BY <1>17 DEF vars
<1> QED BY <1>1, <1>2, <1>3, <1>4, <1>5, <1>6, <1>7, <1>8, <1>9, <1>10, <1>11, <1>12,
           <1>13, <1>14, <1>15, <1>16, <1>17 DEF Next, AgentStep, Restart

(* Every step keeps the other variables in their ranges. *)
LEMMA RestStep == WatchTypeOK /\ [Next]_vars => Rest'
<1> SUFFICES ASSUME WatchTypeOK, [Next]_vars PROVE Rest'
  OBVIOUS
<1> USE Bounds DEF WatchTypeOK, Rest, Messages, Down, Asleep, Pause, Interval,
                   agentVars, pipeVars, watchVars, clockVars, SleepsIn, Send, Awake
<1>1. CASE Connect
  <2>1. CASE quit BY <1>1, <2>1, SMT DEF Connect
  <2>2. CASE ~quit BY <1>1, <2>2, SMT DEF Connect
  <2> QED BY <2>1, <2>2
<1>2. CASE StartWatch BY <1>2, SMT DEF StartWatch
<1>3. CASE Keepalive BY <1>3, SMT DEF Keepalive, BeatOnce
<1>4. CASE Block BY <1>4, SMT DEF Block
<1>5. CASE Unblock BY <1>5, SMT DEF Unblock, BeatOnce
<1>6. CASE StopWatch BY <1>6, SMT DEF StopWatch
<1>7. CASE Leave BY <1>7, SMT DEF Leave
<1>8. CASE Crash BY <1>8, SMT DEF Crash
<1>9. CASE Kill BY <1>9, SMT DEF Kill
<1>10. CASE OperatorStarts BY <1>10, SMT DEF OperatorStarts, Boot
<1>11. CASE OperatorStops BY <1>11, SMT DEF OperatorStops
<1>12. CASE Read BY <1>12, SMT DEF Read
<1>13. CASE StopReturns BY <1>13, SMT DEF StopReturns
<1>14. CASE StartService BY <1>14, SMT DEF StartService, Boot
<1>15. CASE Tick BY <1>15, SMT DEF Tick
<1>16. CASE Turn
  <2>1. /\ agent' \in Asleep \cup Down \cup {"blocked"}
        /\ timer' \in (-MaxLate) .. (Interval + MaxBoot)
        /\ pipe' \in Seq(Messages) /\ stall' \in 0 .. MaxStall
        /\ phase' \in 0 .. Second - 1
    BY <1>16, SMT DEF Turn
  <2>2. queue' \in Seq(Messages \ {"connect"})
    <3>1. queue' = IF queue = <<>> THEN queue ELSE Tail(queue)
      BY <1>16, Zenon DEF Turn
    <3> QED BY <3>1, SMT
  <2>3. wd' \in {"turning", "stopping", "starting"} /\ rest' \in 0 .. Pause + 1
    <3>1. CASE Alarmed(Taken)
      <4>1. wd' = "stopping" /\ rest' = rest BY <1>16, <3>1, Zenon DEF Turn
      <4> QED BY <4>1, SMT
    <3>2. CASE ~Alarmed(Taken)
      <4>1. wd' = wd /\ rest' = 1 BY <1>16, <3>2, Zenon DEF Turn
      <4> QED BY <4>1, SMT
    <3> QED BY <3>1, <3>2
  <2>4. silence' \in 0 .. KeepaliveTime
    BY <1>16, SMT DEF Turn, Gap
  <2>5. misses' \in 0 .. TryTimes - 1
    <3>1. Missed(Taken) \in Nat
      BY SMT DEF Missed
    <3>2. misses' = CASE ~Watching(Taken) -> misses
                      [] Raised(Taken) -> 0
                      [] OTHER -> Missed(Taken)
      BY <1>16, Zenon DEF Turn
    <3>3. Watching(Taken) /\ ~Raised(Taken) => Missed(Taken) < TryTimes
      BY <3>1, SMT DEF Raised
    <3>4. Raised(Taken) => Watching(Taken)
      BY DEF Raised
    <3>5. misses' = misses \/ misses' = 0 \/ (misses' = Missed(Taken) /\ Missed(Taken) < TryTimes)
      BY <3>2, <3>3, <3>4, Zenon
    <3> QED BY <3>1, <3>5, SMT
  <2>6. (wd' # "turning" => alarm') /\ (alarm' => ~isWatch')
    <3>1. wd' # "turning" => Alarmed(Taken)
      BY <1>16, Zenon DEF Turn, Due
    <3>2. alarm' = Alarmed(Taken) /\ isWatch' = (Watching(Taken) /\ ~Raised(Taken))
      BY <1>16, Zenon DEF Turn
    <3>3. Alarmed(Taken) => ~(Watching(Taken) /\ ~Raised(Taken))
      BY Zenon DEF Alarmed, Watching
    <3> QED BY <3>1, <3>2, <3>3, Zenon
  <2> QED BY <2>1, <2>2, <2>3, <2>4, <2>5, <2>6
<1>17. CASE UNCHANGED vars BY <1>17 DEF vars
<1> QED BY <1>1, <1>2, <1>3, <1>4, <1>5, <1>6, <1>7, <1>8, <1>9, <1>10, <1>11, <1>12,
           <1>13, <1>14, <1>15, <1>16, <1>17 DEF Next, AgentStep, Restart

(* Every step keeps the types. *)
LEMMA TypeStep == WatchTypeOK /\ [Next]_vars => WatchTypeOK'
BY FlagsStep, RestStep DEF Flags, Rest, WatchTypeOK

(* The variables of the watchdog and of the agent keep their types.        *)
THEOREM TypeCorrect == Spec => []WatchTypeOK
BY TypeInit, TypeStep, PTL DEF Spec

----------------------------------------------------------------------------
(* A thread that will send again sleeps at least until the pipe thread has *)
(* read what it sent: its sleep and the delay of the pipe thread make up a *)
(* second between them.  A blocked thread has found the pipe read.         *)
Spaced ==
  /\ pipe # <<>> /\ agent \in {"greet", "settle", "sleep", "leaving"}
       => timer + stall >= Second
  /\ agent = "blocked" => pipe = <<>>

SpacedInv == WatchTypeOK /\ Spaced /\ NothingOverlooked

(* Every step keeps the messages spaced and none of them overlooked. *)
LEMMA SpacedStep ==
  ASSUME MaxStall < Second, SpacedInv, [Next]_vars
  PROVE  Spaced' /\ NothingOverlooked'
<1> USE Bounds DEF SpacedInv, Spaced, NothingOverlooked, WatchTypeOK, Messages,
                   Down, Asleep, Interval, agentVars, pipeVars, SleepsIn, Send, Awake
<1>0. /\ timer \in Int /\ stall \in Nat /\ stall <= MaxStall
      /\ pipe \in Seq(Messages)
  BY SMT
<1>1. CASE Connect
  <2>1. CASE quit BY <1>0, <1>1, <2>1, SMT DEF Connect
  <2>2. CASE ~quit BY <1>0, <1>1, <2>2, SMT DEF Connect
  <2> QED BY <2>1, <2>2
<1>2. ASSUME Awake("greet") \/ Awake("settle") \/ Awake("sleep") PROVE pipe = <<>>
  BY <1>0, <1>2, SMT
<1>3. CASE StartWatch BY <1>0, <1>2, <1>3, SMT DEF StartWatch
<1>4. CASE Keepalive BY <1>0, <1>2, <1>4, SMT DEF Keepalive, BeatOnce
<1>5. CASE Block BY <1>0, <1>2, <1>5, SMT DEF Block
<1>6. CASE Unblock BY <1>0, <1>6, SMT DEF Unblock, BeatOnce
<1>7. CASE StopWatch BY <1>0, <1>2, <1>7, SMT DEF StopWatch
<1>8. CASE Leave BY <1>0, <1>8, SMT DEF Leave
<1>9. CASE Crash BY <1>0, <1>9, SMT DEF Crash
<1>10. CASE Kill BY <1>0, <1>10, SMT DEF Kill
<1>11. CASE OperatorStarts BY <1>0, <1>11, SMT DEF OperatorStarts, Boot
<1>12. CASE OperatorStops BY <1>0, <1>12, SMT DEF OperatorStops
<1>13. CASE Read BY <1>0, <1>13, SMT DEF Read
<1>14. CASE Turn BY <1>0, <1>14, SMT DEF Turn
<1>15. CASE StopReturns BY <1>0, <1>15, SMT DEF StopReturns
<1>16. CASE StartService BY <1>0, <1>16, SMT DEF StartService, Boot
<1>17. CASE Tick BY <1>0, <1>17, SMT DEF Tick
<1>18. CASE UNCHANGED vars BY <1>18 DEF vars
<1> QED BY <1>1, <1>3, <1>4, <1>5, <1>6, <1>7, <1>8, <1>9, <1>10, <1>11, <1>12,
           <1>13, <1>14, <1>15, <1>16, <1>17, <1>18 DEF Next, AgentStep, Restart

(* While the pipe thread is never a second behind, no message for the      *)
(* watch thread comes second in what one read takes from the pipe.         *)
THEOREM NothingIsOverlooked ==
  ASSUME MaxStall < Second
  PROVE  Spec => []NothingOverlooked
<1>1. Init => SpacedInv
  BY TypeInit, SMT DEF Init, SpacedInv, Spaced, NothingOverlooked
<1>2. SpacedInv /\ [Next]_vars => SpacedInv'
  BY TypeStep, SpacedStep DEF SpacedInv
<1>3. SpacedInv => NothingOverlooked
  BY DEF SpacedInv
<1> QED BY <1>1, <1>2, <1>3, PTL DEF Spec

----------------------------------------------------------------------------
(* False alarms *)

Signs == {"START", "KEEPALIVE"}

(* What an agent that runs, or that has said STOP, sent last. *)
SentLast(msg) ==
  /\ agent \in {"settle", "sleep"} => msg \in Signs
  /\ agent \in {"leaving", "stopped"} => msg = "STOP"

(* Turns since a running agent sent that. *)
Elapsed == (IF agent = "settle" THEN Second ELSE Interval) - timer

(* A read comes before the next message. *)
Punctual ==
  /\ stall = 0
  /\ pipe # <<>> /\ agent \in {"greet", "settle", "sleep", "leaving"} => timer >= Second
  /\ agent = "blocked" => pipe = <<>>
  /\ agent = "settle" => timer <= Second
  /\ agent = "sleep" => timer <= Interval
  /\ isWatch => rest <= 1

(* The last message is in the pipe, or it is the last one in the queue. *)
LastUnderWay ==
  /\ pipe # <<>> => SentLast(Head(pipe))
  /\ pipe = <<>> /\ queue # <<>> => SentLast(queue[Len(queue)])

(* Or it was taken, not before it was sent: the seconds without a sign of  *)
(* life began after that, and the turns that missed one came after those.  *)
LastTaken ==
  pipe = <<>> /\ queue = <<>> /\ isWatch =>
    /\ agent \notin {"leaving", "stopped"}
    /\ agent \in {"settle", "sleep"} =>
         /\ Elapsed >= 0
         /\ silence = KeepaliveTime - 2 => Elapsed > phase
         /\ silence = KeepaliveTime - 1 => Elapsed > Second + phase
         /\ silence = KeepaliveTime => Elapsed > 2 * Second
         /\ misses > 0 => Elapsed > 2 * Second + misses - rest

AlarmInv == Punctual /\ LastUnderWay /\ LastTaken

(* The turns that pass in the exact world. *)
LEMMA SecondsPass ==
  ASSUME WatchTypeOK, Tick
  PROVE  /\ phase' = IF phase + 1 = Second THEN 0 ELSE phase + 1
         /\ silence' = IF phase' = 0 /\ silence < KeepaliveTime THEN silence + 1 ELSE silence
<1>1. phase \in 0 .. Second - 1 /\ Second \in Nat /\ Second > 0
  BY Bounds DEF WatchTypeOK
<1>2. phase + 1 = Second => (phase + 1) % Second = 0
  BY <1>1, SMT
<1>3. phase + 1 # Second => (phase + 1) % Second = phase + 1
  BY <1>1, SMT
<1> QED BY <1>2, <1>3, SMT DEF Tick

LEMMA PunctualStep ==
  ASSUME WatchTypeOK, Punctual, [Next]_vars, stall' = 0
  PROVE  Punctual'
<1> DEFINE Times ==
      /\ pipe # <<>> /\ agent \in {"greet", "settle", "sleep", "leaving"} => timer >= Second
      /\ agent = "blocked" => pipe = <<>>
      /\ agent = "settle" => timer <= Second
      /\ agent = "sleep" => timer <= Interval
<1>r. (isWatch => rest <= 1)'
  <2>1. CASE UNCHANGED <<isWatch, rest>>
    BY <2>1 DEF Punctual
  <2>2. CASE Turn
    <3>1. isWatch' = (Watching(Taken) /\ ~Raised(Taken))
      BY <2>2, Zenon DEF Turn
    <3>2. Watching(Taken) /\ ~Raised(Taken) => ~Alarmed(Taken)
      BY Zenon DEF Watching, Alarmed, WatchTypeOK
    <3>3. ~Alarmed(Taken) => rest' = 1
      BY <2>2, Zenon DEF Turn
    <3>4. isWatch' => rest' = 1
      BY <3>1, <3>2, <3>3, Zenon
    <3> QED BY <3>4, SMT
  <2>3. CASE StartService
    <3>1. ~isWatch'
      BY <2>3, Zenon DEF StartService, WatchTypeOK
    <3> QED BY <3>1
  <2>4. CASE Tick
    <3>1. isWatch' = isWatch
      BY <2>4, Zenon DEF Tick
    <3>2. rest \in Nat /\ rest' = IF rest > 0 THEN rest - 1 ELSE rest
      BY <2>4, Bounds, SMT DEF Tick, WatchTypeOK
    <3> QED BY <3>1, <3>2 DEF Punctual
  <2> QED BY <2>1, <2>2, <2>3, <2>4, Zenon
          DEF Next, AgentStep, Restart, Connect, StartWatch, Keepalive, BeatOnce, Block,
              Unblock, StopWatch, Leave, Crash, Kill, OperatorStarts, OperatorStops, Read,
              StopReturns, vars, watchVars
<1>s. Times'
  <2> USE Bounds DEF Punctual, WatchTypeOK, Messages, Down, Asleep, Interval, agentVars,
                     pipeVars, SleepsIn, Send, Awake
  <2>0. /\ timer \in Int /\ stall = 0 /\ pipe \in Seq(Messages) /\ Times
    BY SMT
  <2>1. CASE Connect
    <3>1. CASE quit BY <2>0, <2>1, <3>1, SMT DEF Connect
    <3>2. CASE ~quit BY <2>0, <2>1, <3>2, SMT DEF Connect
    <3> QED BY <3>1, <3>2
  <2>2. CASE StartWatch BY <2>0, <2>2, SMT DEF StartWatch
  <2>3. CASE Keepalive BY <2>0, <2>3, SMT DEF Keepalive, BeatOnce
  <2>4. CASE Block BY <2>0, <2>4, SMT DEF Block
  <2>5. CASE Unblock BY <2>0, <2>5, SMT DEF Unblock, BeatOnce
  <2>6. CASE StopWatch BY <2>0, <2>6, SMT DEF StopWatch
  <2>7. CASE Leave BY <2>0, <2>7, SMT DEF Leave
  <2>8. CASE Crash BY <2>0, <2>8, SMT DEF Crash
  <2>9. CASE Kill BY <2>0, <2>9, SMT DEF Kill
  <2>10. CASE OperatorStarts BY <2>0, <2>10, SMT DEF OperatorStarts, Boot
  <2>11. CASE OperatorStops BY <2>0, <2>11, SMT DEF OperatorStops
  <2>12. CASE Read BY <2>0, <2>12, SMT DEF Read
  <2>13. CASE Turn BY <2>0, <2>13, SMT DEF Turn
  <2>14. CASE StopReturns BY <2>0, <2>14, SMT DEF StopReturns
  <2>15. CASE StartService BY <2>0, <2>15, SMT DEF StartService, Boot
  <2>16. CASE Tick BY <2>0, <2>16, SMT DEF Tick
  <2>17. CASE UNCHANGED vars BY <2>0, <2>17 DEF vars
  <2> QED BY <2>1, <2>2, <2>3, <2>4, <2>5, <2>6, <2>7, <2>8, <2>9, <2>10, <2>11, <2>12,
             <2>13, <2>14, <2>15, <2>16, <2>17 DEF Next, AgentStep, Restart
<1> QED BY <1>r, <1>s DEF Punctual

(* Whoever writes finds the pipe empty; a read hands on the first message. *)
LEMMA UnderWayStep ==
  ASSUME WatchTypeOK, Punctual, LastUnderWay, [Next]_vars
  PROVE  LastUnderWay'
<1> USE Bounds DEF LastUnderWay, SentLast, Signs, Punctual, WatchTypeOK, Messages, Down,
                   Asleep, Interval, agentVars, pipeVars, SleepsIn, Send, Awake
<1>0. /\ timer \in Int /\ pipe \in Seq(Messages) /\ queue \in Seq(Messages \ {"connect"})
  BY SMT
<1>1. CASE Connect
  <2>1. CASE quit BY <1>0, <1>1, <2>1, SMT DEF Connect
  <2>2. CASE ~quit BY <1>0, <1>1, <2>2, SMT DEF Connect
  <2> QED BY <2>1, <2>2
<1>2. CASE StartWatch BY <1>0, <1>2, SMT DEF StartWatch
<1>3. CASE Keepalive BY <1>0, <1>3, SMT DEF Keepalive, BeatOnce
<1>4. CASE Block BY <1>0, <1>4, SMT DEF Block
<1>5. CASE Unblock BY <1>0, <1>5, SMT DEF Unblock, BeatOnce
<1>6. CASE StopWatch BY <1>0, <1>6, SMT DEF StopWatch
<1>7. CASE Leave BY <1>0, <1>7, SMT DEF Leave
<1>8. CASE Crash BY <1>0, <1>8, SMT DEF Crash
<1>9. CASE Kill BY <1>0, <1>9, SMT DEF Kill
<1>10. CASE OperatorStarts BY <1>0, <1>10, SMT DEF OperatorStarts, Boot
<1>11. CASE OperatorStops BY <1>0, <1>11, SMT DEF OperatorStops
<1>12. CASE Read
  <2>1. UNCHANGED agent /\ pipe # <<>> /\ pipe' = <<>>
    BY <1>12, SMT DEF Read
  <2>2. CASE Head(pipe) = "connect"
    BY <1>0, <1>12, <2>1, <2>2, SMT DEF Read
  <2>3. CASE Head(pipe) # "connect"
    <3>1. queue' = Append(queue, Head(pipe))
      BY <1>12, <2>3, Zenon DEF Read
    <3>2. queue'[Len(queue')] = Head(pipe)
      BY <1>0, <3>1, SMT
    <3> QED BY <2>1, <3>2, SMT
  <2> QED BY <2>2, <2>3
<1>13. CASE Turn
  <2>1. /\ UNCHANGED <<agent, pipe>>
        /\ queue' = IF queue = <<>> THEN queue ELSE Tail(queue)
    BY <1>13, Zenon DEF Turn
  <2>2. queue' # <<>> => queue # <<>> /\ queue'[Len(queue')] = queue[Len(queue)]
    BY <1>0, <2>1, SMT
  <2> QED BY <2>1, <2>2, SMT
<1>14. CASE StopReturns BY <1>0, <1>14, SMT DEF StopReturns
<1>15. CASE StartService BY <1>0, <1>15, SMT DEF StartService, Boot
<1>16. CASE Tick BY <1>0, <1>16, SMT DEF Tick
<1>17. CASE UNCHANGED vars BY <1>0, <1>17 DEF vars
<1> QED BY <1>1, <1>2, <1>3, <1>4, <1>5, <1>6, <1>7, <1>8, <1>9, <1>10, <1>11, <1>12,
           <1>13, <1>14, <1>15, <1>16, <1>17 DEF Next, AgentStep, Restart

(* A message other than STOP that is taken while the agent is watched      *)
(* clears the count, a STOP ends the watch.                                *)
LEMMA MessageTaken ==
  ASSUME WatchTypeOK, Turn, queue # <<>>
  PROVE  /\ Taken = "STOP" => ~isWatch'
         /\ Taken \in Signs => silence' = 0
         /\ Taken \in Signs /\ isWatch' => misses' = 0
<1>1. isWatch' = (Watching(Taken) /\ ~Raised(Taken)) /\ silence' = Gap(Taken)
  BY Zenon DEF Turn
<1>2. Taken = "STOP" => ~Watching(Taken)
  BY Zenon DEF Watching
<1>3. Taken \in Signs => Gap(Taken) = 0
  BY Zenon DEF Gap, Signs
<1>4. Taken \in Signs => Missed(Taken) = 0
  BY <1>3, Bounds, SMT DEF Missed
<1>5. Watching(Taken) /\ ~Raised(Taken) => misses' = Missed(Taken)
  BY Zenon DEF Turn
<1> QED BY <1>1, <1>2, <1>3, <1>4, <1>5, Zenon

(* A turn without a message adds one to the count, or clears it. *)
LEMMA NothingTaken ==
  ASSUME WatchTypeOK, Turn, queue = <<>>, isWatch'
  PROVE  /\ isWatch /\ silence' = silence /\ rest = 0 /\ rest' = 1
         /\ misses' = IF silence = KeepaliveTime THEN misses + 1 ELSE 0
<1>1. Taken = "none" /\ rest = 0
  BY Zenon DEF Taken, Turn, Due
<1>2. isWatch' = (Watching("none") /\ ~Raised("none")) /\ silence' = Gap("none")
  BY <1>1, Zenon DEF Turn
<1>3. isWatch /\ ~alarm /\ ~Alarmed("none")
  BY <1>2, Zenon DEF Watching, Alarmed, WatchTypeOK
<1>4. Gap("none") = silence
  BY Zenon DEF Gap
<1>5. misses' = Missed("none") /\ rest' = 1
  BY <1>1, <1>2, <1>3, Zenon DEF Turn
<1>6. silence \in 0 .. KeepaliveTime
  BY DEF WatchTypeOK
<1>7. Missed("none") = IF silence = KeepaliveTime THEN misses + 1 ELSE 0
  BY <1>4, <1>6, Bounds, SMT DEF Missed
<1> QED BY <1>1, <1>2, <1>3, <1>4, <1>5, <1>7, Zenon

(* The seconds without a sign of life and the turns that missed one fit    *)
(* into the time since the agent sent its last message.                    *)
LEMMA TakenStep ==
  ASSUME KeepaliveTime >= 3, WatchTypeOK, Punctual, LastUnderWay, LastTaken,
         [Next]_vars, stall' = 0
  PROVE  LastTaken'
<1> SUFFICES ASSUME pipe' = <<>>, queue' = <<>>, isWatch' PROVE LastTaken'
  BY DEF LastTaken
<1> USE Bounds
<1>0. /\ timer \in Int /\ phase \in 0 .. Second - 1 /\ silence \in 0 .. KeepaliveTime
      /\ misses \in 0 .. TryTimes - 1 /\ rest \in 0 .. Pause + 1
      /\ pipe \in Seq(Messages) /\ queue \in Seq(Messages \ {"connect"})
  BY SMT DEF WatchTypeOK, Messages
<1>1. CASE Turn
  <2>1. UNCHANGED <<agent, timer, pipe, phase>>
    BY <1>1, Zenon DEF Turn
  <2>2. CASE queue # <<>>
    <3>1. Taken = queue[Len(queue)] /\ pipe = <<>>
      <4>1. queue' = Tail(queue) /\ Taken = Head(queue)
        BY <1>1, <2>2, Zenon DEF Turn, Taken
      <4>2. Head(queue) = queue[Len(queue)]
        BY <1>0, <2>2, <4>1, OneOfSeq
      <4> QED BY <2>1, <4>1, <4>2
    <3>2. SentLast(Taken)
      BY <2>2, <3>1 DEF LastUnderWay
    <3>3. agent \notin {"leaving", "stopped"}
      BY <1>1, <2>2, <3>2, MessageTaken DEF SentLast
    <3>4. agent \in {"settle", "sleep"} => silence' = 0 /\ misses' = 0
      BY <1>1, <2>2, <3>2, MessageTaken DEF SentLast
    <3>5. agent \in {"settle", "sleep"} => Elapsed' >= 0
      BY <1>0, <2>1, SMT DEF Punctual, Elapsed, Interval
    <3> QED BY <1>0, <2>1, <3>3, <3>4, <3>5, SMT DEF LastTaken
  <2>3. CASE queue = <<>>
    <3>1. /\ isWatch /\ silence' = silence /\ rest = 0 /\ rest' = 1
          /\ misses' = IF silence = KeepaliveTime THEN misses + 1 ELSE 0
      BY <1>1, <2>3, NothingTaken
    <3>2. Elapsed' = Elapsed /\ Elapsed \in Int
      BY <1>0, <2>1, SMT DEF Elapsed, Interval
    <3> QED BY <1>0, <2>1, <2>3, <3>1, <3>2, SMT DEF LastTaken
  <2> QED BY <2>2, <2>3
<1>2. CASE Tick
  <2>1. /\ UNCHANGED <<agent, pipe, queue, isWatch, misses>>
    BY <1>2, Zenon DEF Tick
  <2>2. agent \in {"settle", "sleep"} => timer' = timer - 1
    BY <1>2, SMT DEF Tick, Asleep
  <2>3. agent \in {"settle", "sleep"} => Elapsed' = Elapsed + 1 /\ Elapsed \in Int
    BY <1>0, <2>1, <2>2, SMT DEF Elapsed, Interval
  <2>4. rest > 0 => rest' = rest - 1
    BY <1>2, SMT DEF Tick
  <2>5. rest = 1 /\ rest' = 0
    <3>1. isWatch /\ ~alarm /\ wd = "turning"
      BY <2>1, Zenon DEF WatchTypeOK
    <3>2. rest # 0 /\ rest <= 1
      BY <1>2, <3>1, Zenon DEF Tick, Due, Punctual
    <3> QED BY <1>0, <2>4, <3>2, SMT
  <2>6. /\ phase' = IF phase + 1 = Second THEN 0 ELSE phase + 1
        /\ silence' = IF phase' = 0 /\ silence < KeepaliveTime THEN silence + 1
                                                               ELSE silence
    BY <1>2, SecondsPass
  <2> QED BY <1>0, <2>1, <2>3, <2>5, <2>6, SMT DEF LastTaken
<1>3. CASE Read
  <2>1. agent' = agent /\ isWatch' = isWatch /\ pipe # <<>>
    BY <1>3, Zenon DEF Read, agentVars, watchVars
  <2>2. queue = <<>> /\ Head(pipe) = "connect"
    <3>1. queue' = queue \/ queue' = Append(queue, Head(pipe))
      BY <1>3, Zenon DEF Read
    <3>2. queue' # Append(queue, Head(pipe))
      BY <1>0, SMT
    <3> QED BY <1>3, <3>1, <3>2, Zenon DEF Read
  <2>3. SentLast("connect")
    BY <2>1, <2>2 DEF LastUnderWay
  <2> QED BY <2>1, <2>3 DEF SentLast, Signs, LastTaken
<1>4. CASE \/ Connect \/ StartWatch \/ Keepalive \/ Block \/ Unblock \/ StopWatch \/ Leave
           \/ Crash \/ Kill \/ OperatorStarts
  <2>1. isWatch' = isWatch /\ queue' = queue
    BY <1>4, Zenon DEF Connect, StartWatch, Keepalive, BeatOnce, Block, Unblock, StopWatch,
       Leave, Crash, Kill, OperatorStarts, Boot, watchVars
  <2>2. ~StartWatch /\ ~Keepalive /\ ~Unblock /\ ~StopWatch
    <3>1. \A msg \in Messages : ~Send(msg)
      <4>1. \A msg \in Messages : Append(pipe, msg) # <<>>
        BY <1>0, AppendProperties
      <4> QED BY <4>1, Zenon DEF Send
    <3> QED BY <3>1, Zenon DEF StartWatch, Keepalive, BeatOnce, Unblock, StopWatch, Messages
  <2>3. /\ agent' \in {"gone", "greet", "blocked", "crashed", "boot", "stopped"}
        /\ agent' = "stopped" => agent = "leaving" /\ pipe' = pipe
    <3>1. CASE Leave
      BY <3>1, Zenon DEF Leave, Awake, SleepsIn, pipeVars
    <3>2. CASE Connect
      BY <3>2, Zenon DEF Connect, SleepsIn
    <3>3. CASE Block \/ Crash \/ Kill \/ OperatorStarts
      BY <3>3, Zenon DEF Block, Crash, Kill, OperatorStarts, Boot, SleepsIn
    <3> QED BY <1>4, <2>2, <3>1, <3>2, <3>3
  <2> QED BY <2>1, <2>3 DEF LastTaken
<1>5. CASE OperatorStops \/ StopReturns \/ UNCHANGED vars
  <2>1. UNCHANGED <<agent, timer, pipe, queue, isWatch, silence, misses, rest, phase>>
    BY <1>5, Zenon DEF OperatorStops, StopReturns, vars, agentVars, pipeVars, watchVars,
       clockVars
  <2> QED BY <2>1 DEF LastTaken, Elapsed
<1>6. ~StartService
  BY Zenon DEF StartService, WatchTypeOK
<1> QED BY <1>1, <1>2, <1>3, <1>4, <1>5, <1>6 DEF Next, AgentStep, Restart

(* When the pipe is read at once, a keepalive thread that oversleeps by    *)
(* fewer turns than make an alarm is never taken for a silent one          *)
(* (ExactNoFalseAlarm): the alarm needs the third second without a message *)
(* and TryTimes turns in it, and two keepalives are two seconds and the    *)
(* delay apart.                                                            *)
THEOREM NoFalseAlarms ==
  ASSUME KeepaliveTime >= 3, MaxLate < TryTimes
  PROVE  MCSpec => ExactNoFalseAlarm
<1> DEFINE IInv == WatchTypeOK /\ (exact => AlarmInv)
<1>1. MCInit => IInv
  <2> SUFFICES ASSUME MCInit PROVE IInv
    OBVIOUS
  <2>1. WatchTypeOK
    BY TypeInit DEF MCInit
  <2>2. ~isWatch
    BY Zenon DEF MCInit, Init
  <2>3. stall = 0 /\ pipe = <<>> /\ queue = <<>> /\ agent = "stopped"
    BY Zenon DEF MCInit, Init
  <2> QED BY <2>1, <2>2, <2>3 DEF AlarmInv, Punctual, LastUnderWay, LastTaken
<1>2. IInv /\ [MCNext]_<<vars, exact>> => IInv'
  <2> SUFFICES ASSUME IInv, [MCNext]_<<vars, exact>> PROVE IInv'
    OBVIOUS
  <2>1. WatchTypeOK'
    BY TypeStep, Zenon DEF MCNext
  <2> SUFFICES ASSUME exact' PROVE AlarmInv'
    BY <2>1
  <2>2. exact /\ [Next]_vars
    BY Zenon DEF MCNext
  <2>3. stall' = 0
    <3>1. CASE MCNext
      BY <2>2, <3>1, Zenon DEF MCNext
    <3>2. CASE UNCHANGED vars
      BY <2>2, <3>2, Zenon DEF vars, pipeVars, AlarmInv, Punctual
    <3> QED BY <3>1, <3>2, Zenon
  <2> QED BY <2>2, <2>3, PunctualStep, UnderWayStep, TakenStep, Zenon DEF AlarmInv
<1>3. IInv /\ [MCNext]_<<vars, exact>> => [exact /\ ~alarm /\ alarm' => Silent]_vars
  <2> SUFFICES ASSUME IInv, MCNext, exact, ~alarm, alarm', ~Silent PROVE FALSE
    BY Zenon
  <2>1. Turn
    <3>1. alarm' # alarm
      OBVIOUS
    <3> QED BY <3>1, Zenon DEF MCNext, Next, AgentStep, Restart, Connect, StartWatch,
         Keepalive, BeatOnce, Block, Unblock, StopWatch, Leave, Crash, Kill, OperatorStarts,
         OperatorStops, Boot, Read, StopReturns, StartService, Tick, watchVars
  <2>2. Watching(Taken) /\ Missed(Taken) >= TryTimes /\ rest = 0
    BY <2>1, Zenon DEF Turn, Due, Alarmed, Raised
  <2>3. silence >= KeepaliveTime /\ misses + 1 >= TryTimes /\ Taken \notin Signs
    BY <2>2, Bounds, SMT DEF Missed, Gap, Signs
  <2>4. queue = <<>> /\ isWatch
    <3>1. queue # <<>> => Taken \in Signs \cup {"STOP"}
      BY HeadOfSeq, SMT DEF Taken, WatchTypeOK, Messages, Signs
    <3> QED BY <2>2, <2>3, <3>1, Zenon DEF Watching, Signs
  <2>5. pipe = <<>> /\ agent \in {"settle", "sleep", "leaving", "stopped"}
    BY SMT DEF Silent, WatchTypeOK, Asleep, Down
  <2>6. /\ agent \in {"settle", "sleep"} /\ Elapsed > 2 * Second
        /\ misses > 0 => Elapsed > 2 * Second + misses
    <3>1. silence = KeepaliveTime
      BY <2>3, Bounds, SMT DEF WatchTypeOK
    <3>2. LastTaken
      BY Zenon DEF AlarmInv
    <3> QED BY <2>2, <2>4, <2>5, <3>1, <3>2, SMT DEF LastTaken, WatchTypeOK
  <2>7. Elapsed <= 2 * Second + MaxLate
    <3>1. timer \in Int /\ timer >= -MaxLate
      BY Bounds, SMT DEF WatchTypeOK
    <3> QED BY <3>1, Bounds, SMT DEF Elapsed, Interval
  <2>8. misses \in Nat /\ Elapsed \in Int
    BY Bounds, SMT DEF WatchTypeOK, Elapsed, Interval
  <2> QED BY <2>3, <2>6, <2>7, <2>8, Bounds, SMT
<1> QED BY <1>1, <1>2, <1>3, PTL DEF MCSpec, ExactNoFalseAlarm
=============================================================================
