------------------------------- MODULE MCWatch -------------------------------
(* Watch in one of two worlds, chosen at the start: an exact one, in which *)
(* the pipe thread is never late but the keepalive thread may oversleep,   *)
(* and a rough one, in which it is the other way round.                    *)
EXTENDS Watch

VARIABLE exact

MCInit == Init /\ exact \in BOOLEAN

MCNext ==
  /\ Next
  /\ IF exact
     THEN stall' = 0 /\ (agent' = "boot" => timer' <= 1)
     ELSE agent \in Asleep => timer' >= 0
  /\ UNCHANGED exact

MCSpec ==
  /\ MCInit /\ [][MCNext]_<<vars, exact>>
  /\ WF_vars(Tick) /\ WF_vars(AgentStep) /\ WF_vars(Read) /\ WF_vars(Turn)
  /\ WF_vars(Restart) /\ WF_vars(Kill)

(* NoFalseAlarm of Watch: in the exact world the watch thread gives up     *)
(* only an agent that is really silent (SAWatchdog.c 432-458).             *)
ExactNoFalseAlarm == [][exact /\ ~alarm /\ alarm' => Silent]_vars
=============================================================================
