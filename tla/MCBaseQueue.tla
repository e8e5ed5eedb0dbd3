---------------------------- MODULE MCBaseQueue ----------------------------
(***************************************************************************)
(* Two pushing threads, one worker, four record addresses and a ring of    *)
(* three cells: the cursors wrap, the queue is refused when full, a record *)
(* address is allocated again while others are stored, and a push waits    *)
(* while the worker or queue_clear makes room.                             *)
(***************************************************************************)
EXTENDS BaseQueue
=============================================================================
