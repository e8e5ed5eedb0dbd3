---------------------------- MODULE BoundedFifo ----------------------------
(***************************************************************************)
(* What Platform/basequeue.c promises its callers, with no ring, no lock   *)
(* and no waiting: a first-in first-out queue of at most Capacity          *)
(* pointers.  A put that finds the queue full and a get that finds it      *)
(* empty leave it as it is, which is a stuttering step here.               *)
(***************************************************************************)
EXTENDS Naturals, Sequences

CONSTANTS
  Items,     \* the pointers that can be queued
  Capacity   \* the "slots" argument of queue_init

VARIABLE fifo

Init == fifo = <<>>

(* A pointer joins at the back, if there is room. *)
Put == /\ Len(fifo) < Capacity
       /\ \E d \in Items : fifo' = Append(fifo, d)

(* The oldest pointer leaves at the front. *)
Get == /\ fifo # <<>>
       /\ fifo' = Tail(fifo)

(* queue_clear and queue_uninit drop everything at once. *)
Clear == fifo' = <<>>

Next == Put \/ Get \/ Clear

Spec == Init /\ [][Next]_fifo
=============================================================================
