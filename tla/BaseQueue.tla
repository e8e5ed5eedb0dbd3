----------------------------- MODULE BaseQueue -----------------------------
(***************************************************************************)
(* The ring buffer of Platform/basequeue.c under the threads that share    *)
(* it.  The ring has one cell more than the caller asked for: it is empty  *)
(* when head = tail and full when head is one cell behind tail.            *)
(*                                                                         *)
(* queue_put and queue_get wait on a condition with the absolute deadline  *)
(* {0 s, 500 ms}, an instant of 1970, so the wait gives the mutex up,      *)
(* takes it again and times out: a full queue refuses and an empty one     *)
(* returns NULL.  A waiter may still be woken before it times out, by a    *)
(* signal or spuriously, and then tests the ring again.                    *)
(*                                                                         *)
(* Each action is one critical section of the queue's mutex.  The queue    *)
(* stores pointers to malloc'd records; "held" is the record a thread owns *)
(* while it is outside the ring, and a record neither held nor stored is   *)
(* free.                                                                   *)
(***************************************************************************)
EXTENDS Integers, Sequences

CONSTANTS
  Producers,  \* threads that push (mosquitto loop, reconnect, API callers)
  Consumers,  \* threads that pop (one worker per queue in the repository)
  Items,      \* addresses malloc can return for a record
  Slots,      \* capacity asked of queue_init
  NULL        \* the null pointer

ASSUME SlotsAssumption == Slots \in Nat \ {0}
ASSUME ThreadsAssumption == Producers \cap Consumers = {}
ASSUME NullAssumption == NULL \notin Items

VARIABLES
  cell,   \* q->queue, indexed from 0
  size,   \* q->size: Slots + 1, or 0 once the queue is uninitialised
  head,   \* q->head: the next cell to fill
  tail,   \* q->tail: the next cell to empty
  pc,     \* where each thread is in queue_put or queue_get
  held    \* the record each thread owns, or NULL

vars == <<cell, size, head, tail, pc, held>>

Threads == Producers \cup Consumers
Index == 0 .. Slots

InRing(d) == \E i \in Index : cell[i] = d
Held(d) == \E t \in Threads : held[t] = d
Free == {d \in Items : ~InRing(d) /\ ~Held(d)}

Following(i) == (i + 1) % size
Empty == head = tail
Full == Following(head) = tail

Idle(t) == pc[t] = "idle"
Goto(t, label) == pc' = [pc EXCEPT ![t] = label]
Own(t, d) == held' = [held EXCEPT ![t] = d]

(* queue_init on fresh memory: all cells empty, both cursors at 0. *)
Init ==
  /\ cell = [i \in Index |-> NULL]
  /\ size = Slots + 1
  /\ head = 0
  /\ tail = 0
  /\ pc = [t \in Threads |-> "idle"]
  /\ held = [t \in Threads |-> NULL]

-----------------------------------------------------------------------------
(* Producers *)

(* The caller allocates a record and calls queue_put. *)
StartPut(p) ==
  /\ Idle(p)
  /\ size # 0
  /\ \E d \in Free : Own(p, d)
  /\ Goto(p, "put")
  /\ UNCHANGED <<cell, size, head, tail>>

(* Mutant: the record is stored in a full ring, too. *)
PutWithoutRoom(p) ==
  /\ pc[p] = "put"
  /\ cell' = [cell EXCEPT ![head] = held[p]]
  /\ head' = Following(head)
  /\ Own(p, NULL)
  /\ Goto(p, "idle")
  /\ UNCHANGED <<size, tail>>

(* Mutant: head is advanced before the record is stored. *)
PutAfterAdvance(p) ==
  /\ pc[p] = "put"
  /\ ~Full
  /\ cell' = [cell EXCEPT ![Following(head)] = held[p]]
  /\ head' = Following(head)
  /\ Own(p, NULL)
  /\ Goto(p, "idle")
  /\ UNCHANGED <<size, tail>>

(* Mutant: the pusher frees a record that was stored. *)
PutKeepsRecord(p) ==
  /\ pc[p] = "put"
  /\ ~Full
  /\ cell' = [cell EXCEPT ![head] = held[p]]
  /\ head' = Following(head)
  /\ Goto(p, "wait_room")
  /\ UNCHANGED <<size, tail, held>>

(* There is room: store the record and advance head. *)
Put(p) ==
  /\ pc[p] = "put"
  /\ ~Full
  /\ cell' = [cell EXCEPT ![head] = held[p]]
  /\ head' = Following(head)
  /\ Own(p, NULL)
  /\ Goto(p, "idle")
  /\ UNCHANGED <<size, tail>>

(* No room: pthread_cond_timedwait on wait_room releases the mutex. *)
PutWait(p) ==
  /\ pc[p] = "put"
  /\ Full
  /\ Goto(p, "wait_room")
  /\ UNCHANGED <<cell, size, head, tail, held>>

(* The wait ends without a timeout and the loop tests the ring again. *)
PutWake(p) ==
  /\ pc[p] = "wait_room"
  /\ Goto(p, "put")
  /\ UNCHANGED <<cell, size, head, tail, held>>

(* The wait times out: queue_put returns false, the caller frees the       *)
(* record, even if room was made in the meantime.                          *)
PutTimeout(p) ==
  /\ pc[p] = "wait_room"
  /\ Own(p, NULL)
  /\ Goto(p, "idle")
  /\ UNCHANGED <<cell, size, head, tail>>

-----------------------------------------------------------------------------
(* Consumers *)

(* The worker calls queue_get. *)
StartGet(c) ==
  /\ Idle(c)
  /\ size # 0
  /\ Goto(c, "get")
  /\ UNCHANGED <<cell, size, head, tail, held>>

(* Mutant: tail runs on past the last cell. *)
GetWithoutWrap(c) ==
  /\ pc[c] = "get"
  /\ ~Empty
  /\ Own(c, cell[tail])
  /\ cell' = [cell EXCEPT ![tail] = NULL]
  /\ tail' = tail + 1
  /\ Goto(c, "use")
  /\ UNCHANGED <<size, head>>

(* There is a record: take it, blank its cell and advance tail. *)
Get(c) ==
  /\ pc[c] = "get"
  /\ ~Empty
  /\ Own(c, cell[tail])
  /\ cell' = [cell EXCEPT ![tail] = NULL]
  /\ tail' = Following(tail)
  /\ Goto(c, "use")
  /\ UNCHANGED <<size, head>>

GetWait(c) ==
  /\ pc[c] = "get"
  /\ Empty
  /\ Goto(c, "wait_data")
  /\ UNCHANGED <<cell, size, head, tail, held>>

GetWake(c) ==
  /\ pc[c] = "wait_data"
  /\ Goto(c, "get")
  /\ UNCHANGED <<cell, size, head, tail, held>>

(* The wait times out: queue_get returns NULL. *)
GetTimeout(c) ==
  /\ pc[c] = "wait_data"
  /\ Goto(c, "idle")
  /\ UNCHANGED <<cell, size, head, tail, held>>

(* The worker has run its callback on the record and frees it. *)
Release(c) ==
  /\ pc[c] = "use"
  /\ Own(c, NULL)
  /\ Goto(c, "idle")
  /\ UNCHANGED <<cell, size, head, tail>>

-----------------------------------------------------------------------------
(* Clearing and the end of the queue's life *)

Stored(i) == IF tail <= head THEN tail <= i /\ i < head
                             ELSE tail <= i \/ i < head

(* The loop of queue_clear: every stored record is freed, in one critical  *)
(* section.                                                                *)
Clear ==
  /\ size # 0
  /\ cell' = [i \in Index |-> IF Stored(i) THEN NULL ELSE cell[i]]
  /\ tail' = head
  /\ UNCHANGED <<size, head, pc, held>>

(* queue_uninit.  Its callers first join the worker and the threads that   *)
(* push, so no thread is inside the queue.                                 *)
Uninit ==
  /\ size # 0
  /\ \A t \in Threads : Idle(t)
  /\ cell' = [i \in Index |-> IF Stored(i) THEN NULL ELSE cell[i]]
  /\ size' = 0
  /\ head' = 0
  /\ tail' = 0
  /\ UNCHANGED <<pc, held>>

(* queue_init of the next life of the queue. *)
Reinit ==
  /\ size = 0
  /\ cell' = [i \in Index |-> NULL]
  /\ size' = Slots + 1
  /\ head' = 0
  /\ tail' = 0
  /\ UNCHANGED <<pc, held>>

ProducerStep(p) == StartPut(p) \/ Put(p) \/ PutWait(p) \/ PutWake(p) \/ PutTimeout(p)
ConsumerStep(c) == \/ StartGet(c) \/ Get(c) \/ GetWait(c) \/ GetWake(c) \/ GetTimeout(c)
                   \/ Release(c)

Next ==
  \/ \E p \in Producers : ProducerStep(p)
  \/ \E c \in Consumers : ConsumerStep(c)
  \/ Clear
  \/ Uninit
  \/ Reinit

Spec == Init /\ [][Next]_vars

-----------------------------------------------------------------------------
(* Properties *)

(* Types: the cursors stay inside the ring and the cells hold records. *)
TypeOK ==
  /\ cell \in [Index -> Items \cup {NULL}]
  /\ size \in {0, Slots + 1}
  /\ head \in Index
  /\ tail \in Index
  /\ pc \in [Threads -> {"idle", "put", "wait_room", "get", "wait_data", "use"}]
  /\ held \in [Threads -> Items \cup {NULL}]

(* A record has one owner: it is in at most one cell, or held by at most   *)
(* one thread, never both.  Otherwise queue_clear, a refused push and the  *)
(* worker would free the same record twice, or use it after the other      *)
(* freed it (basequeue.c 63-143, eventqueue.c 52-73 and 126-142).          *)
OneOwner ==
  /\ \A i, j \in Index : cell[i] # NULL /\ cell[i] = cell[j] => i = j
  /\ \A s, t \in Threads : held[s] # NULL /\ held[s] = held[t] => s = t
  /\ \A i \in Index, t \in Threads : cell[i] # NULL => cell[i] # held[t]

(* The cells between tail and head are the ones that hold a record: none   *)
(* is lost when the cursors wrap, and queue_get never hands out NULL for a *)
(* stored record (basequeue.c 81-83, 109-111).                             *)
CellsMatchCursors ==
  \A i \in Index : cell[i] # NULL <=> Stored(i)

(* A thread owns a record exactly while it is pushing or using one: a push *)
(* that is refused, or a worker that goes round, leaks nothing.            *)
Holding ==
  \A t \in Threads : held[t] # NULL <=> pc[t] \in {"put", "wait_room", "use"}

(* No thread is inside a queue that queue_uninit has destroyed: its size   *)
(* is 0 and the next index would be a division by zero.                    *)
NoUseAfterUninit ==
  size = 0 => /\ \A t \in Threads : Idle(t)
              /\ head = 0 /\ tail = 0

IInv ==
  /\ TypeOK
  /\ Holding
  /\ NoUseAfterUninit
  /\ OneOwner
  /\ CellsMatchCursors

Count == IF tail <= head THEN head - tail ELSE head - tail + size
Position(k) == IF tail + k < size THEN tail + k ELSE tail + k - size

(* The stored records, oldest first. *)
Contents == [k \in 1 .. Count |-> cell[Position(k - 1)]]

(* The ring is the bounded queue its callers rely on: in order, nothing    *)
(* stored twice, at most Slots records (all of basequeue.c).               *)
Fifo == INSTANCE BoundedFifo WITH fifo <- Contents, Capacity <- Slots
FifoSpec == Fifo!Spec

=============================================================================
