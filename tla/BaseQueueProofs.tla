-------------------------- MODULE BaseQueueProofs --------------------------
(***************************************************************************)
(* Proofs about BaseQueue for any number of threads, any set of records    *)
(* and any number of slots.                                                *)
(***************************************************************************)
EXTENDS BaseQueue, SequenceTheorems, TLAPS

(* The successor of a cell index is the next index, and 0 after the last:  *)
(* the only arithmetic on the ring (basequeue.c 48, 83, 111, 133).         *)
LEMMA FollowingIndex ==
  ASSUME NEW i \in Index, size = Slots + 1
  PROVE  /\ Following(i) \in Index
         /\ Following(i) = IF i = Slots THEN 0 ELSE i + 1
<1>1. CASE i = Slots
  BY <1>1, SlotsAssumption DEF Following, Index
<1>2. CASE i # Slots
  <2>1. i + 1 \in 0 .. (size - 1)
    BY <1>2, SlotsAssumption DEF Index
  <2>2. (i + 1) % size = i + 1
    BY <2>1, SlotsAssumption
  <2> QED BY <1>2, <2>1, <2>2, SlotsAssumption DEF Following, Index
<1> QED BY <1>1, <1>2

(* Every step of a producer keeps the invariant. *)
LEMMA ProducerKeepsInv ==
  ASSUME IInv, NEW p \in Producers, ProducerStep(p)
  PROVE  IInv'
<1> USE SlotsAssumption, NullAssumption
<1>t. p \in Threads
  BY DEF Threads
<1>live. size = Slots + 1
  BY <1>t DEF IInv, TypeOK, NoUseAfterUninit, Idle, ProducerStep, StartPut, Put, PutWait,
              PutWake, PutTimeout
<1>1. CASE StartPut(p)
  BY <1>1, <1>t, <1>live DEF IInv, TypeOK, Holding, NoUseAfterUninit, OneOwner,
     CellsMatchCursors, Stored, StartPut, Free, InRing, Held, Own, Goto, Idle
<1>2. CASE Put(p)
  <2>1. /\ Following(head) \in Index
        /\ Following(head) = IF head = Slots THEN 0 ELSE head + 1
    BY <1>live, FollowingIndex DEF IInv, TypeOK
  <2>2. held[p] \in Items /\ held[p] # NULL
    BY <1>2, <1>t DEF Put, IInv, TypeOK, Holding
  <2>3. cell[head] = NULL
    BY DEF IInv, TypeOK, CellsMatchCursors, Stored, Index
  <2>4. TypeOK'
    BY <1>2, <2>1, <2>2, <1>t DEF Put, IInv, TypeOK, Own, Goto
  <2>5. Holding'
    BY <1>2, <1>t DEF Put, IInv, TypeOK, Holding, Own, Goto
  <2>6. NoUseAfterUninit'
    BY <1>2, <1>live DEF Put, NoUseAfterUninit
  <2>7. OneOwner'
    BY <1>2, <2>2, <2>3, <1>t DEF Put, IInv, TypeOK, OneOwner, Own, Goto
  <2>8. CellsMatchCursors'
    BY <1>2, <2>1, <2>2, <2>3 DEF Put, Full, IInv, TypeOK, CellsMatchCursors, Stored, Index
  <2> QED BY <2>4, <2>5, <2>6, <2>7, <2>8 DEF IInv
<1>3. CASE PutWait(p) \/ PutWake(p)
  BY <1>3, <1>t, <1>live DEF IInv, TypeOK, Holding, NoUseAfterUninit, OneOwner,
     CellsMatchCursors, Stored, PutWait, PutWake, Goto
<1>4. CASE PutTimeout(p)
  BY <1>4, <1>t, <1>live DEF IInv, TypeOK, Holding, NoUseAfterUninit, OneOwner,
     CellsMatchCursors, Stored, PutTimeout, Own, Goto
<1> QED BY <1>1, <1>2, <1>3, <1>4 DEF ProducerStep

(* Every step of a consumer keeps the invariant. *)
LEMMA ConsumerKeepsInv ==
  ASSUME IInv, NEW c \in Consumers, ConsumerStep(c)
  PROVE  IInv'
<1> USE SlotsAssumption, NullAssumption
<1>t. c \in Threads
  BY DEF Threads
<1>live. size = Slots + 1
  BY <1>t DEF IInv, TypeOK, NoUseAfterUninit, Idle, ConsumerStep, StartGet, Get, GetWait,
              GetWake, GetTimeout, Release
<1>1. CASE StartGet(c) \/ GetWait(c) \/ GetWake(c) \/ GetTimeout(c)
  BY <1>1, <1>t, <1>live DEF IInv, TypeOK, Holding, NoUseAfterUninit, OneOwner,
     CellsMatchCursors, Stored, StartGet, GetWait, GetWake, GetTimeout, Goto, Idle
<1>2. CASE Get(c)
  <2>1. /\ Following(tail) \in Index
        /\ Following(tail) = IF tail = Slots THEN 0 ELSE tail + 1
    BY <1>live, FollowingIndex DEF IInv, TypeOK
  <2>2. cell[tail] \in Items /\ cell[tail] # NULL
    BY <1>2 DEF Get, Empty, IInv, TypeOK, CellsMatchCursors, Stored, Index
  <2>3. TypeOK'
    BY <1>2, <2>1, <2>2, <1>t DEF Get, IInv, TypeOK, Own, Goto
  <2>4. Holding'
    BY <1>2, <2>2, <1>t DEF Get, IInv, TypeOK, Holding, Own, Goto
  <2>5. NoUseAfterUninit'
    BY <1>2, <1>live DEF Get, NoUseAfterUninit
  <2>6. OneOwner'
    BY <1>2, <2>2, <1>t DEF Get, IInv, TypeOK, OneOwner, Own, Goto
  <2>7. CellsMatchCursors'
    BY <1>2, <2>1, <2>2 DEF Get, Empty, IInv, TypeOK, CellsMatchCursors, Stored, Index
  <2> QED BY <2>3, <2>4, <2>5, <2>6, <2>7 DEF IInv
<1>3. CASE Release(c)
  BY <1>3, <1>t, <1>live DEF IInv, TypeOK, Holding, NoUseAfterUninit, OneOwner,
     CellsMatchCursors, Stored, Release, Own, Goto
<1> QED BY <1>1, <1>2, <1>3 DEF ConsumerStep

(* Clearing, uninitialising and initialising again keep the invariant. *)
LEMMA WholeQueueKeepsInv ==
  ASSUME IInv, Clear \/ Uninit \/ Reinit
  PROVE  IInv'
<1> USE SlotsAssumption, NullAssumption
<1>1. CASE Clear
  BY <1>1 DEF IInv, TypeOK, Holding, NoUseAfterUninit, OneOwner, CellsMatchCursors, Stored,
     Clear, Index
<1>2. CASE Uninit
  BY <1>2 DEF IInv, TypeOK, Holding, NoUseAfterUninit, OneOwner, CellsMatchCursors, Stored,
     Uninit, Index, Idle
<1>3. CASE Reinit
  BY <1>3 DEF IInv, TypeOK, Holding, NoUseAfterUninit, OneOwner, CellsMatchCursors, Stored,
     Reinit, Index
<1> QED BY <1>1, <1>2, <1>3

(* The inductive invariant holds in every reachable state: types, record   *)
(* ownership, the cursors' agreement with the cells, and no thread inside  *)
(* a destroyed queue (all of basequeue.c).                                 *)
THEOREM QueueInvariant == Spec => []IInv
<1>1. Init => IInv
  BY SlotsAssumption DEF Init, IInv, TypeOK, Holding, NoUseAfterUninit, OneOwner,
     CellsMatchCursors, Stored, Index
<1>2. IInv /\ [Next]_vars => IInv'
  <2> SUFFICES ASSUME IInv, [Next]_vars PROVE IInv'
    OBVIOUS
  <2>1. CASE Next
    BY <2>1, ProducerKeepsInv, ConsumerKeepsInv, WholeQueueKeepsInv DEF Next
  <2>2. CASE UNCHANGED vars
    BY <2>2 DEF vars, IInv, TypeOK, Holding, NoUseAfterUninit, OneOwner, CellsMatchCursors,
       Stored, Idle
  <2> QED BY <2>1, <2>2
<1> QED BY <1>1, <1>2, PTL DEF Spec

(* Cursors, cells and the places of the threads stay in their types        *)
(* (TypeOK).                                                               *)
THEOREM TypeCorrect == Spec => []TypeOK
<1>1. IInv => TypeOK
  BY DEF IInv
<1> QED BY <1>1, QueueInvariant, PTL

(* No record is freed twice or used after it was freed: it is in one cell  *)
(* or held by one thread (queue_get, queue_put and the pushes of           *)
(* eventqueue.c).                                                          *)
THEOREM RecordsHaveOneOwner == Spec => []OneOwner
<1>1. IInv => OneOwner
  BY DEF IInv
<1> QED BY <1>1, QueueInvariant, PTL

(* Exactly the cells between tail and head hold a record: queue_get never  *)
(* returns NULL for a stored one and queue_clear leaks none.               *)
THEOREM CellsFollowCursors == Spec => []CellsMatchCursors
<1>1. IInv => CellsMatchCursors
  BY DEF IInv
<1> QED BY <1>1, QueueInvariant, PTL

-----------------------------------------------------------------------------
(* The ring implements the bounded FIFO.                                   *)

(* The stored records form a sequence of length Count. *)
LEMMA ContentsIsSeq ==
  ASSUME IInv
  PROVE  /\ Count \in 0 .. Slots
         /\ \A k \in 0 .. (Count - 1) : Position(k) \in Index /\ Stored(Position(k))
         /\ Contents \in Seq(Items)
         /\ Len(Contents) = Count
<1> USE SlotsAssumption
<1>1. Count \in 0 .. Slots
  BY DEF IInv, TypeOK, NoUseAfterUninit, Count, Index
<1>2. \A k \in 0 .. (Count - 1) : Position(k) \in Index /\ Stored(Position(k))
  BY <1>1 DEF IInv, TypeOK, NoUseAfterUninit, Count, Position, Stored, Index
<1>3. \A k \in 1 .. Count : cell[Position(k - 1)] \in Items
  BY <1>1, <1>2 DEF IInv, TypeOK, CellsMatchCursors
<1>4. Contents \in [1 .. Count -> Items]
  BY <1>3 DEF Contents
<1> QED BY <1>1, <1>2, <1>4

(* A successful put appends the record it stores. *)
LEMMA PutAppends ==
  ASSUME IInv, IInv', NEW p \in Producers, Put(p)
  PROVE  Fifo!Put
<1> USE SlotsAssumption
<1>1. size = Slots + 1 /\ p \in Threads
  BY DEF IInv, TypeOK, NoUseAfterUninit, Idle, Put, Threads
<1>2. /\ Following(head) \in Index
      /\ Following(head) = IF head = Slots THEN 0 ELSE head + 1
  BY <1>1, FollowingIndex DEF IInv, TypeOK
<1>3. /\ head' = Following(head)
      /\ head' # tail
      /\ cell' = [cell EXCEPT ![head] = held[p]]
      /\ tail' = tail /\ size' = size
  BY DEF Put, Full
<1>4. Count' = Count + 1 /\ Count < Slots
  BY <1>1, <1>2, <1>3 DEF IInv, TypeOK, Count, Index
<1>5. held[p] \in Items
  BY <1>1 DEF Put, IInv, TypeOK, Holding
<1>6. \A k \in 0 .. (Count - 1) : Position(k)' = Position(k) /\ Position(k) # head
  BY <1>1, <1>3, ContentsIsSeq DEF Position, Stored, IInv, TypeOK, Index
<1>7. \A k : k = Count => Position(k)' = head
  BY <1>1, <1>3 DEF Position, Count, IInv, TypeOK, Index
<1>8. Contents' = Append(Contents, held[p])
  <2>1. Contents \in Seq(Items) /\ Len(Contents) = Count /\ Count \in 0 .. Slots
    BY ContentsIsSeq
  <2>2. Contents' = [k \in 1 .. Count + 1 |-> cell'[Position(k - 1)']]
    BY <1>4 DEF Contents
  <2>3. \A k \in 1 .. Count : cell'[Position(k - 1)'] = Contents[k]
    <3> SUFFICES ASSUME NEW k \in 1 .. Count PROVE cell'[Position(k - 1)'] = Contents[k]
      OBVIOUS
    <3>1. k - 1 \in 0 .. (Count - 1)
      BY <2>1
    <3>2. Position(k - 1)' = Position(k - 1) /\ Position(k - 1) # head
      BY <3>1, <1>6
    <3>3. Position(k - 1) \in Index
      BY <3>1, ContentsIsSeq
    <3> QED BY <3>2, <3>3, <1>3 DEF Contents, IInv, TypeOK
  <2>4. \A k : k = Count + 1 => cell'[Position(k - 1)'] = held[p]
    BY <2>1, <1>3, <1>7 DEF IInv, TypeOK
  <2>5. \A k \in 1 .. Count + 1 : Contents'[k] = Append(Contents, held[p])[k]
    BY <2>1, <2>2, <2>3, <2>4, <1>5, AppendProperties
  <2>6. Contents' \in Seq(Items) /\ Len(Contents') = Count + 1
    <3>1. \A k \in 1 .. Count : Contents[k] \in Items
      BY <2>1
    <3>2. \A k \in 1 .. Count + 1 : cell'[Position(k - 1)'] \in Items
      <4> TAKE k \in 1 .. Count + 1
      <4>1. CASE k \in 1 .. Count
        BY <4>1, <2>3, <3>1
      <4>2. CASE k = Count + 1
        BY <4>2, <2>4, <1>5
      <4> QED BY <4>1, <4>2, <2>1
    <3>3. Contents' \in [1 .. Count + 1 -> Items]
      BY <2>2, <3>2
    <3> QED BY <3>3, <2>1
  <2> QED BY <2>1, <2>5, <2>6, <1>5, AppendProperties, SeqEqual
<1> QED BY <1>4, <1>5, <1>8, ContentsIsSeq DEF Fifo!Put

(* A successful get removes the oldest record. *)
LEMMA GetTakesOldest ==
  ASSUME IInv, IInv', NEW c \in Consumers, Get(c)
  PROVE  Fifo!Get
<1> USE SlotsAssumption
<1>1. size = Slots + 1
  BY DEF IInv, TypeOK, NoUseAfterUninit, Idle, Get, Threads
<1>2. /\ Following(tail) \in Index
      /\ Following(tail) = IF tail = Slots THEN 0 ELSE tail + 1
  BY <1>1, FollowingIndex DEF IInv, TypeOK
<1>3. /\ tail' = Following(tail)
      /\ head # tail
      /\ cell' = [cell EXCEPT ![tail] = NULL]
      /\ head' = head /\ size' = size
  BY DEF Get, Empty
<1>4. Count' = Count - 1 /\ Count \in 1 .. Slots
  BY <1>1, <1>2, <1>3 DEF IInv, TypeOK, Count, Index
<1>5. \A k \in 0 .. (Count - 2) : Position(k)' = Position(k + 1) /\ Position(k + 1) # tail
  BY <1>1, <1>2, <1>3, <1>4 DEF Position, IInv, TypeOK, Index
<1>6. Contents' = Tail(Contents)
  <2>1. Contents \in Seq(Items) /\ Len(Contents) = Count
    BY ContentsIsSeq
  <2>2. Contents' = [k \in 1 .. Count - 1 |-> cell'[Position(k - 1)']]
    BY <1>4 DEF Contents
  <2>3. \A k \in 1 .. (Count - 1) : cell'[Position(k - 1)'] = Contents[k + 1]
    <3> SUFFICES ASSUME NEW k \in 1 .. (Count - 1)
                 PROVE  cell'[Position(k - 1)'] = Contents[k + 1]
      OBVIOUS
    <3>1. k - 1 \in 0 .. (Count - 2) /\ (k - 1) + 1 = k /\ (k + 1) - 1 = k
      BY <1>4
    <3>2. Position(k - 1)' = Position(k) /\ Position(k) # tail
      BY <3>1, <1>5
    <3>3. Position(k) \in Index
      BY <1>4, ContentsIsSeq
    <3>4. cell'[Position(k)] = cell[Position(k)]
      BY <3>2, <3>3, <1>3 DEF IInv, TypeOK
    <3>5. Contents[k + 1] = cell[Position(k)]
      BY <3>1, <1>4 DEF Contents
    <3> QED BY <3>2, <3>4, <3>5
  <2>4. \A k \in 1 .. (Count - 1) : Contents'[k] = Tail(Contents)[k]
    BY <2>1, <2>2, <2>3, <1>4
  <2>5. Contents' \in Seq(Items) /\ Len(Contents') = Count - 1
    BY <2>1, <2>2, <2>3, <1>4
  <2>6. Tail(Contents) \in Seq(Items) /\ Len(Tail(Contents)) = Count - 1
    BY <2>1, <1>4
  <2> QED BY <2>4, <2>5, <2>6, SeqEqual
<1> QED BY <1>4, <1>6, ContentsIsSeq DEF Fifo!Get

(* Any other step leaves the contents alone or empties them. *)
LEMMA OtherStepsKeepContents ==
  ASSUME IInv, [Next]_vars,
         \A p \in Producers : ~Put(p), \A c \in Consumers : ~Get(c)
  PROVE  UNCHANGED Contents \/ Fifo!Clear
<1>1. CASE UNCHANGED <<cell, size, head, tail>>
  BY <1>1 DEF Contents, Count, Position
<1>2. CASE Clear \/ Uninit \/ Reinit
  <2>1. head' = tail' /\ head' \in Int /\ tail' \in Int
    BY <1>2, SlotsAssumption DEF Clear, Uninit, Reinit, IInv, TypeOK, Index
  <2>2. Count' = 0
    <3>1. \A i \in Int : i <= i /\ i - i = 0
      OBVIOUS
    <3>2. tail' <= head' /\ head' - tail' = 0
      BY <2>1, <3>1, Zenon
    <3> QED BY <3>2, Zenon DEF Count
  <2>3. Contents' = <<>>
    BY <2>2 DEF Contents
  <2> QED BY <2>3 DEF Fifo!Clear
<1> QED
  BY <1>1, <1>2 DEF Next, vars, ProducerStep, ConsumerStep, StartPut, PutWait, PutWake,
     PutTimeout, StartGet, GetWait, GetWake, GetTimeout, Release

(* The ring implements the bounded FIFO queue: records leave in the order  *)
(* they entered, none twice, and at most Slots are stored at a time        *)
(* (queue_put, queue_get, queue_clear, queue_uninit of basequeue.c).       *)
THEOREM RingImplementsFifo == Spec => FifoSpec
<1>1. Init => Fifo!Init
  BY SlotsAssumption DEF Init, Fifo!Init, Contents, Count
<1>2. IInv /\ IInv' /\ [Next]_vars => [Fifo!Next]_Contents
  <2> SUFFICES ASSUME IInv, IInv', [Next]_vars PROVE [Fifo!Next]_Contents
    OBVIOUS
  <2>1. CASE \E p \in Producers : Put(p)
    BY <2>1, PutAppends DEF Fifo!Next
  <2>2. CASE \E c \in Consumers : Get(c)
    BY <2>2, GetTakesOldest DEF Fifo!Next
  <2>3. CASE (\A p \in Producers : ~Put(p)) /\ (\A c \in Consumers : ~Get(c))
    BY <2>3, OtherStepsKeepContents DEF Fifo!Next
  <2> QED BY <2>1, <2>2, <2>3
<1> QED BY <1>1, <1>2, QueueInvariant, PTL DEF Spec, FifoSpec, Fifo!Spec
=============================================================================
