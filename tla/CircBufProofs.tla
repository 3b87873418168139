---------------------------- MODULE CircBufProofs ----------------------------
(***************************************************************************)
(* CircBuf implements DropOldestQueue, for every number of slots.          *)
(*                                                                         *)
(* TypeOK is inductive as it stands.  The two steps that move the queue,   *)
(* a put and a take, are lemmas about the slots; the steps of the abstract *)
(* queue follow by comparing sequences element by element.                 *)
(***************************************************************************)
EXTENDS CircBuf, SequenceTheorems, TLAPS

USE MaxAssumption DEF Index

-----------------------------------------------------------------------------
(* Arithmetic of the indices. *)

\* The next index stays in the array.
LEMMA SuccValue ==
  ASSUME NEW i \in Index
  PROVE  /\ Succ(i) = IF i = Slots - 1 THEN 0 ELSE i + 1
         /\ Succ(i) \in Index
  BY DEF Succ

\* The k-th packet lies k - 1 slots after the tail, round the end.
LEMMA SlotValue ==
  ASSUME tail \in Index, NEW k \in 1..Slots
  PROVE  /\ Slot(k) = IF tail + k - 1 < Slots
                      THEN tail + k - 1 ELSE tail + k - 1 - Slots
         /\ Slot(k) \in Index
  BY DEF Slot

Indices == head \in Index /\ tail \in Index /\ full \in BOOLEAN
           /\ (full => head = tail)

\* The size is bounded; it is zero for an empty buffer, Slots for a full one.
LEMMA SizeBound ==
  ASSUME Indices
  PROVE  /\ CbufSize \in 0..Slots
         /\ CbufEmpty <=> CbufSize = 0
         /\ full <=> CbufSize = Slots
<1>1. CASE full
  BY <1>1 DEF Indices, CbufSize, CbufEmpty
<1>2. CASE ~full
  BY <1>2 DEF Indices, CbufSize, CbufEmpty
<1> QED
  BY <1>1, <1>2

\* Where a packet is put, and that no packet of the queue is there.
LEMMA HeadSlot ==
  ASSUME Indices, ~full
  PROVE  /\ CbufSize + 1 \in 1..Slots
         /\ Slot(CbufSize + 1) = head
         /\ \A k \in 1..CbufSize : Slot(k) # head
<1>1. CbufSize \in 0..(Slots - 1)
  BY SizeBound
<1>2. CbufSize + 1 \in 1..Slots /\ \A k \in 1..CbufSize : k \in 1..Slots
  BY <1>1
<1>3. Slot(CbufSize + 1) = head
  BY <1>2, SlotValue DEF Indices, CbufSize
<1>4. ASSUME NEW k \in 1..CbufSize PROVE Slot(k) # head
  BY <1>1, <1>2, SlotValue DEF Indices, CbufSize
<1> QED
  BY <1>2, <1>3, <1>4

-----------------------------------------------------------------------------
(* What a put and a take do to the slots. *)

\* A put in a buffer with room adds a packet at the end.
LEMMA PutRoom ==
  ASSUME TypeOK, ~full, NEW i \in Items, CbufPut(i)
  PROVE  /\ Indices'
         /\ CbufSize' = CbufSize + 1
         /\ \A k \in 1..CbufSize : buffer'[Slot(k)'] = buffer[Slot(k)]
         /\ buffer'[Slot(CbufSize)'] = i
<1>1. Indices
  BY DEF TypeOK, Indices
<1>2. head' = Succ(head) /\ tail' = tail /\ head' \in Index
  BY <1>1, SuccValue DEF CbufPut, Indices
<1>3. full' \in BOOLEAN /\ (full' <=> head' = tail')
  BY Zenon DEF CbufPut
<1>4. Indices'
  BY <1>1, <1>2, <1>3 DEF Indices
<1>5. CbufSize' = CbufSize + 1
  BY <1>1, <1>2, <1>3, SuccValue DEF Indices, CbufSize
<1>6. \A k \in Int : Slot(k)' = Slot(k)
  BY <1>2 DEF Slot
<1>7. ASSUME NEW k \in 1..CbufSize PROVE buffer'[Slot(k)'] = buffer[Slot(k)]
  <2>1. k \in 1..Slots
    BY <1>1, SizeBound
  <2>2. Slot(k) \in Index /\ Slot(k) # head
    BY <1>1, <2>1, SlotValue, HeadSlot DEF Indices
  <2> QED
    BY <1>6, <2>1, <2>2 DEF CbufPut, TypeOK
<1>8. buffer'[Slot(CbufSize)'] = i
  <2>1. Slot(CbufSize + 1) = head /\ CbufSize + 1 \in Int
    BY <1>1, HeadSlot
  <2> QED
    BY <1>1, <1>5, <1>6, <2>1 DEF CbufPut, TypeOK, Indices
<1> QED
  BY <1>4, <1>5, <1>7, <1>8

\* A put in a full buffer replaces the oldest packet and moves the tail on.
LEMMA PutFull ==
  ASSUME TypeOK, full, NEW i \in Items, CbufPut(i)
  PROVE  /\ Indices'
         /\ CbufSize' = Slots
         /\ \A k \in 1..(Slots - 1) : buffer'[Slot(k)'] = buffer[Slot(k + 1)]
         /\ buffer'[Slot(Slots)'] = i
<1>1. Indices /\ head = tail
  BY DEF TypeOK, Indices
<1>2. head' = Succ(head) /\ tail' = Succ(tail) /\ head' = tail' /\ tail' \in Index
  BY <1>1, SuccValue DEF CbufPut, Indices
<1>3. full' = TRUE
  BY <1>2, Zenon DEF CbufPut
<1>4. Indices'
  BY <1>2, <1>3 DEF Indices
<1>5. CbufSize' = Slots
  BY <1>3 DEF CbufSize
<1>6. ASSUME NEW k \in 1..Slots
      PROVE  Slot(k)' = IF tail' + k - 1 < Slots
                        THEN tail' + k - 1 ELSE tail' + k - 1 - Slots
  BY <1>2 DEF Slot
<1>7. ASSUME NEW k \in 1..(Slots - 1) PROVE buffer'[Slot(k)'] = buffer[Slot(k + 1)]
  <2>1. k + 1 \in 1..Slots /\ k \in 1..Slots
    OBVIOUS
  <2>2. Slot(k)' = Slot(k + 1)
    <3>1. Slot(k + 1) = IF tail + k < Slots THEN tail + k ELSE tail + k - Slots
      BY <1>1, <2>1, SlotValue DEF Indices
    <3>2. tail' = IF tail = Slots - 1 THEN 0 ELSE tail + 1
      BY <1>1, <1>2, SuccValue DEF Indices
    <3> QED
      BY <1>1, <1>6, <2>1, <3>1, <3>2 DEF Indices
  <2>3. Slot(k + 1) \in Index /\ Slot(k + 1) # head
    BY <1>1, <2>1, SlotValue DEF Indices
  <2> QED
    BY <2>2, <2>3 DEF CbufPut, TypeOK
<1>8. buffer'[Slot(Slots)'] = i
  <2>1. Slot(Slots)' = head
    BY <1>1, <1>2, <1>6, SuccValue DEF Indices
  <2> QED
    BY <1>1, <2>1 DEF CbufPut, TypeOK, Indices
<1> QED
  BY <1>4, <1>5, <1>7, <1>8

\* A take leaves every packet but the oldest.
LEMMA TakeOldest ==
  ASSUME TypeOK, ~CbufEmpty, Take, UNCHANGED <<buffer, head>>
  PROVE  /\ Indices'
         /\ CbufSize' = CbufSize - 1
         /\ \A k \in 1..(CbufSize - 1) : buffer'[Slot(k)'] = buffer[Slot(k + 1)]
<1>1. Indices
  BY DEF TypeOK, Indices
<1>2. tail' = Succ(tail) /\ full' = FALSE /\ head' = head /\ tail' \in Index
  BY <1>1, SuccValue DEF Take, Indices
<1>3. Indices'
  BY <1>1, <1>2 DEF Indices
<1>4. CbufSize' = CbufSize - 1
  <2>1. CASE full
    BY <1>1, <1>2, <2>1, SuccValue DEF Indices, CbufSize
  <2>2. CASE ~full
    BY <1>1, <1>2, <2>2, SuccValue DEF Indices, CbufSize, CbufEmpty
  <2> QED
    BY <2>1, <2>2
<1>5. ASSUME NEW k \in 1..(CbufSize - 1) PROVE buffer'[Slot(k)'] = buffer[Slot(k + 1)]
  <2>1. k + 1 \in 1..Slots /\ k \in 1..Slots
    BY <1>1, SizeBound
  <2>2. Slot(k)' = IF tail' + k - 1 < Slots
                   THEN tail' + k - 1 ELSE tail' + k - 1 - Slots
    BY <1>2, <2>1 DEF Slot
  <2>3. Slot(k)' = Slot(k + 1)
    <3>1. Slot(k + 1) = IF tail + k < Slots THEN tail + k ELSE tail + k - Slots
      BY <1>1, <2>1, SlotValue DEF Indices
    <3>2. tail' = IF tail = Slots - 1 THEN 0 ELSE tail + 1
      BY <1>1, <1>2, SuccValue DEF Indices
    <3> QED
      BY <1>1, <2>1, <2>2, <3>1, <3>2 DEF Indices
  <2> QED
    BY <2>3
<1> QED
  BY <1>3, <1>4, <1>5

-----------------------------------------------------------------------------
(* The type invariant. *)

Written == \A k \in 1..CbufSize : buffer[Slot(k)] \in Items
Storage == /\ buffer \in [Index -> Items \cup {NoItem}]
           /\ result \in Items \cup {NoItem} \cup 0..Slots

\* TypeOK in the parts the steps below disturb one at a time.
LEMMA TypeParts == TypeOK <=> Indices /\ Written /\ Storage
  BY DEF TypeOK, Indices, Written, Storage

\* The oldest packet of a queue that is not empty was written.
LEMMA OldestWritten ==
  ASSUME TypeOK, ~CbufEmpty
  PROVE  buffer[tail] \in Items /\ Slot(1) = tail /\ 1 \in 1..CbufSize
<1>1. Indices
  BY TypeParts
<1>2. 1 \in 1..CbufSize
  BY <1>1, SizeBound
<1>3. Slot(1) = tail
  BY <1>1, SlotValue DEF Indices
<1> QED
  BY <1>2, <1>3 DEF TypeOK

\* After cbuf_init the buffer is empty and in range.
LEMMA TypeInit == Init => TypeOK
<1> SUFFICES ASSUME Init PROVE TypeOK
  OBVIOUS
<1>1. full = FALSE /\ head = tail /\ head \in Index
  BY DEF Init
<1>2. Indices
  BY <1>1 DEF Indices
<1>3. CbufSize = 0
  BY <1>1, <1>2, SizeBound DEF CbufEmpty
<1>4. Written
  BY <1>3 DEF Written
<1>5. Storage
  BY DEF Init, Storage
<1> QED
  BY <1>2, <1>4, <1>5, TypeParts

\* A call that changes neither buffer nor indices changes no packet.
LEMMA SameSlots ==
  ASSUME UNCHANGED <<buffer, head, tail, full>>
  PROVE  /\ CbufSize' = CbufSize /\ Queue' = Queue
         /\ (Indices /\ Written => Indices' /\ Written')
  BY DEF CbufSize, Slot, Queue, Indices, Written

\* No call breaks the type invariant.
LEMMA TypeStep == TypeOK /\ [Next]_vars => TypeOK'
<1> SUFFICES ASSUME TypeOK, [Next]_vars PROVE TypeOK'
  OBVIOUS
<1>0. Indices /\ Written /\ Storage
  BY TypeParts
<1>1. ASSUME NEW i \in Items, CbufPut(i) PROVE TypeOK'
  <2>1. Storage'
    BY <1>0, <1>1 DEF Storage, CbufPut, Indices
  <2>2. CASE ~full
    <3>1. /\ Indices'
          /\ CbufSize' = CbufSize + 1
          /\ \A k \in 1..CbufSize : buffer'[Slot(k)'] = buffer[Slot(k)]
          /\ buffer'[Slot(CbufSize)'] = i
      BY <1>1, <2>2, PutRoom
    <3>2. CbufSize \in Nat
      BY <1>0, SizeBound
    <3>3. Written'
      <4> SUFFICES ASSUME NEW k \in 1..CbufSize' PROVE buffer'[Slot(k)'] \in Items
        BY DEF Written
      <4>1. CASE k \in 1..CbufSize
        BY <1>0, <3>1, <4>1 DEF Written
      <4>2. CASE k = CbufSize'
        BY <3>1, <4>2
      <4> QED
        BY <3>1, <3>2, <4>1, <4>2
    <3> QED
      BY <2>1, <3>1, <3>3, TypeParts, PTL
  <2>3. CASE full
    <3>1. /\ Indices'
          /\ CbufSize' = Slots
          /\ \A k \in 1..(Slots - 1) : buffer'[Slot(k)'] = buffer[Slot(k + 1)]
          /\ buffer'[Slot(Slots)'] = i
      BY <1>1, <2>3, PutFull
    <3>2. CbufSize = Slots
      BY <1>0, <2>3, SizeBound
    <3>3. Written'
      <4> SUFFICES ASSUME NEW k \in 1..Slots PROVE buffer'[Slot(k)'] \in Items
        BY <3>1 DEF Written
      <4>1. CASE k \in 1..(Slots - 1)
        BY <1>0, <3>1, <3>2, <4>1 DEF Written
      <4>2. CASE k = Slots
        BY <3>1, <4>2
      <4> QED
        BY <4>1, <4>2
    <3> QED
      BY <2>1, <3>1, <3>3, TypeParts, PTL
  <2> QED
    BY <2>2, <2>3
<1>2. ASSUME ~CbufEmpty, Take, UNCHANGED <<buffer, head>>,
             result' \in {result, buffer[tail]}
      PROVE  TypeOK'
  <2>1. /\ Indices'
        /\ CbufSize' = CbufSize - 1
        /\ \A k \in 1..(CbufSize - 1) : buffer'[Slot(k)'] = buffer[Slot(k + 1)]
    BY <1>2, TakeOldest
  <2>2. CbufSize \in Nat
    BY <1>0, SizeBound
  <2>3. Written'
    BY <1>0, <2>1, <2>2 DEF Written
  <2>4. Storage'
    BY <1>0, <1>2, OldestWritten DEF Storage
  <2> QED
    BY <2>1, <2>3, <2>4, TypeParts, PTL
<1>3. ASSUME UNCHANGED <<buffer, head, tail, full>>,
             result' \in Items \cup {NoItem} \cup 0..Slots
      PROVE  TypeOK'
  <2>1. Indices' /\ Written'
    BY <1>0, <1>3, SameSlots
  <2>2. Storage'
    BY <1>0, <1>3 DEF Storage
  <2> QED
    BY <2>1, <2>2, TypeParts, PTL
<1>4. CASE CbufGet
  <2>1. CASE CbufEmpty
    BY <1>3, <1>4, <2>1 DEF CbufGet
  <2>2. CASE ~CbufEmpty
    BY <1>2, <1>4, <2>2 DEF CbufGet
  <2> QED
    BY <2>1, <2>2
<1>5. CASE CbufGetPtr
  BY <1>3, <1>5, OldestWritten DEF CbufGetPtr
<1>6. CASE CbufDrop
  <2>1. CASE CbufEmpty
    BY <1>0, <1>3, <1>6, <2>1 DEF CbufDrop, Storage
  <2>2. CASE ~CbufEmpty
    BY <1>2, <1>6, <2>2 DEF CbufDrop
  <2> QED
    BY <2>1, <2>2
<1>7. CASE CbufSizeCall
  BY <1>0, <1>3, <1>7, SizeBound DEF CbufSizeCall
<1>8. CASE CbufReset
  <2>1. full' = FALSE /\ head' = 0 /\ tail' = 0
    BY <1>8 DEF CbufReset
  <2>6. full' \in BOOLEAN
    BY <2>1, Zenon
  <2>2. Indices'
    BY <2>1, <2>6 DEF Indices
  <2>3. CbufSize' = 0
    BY <2>1 DEF CbufSize
  <2>4. Written'
    BY <2>3 DEF Written
  <2>5. Storage'
    BY <1>0, <1>8 DEF CbufReset, Storage
  <2> QED
    BY <2>2, <2>4, <2>5, TypeParts, PTL
<1>9. CASE UNCHANGED vars
  BY <1>0, <1>3, <1>9 DEF vars, Storage
<1> QED
  BY <1>1, <1>4, <1>5, <1>6, <1>7, <1>8, <1>9 DEF Next

\* Indices stay in range and no unwritten slot is ever part of the queue.
THEOREM BufferTypes == Spec => []TypeOK
  BY TypeInit, TypeStep, PTL DEF Spec

-----------------------------------------------------------------------------
(* The refinement. *)

\* The packets from tail to head are a sequence, as long as the size says.
QueueIsSeq ==
  /\ CbufSize \in Nat
  /\ Queue \in Seq(Items)
  /\ Len(Queue) = CbufSize
  /\ \A k \in 1..CbufSize : Queue[k] = buffer[Slot(k)]
  /\ Queue = <<>> <=> CbufSize = 0

\* The slots from tail to head, all written, make up a sequence of packets.
LEMMA QueueSeq == TypeOK => QueueIsSeq
<1> SUFFICES ASSUME TypeOK PROVE QueueIsSeq
  OBVIOUS
<1>1. CbufSize \in Nat
  BY TypeParts, SizeBound
<1>2. Queue \in [1..CbufSize -> Items]
  BY DEF Queue, TypeOK
<1>3. Queue \in Seq(Items)
  BY <1>1, <1>2, SeqDef
<1>4. Len(Queue) = CbufSize
  BY <1>1, <1>2, <1>3, LenProperties
<1>5. \A k \in 1..CbufSize : Queue[k] = buffer[Slot(k)]
  BY DEF Queue
<1>6. Queue = <<>> <=> CbufSize = 0
  BY <1>3, <1>4, EmptySeq
<1> QED
  BY <1>1, <1>3, <1>4, <1>5, <1>6 DEF QueueIsSeq

\* The empty buffer is the empty queue.
LEMMA RefinementInit == Init => Abstract!Init
<1> SUFFICES ASSUME Init PROVE Abstract!Init
  OBVIOUS
<1>1. TypeOK
  BY TypeInit
<1>2. CbufEmpty
  BY DEF Init, CbufEmpty
<1>3. Queue = <<>>
  BY <1>1, <1>2, TypeParts, SizeBound, QueueSeq DEF QueueIsSeq
<1> QED
  BY <1>3 DEF Init, Abstract!Init

\* cbuf_put appends, after dropping the oldest packet of a full queue.
LEMMA RefinementPut ==
  ASSUME TypeOK, TypeOK', NEW i \in Items, CbufPut(i)
  PROVE  Abstract!Put(i)
<1>0. Indices
  BY TypeParts
<1>1. /\ CbufSize \in Nat
      /\ Queue \in Seq(Items)
      /\ Len(Queue) = CbufSize
      /\ \A k \in 1..CbufSize : Queue[k] = buffer[Slot(k)]
      /\ Queue = <<>> <=> CbufSize = 0
  BY QueueSeq DEF QueueIsSeq
<1>9. QueueIsSeq'
  BY QueueSeq, PTL
<1>2. /\ Queue' \in Seq(Items)
      /\ Len(Queue') = CbufSize'
      /\ \A k \in 1..CbufSize' : Queue'[k] = buffer'[Slot(k)']
  BY <1>9 DEF QueueIsSeq
<1>3. CASE ~full
  <2>1. Len(Queue) # Slots
    BY <1>0, <1>1, <1>3, SizeBound
  <2>2. /\ CbufSize' = CbufSize + 1
        /\ \A k \in 1..CbufSize : buffer'[Slot(k)'] = buffer[Slot(k)]
        /\ buffer'[Slot(CbufSize)'] = i
    BY <1>3, PutRoom
  <2>3. /\ Append(Queue, i) \in Seq(Items)
        /\ Len(Append(Queue, i)) = Len(Queue) + 1
        /\ \A k \in 1..Len(Queue) : Append(Queue, i)[k] = Queue[k]
        /\ Append(Queue, i)[Len(Queue) + 1] = i
    BY <1>1, AppendProperties
  <2>4. \A k \in 1..Len(Queue') : Queue'[k] = Append(Queue, i)[k]
    BY <1>1, <1>2, <2>2, <2>3
  <2>5. Queue' = Append(Queue, i)
    BY <1>1, <1>2, <2>2, <2>3, <2>4, SeqEqual
  <2> QED
    BY <2>1, <2>5 DEF CbufPut, Abstract!Put
<1>4. CASE full
  <2>1. Len(Queue) = Slots /\ Queue # <<>>
    BY <1>0, <1>1, <1>4, SizeBound
  <2>2. /\ CbufSize' = Slots
        /\ \A k \in 1..(Slots - 1) : buffer'[Slot(k)'] = buffer[Slot(k + 1)]
        /\ buffer'[Slot(Slots)'] = i
    BY <1>4, PutFull
  <2>3. /\ Tail(Queue) \in Seq(Items)
        /\ Len(Tail(Queue)) = Slots - 1
        /\ \A k \in 1..(Slots - 1) : Tail(Queue)[k] = Queue[k + 1]
    BY <1>1, <2>1, HeadTailProperties
  <2>4. /\ Append(Tail(Queue), i) \in Seq(Items)
        /\ Len(Append(Tail(Queue), i)) = Slots
        /\ \A k \in 1..(Slots - 1) : Append(Tail(Queue), i)[k] = Queue[k + 1]
        /\ Append(Tail(Queue), i)[Slots] = i
    BY <2>3, AppendProperties
  <2>5. \A k \in 1..Len(Queue') : Queue'[k] = Append(Tail(Queue), i)[k]
    BY <1>1, <1>2, <2>1, <2>2, <2>4
  <2>6. Queue' = Append(Tail(Queue), i)
    BY <1>2, <2>2, <2>4, <2>5, SeqEqual
  <2> QED
    BY <2>1, <2>6 DEF CbufPut, Abstract!Put
<1> QED
  BY <1>3, <1>4

\* Giving the slot at the tail back removes the head of the queue.
LEMMA RefinementTake ==
  ASSUME TypeOK, TypeOK', ~CbufEmpty, Take, UNCHANGED <<buffer, head>>
  PROVE  /\ Queue # <<>>
         /\ Queue' = Tail(Queue)
         /\ buffer[tail] = Head(Queue)
<1>1. /\ CbufSize \in Nat
      /\ Queue \in Seq(Items)
      /\ Len(Queue) = CbufSize
      /\ \A k \in 1..CbufSize : Queue[k] = buffer[Slot(k)]
      /\ Queue = <<>> <=> CbufSize = 0
  BY QueueSeq DEF QueueIsSeq
<1>9. QueueIsSeq'
  BY QueueSeq, PTL
<1>2. /\ Queue' \in Seq(Items)
      /\ Len(Queue') = CbufSize'
      /\ \A k \in 1..CbufSize' : Queue'[k] = buffer'[Slot(k)']
  BY <1>9 DEF QueueIsSeq
<1>3. Queue # <<>>
  BY <1>1, TypeParts, SizeBound
<1>4. /\ CbufSize' = CbufSize - 1
      /\ \A k \in 1..(CbufSize - 1) : buffer'[Slot(k)'] = buffer[Slot(k + 1)]
  BY TakeOldest
<1>5. /\ Tail(Queue) \in Seq(Items)
      /\ Len(Tail(Queue)) = CbufSize - 1
      /\ \A k \in 1..(CbufSize - 1) : Tail(Queue)[k] = Queue[k + 1]
  BY <1>1, <1>3, HeadTailProperties
<1>6. \A k \in 1..Len(Queue') : Queue'[k] = Tail(Queue)[k]
  BY <1>1, <1>2, <1>4, <1>5
<1>7. Queue' = Tail(Queue)
  BY <1>2, <1>4, <1>5, <1>6, SeqEqual
<1>8. buffer[tail] = Queue[1]
  BY <1>1, OldestWritten
<1> QED
  BY <1>3, <1>7, <1>8

\* Every call is the abstract queue's call of that name, or no step of it.
LEMMA RefinementStep ==
  TypeOK /\ TypeOK' /\ [Next]_vars => [Abstract!Next]_(Abstract!vars)
<1> SUFFICES ASSUME TypeOK, TypeOK', [Next]_vars
             PROVE  [Abstract!Next]_(Abstract!vars)
  OBVIOUS
<1>0. Indices
  BY TypeParts
<1>1. /\ Len(Queue) = CbufSize
      /\ Queue = <<>> <=> CbufSize = 0
      /\ Queue = <<>> <=> CbufEmpty
  BY <1>0, QueueSeq, SizeBound DEF QueueIsSeq
<1>2. ASSUME NEW i \in Items, CbufPut(i) PROVE Abstract!Next
  BY <1>2, RefinementPut DEF Abstract!Next
<1>3. CASE CbufGet
  <2>1. CASE CbufEmpty
    <3>1. Queue' = Queue
      BY <1>3, <2>1, SameSlots DEF CbufGet
    <3> QED
      BY <1>1, <1>3, <2>1, <3>1 DEF CbufGet, Abstract!Get, Abstract!Next
  <2>2. CASE ~CbufEmpty
    <3>1. Take /\ UNCHANGED <<buffer, head>> /\ result' = buffer[tail]
      BY <1>3, <2>2 DEF CbufGet
    <3> QED
      BY <2>2, <3>1, RefinementTake DEF Abstract!Get, Abstract!Next
  <2> QED
    BY <2>1, <2>2
<1>4. CASE CbufGetPtr
  <2>1. Queue' = Queue
    BY <1>4, SameSlots DEF CbufGetPtr
  <2>2. ~CbufEmpty => buffer[tail] = Head(Queue)
    <3> SUFFICES ASSUME ~CbufEmpty PROVE buffer[tail] = Head(Queue)
      OBVIOUS
    <3>1. buffer[tail] = Queue[1]
      BY OldestWritten, QueueSeq DEF QueueIsSeq
    <3>2. Queue \in Seq(Items) /\ Queue # <<>>
      BY <1>1, QueueSeq DEF QueueIsSeq
    <3> QED
      BY <3>1, <3>2
  <2> QED
    BY <1>1, <1>4, <2>1, <2>2 DEF CbufGetPtr, Abstract!Peek, Abstract!Next
<1>5. CASE CbufDrop
  <2>1. CASE CbufEmpty
    <3>1. Queue' = Queue /\ result' = result
      BY <1>5, <2>1, SameSlots DEF CbufDrop
    <3> QED
      BY <3>1 DEF Abstract!vars
  <2>2. CASE ~CbufEmpty
    <3>1. Take /\ UNCHANGED <<buffer, head>> /\ result' = result
      BY <1>5, <2>2 DEF CbufDrop
    <3> QED
      BY <2>2, <3>1, RefinementTake DEF Abstract!Drop, Abstract!Next
  <2> QED
    BY <2>1, <2>2
<1>6. CASE CbufSizeCall
  <2>1. Queue' = Queue
    BY <1>6, SameSlots DEF CbufSizeCall
  <2> QED
    BY <1>1, <1>6, <2>1 DEF CbufSizeCall, Abstract!Size, Abstract!Next
<1>7. CASE CbufReset
  <2>1. full' = FALSE /\ head' = 0 /\ tail' = 0 /\ result' = result
    BY <1>7 DEF CbufReset
  <2>2. CbufSize' = 0
    BY <2>1 DEF CbufSize
  <2>3. QueueIsSeq'
    BY QueueSeq, PTL
  <2>4. Queue' = <<>>
    BY <2>2, <2>3 DEF QueueIsSeq
  <2> QED
    BY <2>1, <2>4 DEF Abstract!Reset, Abstract!Next
<1>8. CASE UNCHANGED vars
  BY <1>8, SameSlots DEF vars, Abstract!vars
<1> QED
  BY <1>2, <1>3, <1>4, <1>5, <1>6, <1>7, <1>8 DEF Next

\* circ_buf.c implements the queue that drops its oldest packet, whatever the
\* number of slots and the calls.
THEOREM Refinement == Spec => Refines
<1>1. Init => Abstract!Init
  BY RefinementInit
<1>2. TypeOK /\ TypeOK' /\ [Next]_vars => [Abstract!Next]_(Abstract!vars)
  BY RefinementStep
<1>3. Spec => []TypeOK
  BY BufferTypes
<1> QED
  BY <1>1, <1>2, <1>3, PTL DEF Spec, Refines, Abstract!Spec
=============================================================================
