------------------------------- MODULE CircBuf -------------------------------
(***************************************************************************)
(* The circular buffer of crsf-bridge (circ_buf.c): Slots slots, the index   *)
(* head of the next write, the index tail of the next read, and a flag     *)
(* that tells a full buffer from an empty one when the two are equal.  The *)
(* bridge calls it from one thread, so a call is one step.                 *)
(***************************************************************************)
EXTENDS Integers

CONSTANTS
    Items,     \* the packets
    NoItem,    \* a slot never written; what a call on an empty buffer returns
    Slots        \* cbuf->max, CBUF_NUM in the bridge

ASSUME MaxAssumption == Slots \in Nat \ {0}
ASSUME ItemAssumption == NoItem \notin Items

VARIABLES buffer, head, tail, full,
          result    \* what the last call returned

vars == <<buffer, head, tail, full, result>>

Index == 0..(Slots - 1)

BugSucc(i) == i + 1    \* mutant: the index does not wrap
Succ(i) == (i + 1) % Slots

CbufEmpty == ~full /\ head = tail

CbufSize == IF full THEN Slots
            ELSE IF head >= tail THEN head - tail ELSE Slots + head - tail

Init ==
    /\ buffer = [i \in Index |-> NoItem]
    /\ head = 0 /\ tail = 0 /\ full = FALSE
    /\ result = NoItem

CbufPut(i) ==
    /\ buffer' = [buffer EXCEPT ![head] = i]
    /\ tail' = IF full THEN Succ(tail) ELSE tail
    /\ head' = Succ(head)
    /\ full' = (head' = tail')
    /\ UNCHANGED result

\* The slot at the tail is given back.
BugTake == tail' = Succ(tail) /\ UNCHANGED full    \* mutant: full is kept
Take == tail' = Succ(tail) /\ full' = FALSE

CbufGet ==
    \/ /\ CbufEmpty
       /\ result' = NoItem
       /\ UNCHANGED <<buffer, head, tail, full>>
    \/ /\ ~CbufEmpty
       /\ result' = buffer[tail]
       /\ Take
       /\ UNCHANGED <<buffer, head>>

CbufGetPtr ==
    /\ result' = IF CbufEmpty THEN NoItem ELSE buffer[tail]
    /\ UNCHANGED <<buffer, head, tail, full>>

\* A successful drop falls off the end of a function that returns int: its
\* value is not defined, and no caller looks at it.
CbufDrop ==
    /\ IF CbufEmpty THEN UNCHANGED <<tail, full>> ELSE Take
    /\ UNCHANGED <<buffer, head, result>>

CbufSizeCall ==
    /\ result' = CbufSize
    /\ UNCHANGED <<buffer, head, tail, full>>

CbufReset ==
    /\ head' = 0 /\ tail' = 0 /\ full' = FALSE
    /\ UNCHANGED <<buffer, result>>

Next == \/ \E i \in Items : CbufPut(i)
        \/ CbufGet \/ CbufGetPtr \/ CbufDrop \/ CbufSizeCall \/ CbufReset

Spec == Init /\ [][Next]_vars

-----------------------------------------------------------------------------
\* The slot of the k-th packet, and the packets from tail to head.
Slot(k) == (tail + k - 1) % Slots
Queue == [k \in 1..CbufSize |-> buffer[Slot(k)]]

Abstract == INSTANCE DropOldestQueue WITH queue <- Queue

\* Indices stay inside the array, the flag says "full" only when head has
\* caught up with tail, and a slot that holds a packet was written: no caller
\* reads storage that was never filled (cbuf_put, cbuf_get, cbuf_get_ptr).
TypeOK ==
    /\ buffer \in [Index -> Items \cup {NoItem}]
    /\ head \in Index /\ tail \in Index /\ full \in BOOLEAN
    /\ result \in Items \cup {NoItem} \cup 0..Slots
    /\ full => head = tail
    /\ \A k \in 1..CbufSize : buffer[Slot(k)] \in Items

\* Whatever the calls, the caller sees a queue that drops its oldest packet
\* (circ_buf.c against the queue the bridge takes it for).
Refines == Abstract!Spec
=============================================================================
