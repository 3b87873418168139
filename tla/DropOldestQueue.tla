--------------------------- MODULE DropOldestQueue ---------------------------
(***************************************************************************)
(* What the packet buffer of crsf-bridge promises: a first-in first-out    *)
(* queue of at most Slots packets in which a new packet pushes the oldest    *)
(* one out when there is no room, and is itself never refused.             *)
(***************************************************************************)
EXTENDS Naturals, Sequences

CONSTANTS Items, NoItem, Slots

VARIABLES
    queue,    \* the packets, oldest first
    result    \* what the last call returned

vars == <<queue, result>>

Init == queue = <<>> /\ result = NoItem

Put(i) ==
    /\ queue' = Append(IF Len(queue) = Slots THEN Tail(queue) ELSE queue, i)
    /\ UNCHANGED result

Get ==
    \/ /\ queue = <<>>
       /\ result' = NoItem
       /\ UNCHANGED queue
    \/ /\ queue # <<>>
       /\ result' = Head(queue)
       /\ queue' = Tail(queue)

Peek ==
    /\ result' = IF queue = <<>> THEN NoItem ELSE Head(queue)
    /\ UNCHANGED queue

Drop ==
    /\ queue' = IF queue = <<>> THEN queue ELSE Tail(queue)
    /\ UNCHANGED result

Size == result' = Len(queue) /\ UNCHANGED queue

Reset == queue' = <<>> /\ UNCHANGED result

Next == (\E i \in Items : Put(i)) \/ Get \/ Peek \/ Drop \/ Size \/ Reset

Spec == Init /\ [][Next]_vars
=============================================================================
