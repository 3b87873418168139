--------------------------- MODULE CrsfBridgeProofs ----------------------------
(***************************************************************************)
(* What CrsfBridge promises for every payload length the protocol may      *)
(* allow and for every number of slots.                                    *)
(***************************************************************************)
EXTENDS CrsfBridge, SequenceTheorems, TLAPS

USE LengthAssumption, SlotsAssumption

-----------------------------------------------------------------------------
(* The parser. *)

\* What the fields of a parser say together.
ParserOK(p) ==
    /\ p.state = "TYPE" => p.length = 2 /\ p.payload_pos = 0
    /\ p.state = "PAYLOAD" => /\ p.length = 3 + p.payload_pos
                              /\ p.payload_pos < p.payload_length
    /\ p.state = "CRC" => p.length = 3 + p.payload_length
    /\ p.state \in {"TYPE", "PAYLOAD", "CRC"} =>
          /\ p.payload_length >= 1
          /\ p.lenbyte = p.payload_length + 2

\* A parser between packets is in order.
LEMMA IdleOK == Idle \in Parsers /\ ParserOK(Idle)
  BY DEF Idle, Parsers, ParserOK, Bytes, MaxPacket

\* What a byte does in each state.
LEMMA ParseSource ==
  ASSUME NEW p \in Parsers, NEW b \in Bytes, p.state = "SOURCE"
  PROVE  Parse(p, b) = IF b = Address THEN [p EXCEPT !.state = "LENGTH"] ELSE p
  BY DEF Parse

LEMMA ParseLength ==
  ASSUME NEW p \in Parsers, NEW b \in Bytes, p.state = "LENGTH"
  PROVE  Parse(p, b) =
           IF b \in Lengths
           THEN [p EXCEPT !.state = "TYPE", !.lenbyte = b, !.length = 2,
                          !.payload_length = PayloadOf(b), !.payload_pos = 0]
           ELSE Idle
  BY DEF Parse

LEMMA ParseType ==
  ASSUME NEW p \in Parsers, NEW b \in Bytes, p.state = "TYPE"
  PROVE  Parse(p, b) = [p EXCEPT !.state = "PAYLOAD", !.type = TypeOf(b),
                                 !.length = @ + 1]
  BY DEF Parse

LEMMA ParsePayload ==
  ASSUME NEW p \in Parsers, NEW b \in Bytes, p.state = "PAYLOAD"
  PROVE  Parse(p, b) =
           [p EXCEPT !.state = IF p.payload_pos + 1 >= p.payload_length
                               THEN "CRC" ELSE "PAYLOAD",
                     !.payload_pos = @ + 1, !.length = @ + 1]
  BY DEF Parse

LEMMA ParseCrc ==
  ASSUME NEW p \in Parsers, NEW b \in Bytes, p.state = "CRC"
  PROVE  Parse(p, b) = [p EXCEPT !.state = "SOURCE", !.length = @ + 1]
  BY DEF Parse

\* Within a packet a byte keeps the parser in order: what it stores fits.
LEMMA ParseOK ==
  ASSUME NEW p \in Parsers, ParserOK(p), NEW b \in Bytes, p.state # "CRC"
  PROVE  Parse(p, b) \in Parsers /\ ParserOK(Parse(p, b))
<1>1. CASE p.state = "SOURCE"
  BY <1>1, ParseSource DEF Parsers, ParserOK
<1>2. CASE p.state = "LENGTH"
  <2>1. CASE b \in Lengths
    <3>1. PayloadOf(b) \in 1..MaxPayload /\ PayloadOf(b) + 2 = b
      BY <2>1 DEF Lengths, PayloadOf
    <3> DEFINE n == PayloadOf(b)
    <3> HIDE DEF n
    <3>2. Parse(p, b) = [p EXCEPT !.state = "TYPE", !.lenbyte = b, !.length = 2,
                                  !.payload_length = n, !.payload_pos = 0]
      BY <1>2, <2>1, ParseLength DEF n
    <3>3. n \in 1..MaxPayload /\ n + 2 = b
      BY <3>1 DEF n
    <3>4. /\ 2 \in 0..MaxPacket /\ 0 \in 0..MaxPayload /\ n \in 0..MaxPayload
      BY <3>3 DEF MaxPacket
    <3>5. Parse(p, b) \in Parsers
      BY <3>2, <3>4 DEF Parsers
    <3> QED
      BY <3>2, <3>3, <3>5 DEF Parsers, ParserOK
  <2>2. CASE b \notin Lengths
    BY <1>2, <2>2, ParseLength, IdleOK
  <2> QED
    BY <2>1, <2>2
<1>3. CASE p.state = "TYPE"
  <2>1. TypeOf(b) \in {"channels", "other"}
    BY DEF TypeOf
  <2>4. p.length + 1 \in 0..MaxPacket /\ p.length = 2
    BY <1>3 DEF ParserOK, MaxPacket
  <2> DEFINE kind == TypeOf(b)
             q == [p EXCEPT !.state = "PAYLOAD", !.type = kind, !.length = @ + 1]
  <2> HIDE DEF kind
  <2>5. Parse(p, b) = q
    BY <1>3, ParseType DEF kind
  <2>2. q \in Parsers
    BY <2>1, <2>4 DEF Parsers, kind
  <2>3. ParserOK(q)
    BY <1>3, <2>4 DEF Parsers, ParserOK
  <2> QED
    BY <2>2, <2>3, <2>5
<1>4. CASE p.state = "PAYLOAD"
  <2> DEFINE next == IF p.payload_pos + 1 >= p.payload_length
                     THEN "CRC" ELSE "PAYLOAD"
  <2>1. /\ p.payload_pos + 1 \in 0..MaxPayload /\ p.length + 1 \in 0..MaxPacket
        /\ p.length = 3 + p.payload_pos
        /\ p.payload_pos + 1 <= p.payload_length
        /\ p.payload_length \in 1..MaxPayload
        /\ p.lenbyte = p.payload_length + 2
    BY <1>4 DEF Parsers, ParserOK, MaxPacket
  <2>2. /\ next \in {"CRC", "PAYLOAD"}
        /\ next = "CRC" => p.payload_pos + 1 = p.payload_length
        /\ next = "PAYLOAD" => p.payload_pos + 1 < p.payload_length
    BY <2>1
  <2>3. Parse(p, b) = [p EXCEPT !.state = next, !.payload_pos = @ + 1,
                                !.length = @ + 1]
    BY <1>4, ParsePayload
  <2> HIDE DEF next
  <2>4. Parse(p, b) \in Parsers
    BY <2>1, <2>2, <2>3 DEF Parsers
  <2>5. ParserOK(Parse(p, b))
    BY <2>1, <2>2, <2>3 DEF Parsers, ParserOK
  <2> QED
    BY <2>4, <2>5
<1> QED
  BY <1>1, <1>2, <1>3, <1>4 DEF Parsers

\* The byte behind the payload makes a packet of its length byte and two more.
LEMMA PacketOK ==
  ASSUME NEW p \in Parsers, ParserOK(p), NEW b \in Bytes, p.state = "CRC"
  PROVE  /\ Packet(Parse(p, b)) \in Packets
         /\ Packet(Parse(p, b)).length = Packet(Parse(p, b)).lenbyte + 2
         /\ Packet(Parse(p, b)).length = p.length + 1
<1>1. /\ p.length = p.lenbyte + 1 /\ p.length + 1 \in 0..MaxPacket
      /\ p.lenbyte \in Bytes /\ p.lenbyte \in Nat
  BY DEF Parsers, ParserOK, MaxPacket, Bytes
<1>2. Parse(p, b).length = p.length + 1 /\ Parse(p, b).lenbyte = p.lenbyte
  BY ParseCrc DEF Parsers
<1> QED
  BY <1>1, <1>2 DEF Packet, Packets

-----------------------------------------------------------------------------
(* The lines. *)

Senders == {s \in [pos : Nat, len : 1..MaxPayload] : s.pos <= s.len + 3}

\* The parser p has seen what the sender s has sent of its packet.
Follows(p, s) == /\ p.state = StateAt(s)
                 /\ s.pos >= 2 => /\ p.length = s.pos
                                  /\ p.payload_length = s.len

LinesInv ==
    /\ parser \in [Lines -> Parsers] /\ sender \in [Lines -> Senders]
    /\ intact \in [Lines -> BOOLEAN] /\ clock \in {"never", "fresh", "stale"}
    /\ \A l \in Lines : /\ ParserOK(parser[l])
                        /\ intact[l] => Follows(parser[l], sender[l])
                        /\ clock = "never" => parser[l] = Idle

\* The parser that sees the next byte is in order, and in step on a line that
\* stays undisturbed.
LEMMA AwakeOK ==
  ASSUME LinesInv, NEW l \in Lines
  PROVE  /\ Awake(parser[l]) \in Parsers /\ ParserOK(Awake(parser[l]))
         /\ clock # "fresh" => Awake(parser[l]) = Idle
         /\ clock = "fresh" => Awake(parser[l]) = parser[l]
  BY IdleOK DEF LinesInv, Awake

\* What the sender may do next.
LEMMA Advances ==
  ASSUME LinesInv, NEW l \in Lines, Advance(l)
  PROVE  /\ sender' \in [Lines -> Senders]
         /\ \A k \in Lines : k # l => sender'[k] = sender[k]
         /\ ~Ending(l) => /\ sender'[l].pos = sender[l].pos + 1
                          /\ sender'[l].len = sender[l].len
         /\ Ending(l) => sender'[l].pos = 0
         /\ sender' # sender
<1>1. /\ sender[l] \in [pos : Nat, len : 1..MaxPayload]
      /\ sender[l].pos <= sender[l].len + 3
  BY DEF LinesInv, Senders
<1>2. CASE Ending(l)
  <2>1. PICK n \in 1..MaxPayload :
           sender' = [sender EXCEPT ![l] = [pos |-> 0, len |-> n]]
    BY <1>2 DEF Advance
  <2>2. [pos |-> 0, len |-> n] \in Senders
    BY DEF Senders
  <2>3. sender'[l] = [pos |-> 0, len |-> n] /\ sender[l].pos # 0
    BY <1>1, <1>2, <2>1 DEF LinesInv, Ending
  <2>4. sender' \in [Lines -> Senders]
    BY <2>1, <2>2 DEF LinesInv
  <2>5. sender' # sender
    BY <2>3
  <2> QED
    BY <1>2, <2>1, <2>3, <2>4, <2>5 DEF LinesInv
<1>3. CASE ~Ending(l)
  <2> DEFINE next == [sender[l] EXCEPT !.pos = @ + 1]
  <2>1. sender' = [sender EXCEPT ![l] = next]
    BY <1>3 DEF Advance, LinesInv
  <2>2. /\ next \in Senders /\ next.pos = sender[l].pos + 1
        /\ next.len = sender[l].len
    BY <1>1, <1>3 DEF Senders, Ending
  <2> HIDE DEF next
  <2>3. sender'[l] = next
    BY <2>1 DEF LinesInv
  <2>4. sender' \in [Lines -> Senders]
    BY <2>1, <2>2 DEF LinesInv
  <2>5. sender' # sender
    BY <1>1, <2>2, <2>3
  <2> QED
    BY <1>3, <2>1, <2>2, <2>3, <2>4, <2>5 DEF LinesInv
<1> QED
  BY <1>2, <1>3

\* The parser in step takes the byte of the sender, up to the last of a packet.
LEMMA StepFollows ==
  ASSUME NEW p \in Parsers, ParserOK(p), NEW s \in Senders, Follows(p, s),
         NEW b \in Bytes, s.pos # s.len + 3,
         s.pos = 0 => b = Address, s.pos = 1 => b = s.len + 2,
         NEW t \in Senders, t.pos = s.pos + 1, t.len = s.len
  PROVE  p.state # "CRC" /\ Follows(Parse(p, b), t)
<1>1. /\ s.pos \in Nat /\ s.len \in 1..MaxPayload /\ s.pos < s.len + 3
  BY DEF Senders
<1>2. CASE s.pos = 0
  <2>1. p.state = "SOURCE"
    BY <1>2 DEF Follows, StateAt
  <2>2. Parse(p, b).state = "LENGTH"
    BY <1>2, <2>1, ParseSource DEF Parsers
  <2> QED
    BY <1>1, <1>2, <2>1, <2>2 DEF Follows, StateAt
<1>3. CASE s.pos = 1
  <2>1. p.state = "LENGTH"
    BY <1>3 DEF Follows, StateAt
  <2>2. b \in Lengths /\ PayloadOf(b) = s.len
    BY <1>1, <1>3 DEF Lengths, PayloadOf
  <2>3. /\ Parse(p, b).state = "TYPE" /\ Parse(p, b).length = 2
        /\ Parse(p, b).payload_length = s.len
    BY <2>1, <2>2, ParseLength DEF Parsers
  <2> QED
    BY <1>1, <1>3, <2>1, <2>3 DEF Follows, StateAt
<1>4. CASE s.pos = 2
  <2>1. p.state = "TYPE" /\ p.length = 2 /\ p.payload_length = s.len
    BY <1>4 DEF Follows, StateAt
  <2>2. /\ Parse(p, b).state = "PAYLOAD" /\ Parse(p, b).length = 3
        /\ Parse(p, b).payload_length = s.len
    <3> DEFINE kind == TypeOf(b)
    <3>1. Parse(p, b) = [p EXCEPT !.state = "PAYLOAD", !.type = kind,
                                  !.length = @ + 1]
      BY <2>1, ParseType
    <3> HIDE DEF kind
    <3> QED
      BY <2>1, <3>1 DEF Parsers
  <2> QED
    BY <1>1, <1>4, <2>1, <2>2 DEF Follows, StateAt
<1>5. CASE s.pos >= 3
  <2>1. /\ p.state = "PAYLOAD" /\ p.length = s.pos /\ p.payload_length = s.len
        /\ p.payload_pos = s.pos - 3
    BY <1>1, <1>5 DEF Follows, StateAt, ParserOK, Parsers
  <2>2. /\ Parse(p, b).state = IF s.pos - 2 >= s.len THEN "CRC" ELSE "PAYLOAD"
        /\ Parse(p, b).length = s.pos + 1
        /\ Parse(p, b).payload_length = s.len
    <3> DEFINE next == IF s.pos - 2 >= s.len THEN "CRC" ELSE "PAYLOAD"
    <3>1. Parse(p, b) = [p EXCEPT !.state = next, !.payload_pos = @ + 1,
                                  !.length = @ + 1]
      <4>1. (p.payload_pos + 1 >= p.payload_length) <=> (s.pos - 2 >= s.len)
        BY <1>1, <1>5, <2>1
      <4> QED
        BY <2>1, <4>1, ParsePayload
    <3> HIDE DEF next
    <3>2. Parse(p, b).state = next /\ Parse(p, b).length = s.pos + 1
          /\ Parse(p, b).payload_length = s.len
      BY <2>1, <3>1 DEF Parsers
    <3> QED
      BY <3>2 DEF next
  <2>3. StateAt(t) = IF s.pos - 2 >= s.len THEN "CRC" ELSE "PAYLOAD"
    BY <1>1, <1>5 DEF StateAt
  <2> QED
    BY <1>1, <1>5, <2>1, <2>2, <2>3 DEF Follows
<1> QED
  BY <1>1, <1>2, <1>3, <1>4, <1>5

\* A byte of either line keeps both lines in order.
LEMMA ArrivalKeeps ==
  ASSUME LinesInv, NEW l \in Lines, NEW b \in Bytes, Arrives(l, b), Parsed(l, b)
  PROVE  LinesInv'
<1> DEFINE p == Awake(parser[l])
           q == IF p.state = "CRC" THEN Idle ELSE Parse(p, b)
<1>1. p \in Parsers /\ ParserOK(p)
  BY AwakeOK
<1>2. q \in Parsers /\ ParserOK(q)
  BY <1>1, IdleOK, ParseOK
<1>3. parser' = [parser EXCEPT ![l] = q] /\ clock' = "fresh"
  BY DEF Parsed, Completes, LinesInv
<1>4. /\ sender' \in [Lines -> Senders] /\ Advance(l)
      /\ \A k \in Lines : k # l => sender'[k] = sender[k]
  BY Advances DEF Arrives
<1> DEFINE now == /\ Sends(l, b)
                  /\ IF clock = "fresh" THEN intact[l] ELSE sender[l].pos = 0
<1>9. intact' = [intact EXCEPT ![l] = now] /\ now \in BOOLEAN
  BY DEF Arrives
<1>10. now => /\ Sends(l, b)
              /\ clock = "fresh" => intact[l]
              /\ clock # "fresh" => sender[l].pos = 0
  OBVIOUS
<1> HIDE DEF now
<1>5. /\ intact'[l] = now
      /\ \A k \in Lines : k # l => intact'[k] = intact[k]
      /\ intact' \in [Lines -> BOOLEAN]
  BY <1>9 DEF LinesInv
<1>6. intact'[l] => Follows(q, sender'[l])
  <2> SUFFICES ASSUME intact'[l] PROVE Follows(q, sender'[l])
    OBVIOUS
  <2>1. Follows(p, sender[l])
    <3>0. now
      BY <1>5
    <3>1. CASE clock = "fresh"
      BY <1>10, <3>0, <3>1, AwakeOK DEF LinesInv
    <3>2. CASE clock # "fresh"
      <4>1. p = Idle /\ sender[l].pos = 0
        BY <1>10, <3>0, <3>2, AwakeOK
      <4> QED
        BY <4>1 DEF Follows, StateAt, Idle
    <3> QED
      BY <3>1, <3>2
  <2>2. sender[l] \in Senders /\ sender'[l] \in Senders
    BY <1>4 DEF LinesInv
  <2>3. CASE Ending(l)
    <3>1. sender[l].pos = sender[l].len + 3 /\ sender[l].pos \in Nat
          /\ sender[l].len \in 1..MaxPayload
      BY <2>2, <2>3 DEF Ending, Senders
    <3>2. p.state = "CRC"
      BY <2>1, <3>1 DEF Follows, StateAt
    <3>3. sender'[l].pos = 0
      BY <1>4, <2>3, Advances
    <3> QED
      BY <3>2, <3>3 DEF Follows, StateAt, Idle
  <2>4. CASE ~Ending(l)
    <3>1. /\ sender'[l].pos = sender[l].pos + 1
          /\ sender'[l].len = sender[l].len
      BY <1>4, <2>4, Advances
    <3>2. /\ sender[l].pos = 0 => b = Address
          /\ sender[l].pos = 1 => b = sender[l].len + 2
      BY <1>5, <1>10 DEF Sends
    <3>3. sender[l].pos # sender[l].len + 3
      BY <2>4 DEF Ending
    <3>4. p.state # "CRC" /\ Follows(Parse(p, b), sender'[l])
      BY <1>1, <2>1, <2>2, <3>1, <3>2, <3>3, StepFollows
    <3> QED
      BY <3>4
  <2> QED
    BY <2>3, <2>4
<1> HIDE DEF q
<1>7. parser' \in [Lines -> Parsers]
  BY <1>2, <1>3 DEF LinesInv
<1>8. ASSUME NEW k \in Lines
      PROVE  ParserOK(parser'[k]) /\ (intact'[k] => Follows(parser'[k], sender'[k]))
  <2>1. CASE k = l
    BY <1>2, <1>3, <1>6, <2>1 DEF LinesInv
  <2>2. CASE k # l
    <3>1. parser'[k] = parser[k] /\ sender'[k] = sender[k] /\ intact'[k] = intact[k]
      BY <1>3, <1>4, <1>5, <2>2 DEF LinesInv
    <3> QED
      BY <3>1 DEF LinesInv
  <2> QED
    BY <2>1, <2>2
<1> QED
  BY <1>3, <1>4, <1>5, <1>7, <1>8 DEF LinesInv

\* So does the loss of a byte, which ends the undisturbed time of its line.
LEMMA LossKeeps ==
  ASSUME LinesInv, NEW l \in Lines, Lost(l)
  PROVE  LinesInv'
<1>1. sender' \in [Lines -> Senders]
      /\ \A k \in Lines : k # l => sender'[k] = sender[k]
  BY Advances DEF Lost
<1>2. intact' = [intact EXCEPT ![l] = FALSE] /\ UNCHANGED <<parser, clock>>
  BY DEF Lost
<1>3. intact' \in [Lines -> BOOLEAN]
  BY <1>2 DEF LinesInv
<1>4. ASSUME NEW k \in Lines, intact'[k]
      PROVE  Follows(parser[k], sender'[k])
  <2>1. k # l /\ intact[k]
    BY <1>2, <1>4 DEF LinesInv
  <2> QED
    BY <1>1, <2>1 DEF LinesInv
<1> QED
  BY <1>1, <1>2, <1>3, <1>4 DEF LinesInv

-----------------------------------------------------------------------------
(* The buffer. *)

\* The packets whose length is the one their second byte says.
WholePacket == {p \in Packets : p.length = p.lenbyte + 2}

BufferInv == /\ queue \in Seq(WholePacket) /\ Len(queue) <= Slots
             /\ written \in WholePacket \cup {NoPacket}

LEMMA PutKeeps ==
  ASSUME BufferInv, NEW p \in WholePacket, Cbuf!Put(p)
  PROVE  /\ BufferInv'
         /\ Last(queue') = p
<1> DEFINE kept == IF Len(queue) = Slots THEN Tail(queue) ELSE queue
<1>1. kept \in Seq(WholePacket) /\ Len(kept) < Slots
  <2>1. Len(queue) \in Nat /\ Len(queue) <= Slots
    BY LenProperties DEF BufferInv
  <2>2. CASE Len(queue) = Slots
    <3>1. queue # <<>>
      BY <2>2, EmptySeq DEF BufferInv
    <3> QED
      BY <2>1, <2>2, <3>1, HeadTailProperties DEF BufferInv
  <2>3. CASE Len(queue) # Slots
    BY <2>1, <2>3 DEF BufferInv
  <2> QED
    BY <2>2, <2>3
<1>2. queue' = Append(kept, p) /\ written' = written
  BY DEF Cbuf!Put
<1> HIDE DEF kept
<1>3. /\ Append(kept, p) \in Seq(WholePacket)
      /\ Len(Append(kept, p)) = Len(kept) + 1
      /\ Append(kept, p)[Len(kept) + 1] = p
  BY <1>1, AppendProperties
<1>4. Len(kept) \in Nat
  BY <1>1, LenProperties
<1> QED
  BY <1>1, <1>2, <1>3, <1>4 DEF BufferInv, Last

LEMMA GetKeeps ==
  ASSUME BufferInv, queue # <<>>, Cbuf!Get
  PROVE  BufferInv'
<1>1. /\ written' = Head(queue) /\ queue' = Tail(queue)
  BY DEF Cbuf!Get
<1>2. /\ Head(queue) \in WholePacket /\ Tail(queue) \in Seq(WholePacket)
      /\ Len(Tail(queue)) = Len(queue) - 1
  BY HeadTailProperties DEF BufferInv
<1>3. Len(queue) \in Nat
  BY LenProperties DEF BufferInv
<1> QED
  BY <1>1, <1>2, <1>3 DEF BufferInv

-----------------------------------------------------------------------------
(* The invariant. *)

\* What is copied over the shared channels fills them.
SharedOK == shared \in {0} \cup ChannelsLen..MaxPayload

BridgeInv == LinesInv /\ BufferInv /\ SharedOK

LEMMA BridgeInit == Init => BridgeInv
<1> SUFFICES ASSUME Init PROVE BridgeInv
  OBVIOUS
<1> DEFINE first == [pos |-> 0, len |-> 1]
<1>1. first \in Senders /\ first.pos = 0
  BY DEF Senders
<1>2. /\ parser = [l \in Lines |-> Idle] /\ clock = "never"
      /\ intact = [l \in Lines |-> FALSE] /\ sender = [l \in Lines |-> first]
  BY DEF Init
<1> HIDE DEF first
<1>3. LinesInv
  BY <1>1, <1>2, IdleOK DEF LinesInv
<1>4. BufferInv
  <2>1. queue = <<>> /\ written = NoPacket
    BY DEF Init, Cbuf!Init
  <2>2. <<>> \in Seq(WholePacket) /\ Len(<<>>) = 0
    BY EmptySeq
  <2> QED
    BY <2>1, <2>2 DEF BufferInv
<1>5. SharedOK
  BY DEF Init, SharedOK
<1> QED
  BY <1>3, <1>4, <1>5 DEF BridgeInv

\* The packet that a byte completes is a whole one.
LEMMA CompletedWhole ==
  ASSUME LinesInv, NEW l \in Lines, NEW b \in Bytes, Completes(l)
  PROVE  Packet(Completed(l, b)) \in WholePacket
<1> DEFINE p == Awake(parser[l])
<1>1. p \in Parsers /\ ParserOK(p) /\ p.state = "CRC"
  BY AwakeOK DEF Completes
<1> QED
  BY <1>1, PacketOK DEF Completed, WholePacket

\* Its payload is no longer than the protocol allows.
LEMMA CompletedLength ==
  ASSUME LinesInv, NEW l \in Lines, NEW b \in Bytes, Completes(l)
  PROVE  Completed(l, b).payload_length \in 0..MaxPayload
<1> DEFINE p == Awake(parser[l])
<1>1. p \in Parsers /\ p.state = "CRC"
  BY AwakeOK DEF Completes
<1>2. Parse(p, b) = [p EXCEPT !.state = "SOURCE", !.length = @ + 1]
  BY <1>1 DEF Parse
<1> QED
  BY <1>1, <1>2 DEF Completed, Parsers

LEMMA UartKeeps ==
  ASSUME BridgeInv, NEW b \in Bytes, UartByte(b)
  PROVE  BridgeInv'
<1>1. LinesInv'
  BY ArrivalKeeps DEF UartByte, BridgeInv, Lines
<1>2. SharedOK'
  <2>1. \/ UNCHANGED shared
        \/ Completes("uart") /\ Share(Completed("uart", b))
    BY DEF UartByte
  <2>2. Completes("uart") => Completed("uart", b).payload_length \in 0..MaxPayload
    BY CompletedLength DEF BridgeInv, Lines
  <2> QED
    BY <2>1, <2>2, LengthAssumption DEF Share, SharedOK, BridgeInv
<1>3. ASSUME UNCHANGED <<queue, written>>
      PROVE  BufferInv'
  BY <1>3 DEF BridgeInv, BufferInv
<1>4. ASSUME queue # <<>>, Cbuf!Get
      PROVE  BufferInv'
  BY <1>4, GetKeeps DEF BridgeInv
<1>5. BufferInv'
  BY <1>3, <1>4 DEF UartByte
<1> QED
  BY <1>1, <1>2, <1>5 DEF BridgeInv

LEMMA UdpKeeps ==
  ASSUME BridgeInv, NEW b \in Bytes, UdpByte(b)
  PROVE  BridgeInv'
<1>1. LinesInv'
  BY ArrivalKeeps DEF UdpByte, BridgeInv, Lines
<1>2. SharedOK'
  BY DEF UdpByte, BridgeInv, SharedOK
<1>3. ASSUME UNCHANGED <<queue, written>>
      PROVE  BufferInv'
  BY <1>3 DEF BridgeInv, BufferInv
<1>4. ASSUME Completes("udp"), Cbuf!Put(Packet(Completed("udp", b)))
      PROVE  BufferInv'
  <2>1. Packet(Completed("udp", b)) \in WholePacket
    BY <1>4, CompletedWhole DEF BridgeInv, Lines
  <2> QED
    BY <1>4, <2>1, PutKeeps DEF BridgeInv
<1>5. BufferInv'
  BY <1>3, <1>4 DEF UdpByte
<1> QED
  BY <1>1, <1>2, <1>5 DEF BridgeInv

LEMMA BridgeNext == BridgeInv /\ [Next]_vars => BridgeInv'
<1> SUFFICES ASSUME BridgeInv, [Next]_vars PROVE BridgeInv'
  OBVIOUS
<1>1. CASE \E b \in Bytes : UartByte(b) \/ UdpByte(b)
  BY <1>1, UartKeeps, UdpKeeps
<1>2. CASE \E l \in Lines : Lost(l)
  <2>1. LinesInv' /\ UNCHANGED <<queue, written, shared>>
    BY <1>2, LossKeeps DEF BridgeInv, Lost
  <2> QED
    BY <2>1 DEF BridgeInv, BufferInv, SharedOK
<1>3. CASE Silence
  <2>1. LinesInv'
    BY <1>3 DEF Silence, BridgeInv, LinesInv, lineVars
  <2>2. BufferInv'
    BY <1>3 DEF Silence, BridgeInv, BufferInv
  <2> QED
    BY <1>3, <2>1, <2>2 DEF Silence, BridgeInv, SharedOK
<1>4. CASE FlagTaken
  <2>1. LinesInv'
    BY <1>4 DEF FlagTaken, BridgeInv, LinesInv, lineVars
  <2>2. BufferInv'
    BY <1>4 DEF FlagTaken, BridgeInv, BufferInv
  <2> QED
    BY <1>4, <2>1, <2>2 DEF FlagTaken, BridgeInv, SharedOK
<1>5. CASE UNCHANGED vars
  BY <1>5 DEF vars, lineVars, BridgeInv, LinesInv, BufferInv, SharedOK
<1> QED
  BY <1>1, <1>2, <1>3, <1>4, <1>5 DEF Next

LEMMA BridgeAlways == Spec => []BridgeInv
  BY BridgeInit, BridgeNext, PTL DEF Spec

-----------------------------------------------------------------------------
(* The theorems. *)

\* No byte is stored behind the packet buffer or the payload, and the circular
\* buffer never holds more than its slots (parser, cbuf_put).
THEOREM BridgeTypes == Spec => []TypeOK
<1>1. BridgeInv => TypeOK
  <2> SUFFICES ASSUME BridgeInv PROVE TypeOK
    OBVIOUS
  <2>1. WholePacket \subseteq Packets
    BY DEF WholePacket
  <2>2. queue \in Seq(Packets)
    BY <2>1, SeqMonotonic DEF BridgeInv, BufferInv
  <2> QED
    BY <2>1, <2>2 DEF BridgeInv, BufferInv, LinesInv, SharedOK, TypeOK
<1> QED
  BY <1>1, BridgeAlways, PTL

\* Every packet that is buffered or written has the length its second byte
\* says, which is what cbuf_get and the write to the UART go by (parser,
\* process_connection_tx).
THEOREM WholeAlways == Spec => []WholePackets
<1>1. BridgeInv => WholePackets
  <2> SUFFICES ASSUME BridgeInv PROVE WholePackets
    OBVIOUS
  <2>1. \A i \in DOMAIN queue : queue[i] \in WholePacket
    BY LenProperties, ElementOfSeq DEF BridgeInv, BufferInv
  <2>2. written # NoPacket => written \in WholePacket
    BY DEF BridgeInv, BufferInv
  <2> QED
    BY <2>1, <2>2 DEF WholePackets, WholePacket
<1> QED
  BY <1>1, BridgeAlways, PTL

\* A silence on both lines before a packet brings a parser in step with the
\* sender of its line, for packets of every length and whatever the other line
\* sends (parser and the clock it keeps for both lines).
THEOREM StepAlways == Spec => []InStep
<1>1. BridgeInv => InStep
  BY DEF BridgeInv, LinesInv, Follows, InStep
<1> QED
  BY <1>1, BridgeAlways, PTL

\* The last byte of an undisturbed packet of the network puts it into the
\* buffer, whole, for every length and also into a full buffer
\* (process_connection_tx, cbuf_put).
THEOREM Queued == Spec => IntactQueued
<1> DEFINE Put == (Ending("udp") /\ sender' # sender /\ intact["udp"]
                     /\ intact'["udp"] /\ sender'["udp"].pos = 0)
                    => Last(queue').length = sender["udp"].len + 4
<1>1. BridgeInv /\ [Next]_vars => Put
  <2> SUFFICES ASSUME BridgeInv, [Next]_vars,
                      Ending("udp"), sender' # sender, intact["udp"],
                      intact'["udp"], sender'["udp"].pos = 0
               PROVE  Last(queue').length = sender["udp"].len + 4
    OBVIOUS
  <2> DEFINE s == sender["udp"]
             p == Awake(parser["udp"])
  <2>1. /\ LinesInv /\ BufferInv /\ "udp" \in Lines /\ "uart" \in Lines
        /\ s \in Senders /\ s.pos = s.len + 3 /\ s.len \in 1..MaxPayload
        /\ s.pos # 0
    BY DEF BridgeInv, LinesInv, Lines, Ending, Senders
  <2>2. PICK b \in Bytes : UdpByte(b)
    <3>1. ASSUME NEW b \in Bytes, UartByte(b)
          PROVE  FALSE
      BY <2>1, <3>1, Advances DEF UartByte, Arrives
    <3>2. ASSUME NEW l \in Lines, Lost(l)
          PROVE  FALSE
      <4>1. CASE l = "udp"
        BY <2>1, <3>2, <4>1 DEF Lost, LinesInv
      <4>2. CASE l # "udp"
        BY <2>1, <3>2, <4>2, Advances DEF Lost
      <4> QED
        BY <4>1, <4>2
    <3> QED
      BY <3>1, <3>2 DEF Next, Silence, FlagTaken, lineVars, vars
  <2>3. clock = "fresh"
    BY <2>1, <2>2 DEF UdpByte, Arrives, LinesInv
  <2>4. p = parser["udp"] /\ p \in Parsers /\ ParserOK(p) /\ Follows(p, s)
    BY <2>1, <2>3, AwakeOK DEF LinesInv
  <2>5. p.state = "CRC" /\ p.length = s.len + 3
    BY <2>1, <2>4 DEF Follows, StateAt
  <2>6. Completes("udp") /\ GoodCrc("udp") = {TRUE}
    BY <2>5 DEF Completes, GoodCrc
  <2>7. Cbuf!Put(Packet(Completed("udp", b)))
    BY <2>2, <2>6 DEF UdpByte
  <2>8. Packet(Completed("udp", b)).length = s.len + 4
    BY <2>1, <2>4, <2>5, PacketOK DEF Completed
  <2>9. Packet(Completed("udp", b)) \in WholePacket
    BY <2>1, <2>6, CompletedWhole
  <2> QED
    BY <2>1, <2>7, <2>8, <2>9, PutKeeps
<1> QED
  BY <1>1, BridgeAlways, PTL DEF Spec, IntactQueued
=============================================================================
