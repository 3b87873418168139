-------------------------- MODULE ControlLinkProofs ---------------------------
(***************************************************************************)
(* What ControlLink promises for every length of the payloads, of the      *)
(* timestamp, of the queues and of the timeout: types, the resynchronised  *)
(* parsers, the messages they act on, and what SIGPIPE takes with it.      *)
(*                                                                         *)
(* A parser that is out of step when a message begins is, while no start   *)
(* byte is seen, either waiting for one or a whole header ahead: it cannot *)
(* be in the middle of a message when the one on the wire ends.            *)
(***************************************************************************)
EXTENDS ControlLink, TLAPS

USE LengthAssumption, LinkAssumption DEF Ends

-----------------------------------------------------------------------------
(* The parser. *)

\* A message has a header, at least one byte of payload and a CRC.
LEMMA Lengths ==
  ASSUME NEW e \in Ends
  PROVE  /\ MsgLen(e) \in Nat /\ MsgLen(e) >= 6
         /\ Places(e) = 0..(MsgLen(e) - 1)
  BY DEF MsgLen, HeaderLen, Places

\* The place behind a place.
LEMMA Successor ==
  ASSUME NEW m \in Nat \ {0}, NEW p \in 0..(m - 1)
  PROVE  (p + 1) % m = IF p + 1 < m THEN p + 1 ELSE 0
  OBVIOUS

LEMMA NextInMessage ==
  ASSUME NEW e \in Ends, NEW p \in 0..(MsgLen(e) - 1)
  PROVE  (p + 1) % MsgLen(e) = IF p + 1 < MsgLen(e) THEN p + 1 ELSE 0
<1>1. MsgLen(e) \in Nat \ {0}
  BY Lengths
<1> QED
  BY <1>1, Successor

\* A byte takes the parser on, to the beginning at the end, or back to it.
LEMMA PlaceMoves ==
  ASSUME NEW e \in Ends, NEW p \in Places(e), NEW b
  PROVE  /\ NextPlace(e, p, b) = IF b \in Accepted(e, p) /\ p + 1 < MsgLen(e)
                                 THEN p + 1 ELSE 0
         /\ NextPlace(e, p, b) \in Places(e)
<1>1. /\ MsgLen(e) \in Nat /\ MsgLen(e) >= 6 /\ p \in 0..(MsgLen(e) - 1)
      /\ Places(e) = 0..(MsgLen(e) - 1)
  BY Lengths
<1>2. NextPlace(e, p, b) = IF b \in Accepted(e, p) /\ p + 1 < MsgLen(e)
                           THEN p + 1 ELSE 0
  BY <1>1, NextInMessage DEF NextPlace
<1> QED
  BY <1>1, <1>2

\* A byte of a message is one the parser in step takes.
LEMMA StepTaken ==
  ASSUME NEW e \in Ends, NEW p \in Places(e), NEW b \in BytesAt(e, p)
  PROVE  b \in Accepted(e, p)
  BY Lengths DEF BytesAt, Accepted, Type, Length, Bytes

\* Out of step, a start byte is taken as data or sends the parser back; any
\* other byte does not make it begin.
LEMMA StartTaken ==
  ASSUME NEW e \in Ends, NEW b
  PROVE  /\ b = "e1" => \A p \in 1..3 : b \notin Accepted(e, p)
         /\ b # "e1" => b \notin Accepted(e, 0)
  BY DEF Accepted, Length

-----------------------------------------------------------------------------
(* The streams. *)

\* Where a parser may stand in a message that shows no start byte but its own.
Follows(e) == \/ InStep(e)
              \/ place[e] = 0
              \/ place[e] >= HeaderLen + at[e]

StreamOK(e) == /\ synced[e] => InStep(e)
               /\ at[e] = 0 => plain[e]
               /\ plain[e] /\ at[e] > 0 => Follows(e)

Streams == StreamTypeOK /\ \A e \in Ends : StreamOK(e)

\* The parser in step stays there with every byte of the stream.
LEMMA FedInStep ==
  ASSUME Streams, NEW e \in Ends, NEW b \in BytesAt(e, at[e]),
         Feed(e, b), InStep(e)
  PROVE  InStep(e)'
<1> DEFINE p == at[e]
<1>1. /\ MsgLen(e) \in Nat /\ MsgLen(e) >= 6 /\ p \in 0..(MsgLen(e) - 1)
      /\ p \in Places(e)
  BY Lengths DEF Streams, StreamTypeOK
<1>2. /\ place[e] = p
      /\ place'[e] = NextPlace(e, p, b)
      /\ at'[e] = (p + 1) % MsgLen(e)
      /\ wrong'[e] = NextWrong(e, p, b, wrong[e])
  BY DEF Feed, InStep, Streams, StreamTypeOK
<1>3. b \in Accepted(e, p)
  BY <1>1, StepTaken
<1>4. /\ at'[e] = IF p + 1 < MsgLen(e) THEN p + 1 ELSE 0
      /\ place'[e] = at'[e]
  BY <1>1, <1>2, <1>3, NextInMessage, PlaceMoves
<1>5. at'[e] > 2 => ~wrong'[e]
  <2>1. CASE p = 2
    <3>1. b = Type[e]
      BY <2>1 DEF BytesAt
    <3> QED
      BY <1>2, <1>3, <2>1, <3>1 DEF NextWrong
  <2>2. CASE p > 2
    BY <1>1, <1>2, <2>2 DEF NextWrong, InStep
  <2> QED
    BY <1>1, <1>4, <2>1, <2>2
<1> QED
  BY <1>4, <1>5 DEF InStep

\* A message without another start byte leaves the parser in step or nowhere
\* near a message of its own; behind its last byte that is in step.
LEMMA FedPlain ==
  ASSUME Streams, NEW e \in Ends, NEW b \in BytesAt(e, at[e]),
         Feed(e, b), ~InStep(e), plain[e], b = "e1" => at[e] = 0
  PROVE  /\ at'[e] = 0 => InStep(e)'
         /\ Follows(e)'
<1> DEFINE p == place[e]
           q == at[e]
<1>1. /\ MsgLen(e) \in Nat /\ MsgLen(e) >= 6
      /\ p \in 0..(MsgLen(e) - 1) /\ q \in 0..(MsgLen(e) - 1)
      /\ p \in Places(e) /\ q \in Places(e)
  BY Lengths DEF Streams, StreamTypeOK
<1>2. /\ place'[e] = IF b \in Accepted(e, p) /\ p + 1 < MsgLen(e)
                     THEN p + 1 ELSE 0
      /\ at'[e] = (q + 1) % MsgLen(e)
      /\ wrong'[e] = NextWrong(e, p, b, wrong[e])
  BY <1>1, PlaceMoves DEF Feed, Streams, StreamTypeOK
<1>3. at'[e] = IF q + 1 < MsgLen(e) THEN q + 1 ELSE 0
  BY <1>1, <1>2, NextInMessage
<1>4. CASE q = 0
  <2>1. b = "e1"
    BY <1>4 DEF BytesAt
  <2>2. p # 0
    BY <1>1, <1>4 DEF InStep
  <2>3. place'[e] = 0 \/ place'[e] >= 5
    <3>1. p \in 1..3 => b \notin Accepted(e, p)
      BY <2>1, StartTaken
    <3>2. p \in 1..3 \/ p + 1 >= 5
      BY <1>1, <2>2
    <3> QED
      BY <1>2, <3>1, <3>2
  <2> QED
    BY <1>1, <1>3, <1>4, <2>3 DEF Follows, HeaderLen
<1>5. CASE q > 0
  <2>1. p = 0 \/ p >= 4 + q
    BY <1>5 DEF Streams, StreamOK, Follows, HeaderLen
  <2>2. place'[e] = 0 \/ place'[e] >= 4 + q + 1
    BY <1>1, <1>2, <1>5, <2>1, StartTaken
  <2>3. place'[e] \in Nat /\ place'[e] < MsgLen(e)
    BY <1>1, <1>2
  <2>4. q + 1 = MsgLen(e) => place'[e] = 0
    BY <1>1, <2>2, <2>3
  <2> QED
    BY <1>1, <1>3, <2>2, <2>4 DEF Follows, InStep, HeaderLen
<1> QED
  BY <1>1, <1>4, <1>5

\* A byte leaves every stream in order.
LEMMA StreamsFed ==
  ASSUME Streams, NEW e \in Ends, NEW b \in BytesAt(e, at[e]), Feed(e, b)
  PROVE  Streams'
<1>1. /\ MsgLen(e) \in Nat /\ MsgLen(e) >= 6
      /\ at[e] \in 0..(MsgLen(e) - 1) /\ at[e] \in Places(e)
      /\ place[e] \in Places(e)
      /\ Places(e) = 0..(MsgLen(e) - 1)
  BY Lengths DEF Streams, StreamTypeOK
<1> DEFINE next == IF at[e] + 1 < MsgLen(e) THEN at[e] + 1 ELSE 0
<1>2. at' = [at EXCEPT ![e] = next] /\ next \in Places(e) /\ next \in Nat
  <2>1. (at[e] + 1) % MsgLen(e) = next
    BY <1>1, NextInMessage
  <2>2. at' = [at EXCEPT ![e] = next]
    BY <2>1 DEF Feed
  <2>3. next \in Places(e) /\ next \in Nat
    BY <1>1
  <2> QED
    BY <2>2, <2>3
<1>3. StreamTypeOK'
  <2> HIDE DEF next
  <2>1. NextPlace(e, place[e], b) \in Places(e) /\ NextPlace(e, place[e], b) \in Nat
    <3>1. NextPlace(e, place[e], b) \in Places(e)
      BY <1>1, PlaceMoves
    <3> QED
      BY <1>1, <3>1
  <2>2. NextWrong(e, place[e], b, wrong[e]) \in BOOLEAN
    BY DEF NextWrong, Streams, StreamTypeOK
  <2>3. /\ pend' \in [Ends -> Nat] /\ at' \in [Ends -> Nat]
        /\ place' \in [Ends -> Nat]
    <3>1. pend' \in [Ends -> Nat]
      BY DEF Feed, Streams, StreamTypeOK
    <3>2. at' \in [Ends -> Nat]
      BY <1>2 DEF Streams, StreamTypeOK
    <3>3. place' \in [Ends -> Nat]
      BY <2>1 DEF Feed, Streams, StreamTypeOK
    <3> QED
      BY <3>1, <3>2, <3>3
  <2>4. /\ plain' \in [Ends -> BOOLEAN] /\ wrong' \in [Ends -> BOOLEAN]
        /\ synced' \in [Ends -> BOOLEAN]
    BY <2>2 DEF Feed, Streams, StreamTypeOK
  <2>5. ASSUME NEW d \in Ends
        PROVE  at'[d] \in Places(d) /\ place'[d] \in Places(d)
    <3>1. CASE d = e
      <4>1. at'[e] = next
        BY <1>2 DEF Streams, StreamTypeOK
      <4>2. place'[e] = NextPlace(e, place[e], b)
        BY DEF Feed, Streams, StreamTypeOK
      <4> QED
        BY <1>2, <2>1, <3>1, <4>1, <4>2
    <3>2. CASE d # e
      BY <3>2 DEF Feed, Streams, StreamTypeOK
    <3> QED
      BY <3>1, <3>2
  <2> QED
    BY <2>3, <2>4, <2>5 DEF StreamTypeOK
<1>4. ASSUME NEW d \in Ends, d # e
      PROVE  StreamOK(d)'
  BY <1>4 DEF Feed, Streams, StreamTypeOK, StreamOK, Follows, InStep
<1>5. StreamOK(e)'
  <2> DEFINE last == at[e] = MsgLen(e) - 1
             plainNow == plain[e] /\ (b = "e1" => at[e] = 0)
  <2>1. /\ plain'[e] <=> last \/ plainNow
        /\ synced'[e] <=> synced[e] \/ (last /\ plainNow)
    BY DEF Feed, Streams, StreamTypeOK
  <2>4. /\ last <=> at'[e] = 0
        /\ at'[e] > 0 <=> ~last
    <3>1. at'[e] = next
      BY <1>2 DEF Streams, StreamTypeOK
    <3> QED
      BY <1>1, <3>1
  <2>2. CASE InStep(e)
    <3>1. InStep(e)'
      BY <2>2, FedInStep
    <3> QED
      BY <2>1, <2>4, <3>1 DEF StreamOK, Follows
  <2>3. CASE ~InStep(e)
    <3>1. ~synced[e]
      BY <2>3 DEF Streams, StreamOK
    <3>2. plainNow => Follows(e)' /\ (at'[e] = 0 => InStep(e)')
      BY <2>3, FedPlain
    <3> QED
      BY <2>1, <2>4, <3>1, <3>2 DEF StreamOK
  <2> QED
    BY <2>2, <2>3
<1> QED
  BY <1>3, <1>4, <1>5 DEF Streams

\* The end of a connection resets the stream to e, and may reset its parser.
LEMMA StreamsEnded ==
  ASSUME Streams, NEW e \in Ends, NEW n \in Nat, StreamEnds(e, n),
         UNCHANGED <<place, wrong>> \/ ParserReset(e)
  PROVE  Streams'
<1>1. 0 \in Places(e)
  BY Lengths
<1>5. at'[e] = 0 /\ plain'[e] = TRUE /\ synced'[e] = FALSE
  BY DEF StreamEnds, Streams, StreamTypeOK
<1>2. StreamTypeOK'
  <2>1. /\ pend' \in [Ends -> Nat] /\ at' \in [Ends -> Nat]
        /\ place' \in [Ends -> Nat]
    BY DEF StreamEnds, ParserReset, Streams, StreamTypeOK
  <2>2. /\ plain' \in [Ends -> BOOLEAN] /\ wrong' \in [Ends -> BOOLEAN]
        /\ synced' \in [Ends -> BOOLEAN]
    BY DEF StreamEnds, ParserReset, Streams, StreamTypeOK
  <2>3. \A d \in Ends : at'[d] \in Places(d) /\ place'[d] \in Places(d)
    BY <1>1 DEF StreamEnds, ParserReset, Streams, StreamTypeOK
  <2> QED
    BY <2>1, <2>2, <2>3 DEF StreamTypeOK
<1>3. StreamOK(e)'
  BY <1>5 DEF StreamOK
<1>4. ASSUME NEW d \in Ends, d # e
      PROVE  StreamOK(d)'
  BY <1>4 DEF StreamEnds, ParserReset, Streams, StreamTypeOK, StreamOK,
              Follows, InStep
<1> QED
  BY <1>2, <1>3, <1>4 DEF Streams

\* Messages that are sent, or nothing at all, leave the streams in order.
LEMMA StreamsKept ==
  ASSUME Streams, UNCHANGED <<at, place, wrong, plain, synced>>,
         pend' \in [Ends -> Nat]
  PROVE  Streams'
  BY DEF Streams, StreamTypeOK, StreamOK, Follows, InStep

-----------------------------------------------------------------------------
(* The invariant. *)

\* What the place of the antenna in its program says of its socket.
Sockets == /\ apc = "connect" => leaked < FdLimit
           /\ apc \in {"socket", "connect", "sleep", "exited", "killed"}
                 => conn = "none"
           /\ conn \in {"none", "backlog"} => at["antenna"] = 0

LinkInv == TypeOK /\ Sockets /\ Streams

LEMMA LinkInit == Init => LinkInv
<1> SUFFICES ASSUME Init PROVE LinkInv
  OBVIOUS
<1>1. \A e \in Ends : 0 \in Places(e)
  BY Lengths
<1>2. Streams
  BY <1>1 DEF Init, Streams, StreamTypeOK, StreamOK, InStep
<1>3. TypeOK
  <2>1. StreamTypeOK
    BY <1>2 DEF Streams
  <2>5. apc \in AntennaStates /\ leaked \in 0..FdLimit /\ alarm \in 0..AlarmSeconds
    BY DEF Init, AntennaStates
  <2>2. /\ status_sent \in BOOLEAN /\ fed \in BOOLEAN /\ queued \in BOOLEAN
        /\ heard \in BOOLEAN /\ noted \in BOOLEAN /\ net \in BOOLEAN
    BY Zenon DEF Init
  <2>3. /\ conn \in ConnStates /\ srv \in {"down", "accept", "serve"}
        /\ peer \in {"none", "same", "gone", "vanished"}
        /\ age \in 0..(StatusTimeout + 1) \cup {Never}
        /\ tail \in Tails \cup {0}
    BY DEF Init, ConnStates
  <2>4. /\ conn = "up" <=> peer = "same"
        /\ srv = "serve" <=> peer # "none"
    BY DEF Init
  <2> QED
    BY <2>1, <2>2, <2>3, <2>4, <2>5 DEF TypeOK
<1>4. Sockets
  BY DEF Init, Sockets
<1> QED
  BY <1>2, <1>3, <1>4 DEF LinkInv

\* A write puts at most one status on its way.
LEMMA Written ==
  ASSUME StreamTypeOK, NEW ok \in BOOLEAN, Write(ok)
  PROVE  /\ pend' \in [Ends -> Nat]
         /\ queued \in BOOLEAN => queued' \in BOOLEAN
         /\ conn' = conn \/ (conn = "fin" /\ conn' = "rst")
                         \/ (conn = "err" /\ conn' = "dead")
<1>1. /\ queued \in BOOLEAN => queued' \in BOOLEAN
      /\ conn' = conn \/ (conn = "fin" /\ conn' = "rst")
                      \/ (conn = "err" /\ conn' = "dead")
  BY DEF Write
<1>2. pend' = pend \/ pend' = [pend EXCEPT !["station"] = @ + 1]
  BY DEF Write
<1>3. pend' \in [Ends -> Nat]
  BY <1>2 DEF StreamTypeOK
<1> QED
  BY <1>1, <1>3

\* Every step of the antenna keeps the invariant.
LEMMA AntennaKeeps == LinkInv /\ AntennaStep => LinkInv'
<1> SUFFICES ASSUME LinkInv, AntennaStep PROVE LinkInv'
  OBVIOUS
<1> USE DEF LinkInv, antennaVars, stationVars, streamVars
<1>0. StreamTypeOK
  BY DEF Streams
<1>1. CASE Socket
  <2>1. Streams'
    BY <1>0, <1>1, StreamsKept DEF Socket, StreamTypeOK
  <2>2. TypeOK' /\ Sockets'
    BY <1>1, <2>1 DEF Socket, SocketFails, TypeOK, Sockets, Streams,
                      AntennaStates
  <2> QED
    BY <2>1, <2>2
<1>2. CASE Connect
  <2>1. Streams'
    BY <1>0, <1>2, StreamsKept DEF Connect, StreamTypeOK
  <2>2. /\ apc' \in {"poll", "sleep"} /\ conn' \in {"none", "backlog"}
        /\ apc' = "sleep" => conn' = "none"
        /\ leaked' \in 0..FdLimit /\ at'["antenna"] = 0
    BY <1>2 DEF Connect, TypeOK, Sockets
  <2>3. queued' \in BOOLEAN
    BY <1>2 DEF Connect, TypeOK
  <2>4. /\ UNCHANGED <<status_sent, fed, alarm, stationVars, net>>
        /\ conn # "up"
    BY <1>2 DEF Connect, Sockets
  <2>5. TypeOK' /\ Sockets'
    BY <2>1, <2>2, <2>3, <2>4 DEF TypeOK, Sockets, Streams, AntennaStates,
                                  ConnStates
  <2> QED
    BY <2>1, <2>5
<1>3. CASE ReadByte
  <2>1. PICK b \in BytesAt("antenna", at["antenna"]) : Feed("antenna", b)
    BY <1>3 DEF ReadByte
  <2>2. Streams'
    BY <2>1, StreamsFed
  <2>3. TypeOK' /\ Sockets'
    <3>1. /\ apc' \in {"reply", "read"} /\ fed' = TRUE
          /\ conn \notin {"none", "backlog"}
          /\ UNCHANGED <<leaked, status_sent, conn, queued, stationVars, net>>
      BY <1>3 DEF ReadByte
    <3>2. alarm' \in 0..AlarmSeconds
      BY <1>3 DEF ReadByte, TypeOK
    <3> QED
      BY <2>2, <3>1, <3>2 DEF TypeOK, Sockets, Streams, AntennaStates
  <2> QED
    BY <2>2, <2>3
<1>4. CASE ReadEnds
  <2>1. Streams'
    BY <1>0, <1>4, StreamsKept DEF ReadEnds, StreamTypeOK
  <2>2. TypeOK' /\ Sockets'
    BY <1>4, <2>1 DEF ReadEnds, TypeOK, Sockets, Streams, AntennaStates
  <2> QED
    BY <2>1, <2>2
<1>5. CASE ReadError
  <2>1. Streams'
    BY <1>0, <1>5, StreamsKept DEF ReadError, StreamTypeOK
  <2>2. TypeOK' /\ Sockets'
    BY <1>5, <2>1 DEF ReadError, ReadFails, TypeOK, Sockets, Streams,
                      AntennaStates
  <2> QED
    BY <2>1, <2>2
<1>6. CASE Reply
  <2>1. PICK ok \in BOOLEAN : Write(ok) /\ status_sent' = (status_sent \/ ok)
                              /\ apc' = IF ok THEN "read" ELSE "status"
    BY <1>6 DEF Reply
  <2>2. UNCHANGED <<leaked, fed, alarm, stationVars, net,
                    at, place, wrong, plain, synced>>
    BY <1>6 DEF Reply
  <2>3. Streams'
    BY <1>0, <2>1, <2>2, Written, StreamsKept
  <2>4. /\ queued' \in BOOLEAN
        /\ conn' = conn \/ (conn = "fin" /\ conn' = "rst")
                        \/ (conn = "err" /\ conn' = "dead")
    BY <1>0, <2>1, Written DEF TypeOK
  <2>5. status_sent' \in BOOLEAN /\ apc' \in {"read", "status"}
    BY <2>1
  <2>6. TypeOK' /\ Sockets'
    BY <2>2, <2>3, <2>4, <2>5 DEF TypeOK, Sockets, Streams, AntennaStates,
                                  ConnStates
  <2> QED
    BY <2>3, <2>6
<1>7. CASE Status
  <2>1. UNCHANGED <<leaked, alarm, stationVars, net,
                    at, place, wrong, plain, synced>>
        /\ status_sent' = FALSE /\ fed' = FALSE /\ apc' \in {"poll", "close"}
    BY <1>7 DEF Status, NewRound
  <2>2. CASE status_sent
    <3>1. UNCHANGED <<conn, pend, queued>>
      BY <1>7, <2>2 DEF Status
    <3>2. Streams'
      BY <1>0, <2>1, <3>1, StreamsKept DEF StreamTypeOK
    <3> QED
      BY <2>1, <3>1, <3>2 DEF TypeOK, Sockets, Streams, AntennaStates
  <2>3. CASE ~status_sent
    <3>1. PICK ok \in BOOLEAN : Write(ok)
      BY <1>7, <2>3 DEF Status
    <3>2. Streams'
      BY <1>0, <2>1, <3>1, Written, StreamsKept
    <3>3. /\ queued' \in BOOLEAN
          /\ conn' = conn \/ (conn = "fin" /\ conn' = "rst")
                          \/ (conn = "err" /\ conn' = "dead")
      BY <1>0, <3>1, Written DEF TypeOK
    <3>4. conn' \in ConnStates /\ (conn' = "up" <=> conn = "up")
          /\ (conn' \in {"none", "backlog"} <=> conn \in {"none", "backlog"})
      BY <3>3 DEF TypeOK, ConnStates
    <3>5. TypeOK'
      BY <2>1, <3>2, <3>3, <3>4 DEF TypeOK, Streams, AntennaStates
    <3> QED
      BY <2>1, <3>2, <3>4, <3>5 DEF Sockets
  <2> QED
    BY <2>2, <2>3
<1>8. CASE SigPipe
  <2>1. Streams'
    BY <1>0, <1>8, StreamsEnded DEF SigPipe, StreamTypeOK
  <2>2. at'["antenna"] = 0
    BY <1>0, <1>8 DEF SigPipe, StreamEnds, StreamTypeOK
  <2>3. TypeOK' /\ Sockets'
    BY <1>8, <2>1, <2>2 DEF SigPipe, TypeOK, Sockets, Streams, AntennaStates,
                            ConnStates
  <2> QED
    BY <2>1, <2>3
<1>9. CASE Close
  <2>1. PICK n \in 0..pend["station"] : StreamEnds("antenna", n)
    BY <1>9 DEF Close
  <2>2. Streams'
    BY <1>0, <1>9, <2>1, StreamsEnded DEF Close, StreamTypeOK
  <2>3. at'["antenna"] = 0
    BY <1>0, <2>1 DEF StreamEnds, StreamTypeOK
  <2>4. TypeOK' /\ Sockets'
    BY <1>9, <2>2, <2>3 DEF Close, NewRound, Hangup, TypeOK, Sockets, Streams,
                            AntennaStates, ConnStates
  <2> QED
    BY <2>2, <2>4
<1> QED
  BY <1>1, <1>2, <1>3, <1>4, <1>5, <1>6, <1>7, <1>8, <1>9 DEF AntennaStep

\* Every step of the station keeps the invariant.
LEMMA StationKeeps == LinkInv /\ StationStep => LinkInv'
<1> SUFFICES ASSUME LinkInv, StationStep PROVE LinkInv'
  OBVIOUS
<1> USE DEF LinkInv, antennaVars, stationVars, streamVars
<1>0. StreamTypeOK
  BY DEF Streams
<1>1. CASE Accept
  <2>1. StreamTypeOK'
    <3>1. tail \in Places("antenna") /\ tail \in Nat /\ 0 \in Places("station")
      BY Lengths DEF TypeOK
    <3>2. pend' \in [Ends -> Nat] /\ at' \in [Ends -> Nat]
      BY <1>1, <3>1 DEF Accept
    <3>3. plain' \in [Ends -> BOOLEAN] /\ synced' \in [Ends -> BOOLEAN]
      BY <1>1 DEF Accept
    <3>4. \A e \in Ends : at'[e] \in Places(e)
      BY <1>1, <3>1 DEF Accept
    <3> QED
      BY <1>0, <1>1, <3>2, <3>3, <3>4 DEF Accept, StreamTypeOK
  <2>2. \A e \in Ends : ~synced'[e] /\ (plain'[e] <=> at'[e] = 0)
    BY <1>1 DEF Accept
  <2>3. Streams'
    BY <2>1, <2>2 DEF Streams, StreamOK, StreamTypeOK
  <2>4. TypeOK' /\ Sockets'
    BY <1>1, <2>1 DEF Accept, TypeOK, Sockets, ConnStates
  <2> QED
    BY <2>3, <2>4
<1>2. CASE StatusByte
  <2>1. PICK b \in BytesAt("station", at["station"]) : Feed("station", b)
    BY <1>2 DEF StatusByte
  <2>2. Streams'
    BY <2>1, StreamsFed
  <2>3. at'["antenna"] = at["antenna"]
    BY <1>0, <2>1 DEF Feed, StreamTypeOK
  <2>4. /\ age' \in {0, age} /\ heard' = TRUE
        /\ UNCHANGED <<antennaVars, srv, peer, tail, net>>
    BY <1>2 DEF StatusByte, StatusAge
  <2>6. noted' = noted \/ noted' = (noted \/ InStep("station"))
    BY <1>2 DEF StatusByte
  <2>7. noted' \in BOOLEAN
    BY <2>6, Zenon DEF TypeOK, InStep
  <2>5. TypeOK' /\ Sockets'
    BY <2>2, <2>3, <2>4, <2>7 DEF TypeOK, Sockets, Streams
  <2> QED
    BY <2>2, <2>5
<1>3. CASE PeerClosed
  <2>1. StreamEnds("station", pend["antenna"]) /\ UNCHANGED <<place, wrong>>
    BY <1>3 DEF PeerClosed, Drop
  <2>2. Streams'
    BY <1>0, <2>1, StreamsEnded DEF StreamTypeOK
  <2>3. at'["antenna"] = at["antenna"]
    BY <1>0, <2>1 DEF StreamEnds, StreamTypeOK
  <2>4. TypeOK' /\ Sockets'
    BY <1>3, <2>2, <2>3 DEF PeerClosed, Drop, Dropped, TypeOK, Sockets,
                            Streams, ConnStates
  <2> QED
    BY <2>2, <2>4
<1> QED
  BY <1>1, <1>2, <1>3 DEF StationStep

\* A parser that is reset with no stream to it leaves the streams in order.
LEMMA StreamsIdle ==
  ASSUME Streams, NEW e \in Ends, at[e] = 0, ParserReset(e),
         UNCHANGED <<pend, at, plain, synced>>
  PROVE  Streams'
<1>1. 0 \in Places(e) /\ StreamTypeOK
  BY Lengths DEF Streams
<1>2. StreamTypeOK'
  BY <1>1 DEF ParserReset, StreamTypeOK
<1>3. StreamOK(e)'
  BY <1>1 DEF ParserReset, Streams, StreamTypeOK, StreamOK, InStep
<1>4. ASSUME NEW d \in Ends, d # e
      PROVE  StreamOK(d)'
  BY <1>1, <1>4 DEF ParserReset, Streams, StreamTypeOK, StreamOK, Follows,
                    InStep
<1> QED
  BY <1>2, <1>3, <1>4 DEF Streams

\* Every failure keeps the invariant.
LEMMA FailureKeeps == LinkInv /\ Failure => LinkInv'
<1> SUFFICES ASSUME LinkInv, Failure PROVE LinkInv'
  OBVIOUS
<1> USE DEF LinkInv, antennaVars, stationVars, streamVars
<1>0. StreamTypeOK
  BY DEF Streams
<1>1. CASE StationStops
  <2>1. StreamEnds("station", pend["antenna"]) /\ ParserReset("station")
    BY <1>1 DEF StationStops
  <2>2. Streams'
    BY <1>0, <2>1, StreamsEnded DEF StreamTypeOK
  <2>3. at'["antenna"] = at["antenna"]
    BY <1>0, <2>1 DEF StreamEnds, StreamTypeOK
  <2>4. TypeOK' /\ Sockets'
    BY <1>1, <2>2, <2>3 DEF StationStops, Dropped, TypeOK, Sockets, Streams,
                            ConnStates
  <2> QED
    BY <2>2, <2>4
<1>2. CASE StationStarts
  <2>1. Streams'
    BY <1>0, <1>2, StreamsKept DEF StationStarts, StreamTypeOK
  <2> QED
    BY <1>2, <2>1 DEF StationStarts, TypeOK, Sockets, Streams
<1>3. CASE AntennaDies
  <2>1. PICK n \in 0..pend["station"] : StreamEnds("antenna", n)
    BY <1>3 DEF AntennaDies
  <2>2. Streams'
    BY <1>0, <1>3, <2>1, StreamsEnded DEF AntennaDies, StreamTypeOK
  <2>3. at'["antenna"] = 0
    BY <1>0, <2>1 DEF StreamEnds, StreamTypeOK
  <2>5. /\ apc' = "exited" /\ alarm' = 0 /\ status_sent' = FALSE
        /\ fed' = FALSE /\ conn' = "none" /\ queued' = FALSE
        /\ peer' = IF peer = "same" THEN "gone" ELSE peer
        /\ UNCHANGED <<leaked, srv, age, heard, tail, noted, net>>
    BY <1>3 DEF AntennaDies, NewRound, Hangup
  <2>6. status_sent' \in BOOLEAN /\ fed' \in BOOLEAN /\ queued' \in BOOLEAN
    BY Zenon, <2>5
  <2>7. /\ peer' \in {"none", "same", "gone", "vanished"} /\ peer' # "same"
        /\ srv' = "serve" <=> peer' # "none"
    BY <2>5 DEF TypeOK
  <2>4. TypeOK' /\ Sockets'
    BY <2>2, <2>3, <2>5, <2>6, <2>7
    DEF TypeOK, Sockets, Streams, AntennaStates, ConnStates
  <2> QED
    BY <2>2, <2>4
<1>4. CASE PowerLoss
  <2>1. StreamEnds("antenna", 0) /\ ParserReset("antenna")
    BY <1>4 DEF PowerLoss
  <2>2. Streams'
    BY <2>1, StreamsEnded
  <2>3. at'["antenna"] = 0
    BY <1>0, <2>1 DEF StreamEnds, StreamTypeOK
  <2>5. /\ apc' = "socket" /\ leaked' = 0 /\ status_sent' = FALSE
        /\ fed' = FALSE /\ conn' = "none" /\ queued' = FALSE
        /\ peer' = IF peer = "same" THEN "vanished" ELSE peer
        /\ alarm' = 0 /\ UNCHANGED <<srv, age, heard, tail, noted, net>>
    BY <1>4 DEF PowerLoss, NewRound, Hangup
  <2>6. status_sent' \in BOOLEAN /\ fed' \in BOOLEAN /\ queued' \in BOOLEAN
    BY Zenon, <2>5
  <2>7. /\ peer' \in {"none", "same", "gone", "vanished"} /\ peer' # "same"
        /\ srv' = "serve" <=> peer' # "none"
    BY <2>5 DEF TypeOK
  <2>4. TypeOK' /\ Sockets'
    BY <2>2, <2>3, <2>5, <2>6, <2>7
    DEF TypeOK, Sockets, Streams, AntennaStates, ConnStates
  <2> QED
    BY <2>2, <2>4
<1>5. CASE NetChanges
  <2>1. Streams'
    BY <1>0, <1>5, StreamsKept DEF NetChanges, StreamTypeOK
  <2> QED
    BY <1>5, <2>1 DEF NetChanges, TypeOK, Sockets, Streams
<1> QED
  BY <1>1, <1>2, <1>3, <1>4, <1>5 DEF Failure

\* A second that passes keeps the invariant.
LEMMA TickKeeps == LinkInv /\ Tick => LinkInv'
<1> SUFFICES ASSUME LinkInv, Tick PROVE LinkInv'
  OBVIOUS
<1> USE DEF LinkInv
<1> DEFINE dropped == Late(StatusTimeout) /\ Drop
<1>0. StreamTypeOK
  BY DEF Streams
<1>1. at'["antenna"] = at["antenna"]
  <2>1. CASE dropped
    BY <1>0, <2>1 DEF Tick, Drop, StreamEnds, StreamTypeOK
  <2>2. CASE ~dropped
    BY <2>2 DEF Tick
  <2> QED
    BY <2>1, <2>2
<1>2. Streams'
  <2>1. CASE apc = "exited"
    <3>1. /\ at["antenna"] = 0 /\ ParserReset("antenna")
      BY <2>1 DEF Tick, Sockets
    <3>2. CASE dropped
      <4>1. StreamEnds("station", pend["antenna"])
        BY <3>2 DEF Tick, Drop
      <4>2. StreamTypeOK'
        <5>1. 0 \in Places("station") /\ 0 \in Places("antenna")
          BY Lengths
        <5>2. /\ pend' \in [Ends -> Nat] /\ at' \in [Ends -> Nat]
              /\ place' \in [Ends -> Nat]
          BY <1>0, <3>1, <4>1 DEF StreamEnds, ParserReset, StreamTypeOK
        <5>3. /\ plain' \in [Ends -> BOOLEAN] /\ wrong' \in [Ends -> BOOLEAN]
              /\ synced' \in [Ends -> BOOLEAN]
          BY <1>0, <3>1, <4>1 DEF StreamEnds, ParserReset, StreamTypeOK
        <5>4. \A d \in Ends : at'[d] \in Places(d) /\ place'[d] \in Places(d)
          BY <1>0, <3>1, <4>1, <5>1 DEF StreamEnds, ParserReset, StreamTypeOK
        <5> QED
          BY <5>2, <5>3, <5>4 DEF StreamTypeOK
      <4>3. StreamOK("station")'
        BY <1>0, <4>1 DEF StreamEnds, StreamTypeOK, StreamOK
      <4>4. StreamOK("antenna")'
        <5>1. /\ at'["antenna"] = 0 /\ place'["antenna"] = 0
              /\ plain'["antenna"] = plain["antenna"]
          BY <1>0, <3>1, <4>1 DEF StreamEnds, ParserReset, StreamTypeOK
        <5> QED
          BY <3>1, <5>1 DEF Streams, StreamOK, InStep
      <4> QED
        BY <4>2, <4>3, <4>4 DEF Streams
    <3>3. CASE ~dropped
      BY <3>1, <3>3, StreamsIdle DEF Tick
    <3> QED
      BY <3>2, <3>3
  <2>2. CASE apc # "exited"
    <3>1. UNCHANGED <<place, wrong>>
      BY <2>2 DEF Tick
    <3>2. CASE dropped
      <4>1. StreamEnds("station", pend["antenna"])
        BY <3>2 DEF Tick, Drop
      <4> QED
        BY <1>0, <3>1, <4>1, StreamsEnded DEF StreamTypeOK
    <3>3. CASE ~dropped
      BY <1>0, <3>1, <3>3, StreamsKept DEF Tick, StreamTypeOK
    <3> QED
      BY <3>2, <3>3
  <2> QED
    BY <2>1, <2>2
<1>3. age' \in 0..(StatusTimeout + 1) \cup {Never}
  BY DEF Tick, TypeOK
<1>9. alarm' \in 0..AlarmSeconds
  BY DEF Tick, TypeOK
<1>4. /\ leaked' \in 0..FdLimit
      /\ apc' \in AntennaStates
      /\ apc' # "connect" \/ apc' = apc
      /\ apc' = apc => leaked' = leaked
  BY DEF Tick, TypeOK, PollTimeout, AntennaStates
<1>5. /\ heard' = FALSE /\ UNCHANGED <<status_sent, fed, queued, net>>
      /\ noted' = FALSE \/ noted' = (noted /\ ~Interrupted)
  BY DEF Tick, Drop
<1>10. noted' \in BOOLEAN
  BY <1>5, Zenon DEF TypeOK
<1>6. /\ conn' \in ConnStates /\ srv' \in {"down", "accept", "serve"}
      /\ peer' \in {"none", "same", "gone", "vanished"}
      /\ tail' \in Tails \cup {0}
      /\ conn' = "up" <=> peer' = "same"
      /\ srv' = "serve" <=> peer' # "none"
      /\ conn \notin {"none", "up"} => conn' = conn
      /\ conn = "up" => conn' \notin {"none", "backlog"}
      /\ conn = "none" => conn' = "none"
  <2>1. CASE dropped
    BY <2>1 DEF Tick, Drop, Dropped, TypeOK, ConnStates
  <2>2. CASE ~dropped
    BY <2>2 DEF Tick, TypeOK, ConnStates
  <2> QED
    BY <2>1, <2>2
<1>7. TypeOK'
  <2>1. /\ apc' \in AntennaStates /\ StreamTypeOK'
    BY <1>2, <1>4 DEF TypeOK, Streams
  <2> QED
    BY <1>3, <1>4, <1>5, <1>6, <1>9, <1>10, <2>1 DEF TypeOK
<1>8. Sockets'
  <2>1. apc' \in {"socket", "connect", "sleep", "exited", "killed"}
           => apc \in {"socket", "connect", "sleep", "exited", "killed"}
    BY DEF Tick, PollTimeout, TypeOK, AntennaStates
  <2> QED
    BY <1>1, <1>4, <1>6, <2>1 DEF Sockets
<1> QED
  BY <1>2, <1>7, <1>8

LEMMA LinkNext == LinkInv /\ [Next]_vars => LinkInv'
<1> SUFFICES ASSUME LinkInv, [Next]_vars PROVE LinkInv'
  OBVIOUS
<1> USE DEF LinkInv, antennaVars, stationVars, streamVars
<1>0. StreamTypeOK
  BY DEF Streams
<1>1. CASE Forward
  <2>1. Streams'
    BY <1>0, <1>1, StreamsKept DEF Forward, StreamTypeOK
  <2> QED
    BY <1>1, <2>1 DEF Forward, TypeOK, Sockets, Streams
<1>2. CASE LowPowerEvent
  <2>1. Streams'
    BY <1>0, <1>2, StreamsKept DEF LowPowerEvent, StreamTypeOK
  <2> QED
    BY <1>2, <2>1 DEF LowPowerEvent, TypeOK, Sockets, Streams, AntennaStates
<1>3. CASE UNCHANGED vars
  <2>1. Streams'
    BY <1>0, <1>3, StreamsKept DEF vars, StreamTypeOK
  <2> QED
    BY <1>3, <2>1 DEF vars, TypeOK, Sockets, Streams
<1> QED
  BY <1>1, <1>2, <1>3, AntennaKeeps, StationKeeps, TickKeeps, FailureKeeps
  DEF Next

LEMMA LinkAlways == Spec => []LinkInv
  BY LinkInit, LinkNext, PTL DEF Spec

-----------------------------------------------------------------------------
(* The theorems. *)

\* Both ends and the wire between them keep their types, and the two ends of a
\* connection are in states that go together (start_client, start_server).
THEOREM LinkTypes == Spec => []TypeOK
<1>1. LinkInv => TypeOK
  BY DEF LinkInv
<1> QED
  BY <1>1, LinkAlways, PTL

\* A message without a start byte in its data brings a parser into step for
\* the rest of the connection, for every length of payload and timestamp
\* (parse_byte of both ends).
THEOREM Resync == Spec => []CleanResync
<1>1. LinkInv => CleanResync
  BY DEF LinkInv, Streams, StreamOK, CleanResync
<1> QED
  BY <1>1, LinkAlways, PTL

\* The place in a stream moves with a byte of it, and goes back to 0 when the
\* connection ends or begins, which takes the step back from its parser.
LEMMA WhoMoves ==
  ASSUME LinkInv, [Next]_vars, NEW e \in Ends, at'[e] # at[e], synced'[e]
  PROVE  \/ e = "antenna" /\ ReadByte
         \/ e = "station" /\ StatusByte
<1> USE DEF antennaVars, stationVars, streamVars
<1>0. StreamTypeOK
  BY DEF LinkInv, Streams
<1>1. ASSUME NEW d \in Ends, NEW n, StreamEnds(d, n)
      PROVE  FALSE
  BY <1>0, <1>1 DEF StreamEnds, StreamTypeOK
<1>2. ~(SigPipe \/ Close \/ PeerClosed \/ StationStops \/ AntennaDies
        \/ PowerLoss)
  BY <1>1 DEF SigPipe, Close, PeerClosed, Drop, StationStops, AntennaDies,
              PowerLoss
<1>3. ~Tick
  BY <1>1 DEF Tick, Drop
<1>4. ~Accept
  BY DEF Accept
<1>5. ~(Socket \/ Connect \/ ReadEnds \/ ReadError \/ Reply \/ Status
        \/ Forward \/ LowPowerEvent \/ StationStarts \/ NetChanges)
  BY DEF Socket, Connect, ReadEnds, ReadError, Reply, Status, Forward,
         LowPowerEvent, StationStarts, NetChanges
<1>6. ReadByte => e = "antenna"
  BY <1>0 DEF ReadByte, Feed, StreamTypeOK
<1>7. StatusByte => e = "station"
  BY <1>0 DEF StatusByte, Feed, StreamTypeOK
<1>8. vars' # vars
  BY DEF vars
<1> QED
  BY <1>2, <1>3, <1>4, <1>5, <1>6, <1>7, <1>8
  DEF Next, AntennaStep, StationStep, Failure

\* In step, a message that comes in is acted on: the antenna replies to it, the
\* station notes its time (parse_byte in process_connection and start_server).
THEOREM Acted == Spec => Processed
<1> DEFINE Act(e) == (synced[e] /\ at[e] = MsgLen(e) - 1 /\ at'[e] = 0 /\ synced'[e])
              => (IF e = "antenna" THEN apc' = "reply" ELSE age' = 0)
<1>1. LinkInv /\ [Next]_vars => \A e \in Ends : Act(e)
  <2> SUFFICES ASSUME LinkInv, [Next]_vars, NEW e \in Ends,
                      synced[e], at[e] = MsgLen(e) - 1, at'[e] = 0, synced'[e]
               PROVE  IF e = "antenna" THEN apc' = "reply" ELSE age' = 0
    OBVIOUS
  <2>1. MsgLen(e) \in Nat /\ MsgLen(e) >= 6
    BY Lengths
  <2>2. InStep(e) /\ place[e] = MsgLen(e) - 1 /\ ~wrong[e]
    BY <2>1 DEF LinkInv, Streams, StreamOK, InStep
  <2>3. Crc(e) = {TRUE}
    BY <2>2 DEF Crc
  <2>4. Complete(e, place[e], wrong[e], TRUE)
    BY <2>2 DEF Complete
  <2>5. \/ e = "antenna" /\ ReadByte
        \/ e = "station" /\ StatusByte
    BY <2>1, WhoMoves
  <2>6. CASE e = "antenna" /\ ReadByte
    BY <2>3, <2>4, <2>6 DEF ReadByte
  <2>7. CASE e = "station" /\ StatusByte
    BY <2>3, <2>4, <2>7 DEF StatusByte, StatusAge
  <2> QED
    BY <2>5, <2>6, <2>7
<1> QED
  BY <1>1, LinkAlways, PTL DEF Spec, Processed

\* The antenna has read bytes in this round when it is about to reply, and the
\* connection it reports a quiet second to was not reset.
Killed == /\ apc \in {"read", "reply", "killed"} => fed
          /\ apc = "status" /\ ~fed => conn \notin {"rst", "dead"}

LEMMA KilledKept == Killed /\ [Next]_vars => Killed'
<1> SUFFICES ASSUME Killed, [Next]_vars PROVE Killed'
  OBVIOUS
<1> USE DEF Killed, antennaVars, stationVars, streamVars
<1>1. CASE AntennaStep
  <2>1. CASE Socket
    BY <2>1 DEF Socket, SocketFails
  <2>2. CASE Connect
    BY <2>2 DEF Connect
  <2>3. CASE ReadByte
    BY <2>3 DEF ReadByte
  <2>4. CASE ReadEnds
    BY <2>4 DEF ReadEnds
  <2>5. CASE ReadError
    BY <2>5 DEF ReadError, ReadFails
  <2>6. CASE Reply
    BY <2>6 DEF Reply
  <2>7. CASE Status
    BY <2>7 DEF Status
  <2>8. CASE SigPipe
    BY <2>8 DEF SigPipe
  <2>9. CASE Close
    BY <2>9 DEF Close
  <2> QED
    BY <1>1, <2>1, <2>2, <2>3, <2>4, <2>5, <2>6, <2>7, <2>8, <2>9
    DEF AntennaStep
<1>2. CASE StationStep
  <2>1. UNCHANGED <<apc, fed>> /\ conn' \in {conn, "up", "fin", "err"}
    BY <1>2 DEF StationStep, Accept, StatusByte, PeerClosed, Drop, Dropped
  <2> QED
    BY <2>1
<1>3. CASE Tick
  <2>1. fed' = fed /\ conn' \in {conn, "fin", "err"}
    BY <1>3 DEF Tick, Drop, Dropped
  <2>2. apc = "poll" => conn \notin {"rst", "dead"}
    BY <1>3 DEF Tick, AntennaWaits, Readable
  <2>3. apc' \in {apc, "status", "socket"} /\ (apc' = "status" => apc \in {"poll", "status"})
    BY <1>3 DEF Tick, PollTimeout
  <2> QED
    BY <2>1, <2>2, <2>3
<1>4. CASE Forward \/ UNCHANGED vars
  BY <1>4 DEF Forward, vars
<1>5. CASE LowPowerEvent
  BY <1>5 DEF LowPowerEvent, Readable
<1>6. CASE Failure
  <2>1. CASE StationStops \/ StationStarts \/ NetChanges
    BY <2>1 DEF StationStops, StationStarts, NetChanges, Dropped
  <2>2. CASE AntennaDies \/ PowerLoss
    BY <2>2 DEF AntennaDies, PowerLoss
  <2> QED
    BY <1>6, <2>1, <2>2 DEF Failure
<1> QED
  BY <1>1, <1>2, <1>3, <1>4, <1>5, <1>6 DEF Next

\* SIGPIPE takes bytes that were still to be read: a round that reports nothing
\* but the time or the low power line is never the last one
\* (process_connection, send_status).
THEOREM QuietSurvived == Spec => []KilledWithInput
<1>1. Init => Killed
  BY DEF Init, Killed
<1>2. Killed => KilledWithInput
  BY DEF Killed, KilledWithInput
<1> QED
  BY <1>1, <1>2, KilledKept, PTL DEF Spec

-----------------------------------------------------------------------------
(* The timeout of the status. *)

\* Once a status was taken in step, and while no alarm cuts the wait of poll
\* short, the next one is on its way to the station whenever the second that
\* follows has passed, and when it comes in whole, its time is noted: with
\* nothing on the way, the last status is of this second, or the antenna is
\* about to write.
Silent == conn = "up" /\ noted /\ pend["station"] = 0 /\ age # 0
             => age = 1 /\ apc = "status" /\ ~status_sent

Noting == /\ apc \in {"socket", "connect", "sleep", "poll", "exited"}
                => ~status_sent
          /\ noted => InStep("station")
          /\ Silent

\* The steps that leave the connection alone, and the message to the station
\* that is being written.
LEMMA AntennaNoting == LinkInv /\ Noting /\ AntennaStep => Noting'
<1> SUFFICES ASSUME LinkInv, Noting, AntennaStep PROVE Noting'
  OBVIOUS
<1> USE DEF antennaVars, stationVars, streamVars
<1>0. StreamTypeOK
  BY DEF LinkInv, Streams
<1>1. CASE Socket
  BY <1>1 DEF Socket, SocketFails, Noting, Silent, InStep
<1>2. CASE Connect
  BY <1>2 DEF Connect, Noting, Silent, InStep
<1>3. CASE ReadByte
  <2>1. PICK b : Feed("antenna", b)
    BY <1>3 DEF ReadByte
  <2>2. /\ pend'["station"] = pend["station"]
        /\ InStep("station")' = InStep("station")
    BY <1>0, <2>1 DEF Feed, StreamTypeOK, InStep
  <2>3. /\ apc \in {"poll", "read"} /\ apc' \in {"reply", "read"}
        /\ UNCHANGED <<status_sent, conn, noted, age>>
    BY <1>3 DEF ReadByte
  <2> QED
    BY <2>2, <2>3 DEF Noting, Silent
<1>4. CASE ReadEnds
  BY <1>4 DEF ReadEnds, Noting, Silent, InStep
<1>5. CASE ReadError
  BY <1>5 DEF ReadError, ReadFails, Noting, Silent, InStep
<1>6. CASE Reply
  <2>1. PICK ok \in BOOLEAN : Write(ok) /\ apc' = IF ok THEN "read" ELSE "status"
    BY <1>6 DEF Reply
  <2>2. apc = "reply" /\ UNCHANGED <<noted, age, at, place, wrong>>
    BY <1>6 DEF Reply
  <2>3. Silent'
    <3>1. conn' = "up" => pend'["station"] = pend["station"] + 1 /\ conn = "up"
      BY <1>0, <2>1 DEF Write, StreamTypeOK
    <3>2. pend["station"] \in Nat
      BY <1>0 DEF StreamTypeOK
    <3> QED
      BY <3>1, <3>2 DEF Silent
  <2> QED
    BY <2>1, <2>2, <2>3 DEF Noting, InStep
<1>7. CASE Status
  <2>1. /\ apc = "status" /\ apc' \in {"poll", "close"} /\ ~status_sent'
        /\ UNCHANGED <<noted, age, at, place, wrong>>
    BY <1>7 DEF Status, NewRound
  <2>2. CASE status_sent
    <3>1. UNCHANGED <<conn, pend>>
      BY <1>7, <2>2 DEF Status
    <3> QED
      BY <2>1, <2>2, <3>1 DEF Noting, Silent, InStep
  <2>3. CASE ~status_sent
    <3>1. PICK ok \in BOOLEAN : Write(ok)
      BY <1>7, <2>3 DEF Status
    <3>2. conn' = "up" => pend'["station"] = pend["station"] + 1
      BY <1>0, <3>1 DEF Write, StreamTypeOK
    <3>3. pend["station"] \in Nat
      BY <1>0 DEF StreamTypeOK
    <3> QED
      BY <2>1, <3>2, <3>3 DEF Noting, Silent, InStep
  <2> QED
    BY <2>2, <2>3
<1>8. CASE SigPipe
  <2>1. InStep("station")' = InStep("station")
    BY <1>0, <1>8 DEF SigPipe, StreamEnds, StreamTypeOK, InStep
  <2> QED
    BY <1>8, <2>1 DEF SigPipe, Noting, Silent
<1>9. CASE Close
  <2>1. InStep("station")' = InStep("station")
    BY <1>0, <1>9 DEF Close, StreamEnds, StreamTypeOK, InStep
  <2> QED
    BY <1>9, <2>1 DEF Close, NewRound, Hangup, Noting, Silent
<1> QED
  BY <1>1, <1>2, <1>3, <1>4, <1>5, <1>6, <1>7, <1>8, <1>9 DEF AntennaStep

\* The last byte of a status that is taken in step makes it a new one.
LEMMA StationNoting == LinkInv /\ Noting /\ StationStep => Noting'
<1> SUFFICES ASSUME LinkInv, Noting, StationStep PROVE Noting'
  OBVIOUS
<1> USE DEF antennaVars, stationVars, streamVars
<1>0. StreamTypeOK
  BY DEF LinkInv, Streams
<1>1. CASE Accept
  BY <1>1 DEF Accept, Noting, Silent
<1>2. CASE StatusByte
  <2>1. PICK b \in BytesAt("station", at["station"]), crc \in Crc("station") :
           /\ Feed("station", b)
           /\ IF Complete("station", place["station"], wrong["station"], crc)
              THEN age' = StatusAge /\ noted' = (noted \/ InStep("station"))
              ELSE UNCHANGED <<age, noted>>
    BY <1>2 DEF StatusByte
  <2>2. UNCHANGED <<apc, status_sent, conn>>
    BY <1>2 DEF StatusByte
  <2>3. InStep("station") => InStep("station")'
    BY <2>1, FedInStep DEF LinkInv
  <2>4. noted' => InStep("station")
    BY <2>1 DEF Noting
  <2>5. Silent'
    <3>1. CASE at["station"] = MsgLen("station") - 1
      <4> SUFFICES ASSUME noted' PROVE age' = 0
        BY DEF Silent
      <4>1. MsgLen("station") \in Nat /\ MsgLen("station") >= 6
        BY Lengths
      <4>2. InStep("station")
        BY <2>4
      <4>3. place["station"] = MsgLen("station") - 1 /\ ~wrong["station"]
        BY <3>1, <4>1, <4>2 DEF InStep
      <4>4. crc = TRUE
        BY <2>1, <4>2 DEF Crc
      <4> QED
        BY <2>1, <4>3, <4>4 DEF Complete, StatusAge
    <3>2. CASE at["station"] # MsgLen("station") - 1
      <4>1. pend["station"] > 0 /\ pend'["station"] = pend["station"]
        BY <1>0, <2>1, <3>2 DEF Feed, StreamTypeOK
      <4> QED
        BY <4>1 DEF Silent
    <3> QED
      BY <3>1, <3>2
  <2> QED
    BY <2>2, <2>3, <2>4, <2>5 DEF Noting
<1>3. CASE PeerClosed
  BY <1>3 DEF PeerClosed, Drop, Noting, Silent
<1> QED
  BY <1>1, <1>2, <1>3 DEF StationStep

\* A second passes for an antenna that is waiting in poll, with its last status
\* of this second; it is about to write the next.
LEMMA TickNoting == LinkInv /\ Noting /\ Tick => Noting'
<1> SUFFICES ASSUME LinkInv, Noting, Tick PROVE Noting'
  OBVIOUS
<1>0. StreamTypeOK
  BY DEF LinkInv, Streams
<1>1. /\ \/ apc \in {"sleep", "exited", "killed"}
         \/ apc = "poll"
         \/ apc \in {"reply", "status"} /\ pend["station"] = MaxFrames["station"]
      /\ apc' = CASE apc = "poll" /\ ~Interrupted -> "status"
                  [] apc \in {"sleep", "exited"} -> "socket"
                  [] OTHER -> apc
      /\ status_sent' = status_sent
  BY DEF Tick, AntennaWaits, PollTimeout
<1>2. apc' \in {"socket", "connect", "sleep", "poll", "exited"} => ~status_sent'
  BY <1>1 DEF Noting
<1>3. \/ ~noted'
      \/ /\ UNCHANGED <<conn, pend, at>> /\ noted' = (noted /\ ~Interrupted)
         /\ UNCHANGED <<place, wrong>> \/ ParserReset("antenna")
  BY DEF Tick, Drop
<1>5. noted' => InStep("station")'
  BY <1>0, <1>3 DEF Noting, InStep, ParserReset, StreamTypeOK
<1>4. Silent'
  <2> SUFFICES ASSUME noted', conn' = "up", pend'["station"] = 0
               PROVE  age' = 1 /\ apc' = "status" /\ ~status_sent'
    BY DEF Silent
  <2>1. noted /\ ~Interrupted /\ conn = "up" /\ pend["station"] = 0
    BY <1>3
  <2>2. apc = "poll"
    <3>1. apc \notin {"sleep", "exited", "killed"}
      BY <2>1 DEF LinkInv, Sockets
    <3>2. MaxFrames["station"] # 0
      OBVIOUS
    <3> QED
      BY <1>1, <2>1, <3>1, <3>2
  <2>3. age = 0
    BY <2>1, <2>2 DEF Noting, Silent
  <2>4. age' = 1
    BY <2>3 DEF Tick
  <2> QED
    BY <1>1, <2>1, <2>2, <2>4 DEF Noting
<1> QED
  BY <1>2, <1>4, <1>5 DEF Noting

\* A failure ends the connection or does not touch the streams; commands and
\* the low power line write nothing to the station.
LEMMA FailureNoting == LinkInv /\ Noting /\ Failure => Noting'
<1> SUFFICES ASSUME LinkInv, Noting, Failure PROVE Noting'
  OBVIOUS
<1> USE DEF antennaVars, stationVars, streamVars
<1>0. StreamTypeOK
  BY DEF LinkInv, Streams
<1>1. CASE StationStops
  BY <1>1 DEF StationStops, Noting, Silent
<1>2. CASE StationStarts \/ NetChanges
  BY <1>2 DEF StationStarts, NetChanges, Noting, Silent, InStep
<1>3. CASE AntennaDies
  <2>1. InStep("station")' = InStep("station")
    BY <1>0, <1>3 DEF AntennaDies, StreamEnds, StreamTypeOK, InStep
  <2> QED
    BY <1>3, <2>1 DEF AntennaDies, NewRound, Hangup, Noting, Silent
<1>4. CASE PowerLoss
  <2>1. InStep("station")' = InStep("station")
    BY <1>0, <1>4 DEF PowerLoss, StreamEnds, ParserReset, StreamTypeOK, InStep
  <2> QED
    BY <1>4, <2>1 DEF PowerLoss, NewRound, Hangup, Noting, Silent
<1> QED
  BY <1>1, <1>2, <1>3, <1>4 DEF Failure

LEMMA NotingKept == LinkInv /\ Noting /\ [Next]_vars => Noting'
<1> SUFFICES ASSUME LinkInv, Noting, [Next]_vars PROVE Noting'
  OBVIOUS
<1> USE DEF antennaVars, stationVars, streamVars
<1>1. CASE Forward
  <2>1. pend'["station"] = pend["station"]
    BY <1>1 DEF Forward, LinkInv, Streams, StreamTypeOK
  <2> QED
    BY <1>1, <2>1 DEF Forward, Noting, Silent, InStep
<1>2. CASE LowPowerEvent
  BY <1>2 DEF LowPowerEvent, Noting, Silent, InStep
<1>3. CASE UNCHANGED vars
  BY <1>3 DEF vars, Noting, Silent, InStep
<1> QED
  BY <1>1, <1>2, <1>3, AntennaNoting, StationNoting, TickNoting, FailureNoting
  DEF Next

\* Only the timeout closes a connection whose other end is still there.
LEMMA WhoDrops ==
  ASSUME LinkInv, [Next]_vars, srv = "serve", srv' = "accept", peer = "same"
  PROVE  Tick /\ Late(StatusTimeout)
<1> USE DEF antennaVars, stationVars, streamVars
<1>1. ~AntennaStep
  BY DEF AntennaStep, Socket, Connect, ReadByte, ReadEnds, ReadError, Reply,
         Status, SigPipe, Close
<1>2. ~StationStep
  BY DEF StationStep, Accept, StatusByte, PeerClosed
<1>3. ~(Forward \/ LowPowerEvent \/ UNCHANGED vars)
  BY DEF Forward, LowPowerEvent, vars
<1>4. ~Failure
  BY DEF Failure, StationStops, StationStarts, AntennaDies, PowerLoss, NetChanges
<1>5. Tick => Late(StatusTimeout)
  BY DEF Tick
<1> QED
  BY <1>1, <1>2, <1>3, <1>4, <1>5 DEF Next

\* STATUS_TIMEOUT drops an antenna whose status was taken in step, on a
\* connection that works, only after SIGALRM has cut short a wait for the next
\* one, for every timeout longer than the wait of poll, and however the polls of
\* the two ends lie (start_server, process_connection, signal_handler).
THEOREM DroppedByAlarm == Spec => DropNeedsAlarm
<1>1. Init => Noting
  BY DEF Init, Noting, Silent
<1>2. LinkInv /\ Noting /\ [Next]_vars =>
         ((srv = "serve" /\ srv' = "accept" /\ peer = "same" /\ net) => ~noted)
  <2> SUFFICES ASSUME LinkInv, Noting, [Next]_vars, srv = "serve",
                      srv' = "accept", peer = "same", net, noted
               PROVE  FALSE
    OBVIOUS
  <2>1. Tick /\ Late(StatusTimeout)
    BY WhoDrops
  <2>2. conn = "up" /\ pend["station"] = 0
    BY <2>1 DEF Tick, StationWaits, LinkInv, TypeOK
  <2>3. /\ \/ apc \in {"sleep", "exited", "killed"}
           \/ apc = "poll"
           \/ pend["station"] = MaxFrames["station"]
        /\ MaxFrames["station"] # 0
    BY <2>1 DEF Tick, AntennaWaits
  <2>4. apc = "poll"
    BY <2>2, <2>3 DEF LinkInv, Sockets
  <2>5. age = 0
    BY <2>2, <2>4 DEF Noting, Silent
  <2>6. age' = 1
    BY <2>1, <2>5 DEF Tick
  <2> QED
    BY <2>1, <2>6 DEF Late
<1> QED
  BY <1>1, <1>2, NotingKept, LinkAlways, PTL DEF Spec, DropNeedsAlarm

=============================================================================
