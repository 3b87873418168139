------------------------------ MODULE CrsfBridge ------------------------------
(***************************************************************************)
(* crsf-bridge in TX mode (crsf-bridge.c): packets of the handset arrive   *)
(* on the UART byte by byte and go out over UDP; packets that arrive over  *)
(* UDP wait in the circular buffer, and one is written to the UART after   *)
(* each packet of the handset.  One thread runs two parsers, one for each  *)
(* line; they measure the silence before a byte with one clock.            *)
(*                                                                         *)
(* The senders at the other ends are the environment: they send packets,   *)
(* pause anywhere, and the line loses or garbles bytes.  Of a packet's     *)
(* content only the length byte and the type are kept.                     *)
(***************************************************************************)
EXTENDS Integers, Sequences, SequencesExt

CONSTANTS
    MaxPayload,    \* CRSF_MAX_PAYLOAD_LEN
    ChannelsLen,   \* 22, the payload of a packet of channels
    Slots,         \* CBUF_NUM
    NoPacket

ASSUME LengthAssumption == MaxPayload \in Nat \ {0} /\ ChannelsLen \in Nat \ {0}
ASSUME SlotsAssumption == Slots \in Nat \ {0}

VARIABLES
    parser,    \* uart_parser and net_parser
    clock,     \* the last byte of either line is "fresh" or older than 10 ms
    queue,     \* the packets in cbuf
    written,   \* the packet last written to the UART
    shared,    \* 0, or, with the flag of the shared channels set, the bytes
               \* that were copied over them
    sender,    \* of each line, the bytes sent of the current packet, its payload
    intact     \* the line is undisturbed since a silence before a packet

lineVars == <<sender, intact>>
vars == <<parser, clock, queue, written, shared, lineVars>>

Lines == {"uart", "udp"}

\* Bytes: 1 is the type of channels, 1 and 2 are lengths too short, the last
\* but one is a length too long, the last one is an address.
Bytes == 1..(MaxPayload + 4)
Address == MaxPayload + 4
ChannelsType == 1
MaxPacket == MaxPayload + 4

Packets == [lenbyte : Bytes, length : 0..MaxPacket]
Cbuf == INSTANCE DropOldestQueue
            WITH Items <- Packets, NoItem <- NoPacket, result <- written

-----------------------------------------------------------------------------
(* The parser. *)

BugLengths == 3..(MaxPayload + 3)         \* mutant: one more than fits
BugLengthsShort == 3..(MaxPayload + 1)    \* mutant: the longest is refused
Lengths == 3..(MaxPayload + 2)

BugPayloadOf(b) == b - 1       \* mutant: the crc is counted as payload
PayloadOf(b) == b - 2

\* A parser between packets: none of its other fields is read before it is set.
Idle == [state |-> "SOURCE", length |-> 0, type |-> "other", lenbyte |-> 1,
         payload_length |-> 0, payload_pos |-> 0]

BugAwake(p) == p                          \* mutant: a silence is not noticed
Awake(p) == IF clock = "stale" THEN Idle ELSE p

\* Of the type of a packet only its being the channels is kept.
TypeOf(b) == IF b = ChannelsType THEN "channels" ELSE "other"

Parse(p, b) ==
    CASE p.state = "SOURCE" ->
            IF b = Address THEN [p EXCEPT !.state = "LENGTH"] ELSE p
      [] p.state = "LENGTH" ->
            IF b \in Lengths
            THEN [p EXCEPT !.state = "TYPE", !.lenbyte = b, !.length = 2,
                           !.payload_length = PayloadOf(b), !.payload_pos = 0]
            ELSE Idle
      [] p.state = "TYPE" ->
            [p EXCEPT !.state = "PAYLOAD", !.type = TypeOf(b), !.length = @ + 1]
      [] p.state = "PAYLOAD" ->
            [p EXCEPT !.state = IF p.payload_pos + 1 >= p.payload_length
                                THEN "CRC" ELSE "PAYLOAD",
                      !.payload_pos = @ + 1, !.length = @ + 1]
      [] p.state = "CRC" ->
            [p EXCEPT !.state = "SOURCE", !.length = @ + 1]

\* The byte completes the packet Completed(l, b), whose checksum is looked at.
Completes(l) == Awake(parser[l]).state = "CRC"
Completed(l, b) == Parse(Awake(parser[l]), b)
Packet(p) == [lenbyte |-> p.lenbyte, length |-> p.length]

-----------------------------------------------------------------------------
Init ==
    /\ parser = [l \in Lines |-> Idle]
    /\ clock = "never"
    /\ Cbuf!Init
    /\ shared = 0
    /\ sender = [l \in Lines |-> [pos |-> 0, len |-> 1]]
    /\ intact = [l \in Lines |-> FALSE]

\* The last byte of the packet that is being sent on l, and its bytes.
Ending(l) == sender[l].pos = sender[l].len + 3
Sends(l, b) == CASE sender[l].pos = 0 -> b = Address
                 [] sender[l].pos = 1 -> b = sender[l].len + 2
                 [] OTHER -> TRUE

\* The sender goes on to its next byte, or to a packet of another length.
Advance(l) ==
    IF Ending(l)
    THEN \E n \in 1..MaxPayload : sender' = [sender EXCEPT ![l] = [pos |-> 0, len |-> n]]
    ELSE sender' = [sender EXCEPT ![l].pos = @ + 1]

\* A byte of the packet arrives, in time or at the start after a silence, or
\* another byte arrives in its place.
Arrives(l, b) ==
    /\ Advance(l)
    /\ intact' = [intact EXCEPT ![l] =
                      /\ Sends(l, b)
                      /\ IF clock = "fresh" THEN @ ELSE sender[l].pos = 0]

Lost(l) ==
    /\ Advance(l)
    /\ intact' = [intact EXCEPT ![l] = FALSE]
    /\ UNCHANGED <<parser, clock, queue, written, shared>>

\* parser(): the state machine, then the time of this byte.
Parsed(l, b) ==
    /\ parser' = [parser EXCEPT ![l] = IF Completes(l) THEN Idle
                                       ELSE Parse(Awake(@), b)]
    /\ clock' = "fresh"

\* The checksum of an undisturbed packet is right, that of others may be.
GoodCrc(l) == IF intact[l] THEN {TRUE} ELSE BOOLEAN

\* process_tx_packet: a packet of channels that is long enough is copied whole,
\* and what is longer than the channels lands behind them in the shared page.
Share(p) == IF p.type = "channels" /\ p.payload_length >= ChannelsLen
            THEN shared' = p.payload_length ELSE UNCHANGED shared

\* A byte of the UART.  A packet, good or bad, is forwarded, and then one
\* packet of the buffer is written; if it cannot be sent, neither is done.
UartByte(b) ==
    /\ Arrives("uart", b) /\ Parsed("uart", b)
    /\ \/ /\ Completes("uart")
          /\ \E good \in GoodCrc("uart") :
                IF good THEN Share(Completed("uart", b)) ELSE UNCHANGED shared
          /\ IF queue = <<>> THEN UNCHANGED <<queue, written>> ELSE Cbuf!Get
       \/ UNCHANGED <<queue, written, shared>>

\* A byte of a datagram.  A good packet is put into the buffer.
UdpByte(b) ==
    /\ Arrives("udp", b) /\ Parsed("udp", b)
    /\ \/ /\ Completes("udp")
          /\ TRUE \in GoodCrc("udp")
          /\ Cbuf!Put(Packet(Completed("udp", b)))
       \/ /\ Completes("udp") => FALSE \in GoodCrc("udp")
          /\ UNCHANGED <<queue, written>>
    /\ UNCHANGED shared

\* More than 10 ms without a byte on either line.
Silence ==
    /\ clock = "fresh" /\ clock' = "stale"
    /\ UNCHANGED <<parser, queue, written, shared, lineVars>>

\* The visualisation thread of the station takes the flag.
FlagTaken ==
    /\ shared # 0 /\ shared' = 0
    /\ UNCHANGED <<parser, clock, queue, written, lineVars>>

Next == \/ \E b \in Bytes : UartByte(b) \/ UdpByte(b)
        \/ \E l \in Lines : Lost(l)
        \/ Silence \/ FlagTaken

Spec == Init /\ [][Next]_vars

-----------------------------------------------------------------------------
(* Properties. *)

Parsers == [state : {"SOURCE", "LENGTH", "TYPE", "PAYLOAD", "CRC"},
            length : 0..MaxPacket, type : {"channels", "other"},
            lenbyte : Bytes, payload_length : 0..MaxPayload,
            payload_pos : 0..MaxPayload]

\* No byte is stored beyond the packet buffer, and payload_pos stays within
\* the payload (parser).  What is copied over the shared channels fills them,
\* and is bounded by the longest payload only (process_tx_packet).
TypeOK ==
    /\ parser \in [Lines -> Parsers]
    /\ clock \in {"never", "fresh", "stale"}
    /\ shared \in {0} \cup ChannelsLen..MaxPayload
    /\ queue \in Seq(Packets) /\ Len(queue) <= Slots
    /\ written \in Packets \cup {NoPacket}

\* What is written to the UART, buf[1] + 2 bytes, is what was parsed of that
\* packet: no byte of an older packet in the slot is sent after it, and none
\* of its own is missing (parser, cbuf_put, process_connection_tx).
WholePackets ==
    \A p \in {queue[i] : i \in DOMAIN queue} \cup ({written} \ {NoPacket}) :
        p.length = p.lenbyte + 2

StateAt(s) == CASE s.pos = 0 -> "SOURCE"
                [] s.pos = 1 -> "LENGTH"
                [] s.pos = 2 -> "TYPE"
                [] s.pos \in 3..(s.len + 2) -> "PAYLOAD"
                [] OTHER -> "CRC"

\* After any loss, garbling or pause, a silence on both lines before a packet
\* brings the parser back in step with the sender, whatever the other line
\* sends in the meantime (the clock of parser).
InStep ==
    \A l \in Lines : intact[l] =>
        /\ parser[l].state = StateAt(sender[l])
        /\ sender[l].pos >= 2 => parser[l].length = sender[l].pos

\* An undisturbed packet from the network, of any length the protocol allows,
\* is put into the buffer by its last byte, even into a full one.
IntactQueued ==
    [][(Ending("udp") /\ sender' # sender /\ intact["udp"] /\ intact'["udp"]
            /\ sender'["udp"].pos = 0)
          => Last(queue').length = sender["udp"].len + 4]_vars
=============================================================================
