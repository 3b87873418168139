---------------------------- MODULE RotatorParser ----------------------------
(***************************************************************************)
(* The parsers of the rotator protocol (protocol.h, parse_byte in          *)
(* antenna.c and in station.c).                                            *)
(*                                                                         *)
(* A message is start byte, version, type, length, timestamp, payload and  *)
(* CRC.  state and current_length of parse_byte together say how many      *)
(* bytes of a message the parser believes to have seen: its place, 0 in    *)
(* STATE_START_BYTE and MsgLen(e) - 1 in STATE_CRC.  A byte that is not    *)
(* accepted is consumed and sends the parser back to place 0.              *)
(*                                                                         *)
(* The parser of the antenna takes commands, that of the station statuses. *)
(***************************************************************************)
EXTENDS Integers

CONSTANTS
    TimestampLen,    \* bytes of the timestamp: 4
    PayloadLen       \* bytes of a command, 8, and of a status, 5

Ends == {"antenna", "station"}

ASSUME LengthAssumption == /\ TimestampLen \in Nat
                           /\ PayloadLen \in [Ends -> Nat \ {0}]

\* The values the parsers tell apart; MESSAGE_TYPE_STATUS is the same byte as
\* PROTOCOL_VERSION.  Data may hold any of them.
Bytes == {"e1", "01", "02", "05", "08", "other"}
Type == [antenna |-> "02", station |-> "01"]
Length == [antenna |-> "08", station |-> "05"]

HeaderLen == 4
MsgLen(e) == HeaderLen + TimestampLen + PayloadLen[e] + 1
Places(e) == 0..(MsgLen(e) - 1)

\* The byte that a sender puts at a place of a message to e.
BytesAt(e, place) == CASE place = 0 -> {"e1"}
                       [] place = 1 -> {"01"}
                       [] place = 2 -> {Type[e]}
                       [] place = 3 -> {Length[e]}
                       [] OTHER -> Bytes

\* The bytes with which the parser of e goes on to the next place.
Accepted(e, place) == CASE place = 0 -> {"e1"}
                        [] place = 1 -> {"01"}
                        [] place = 2 -> {"01", "02"}
                        [] place = 3 -> {Length[e]}
                        [] OTHER -> Bytes

BugNextPlace(e, place, b) ==   \* mutant: one payload byte too many
    IF b \in Accepted(e, place) THEN (place + 1) % (MsgLen(e) + 1) ELSE 0

NextPlace(e, place, b) ==
    IF b \in Accepted(e, place) THEN (place + 1) % MsgLen(e) ELSE 0

BugNextWrong(e, place, b, wrong) ==   \* mutant: the flag is never cleared
    IF place = 2 /\ b \in Accepted(e, place) THEN wrong \/ b # Type[e] ELSE wrong

\* wrong_message: a message of the other type is followed to its end, and then
\* ignored.  It is cleared with the version byte.
NextWrong(e, place, b, wrong) ==
    CASE place = 1 -> FALSE
      [] place = 2 /\ b \in Accepted(e, place) -> b # Type[e]
      [] OTHER -> wrong

\* parse_byte has a whole message: the CRC covers timestamp and payload only.
Complete(e, place, wrong, crc) == place = MsgLen(e) - 1 /\ ~wrong /\ crc
=============================================================================
