----------------------------- MODULE ControlLink -----------------------------
(***************************************************************************)
(* The TCP connection between the antenna and the station, byte by byte.   *)
(*                                                                         *)
(* The antenna (start_client, process_connection) connects, polls, reads,  *)
(* feeds parse_byte and writes a status after every command and whenever   *)
(* poll waits a second in vain: after a move of the servo SIGALRM cuts that*)
(* wait short for five seconds.  The station (start_server) accepts,       *)
(* forwards commands, parses statuses and drops an antenna it has not heard*)
(* for STATUS_TIMEOUT milliseconds.  The parsers keep their place when a   *)
(* connection is cut.                                                      *)
(*                                                                         *)
(* A message in flight is its place in the stream: header bytes are what   *)
(* the sender puts there, data is any byte.  What a command does to the    *)
(* antenna is in module Antenna, the threads of the station in Station.    *)
(***************************************************************************)
EXTENDS RotatorParser, FiniteSets

CONSTANTS
    FdLimit,     \* descriptors a process may leak before socket() fails
    MaxFrames,   \* bound on the messages in flight to each end
    Tails,       \* where in a command a read of the pipe may end
    StatusTimeout,   \* seconds: 2, longer than the wait of a poll
    AlarmSeconds,    \* ten alarms, half a second apart: 5
    Never        \* status_timestamp is zero

ASSUME LinkAssumption == /\ FdLimit \in Nat /\ MaxFrames \in [Ends -> Nat \ {0}]
                         /\ Tails \subseteq Places("antenna")
                         /\ StatusTimeout \in Nat \ {0, 1}
                         /\ AlarmSeconds \in Nat /\ Never \notin Nat

VARIABLES
    apc,         \* the antenna's process
    leaked,      \* sockets it failed to connect and did not close
    status_sent, \* in this round of its polling loop
    fed,         \* bytes were read in this round
    conn,        \* its socket
    queued,      \* statuses wait on a connection that is not accepted yet
    alarm,       \* seconds for which SIGALRM still comes twice a second
    srv,         \* the station's main thread: "down", "accept", "serve"
    peer,        \* the other end of the connection it serves
    age,         \* seconds since the last status
    heard,       \* poll has reported something since the last second
    tail,        \* place in a command cut by its last read of the pipe
    noted,       \* history: a status was taken in step on this connection, and
                 \* no alarm has cut short the wait for the next one
    net,         \* packets get through
    pend,        \* messages in flight to each end
    at,          \* place in the stream of the next byte
    place,       \* parser: state and current_length
    wrong,       \* parser: wrong_message
    plain,       \* the current message has no start byte in its data so far
    synced       \* such a message has come in whole on this connection

antennaVars == <<apc, leaked, status_sent, fed, conn, queued, alarm>>
stationVars == <<srv, peer, age, heard, tail, noted>>
streamVars == <<pend, at, place, wrong, plain, synced>>
vars == <<antennaVars, stationVars, net, streamVars>>

\* States of the antenna's socket:
\*   "none"    not connected           "backlog"  connected, not accepted
\*   "up"      the station serves it   "fin"      the station has closed it
\*   "rst"     ... and a write was answered with a reset
\*   "err"     it was reset            "dead"     ... and a write reported it
ConnStates == {"none", "backlog", "up", "fin", "rst", "err", "dead"}
AntennaStates == {"socket", "connect", "sleep", "poll", "read", "reply",
                  "status", "close", "exited", "killed"}

Init ==
    /\ apc = "socket" /\ leaked = 0 /\ conn = "none" /\ queued = FALSE
    /\ status_sent = FALSE /\ fed = FALSE /\ alarm = 0
    /\ srv \in {"down", "accept"} /\ peer = "none" /\ age = Never
    /\ heard = FALSE /\ tail = 0 /\ noted = FALSE /\ net \in BOOLEAN
    /\ pend = [e \in Ends |-> 0] /\ at = [e \in Ends |-> 0]
    /\ place = [e \in Ends |-> 0] /\ wrong = [e \in Ends |-> FALSE]
    /\ plain = [e \in Ends |-> TRUE] /\ synced = [e \in Ends |-> FALSE]

\* The parser of e stands where the stream does.
InStep(e) == place[e] = at[e] /\ (at[e] > 2 => ~wrong[e])

\* The CRC that the parser of e looks at is right for the message that was
\* sent, and right or wrong for bytes it takes for one.
Crc(e) == CASE InStep(e) -> {TRUE}
            [] ~InStep(e) /\ place[e] = MsgLen(e) - 1 -> BOOLEAN
            [] OTHER -> {FALSE}

\* The byte b reaches parse_byte of e.
Feed(e, b) ==
    LET last == at[e] = MsgLen(e) - 1
        plainNow == plain[e] /\ (b = "e1" => at[e] = 0)
    IN /\ pend[e] > 0 /\ net
       /\ place' = [place EXCEPT ![e] = NextPlace(e, place[e], b)]
       /\ wrong' = [wrong EXCEPT ![e] = NextWrong(e, place[e], b, wrong[e])]
       /\ at' = [at EXCEPT ![e] = (at[e] + 1) % MsgLen(e)]
       /\ pend' = [pend EXCEPT ![e] = IF last THEN @ - 1 ELSE @]
       /\ plain' = [plain EXCEPT ![e] = last \/ plainNow]
       /\ synced' = [synced EXCEPT ![e] = @ \/ (last /\ plainNow)]

\* The stream to e is over, and n messages are left on their way to the other.
StreamEnds(e, n) ==
    /\ pend' = [d \in Ends |-> IF d = e THEN 0 ELSE n]
    /\ at' = [at EXCEPT ![e] = 0]
    /\ plain' = [plain EXCEPT ![e] = TRUE]
    /\ synced' = [synced EXCEPT ![e] = FALSE]

ParserReset(e) == /\ place' = [place EXCEPT ![e] = 0]
                  /\ wrong' = [wrong EXCEPT ![e] = FALSE]

-----------------------------------------------------------------------------
(* The antenna: start_client and process_connection. *)

BugSocketFails == "sleep"          \* mutant: tried again with the same process
SocketFails == "exited"            \* main returns 1
Socket ==
    /\ apc = "socket"
    /\ \/ leaked < FdLimit /\ apc' = "connect" /\ UNCHANGED alarm
       \/ leaked >= FdLimit /\ apc' = SocketFails /\ alarm' = 0
    /\ UNCHANGED <<leaked, status_sent, fed, conn, queued,
                   stationVars, net, streamVars>>

\* A socket that cannot be connected is not closed.
Connect ==
    /\ apc = "connect"
    /\ \/ /\ net /\ srv # "down"
          /\ conn' = "backlog" /\ queued' = FALSE /\ apc' = "poll"
          /\ UNCHANGED leaked
       \/ /\ ~net \/ srv = "down"
          /\ leaked' = leaked + 1 /\ apc' = "sleep"
          /\ UNCHANGED <<conn, queued>>
    /\ UNCHANGED <<status_sent, fed, alarm, stationVars, net, streamVars>>

\* poll reports bytes; read returns some of them.  A command that moves the
\* servo arms the timer (process_command, set_pwm, set_timer).
ReadByte ==
    /\ apc \in {"poll", "read"} /\ conn \in {"up", "fin", "rst", "err", "dead"}
    /\ \E b \in BytesAt("antenna", at["antenna"]), crc \in Crc("antenna") :
          /\ Feed("antenna", b)
          /\ apc' = IF Complete("antenna", place["antenna"],
                                wrong["antenna"], crc)
                    THEN "reply" ELSE "read"
    /\ alarm' \in {alarm} \cup (IF apc' = "reply" THEN {AlarmSeconds} ELSE {})
    /\ fed' = TRUE
    /\ UNCHANGED <<leaked, status_sent, conn, queued, stationVars, net>>

\* The bytes of one read are used up.
ReadEnds ==
    /\ apc = "read"
    /\ apc' = "status"
    /\ UNCHANGED <<leaked, status_sent, fed, conn, queued, alarm,
                   stationVars, net, streamVars>>

BugReadFails == "status"           \* mutant: the result of read is not looked at
ReadFails == "close"
ReadError ==
    /\ apc = "poll"
    /\ \/ conn = "fin" /\ net /\ pend["antenna"] = 0
       \/ conn = "err" /\ net
       \/ conn \in {"rst", "dead"}
    /\ apc' = ReadFails
    /\ UNCHANGED <<leaked, status_sent, fed, conn, queued, alarm,
                   stationVars, net, streamVars>>

\* The write of send_status: ok says what it returns.  The write after a
\* reset was reported raises SIGPIPE, which nothing ignores.
Write(ok) ==
    \/ /\ conn = "up" /\ pend["station"] < MaxFrames["station"] /\ ok
       /\ pend' = [pend EXCEPT !["station"] = @ + 1]
       /\ UNCHANGED <<conn, queued>>
    \/ /\ conn = "backlog" /\ ok
       /\ queued' = TRUE
       /\ UNCHANGED <<conn, pend>>
    \/ /\ conn = "fin" /\ ok
       /\ conn' \in {"fin"} \cup (IF net THEN {"rst"} ELSE {})
       /\ UNCHANGED <<pend, queued>>
    \/ /\ conn = "err" /\ ~net /\ ok
       /\ UNCHANGED <<conn, pend, queued>>
    \/ /\ conn = "err" /\ net /\ ~ok
       /\ conn' = "dead"
       /\ UNCHANGED <<pend, queued>>

\* The answer to a command; an error leaves the loop over the bytes.
Reply ==
    /\ apc = "reply"
    /\ \E ok \in BOOLEAN : /\ Write(ok)
                           /\ status_sent' = (status_sent \/ ok)
                           /\ apc' = IF ok THEN "read" ELSE "status"
    /\ UNCHANGED <<leaked, fed, alarm, stationVars, net,
                   at, place, wrong, plain, synced>>

\* The end of a round: one status if none was sent in it.
NewRound == status_sent' = FALSE /\ fed' = FALSE
Status ==
    /\ apc = "status"
    /\ \/ /\ status_sent
          /\ apc' = "poll" /\ NewRound
          /\ UNCHANGED <<conn, pend, queued>>
       \/ /\ ~status_sent
          /\ \E ok \in BOOLEAN : /\ Write(ok)
                                       /\ apc' = IF ok THEN "poll" ELSE "close"
          /\ NewRound
    /\ UNCHANGED <<leaked, alarm, stationVars, net,
                   at, place, wrong, plain, synced>>

\* An edge of the low power line wakes poll when the socket does not.
Readable == \/ net /\ (pend["antenna"] > 0 \/ conn \in {"fin", "err"})
            \/ conn \in {"rst", "dead"}
LowPowerEvent ==
    /\ apc = "poll" /\ ~Readable /\ pend["station"] = 0
    /\ apc' = "status"
    /\ UNCHANGED <<leaked, status_sent, fed, conn, queued, alarm,
                   stationVars, net, streamVars>>

SigPipe ==
    /\ conn \in {"rst", "dead"}
    /\ \/ apc = "reply"
       \/ apc = "status" /\ ~status_sent
    /\ apc' = "killed" /\ conn' = "none" /\ alarm' = 0
    /\ StreamEnds("antenna", pend["station"])
    /\ UNCHANGED <<leaked, status_sent, fed, queued,
                   stationVars, net, place, wrong>>

\* The station learns of the close, of the bytes before it or of some of them.
Hangup(how) ==
    /\ conn' = "none" /\ queued' = FALSE
    /\ peer' = IF peer = "same" THEN how ELSE peer

Close ==
    /\ apc = "close"
    /\ apc' = "socket" /\ NewRound
    /\ Hangup("gone")
    /\ \E n \in 0..pend["station"] : StreamEnds("antenna", n)
    /\ UNCHANGED <<leaked, alarm, srv, age, heard, tail, noted, net, place, wrong>>

-----------------------------------------------------------------------------
(* The station: start_server. *)

\* The greeting is on its way, behind the rest of a command that the last read
\* of the pipe cut in two.
Accept ==
    /\ srv = "accept" /\ conn = "backlog"
    /\ srv' = "serve" /\ peer' = "same" /\ conn' = "up"
    /\ heard' = TRUE /\ tail' = 0 /\ noted' = FALSE /\ queued' = FALSE
    /\ pend' = [antenna |-> IF tail = 0 THEN 1 ELSE 2,
                station |-> IF queued THEN 1 ELSE 0]
    /\ at' = [antenna |-> tail, station |-> 0]
    /\ plain' = [e \in Ends |-> at'[e] = 0]
    /\ synced' = [e \in Ends |-> FALSE]
    /\ UNCHANGED <<apc, leaked, status_sent, fed, alarm, age, net,
                   place, wrong>>

Forward ==
    /\ srv = "serve" /\ peer = "same" /\ pend["antenna"] < MaxFrames["antenna"]
    /\ pend' = [pend EXCEPT !["antenna"] = @ + 1]
    /\ heard' = TRUE
    /\ UNCHANGED <<antennaVars, srv, peer, age, tail, noted, net,
                   at, place, wrong, plain, synced>>

BugStatusAge == IF age = Never THEN 0 ELSE age   \* mutant: taken only once
StatusAge == 0                     \* status_timestamp is the time of this one
StatusByte ==
    /\ srv = "serve" /\ peer # "vanished"
    /\ \E b \in BytesAt("station", at["station"]), crc \in Crc("station") :
          /\ Feed("station", b)
          /\ IF Complete("station", place["station"], wrong["station"], crc)
             THEN age' = StatusAge /\ noted' = (noted \/ InStep("station"))
             ELSE UNCHANGED <<age, noted>>
    /\ heard' = TRUE
    /\ UNCHANGED <<antennaVars, srv, peer, tail, net>>

\* The station closes its end.  Unread bytes make of it a reset.
Dropped == IF pend["station"] > 0 THEN "err" ELSE "fin"
Drop ==
    /\ srv' = "accept" /\ peer' = "none" /\ heard' = FALSE /\ noted' = FALSE
    /\ conn' = IF peer = "same" THEN Dropped ELSE conn
    /\ tail' \in Tails
    /\ StreamEnds("station", pend["antenna"])

PeerClosed ==
    /\ srv = "serve" /\ peer = "gone" /\ net /\ pend["station"] = 0
    /\ Drop
    /\ UNCHANGED <<apc, leaked, status_sent, fed, queued, alarm, age, net,
                   place, wrong>>

-----------------------------------------------------------------------------
(* Failures, the network and time. *)

\* The process is stopped or dies; its end of a connection goes with it.
StationStops ==
    /\ srv # "down"
    /\ srv' = "down" /\ peer' = "none" /\ heard' = FALSE /\ noted' = FALSE
    /\ age' = Never /\ tail' = 0
    /\ conn' = CASE peer = "same" -> Dropped
                 [] peer # "same" /\ conn = "backlog" -> "err"
                 [] OTHER -> conn
    /\ StreamEnds("station", pend["antenna"])
    /\ ParserReset("station")
    /\ UNCHANGED <<apc, leaked, status_sent, fed, queued, alarm, net>>

StationStarts ==
    /\ srv = "down"
    /\ srv' = "accept"
    /\ UNCHANGED <<antennaVars, peer, age, heard, tail, noted, net, streamVars>>

\* The process of the antenna dies, and its end of a connection with it.
AntennaDies ==
    /\ apc \notin {"exited", "killed"}
    /\ apc' = "exited" /\ NewRound /\ alarm' = 0
    /\ Hangup("gone")
    /\ \E n \in 0..pend["station"] : StreamEnds("antenna", n)
    /\ UNCHANGED <<leaked, srv, age, heard, tail, noted, net, place, wrong>>

\* The antenna loses its power: the station is not told.
PowerLoss ==
    /\ apc' = "socket" /\ leaked' = 0 /\ NewRound /\ alarm' = 0
    /\ Hangup("vanished")
    /\ StreamEnds("antenna", 0)
    /\ ParserReset("antenna")
    /\ UNCHANGED <<srv, age, heard, tail, noted, net>>

NetChanges ==
    /\ net' = ~net
    /\ UNCHANGED <<antennaVars, stationVars, streamVars>>

\* What poll waits for, and what is done well within a second.
AntennaWaits ==
    \/ apc \in {"sleep", "exited", "killed"}
    \/ apc = "poll" /\ ~Readable
    \/ apc \in {"reply", "status"} /\ conn = "up" /\ pend["station"] = MaxFrames["station"]
StationWaits ==
    /\ ~(srv = "accept" /\ conn = "backlog")
    /\ srv = "serve" /\ net => peer # "gone" /\ (peer = "same" => pend["station"] = 0)

BugPollTimeout == "poll"           \* mutant: poll is given no timeout
PollTimeout == "status"

\* While the alarms last they cut every wait of poll short, which starts again
\* without a status.  The one alarm of a delayed switch-off, half a second
\* after it, lengthens one wait to a second and a half and is not shown.
Interrupted == apc = "poll" /\ alarm > 0

\* The station finds the last status, of whatever connection, too old.
Late(seconds) == srv = "serve" /\ age # Never /\ age' >= seconds

\* A second passes: poll of the antenna times out or is cut short, poll of the
\* station looks at the time of the last status, and the seconds of sleep() and
\* of systemd's RestartSec, five each, go by.  The waits of the two polls do
\* not end together, and each is a little longer than a second: after
\* StatusTimeout of them the status may be too old or not, and later the
\* station may still have something to read instead, its poll ending just
\* before or after the next status.
Tick ==
    /\ AntennaWaits /\ StationWaits
    /\ apc' = CASE apc = "poll" /\ ~Interrupted -> PollTimeout
                [] apc \in {"sleep", "exited"} -> "socket"
                [] OTHER -> apc
    /\ alarm' = IF alarm > 0 THEN alarm - 1 ELSE 0
    /\ age' = IF age \in {Never, StatusTimeout + 1} THEN age ELSE age + 1
    /\ \/ Late(StatusTimeout) /\ Drop
       \/ /\ Late(StatusTimeout + 1) => heard
          /\ heard' = FALSE /\ noted' = (noted /\ ~Interrupted)
          /\ UNCHANGED <<srv, peer, conn, tail, pend, at, plain, synced>>
    /\ IF apc = "exited"
       THEN leaked' = 0 /\ ParserReset("antenna")
       ELSE UNCHANGED <<leaked, place, wrong>>
    /\ UNCHANGED <<status_sent, fed, queued, net>>

-----------------------------------------------------------------------------
AntennaStep == \/ Socket \/ Connect \/ ReadByte \/ ReadEnds \/ ReadError
               \/ Reply \/ Status \/ SigPipe \/ Close

StationStep == Accept \/ StatusByte \/ PeerClosed

Failure == \/ StationStops \/ StationStarts
           \/ AntennaDies \/ PowerLoss \/ NetChanges

Next == \/ AntennaStep \/ StationStep \/ Tick
        \/ Forward \/ LowPowerEvent \/ Failure

Spec == Init /\ [][Next]_vars

\* Both processes are scheduled and time passes.
FairSpec == Spec /\ WF_vars(AntennaStep) /\ WF_vars(StationStep) /\ WF_vars(Tick)

-----------------------------------------------------------------------------
(* Properties. *)

StreamTypeOK ==
    /\ pend \in [Ends -> Nat] /\ at \in [Ends -> Nat] /\ place \in [Ends -> Nat]
    /\ plain \in [Ends -> BOOLEAN] /\ wrong \in [Ends -> BOOLEAN]
    /\ synced \in [Ends -> BOOLEAN]
    /\ \A e \in Ends : at[e] \in Places(e) /\ place[e] \in Places(e)

\* Types, and which ends of a connection may be in which state together.
TypeOK ==
    /\ apc \in AntennaStates /\ leaked \in 0..FdLimit
    /\ status_sent \in BOOLEAN /\ fed \in BOOLEAN /\ queued \in BOOLEAN
    /\ alarm \in 0..AlarmSeconds
    /\ conn \in ConnStates /\ srv \in {"down", "accept", "serve"}
    /\ peer \in {"none", "same", "gone", "vanished"}
    /\ age \in 0..(StatusTimeout + 1) \cup {Never}
    /\ heard \in BOOLEAN /\ tail \in Tails \cup {0} /\ noted \in BOOLEAN
    /\ net \in BOOLEAN
    /\ StreamTypeOK
    /\ conn = "up" <=> peer = "same"
    /\ srv = "serve" <=> peer # "none"

\* One whole message without a start byte in its data brings a parser into
\* step for the rest of the connection, wherever an earlier connection that was
\* cut, or data taken for a header, had left it (parse_byte, both ends).
CleanResync == \A e \in Ends : synced[e] => InStep(e)

\* In step, every message is acted on with its last byte: the antenna executes
\* the command and answers, the station notes the time (parse_byte's result in
\* process_connection and in start_server).
Processed ==
    [][\A e \in Ends :
          (synced[e] /\ at[e] = MsgLen(e) - 1 /\ at'[e] = 0 /\ synced'[e])
              => (IF e = "antenna" THEN apc' = "reply" ELSE age' = 0)]_vars

\* SIGPIPE ends the antenna, and systemd takes it for a clean exit.  It takes
\* bytes that were still to be read when the connection was reset: the status
\* of a quiet second, the edges of the low power line and the close of the
\* station alone are survived (process_connection, send_status).
KilledWithInput == apc = "killed" => fed

\* STATUS_TIMEOUT drops an antenna that is connected, through a network that
\* works, and whose status was taken in step only after SIGALRM has cut short a
\* wait for the next one, as it does for five seconds after every move of the
\* servo.  Without that the two periods, one second of poll and two of silence,
\* leave room, however the polls of the two ends lie and whatever outage came
\* before; before a status is taken in step, the time of one of an earlier
\* connection is held against this one (start_server, process_connection).
DropNeedsAlarm ==
    [][(srv = "serve" /\ srv' = "accept" /\ peer = "same" /\ net) => ~noted]_vars

\* Failures end, the network works and the servo has come to rest: a greeting
\* repeats the last position, which moves nothing.  While a parser is out of
\* step no data byte is a start byte, nor a CRC that is taken for one.
Dirty == \E e \in Ends : /\ ~InStep(e)
                        /\ \/ plain[e] /\ ~plain'[e]
                           \/ at[e] # 0 /\ place[e] = 0 /\ place'[e] = 1
AtRest == alarm' <= alarm
Calm == /\ <>[][~Failure /\ ~Dirty /\ ~Forward /\ ~LowPowerEvent /\ AtRest]_vars
        /\ <>[](net /\ srv # "down" /\ apc # "killed" /\ age # Never)

\* Then the two ends are connected again, for good: through descriptors that
\* leak until the antenna exits and is restarted, through parsers left in the
\* middle of a message, and through a timeout they cause (start_client, main).
Reconnects == Calm => <>[](conn = "up")
=============================================================================
