------------------------------- MODULE Station -------------------------------
(***************************************************************************)
(* The control process of the station (station.c).                         *)
(*                                                                         *)
(* The reader thread turns edges of the encoder and of the buttons into    *)
(* commands, each the whole of its state, and writes them into a pipe.     *)
(* The main thread accepts the antenna's connection, writes one command of *)
(* its own into the same pipe to greet it, and then moves commands from    *)
(* the pipe to the socket and statuses from the socket to the screen.      *)
(* The threads share the counter, the switches and connect_status and take *)
(* no lock.  rpc and mpc are where the two threads are.                    *)
(*                                                                         *)
(* The antenna is the environment: it connects, answers, closes, vanishes  *)
(* or resets the connection.  sock is what the kernel knows of it.         *)
(***************************************************************************)
EXTENDS Integers, Sequences, SequencesExt

CONSTANTS
    PipeCap,     \* messages the pipe holds before a write blocks
    Steps,       \* what an encoder edge may add to the counter
    MaxEvents    \* bound on the edges the operator causes in a behaviour

ASSUME PipeAssumption == PipeCap \in Nat \ {0}
ASSUME EventAssumption == MaxEvents \in Nat /\ Steps \subseteq {-1, 1}

VARIABLES
    sw,          \* switch_status
    sw_change,   \* switches with an edge not yet sent
    counter,     \* encoder.counter
    debounce,    \* the last button edge is less than 5 ms old
    events,      \* edges so far
    rpc, back,   \* the reader thread; where its send_message returns to
    rmsg,        \* the message it has composed
    mpc,         \* the main thread
    mmsg,        \* the greeting it has composed
    revents,     \* what its last poll reported
    buf,         \* what it has read from the pipe
    run,         \* FALSE after SIGTERM
    connect_status,
    stamp,       \* age of status_timestamp: "never", "recent", "old"
    pipe,        \* messages in the pipe, with the thread that wrote each
    sock,        \* the client socket as the kernel sees it
    inbox,       \* a complete status waits in it
    backlog,     \* a connection waits to be accepted
    heard,       \* messages the antenna got on this open connection, in order
    termAt       \* "waiting" if SIGTERM arrived in poll or accept

readerVars == <<sw, sw_change, counter, debounce, events, rpc, back, rmsg>>
mainVars == <<mpc, mmsg, revents, buf, connect_status, stamp>>
netVars == <<sock, inbox, backlog, heard>>
termVars == <<run, termAt>>
vars == <<readerVars, mainVars, netVars, termVars, pipe>>

Switches == {"ANTENNA", "ENCODER"}
Command == [position |-> counter, switches |-> sw]
Message(by) == [cmd |-> Command, by |-> by]
NoMessage == [cmd |-> [position |-> 0, switches |-> {}], by |-> "none"]

\* States of the client socket:
\*   "open"    the antenna is there
\*   "lost"    the antenna is gone and the kernel does not know
\*   "fin"     the antenna has closed; "rst" and has answered a write since
\*   "err"     the connection was reset; "dead" and the error was reported
\*   "closed"  closed by the SIGTERM handler
\*   "none"    no client
SockStates == {"none", "open", "lost", "fin", "rst", "err", "dead", "closed"}
Readable == sock \in {"fin", "rst", "err", "dead"} \/ inbox

Alive == mpc # "killed"

Init ==
    /\ sw \in {{}, {"ANTENNA"}}            \* the pin is read in main
    /\ sw_change = {} /\ counter = 0 /\ debounce = FALSE /\ events = 0
    /\ rpc = "poll" /\ back = "poll" /\ rmsg = NoMessage
    /\ mpc = "accept" /\ mmsg = NoMessage /\ revents = {} /\ buf = <<>>
    /\ run = TRUE /\ connect_status = FALSE /\ stamp = "never"
    /\ pipe = <<>> /\ sock = "none" /\ inbox = FALSE /\ backlog = FALSE
    /\ heard = <<>> /\ termAt = "none"

-----------------------------------------------------------------------------
(* The reader thread. *)

ReaderAt(label) == rpc = label /\ Alive

\* button_callback: the debounce drops the mark, never the new switch_status.
ButtonEdge(b, pressed) ==
    /\ ReaderAt("poll") /\ events < MaxEvents
    /\ sw' = IF pressed THEN sw \cup {b} ELSE sw \ {b}
    /\ sw_change' = IF debounce THEN sw_change ELSE sw_change \cup {b}
    /\ debounce' = TRUE
    /\ events' = events + 1
    /\ UNCHANGED <<counter, rpc, back, rmsg, mainVars, netVars, termVars, pipe>>

\* encoder_callback: ignored while the antenna switch is off.
EncoderEdge(d) ==
    /\ ReaderAt("poll") /\ events < MaxEvents
    /\ "ANTENNA" \in sw
    /\ counter' = counter + d
    /\ events' = events + 1
    /\ rpc' = "check" /\ back' = "poll"
    /\ UNCHANGED <<sw, sw_change, debounce, rmsg,
                   mainVars, netVars, termVars, pipe>>

DebounceExpires ==
    /\ debounce /\ debounce' = FALSE
    /\ UNCHANGED <<sw, sw_change, counter, events, rpc, back, rmsg,
                   mainVars, netVars, termVars, pipe>>

\* 100 ms without an edge: poll times out, long after any debounce.
BugFlushEarly == TRUE       \* mutant: flushed while the contacts still bounce
BugFlushNever == FALSE      \* mutant: nothing is done when poll times out
FlushDue == ~debounce
Flush ==
    /\ ReaderAt("poll") /\ FlushDue /\ sw_change # {}
    /\ rpc' = "flush"
    /\ UNCHANGED <<sw, sw_change, counter, debounce, events, back, rmsg,
                   mainVars, netVars, termVars, pipe>>

\* check_switch for the encoder switch, then for the antenna switch, each with
\* a message, and one more message at the end.
FlushStep ==
    /\ ReaderAt("flush")
    /\ IF sw_change = {}
       THEN back' = "poll" /\ UNCHANGED sw_change
       ELSE /\ back' = "flush"
            /\ sw_change' = IF "ENCODER" \in sw_change
                            THEN sw_change \ {"ENCODER"} ELSE {}
    /\ rpc' = "check"
    /\ UNCHANGED <<sw, counter, debounce, events, rmsg,
                   mainVars, netVars, termVars, pipe>>

\* send_message in the reader: test and compose, then the write to the pipe.
ReaderCompose ==
    /\ ReaderAt("check")
    /\ IF connect_status
       THEN rmsg' = Message("reader") /\ rpc' = "write"
       ELSE rpc' = back /\ UNCHANGED rmsg
    /\ UNCHANGED <<sw, sw_change, counter, debounce, events, back,
                   mainVars, netVars, termVars, pipe>>

ReaderWrite ==
    /\ ReaderAt("write") /\ Len(pipe) < PipeCap
    /\ pipe' = Append(pipe, rmsg)
    /\ rmsg' = NoMessage
    /\ rpc' = back
    /\ UNCHANGED <<sw, sw_change, counter, debounce, events, back,
                   mainVars, netVars, termVars>>

ReaderExit ==
    /\ ReaderAt("poll") /\ ~run
    /\ rpc' = "exit"
    /\ UNCHANGED <<sw, sw_change, counter, debounce, events, back, rmsg,
                   mainVars, netVars, termVars, pipe>>

-----------------------------------------------------------------------------
(* The main thread: start_server. *)

\* The loop "while (run && connect_status)" around the polling loop.
BugOuter(r) == IF connect_status THEN "serve" ELSE "close"  \* mutant: run unread
Outer(r) == IF r /\ connect_status THEN "serve" ELSE "close"

Accept ==
    /\ mpc = "accept" /\ run /\ backlog
    /\ backlog' = FALSE
    /\ sock' = "open" /\ inbox' \in BOOLEAN /\ heard' = <<>>
    /\ connect_status' = TRUE
    /\ mpc' = "greet"
    /\ UNCHANGED <<readerVars, mmsg, revents, buf, stamp, termVars, pipe>>

\* send_message in the main thread.
GreetCompose ==
    /\ mpc = "greet"
    /\ mmsg' = Message("main")
    /\ mpc' = "greetwrite"
    /\ UNCHANGED <<readerVars, revents, buf, connect_status, stamp,
                   netVars, termVars, pipe>>

GreetWrite ==
    /\ mpc = "greetwrite" /\ Len(pipe) < PipeCap
    /\ pipe' = Append(pipe, mmsg)
    /\ mmsg' = NoMessage
    /\ mpc' = Outer(run)
    /\ UNCHANGED <<readerVars, revents, buf, connect_status, stamp,
                   netVars, termVars>>

EnterPoll ==
    /\ mpc = "serve"
    /\ mpc' = "poll"
    /\ revents' = {}
    /\ UNCHANGED <<readerVars, mmsg, buf, connect_status, stamp,
                   netVars, termVars, pipe>>

PollWake ==
    /\ mpc = "poll"
    /\ revents' = (IF pipe # <<>> THEN {"pipe"} ELSE {})
                  \cup (IF Readable THEN {"sock"} ELSE {})
    /\ revents' # {}
    /\ mpc' = IF "pipe" \in revents' THEN "readpipe" ELSE "readsock"
    /\ UNCHANGED <<readerVars, mmsg, buf, connect_status, stamp,
                   netVars, termVars, pipe>>

\* A second with nothing to read: the age of the last status is looked at.
BugTimedOut == stamp = "never"    \* mutant: the test of zero is inverted
StatusTimedOut == stamp = "old"
PollTimeout ==
    /\ mpc = "poll" /\ pipe = <<>> /\ ~Readable /\ sock # "closed"
    /\ IF StatusTimedOut
       THEN connect_status' = FALSE /\ mpc' = "close"
       ELSE mpc' = "serve" /\ UNCHANGED connect_status
    /\ UNCHANGED <<readerVars, mmsg, revents, buf, stamp,
                   netVars, termVars, pipe>>

\* With nothing to read, poll returns at once for a descriptor that was closed
\* (POLLNVAL), or is interrupted by SIGALRM or SIGHUP; the loop goes on.
PollReturns ==
    /\ mpc = "poll" /\ pipe = <<>> /\ ~Readable
    /\ mpc' = "serve"
    /\ UNCHANGED <<readerVars, mmsg, revents, buf, connect_status, stamp,
                   netVars, termVars, pipe>>

\* At most BUFFER_SIZE bytes: some messages from the front of the pipe.
ReadPipe ==
    /\ mpc = "readpipe"
    /\ \E n \in 1..Len(pipe) : /\ buf' = SubSeq(pipe, 1, n)
                               /\ pipe' = SubSeq(pipe, n + 1, Len(pipe))
    /\ mpc' = "writesock"
    /\ UNCHANGED <<readerVars, mmsg, revents, connect_status, stamp,
                   netVars, termVars>>

\* Where the loop goes on after the pipe was served.
BugAfterPipe == "readsock"        \* mutant: revents is not looked at
AfterPipe == IF "sock" \in revents THEN "readsock" ELSE "serve"

WriteSock ==
    /\ mpc = "writesock"
    /\ buf' = <<>>
    /\ \/ /\ sock = "open"
          /\ heard' = heard \o buf
          /\ mpc' = AfterPipe
          /\ UNCHANGED sock
       \/ /\ sock = "lost"               \* a restarted host may reset it
          /\ sock' \in {"lost", "err"}
          /\ mpc' = AfterPipe
          /\ UNCHANGED heard
       \/ /\ sock = "fin"
          /\ sock' \in {"fin", "rst"}
          /\ mpc' = AfterPipe
          /\ UNCHANGED heard
       \/ /\ sock = "err"                \* ECONNRESET: break
          /\ sock' = "dead"
          /\ mpc' = Outer(run)
          /\ UNCHANGED heard
       \/ /\ sock = "closed"             \* EBADF: break
          /\ mpc' = Outer(run)
          /\ UNCHANGED <<sock, heard>>
       \/ /\ sock \in {"rst", "dead"}    \* SIGPIPE is not ignored
          /\ mpc' = "killed"
          /\ UNCHANGED <<sock, heard>>
    /\ UNCHANGED <<readerVars, mmsg, revents, connect_status, stamp,
                   inbox, backlog, termVars, pipe>>

ReadSock ==
    /\ mpc = "readsock"
    /\ \/ /\ inbox                     \* parse_byte completes a status
          /\ inbox' = FALSE /\ stamp' = "recent"
          /\ mpc' = "serve"
          /\ UNCHANGED <<sock, connect_status>>
       \/ /\ ~inbox /\ sock \in {"fin", "rst", "dead"}   \* end of file
          /\ connect_status' = FALSE
          /\ mpc' = "close"
          /\ UNCHANGED <<sock, inbox, stamp>>
       \/ /\ ~inbox /\ sock \in {"err", "closed"}        \* an error is ignored
          /\ sock' = IF sock = "err" THEN "dead" ELSE sock
          /\ mpc' = "serve"
          /\ UNCHANGED <<inbox, stamp, connect_status>>
    /\ UNCHANGED <<readerVars, mmsg, revents, buf, backlog, heard,
                   termVars, pipe>>

Close ==
    /\ mpc = "close"
    /\ connect_status' = FALSE
    /\ sock' = "none" /\ inbox' = FALSE /\ heard' = <<>>
    /\ revents' = {}
    /\ mpc' = IF run THEN "accept" ELSE "stopped"
    /\ UNCHANGED <<readerVars, mmsg, buf, stamp, backlog, termVars, pipe>>

\* SIGTERM closes both sockets under main's feet.  A poll or accept in
\* progress is interrupted; anywhere else main goes on.
Term ==
    /\ run /\ Alive /\ mpc # "stopped"
    /\ run' = FALSE /\ termAt' = IF mpc \in {"poll", "accept"} THEN "waiting" ELSE "busy"
    /\ sock' = IF sock = "none" THEN "none" ELSE "closed"
    /\ backlog' = FALSE /\ inbox' = FALSE /\ heard' = <<>>
    /\ mpc' = CASE mpc = "poll" -> Outer(FALSE)
                [] mpc = "accept" -> "stopped"
                [] OTHER -> mpc
    /\ UNCHANGED <<readerVars, mmsg, revents, buf, connect_status, stamp, pipe>>

-----------------------------------------------------------------------------
(* The antenna and the network, and time. *)

PeerConnect ==
    /\ run /\ ~backlog /\ sock # "open"
    /\ backlog' = TRUE
    /\ UNCHANGED <<readerVars, mainVars, sock, inbox, heard, termVars, pipe>>

PeerStatus ==
    /\ sock = "open" /\ ~inbox
    /\ inbox' = TRUE
    /\ UNCHANGED <<readerVars, mainVars, sock, backlog, heard, termVars, pipe>>

PeerGone ==
    /\ sock = "open"
    /\ sock' \in {"fin", "err", "lost"}
    /\ heard' = <<>>
    /\ UNCHANGED <<readerVars, mainVars, inbox, backlog, termVars, pipe>>

\* More than STATUS_TIMEOUT has passed since the last status.
StatusAges ==
    /\ stamp = "recent" /\ stamp' = "old"
    /\ UNCHANGED <<readerVars, mpc, mmsg, revents, buf, connect_status,
                   netVars, termVars, pipe>>

\* Nothing more happens in a process that is over.
Over ==
    /\ ~Alive \/ (mpc = "stopped" /\ rpc = "exit")
    /\ UNCHANGED vars

-----------------------------------------------------------------------------
Operator == \/ \E b \in Switches, p \in BOOLEAN : ButtonEdge(b, p)
            \/ \E d \in Steps : EncoderEdge(d)

Reader == Flush \/ FlushStep \/ ReaderCompose \/ ReaderWrite \/ ReaderExit

Main == \/ Accept \/ GreetCompose \/ GreetWrite \/ EnterPoll \/ PollWake
        \/ PollTimeout \/ ReadPipe \/ WriteSock \/ ReadSock \/ Close

Time == DebounceExpires \/ StatusAges

Environment == PeerConnect \/ PeerStatus \/ PeerGone

Next == \/ Operator \/ Reader \/ Main \/ PollReturns \/ Term
        \/ Time \/ Environment \/ Over

Spec == Init /\ [][Next]_vars

\* Both threads are scheduled and time passes.
FairSpec == /\ Spec
            /\ WF_vars(Reader) /\ WF_vars(Main)
            /\ WF_vars(DebounceExpires) /\ WF_vars(StatusAges)

-----------------------------------------------------------------------------
(* Properties. *)

Messages == [cmd : [position : Int, switches : SUBSET Switches],
             by : {"reader", "main", "none"}]

\* Types, and what the place of the main thread says of its variables.
TypeOK ==
    /\ sw \subseteq Switches /\ sw_change \subseteq Switches
    /\ counter \in Int /\ debounce \in BOOLEAN /\ events \in 0..MaxEvents
    /\ rpc \in {"poll", "flush", "check", "write", "exit"}
    /\ back \in {"poll", "flush"}
    /\ mpc \in {"accept", "greet", "greetwrite", "serve", "poll", "readpipe",
                "writesock", "readsock", "close", "stopped", "killed"}
    /\ rmsg \in Messages /\ mmsg \in Messages
    /\ revents \subseteq {"pipe", "sock"}
    /\ mpc = "readsock" => "sock" \in revents
    /\ run \in BOOLEAN /\ connect_status \in BOOLEAN
    /\ stamp \in {"never", "recent", "old"}
    /\ pipe \in Seq(Messages) /\ Len(pipe) <= PipeCap
    /\ buf \in Seq(Messages) /\ heard \in Seq(Messages)
    /\ sock \in SockStates /\ inbox \in BOOLEAN /\ backlog \in BOOLEAN

Greeted == mpc \in {"serve", "poll", "readpipe", "writesock", "readsock"}

\* The connected antenna has been greeted and the reader has nothing to do.
Settled == sock = "open" /\ Greeted /\ rpc = "poll" /\ sw_change = {}

\* What the antenna has got and will get on this connection, oldest first.
Trail == heard \o buf \o pipe

\* No edge is lost to the debounce, to a flush or to a reconnection: once the
\* reader is idle its state is in a message to the antenna, and no message but
\* the greeting of the main thread comes after it (button_callback, reader,
\* send_message).
OnlyGreetingStale ==
    Settled => \E i \in DOMAIN Trail :
                  /\ Trail[i].cmd = Command
                  /\ \A j \in i+1..Len(Trail) : Trail[j].by = "main"

\* The last message the antenna gets carries the "Switch status on the station"
\* (protocol.h) and the encoder position the station has.
LatestIsCurrent == Settled => Last(Trail).cmd = Command

\* While a connection lasts, what the operator did is heard by the antenna.
OperatorHeard ==
    <>[](sock = "open" /\ run)
        => <>[](\E i \in DOMAIN heard : heard[i].cmd = Command)

\* If poll is idle again and again, some of those waits last the whole second.
PollWaits == SF_vars(PollTimeout)

\* An antenna that vanished is dropped by the status timeout, if any status was
\* ever received and signals do not cut every wait of poll short (start_server).
VanishedDropped ==
    PollWaits => ((sock = "lost" /\ stamp # "never") ~> (sock # "lost"))

\* SIGTERM while the main thread waits in poll or accept ends both threads.
TermStops == (termAt = "waiting") ~> (mpc = "stopped" /\ rpc = "exit")
=============================================================================
