---------------------------- MODULE StationProofs -----------------------------
(***************************************************************************)
(* What Station promises for a pipe of every size, encoder edges of both   *)
(* directions and any number of edges.                                     *)
(***************************************************************************)
EXTENDS Station, SequenceTheorems, TLAPS

USE PipeAssumption, EventAssumption

-----------------------------------------------------------------------------
(* Types, by the group of variables that an action changes. *)

ReaderTypes ==
    /\ sw \subseteq Switches /\ sw_change \subseteq Switches
    /\ counter \in Int /\ events \in 0..MaxEvents
    /\ rpc \in {"poll", "flush", "check", "write", "exit"}
    /\ back \in {"poll", "flush"}
    /\ rmsg \in Messages

MainTypes ==
    /\ mpc \in {"accept", "greet", "greetwrite", "serve", "poll", "readpipe",
                "writesock", "readsock", "close", "stopped", "killed"}
    /\ mmsg \in Messages
    /\ revents \subseteq {"pipe", "sock"}
    /\ mpc = "readsock" => "sock" \in revents
    /\ stamp \in {"never", "recent", "old"}

SequenceTypes == /\ pipe \in Seq(Messages) /\ Len(pipe) <= PipeCap
                 /\ buf \in Seq(Messages) /\ heard \in Seq(Messages)

FlagTypes == /\ debounce \in BOOLEAN /\ run \in BOOLEAN /\ inbox \in BOOLEAN
             /\ backlog \in BOOLEAN /\ connect_status \in BOOLEAN

LEMMA TypeGroups ==
  TypeOK <=> /\ ReaderTypes /\ MainTypes /\ SequenceTypes /\ FlagTypes
             /\ sock \in SockStates
  BY DEF TypeOK, ReaderTypes, MainTypes, SequenceTypes, FlagTypes

-----------------------------------------------------------------------------
(* The invariant. *)

\* The command c is in s, and behind it there are only greetings.
Fresh(s, c) == \E i \in DOMAIN s : /\ s[i].cmd = c
                                   /\ \A j \in i+1..Len(s) : s[j].by = "main"

\* The reader has yet to send the state it has now, if there is a connection.
Owed == sw_change # {} \/ rpc \in {"flush", "check", "write"}

\* The reader thread: an edge that the debounce does not mark finds a mark, and
\* a message it has composed is not overtaken by an edge.
ReaderInv ==
    /\ rpc = "poll" => back = "poll"
    /\ debounce => sw_change # {} /\ rpc # "flush" /\ back # "flush"
    /\ rpc = "write" => rmsg.cmd = Command

\* The main thread: connect_status is set from before the greeting is composed
\* until the connection is given up.
MainInv ==
    /\ mpc \in {"greet", "greetwrite"} \/ Greeted => connect_status
    /\ mpc = "greetwrite" => mmsg.by = "main"
    /\ mpc # "writesock" => buf = <<>>

\* What the antenna is going to hear.
TrailInv ==
    sock = "open" =>
        /\ Greeted => Owed \/ Fresh(Trail, Command)
        /\ mpc = "greetwrite" =>
              Owed \/ Fresh(Trail, Command) \/ mmsg.cmd = Command

StationInv == TypeOK /\ ReaderInv /\ MainInv /\ TrailInv

-----------------------------------------------------------------------------
(* Types. *)

LEMMA MessageTypes ==
  ASSUME TypeOK
  PROVE  /\ Message("reader") \in Messages /\ Message("main") \in Messages
         /\ NoMessage \in Messages
  BY DEF TypeOK, Message, Command, NoMessage, Messages, Switches

LEMMA NoneOfMessages == <<>> \in Seq(Messages) /\ Len(<<>>) = 0
  BY EmptySeq

LEMMA AppendTypes ==
  ASSUME NEW m \in Messages, SequenceTypes, Len(pipe) < PipeCap
  PROVE  Append(pipe, m) \in Seq(Messages) /\ Len(Append(pipe, m)) <= PipeCap
<1>1. Len(Append(pipe, m)) = Len(pipe) + 1 /\ Append(pipe, m) \in Seq(Messages)
  BY AppendProperties DEF SequenceTypes
<1>2. Len(pipe) \in Nat
  BY LenProperties DEF SequenceTypes
<1> QED
  BY <1>1, <1>2

LEMMA TypesInit == Init => TypeOK
<1> SUFFICES ASSUME Init PROVE TypeOK
  OBVIOUS
<1>1. NoMessage \in Messages
  BY DEF NoMessage, Messages, Switches
<1>2. ReaderTypes
  <2>1. sw \subseteq Switches
    BY DEF Init, Switches
  <2> QED
    BY <1>1, <2>1 DEF Init, ReaderTypes
<1>3. MainTypes
  BY <1>1 DEF Init, MainTypes
<1>4. SequenceTypes
  BY NoneOfMessages DEF Init, SequenceTypes
<1>5. FlagTypes
  BY DEF Init, FlagTypes
<1>6. sock \in SockStates
  BY DEF Init, SockStates
<1> QED
  BY <1>2, <1>3, <1>4, <1>5, <1>6, TypeGroups

LEMMA TypesKeep == TypeOK /\ [Next]_vars => TypeOK'
<1> DEFINE Types == /\ ReaderTypes /\ MainTypes /\ SequenceTypes /\ FlagTypes
                    /\ sock \in SockStates
<1> SUFFICES ASSUME TypeOK, [Next]_vars PROVE Types'
  BY DEF TypeOK, ReaderTypes, MainTypes, SequenceTypes, FlagTypes
<1> USE DEF readerVars, mainVars, netVars, termVars
<1>0. Types
  BY TypeGroups
<1>b. ASSUME NEW b \in Switches, NEW p \in BOOLEAN, ButtonEdge(b, p)
      PROVE  Types'
  <2>1. ReaderTypes'
    BY <1>0, <1>b DEF ButtonEdge, ReaderTypes
  <2>2. FlagTypes'
    BY <1>0, <1>b, Zenon DEF ButtonEdge, FlagTypes
  <2>3. MainTypes' /\ SequenceTypes' /\ sock' \in SockStates
    BY <1>0, <1>b DEF ButtonEdge, MainTypes, SequenceTypes, SockStates
  <2> QED
    BY <2>1, <2>2, <2>3
<1>e. ASSUME NEW d \in Steps, EncoderEdge(d)
      PROVE  Types'
  <2>1. ReaderTypes'
    BY <1>0, <1>e DEF EncoderEdge, ReaderTypes
  <2>2. MainTypes' /\ SequenceTypes' /\ FlagTypes' /\ sock' \in SockStates
    BY <1>0, <1>e DEF EncoderEdge, MainTypes, SequenceTypes, FlagTypes, SockStates
  <2> QED
    BY <2>1, <2>2
<1>1. CASE DebounceExpires
  <2>1. FlagTypes'
    BY <1>0, <1>1, Zenon DEF DebounceExpires, FlagTypes
  <2>2. ReaderTypes' /\ MainTypes' /\ SequenceTypes' /\ sock' \in SockStates
    BY <1>0, <1>1 DEF DebounceExpires, ReaderTypes, MainTypes, SequenceTypes, SockStates
  <2> QED
    BY <2>1, <2>2
<1>2. CASE Flush
  <2>1. ReaderTypes'
    BY <1>0, <1>2 DEF Flush, ReaderTypes
  <2>2. MainTypes' /\ SequenceTypes' /\ FlagTypes' /\ sock' \in SockStates
    BY <1>0, <1>2 DEF Flush, MainTypes, SequenceTypes, FlagTypes, SockStates
  <2> QED
    BY <2>1, <2>2
<1>3. CASE FlushStep
  <2>1. ReaderTypes'
    BY <1>0, <1>3 DEF FlushStep, ReaderTypes
  <2>2. MainTypes' /\ SequenceTypes' /\ FlagTypes' /\ sock' \in SockStates
    BY <1>0, <1>3 DEF FlushStep, MainTypes, SequenceTypes, FlagTypes, SockStates
  <2> QED
    BY <2>1, <2>2
<1>4. CASE ReaderCompose
  <2>1. ReaderTypes'
    BY <1>0, <1>4, MessageTypes DEF ReaderCompose, ReaderTypes
  <2>2. MainTypes' /\ SequenceTypes' /\ FlagTypes' /\ sock' \in SockStates
    BY <1>0, <1>4 DEF ReaderCompose, MainTypes, SequenceTypes, FlagTypes, SockStates
  <2> QED
    BY <2>1, <2>2
<1>5. CASE ReaderWrite
  <2>1. ReaderTypes'
    BY <1>0, <1>5, MessageTypes DEF ReaderWrite, ReaderTypes
  <2>2. SequenceTypes'
    <3>1. rmsg \in Messages /\ Len(pipe) < PipeCap
      BY <1>0, <1>5 DEF ReaderWrite, ReaderTypes
    <3> QED
      BY <1>0, <1>5, <3>1, AppendTypes DEF ReaderWrite, SequenceTypes
  <2>3. MainTypes' /\ FlagTypes' /\ sock' \in SockStates
    BY <1>0, <1>5 DEF ReaderWrite, MainTypes, FlagTypes, SockStates
  <2> QED
    BY <2>1, <2>2, <2>3
<1>6. CASE ReaderExit
  <2>1. ReaderTypes'
    BY <1>0, <1>6 DEF ReaderExit, ReaderTypes
  <2>2. MainTypes' /\ SequenceTypes' /\ FlagTypes' /\ sock' \in SockStates
    BY <1>0, <1>6 DEF ReaderExit, MainTypes, SequenceTypes, FlagTypes, SockStates
  <2> QED
    BY <2>1, <2>2
<1>7. CASE Accept
  <2>1. MainTypes'
    BY <1>0, <1>7 DEF Accept, MainTypes
  <2>2. SequenceTypes'
    BY <1>0, <1>7, NoneOfMessages DEF Accept, SequenceTypes
  <2>3. FlagTypes'
    BY <1>0, <1>7, Zenon DEF Accept, FlagTypes
  <2>4. sock' \in SockStates
    BY <1>0, <1>7 DEF Accept, SockStates
  <2>5. ReaderTypes'
    BY <1>0, <1>7 DEF Accept, ReaderTypes
  <2> QED
    BY <2>1, <2>2, <2>3, <2>4, <2>5
<1>8. CASE GreetCompose
  <2>1. MainTypes'
    BY <1>0, <1>8, MessageTypes DEF GreetCompose, MainTypes
  <2>2. ReaderTypes' /\ SequenceTypes' /\ FlagTypes' /\ sock' \in SockStates
    BY <1>0, <1>8 DEF GreetCompose, ReaderTypes, SequenceTypes, FlagTypes, SockStates
  <2> QED
    BY <2>1, <2>2
<1>9. CASE GreetWrite
  <2>1. MainTypes'
    BY <1>0, <1>9, MessageTypes DEF GreetWrite, MainTypes, Outer
  <2>2. SequenceTypes'
    <3>1. mmsg \in Messages /\ Len(pipe) < PipeCap
      BY <1>0, <1>9 DEF GreetWrite, MainTypes
    <3> QED
      BY <1>0, <1>9, <3>1, AppendTypes DEF GreetWrite, SequenceTypes
  <2>3. ReaderTypes' /\ FlagTypes' /\ sock' \in SockStates
    BY <1>0, <1>9 DEF GreetWrite, ReaderTypes, FlagTypes, SockStates
  <2> QED
    BY <2>1, <2>2, <2>3
<1>10. CASE EnterPoll
  <2>1. MainTypes'
    BY <1>0, <1>10 DEF EnterPoll, MainTypes
  <2>2. ReaderTypes' /\ SequenceTypes' /\ FlagTypes' /\ sock' \in SockStates
    BY <1>0, <1>10 DEF EnterPoll, ReaderTypes, SequenceTypes, FlagTypes, SockStates
  <2> QED
    BY <2>1, <2>2
<1>11. CASE PollWake
  <2>1. MainTypes'
    BY <1>0, <1>11 DEF PollWake, MainTypes
  <2>2. ReaderTypes' /\ SequenceTypes' /\ FlagTypes' /\ sock' \in SockStates
    BY <1>0, <1>11 DEF PollWake, ReaderTypes, SequenceTypes, FlagTypes, SockStates
  <2> QED
    BY <2>1, <2>2
<1>12. CASE PollTimeout
  <2>1. MainTypes'
    BY <1>0, <1>12 DEF PollTimeout, MainTypes
  <2>2. FlagTypes'
    BY <1>0, <1>12, Zenon DEF PollTimeout, FlagTypes
  <2>3. ReaderTypes' /\ SequenceTypes' /\ sock' \in SockStates
    BY <1>0, <1>12 DEF PollTimeout, ReaderTypes, SequenceTypes, SockStates
  <2> QED
    BY <2>1, <2>2, <2>3
<1>13. CASE PollReturns
  <2>1. MainTypes'
    BY <1>0, <1>13 DEF PollReturns, MainTypes
  <2>2. ReaderTypes' /\ SequenceTypes' /\ FlagTypes' /\ sock' \in SockStates
    BY <1>0, <1>13 DEF PollReturns, ReaderTypes, SequenceTypes, FlagTypes, SockStates
  <2> QED
    BY <2>1, <2>2
<1>14. CASE ReadPipe
  <2>1. MainTypes'
    BY <1>0, <1>14 DEF ReadPipe, MainTypes
  <2>2. SequenceTypes'
    BY <1>0, <1>14 DEF ReadPipe, SequenceTypes
  <2>3. ReaderTypes' /\ FlagTypes' /\ sock' \in SockStates
    BY <1>0, <1>14 DEF ReadPipe, ReaderTypes, FlagTypes, SockStates
  <2> QED
    BY <2>1, <2>2, <2>3
<1>15. CASE WriteSock
  <2>1. MainTypes'
    BY <1>0, <1>15 DEF WriteSock, MainTypes, Outer, AfterPipe
  <2>2. SequenceTypes'
    <3>1. heard \o buf \in Seq(Messages)
      BY <1>0, ConcatProperties DEF SequenceTypes
    <3> QED
      BY <1>0, <1>15, <3>1, NoneOfMessages DEF WriteSock, SequenceTypes
  <2>3. sock' \in SockStates
    BY <1>0, <1>15 DEF WriteSock, SockStates
  <2>4. ReaderTypes' /\ FlagTypes'
    BY <1>0, <1>15 DEF WriteSock, ReaderTypes, FlagTypes
  <2> QED
    BY <2>1, <2>2, <2>3, <2>4
<1>16. CASE ReadSock
  <2>1. MainTypes'
    BY <1>0, <1>16 DEF ReadSock, MainTypes
  <2>2. FlagTypes'
    BY <1>0, <1>16, Zenon DEF ReadSock, FlagTypes
  <2>3. sock' \in SockStates
    BY <1>0, <1>16 DEF ReadSock, SockStates
  <2>4. ReaderTypes' /\ SequenceTypes'
    BY <1>0, <1>16 DEF ReadSock, ReaderTypes, SequenceTypes
  <2> QED
    BY <2>1, <2>2, <2>3, <2>4
<1>17. CASE Close
  <2>1. MainTypes'
    BY <1>0, <1>17 DEF Close, MainTypes
  <2>2. SequenceTypes'
    BY <1>0, <1>17, NoneOfMessages DEF Close, SequenceTypes
  <2>3. FlagTypes'
    BY <1>0, <1>17, Zenon DEF Close, FlagTypes
  <2>4. sock' \in SockStates
    BY <1>0, <1>17 DEF Close, SockStates
  <2>5. ReaderTypes'
    BY <1>0, <1>17 DEF Close, ReaderTypes
  <2> QED
    BY <2>1, <2>2, <2>3, <2>4, <2>5
<1>18. CASE Term
  <2>1. MainTypes'
    BY <1>0, <1>18 DEF Term, MainTypes, Outer
  <2>2. SequenceTypes'
    BY <1>0, <1>18, NoneOfMessages DEF Term, SequenceTypes
  <2>3. FlagTypes'
    BY <1>0, <1>18, Zenon DEF Term, FlagTypes
  <2>4. sock' \in SockStates
    BY <1>0, <1>18 DEF Term, SockStates
  <2>5. ReaderTypes'
    BY <1>0, <1>18 DEF Term, ReaderTypes
  <2> QED
    BY <2>1, <2>2, <2>3, <2>4, <2>5
<1>19. CASE PeerConnect
  <2>1. FlagTypes'
    BY <1>0, <1>19, Zenon DEF PeerConnect, FlagTypes
  <2>2. ReaderTypes' /\ MainTypes' /\ SequenceTypes' /\ sock' \in SockStates
    BY <1>0, <1>19 DEF PeerConnect, ReaderTypes, MainTypes, SequenceTypes, SockStates
  <2> QED
    BY <2>1, <2>2
<1>20. CASE PeerStatus
  <2>1. FlagTypes'
    BY <1>0, <1>20, Zenon DEF PeerStatus, FlagTypes
  <2>2. ReaderTypes' /\ MainTypes' /\ SequenceTypes' /\ sock' \in SockStates
    BY <1>0, <1>20 DEF PeerStatus, ReaderTypes, MainTypes, SequenceTypes, SockStates
  <2> QED
    BY <2>1, <2>2
<1>21. CASE PeerGone
  <2>1. SequenceTypes'
    BY <1>0, <1>21, NoneOfMessages DEF PeerGone, SequenceTypes
  <2>2. sock' \in SockStates
    BY <1>0, <1>21 DEF PeerGone, SockStates
  <2>3. ReaderTypes' /\ MainTypes' /\ FlagTypes'
    BY <1>0, <1>21 DEF PeerGone, ReaderTypes, MainTypes, FlagTypes
  <2> QED
    BY <2>1, <2>2, <2>3
<1>22. CASE StatusAges
  <2>1. MainTypes'
    BY <1>0, <1>22 DEF StatusAges, MainTypes
  <2>2. ReaderTypes' /\ SequenceTypes' /\ FlagTypes' /\ sock' \in SockStates
    BY <1>0, <1>22 DEF StatusAges, ReaderTypes, SequenceTypes, FlagTypes, SockStates
  <2> QED
    BY <2>1, <2>2
<1>23. CASE Over \/ UNCHANGED vars
  <2>1. UNCHANGED vars
    BY <1>23 DEF Over
  <2>2. ReaderTypes' /\ MainTypes' /\ SequenceTypes' /\ sock' \in SockStates
    BY <1>0, <2>1 DEF vars, ReaderTypes, MainTypes, SequenceTypes
  <2>3. FlagTypes'
    BY <1>0, <2>1 DEF vars, FlagTypes
  <2> QED
    BY <2>2, <2>3
<1> QED
  BY <1>1, <1>2, <1>3, <1>4, <1>5, <1>6, <1>7, <1>8, <1>9, <1>10, <1>11, <1>12, <1>13, <1>14, <1>15, <1>16, <1>17, <1>18, <1>19, <1>20, <1>21, <1>22, <1>23, <1>b, <1>e
     DEF Next, Operator, Reader, Main, Time, Environment

-----------------------------------------------------------------------------
(* The reader thread and the main thread, each by itself. *)

LEMMA ReaderKeeps == TypeOK /\ ReaderInv /\ [Next]_vars => ReaderInv'
<1> SUFFICES ASSUME TypeOK, ReaderInv, [Next]_vars PROVE ReaderInv'
  OBVIOUS
<1>0. back \in {"poll", "flush"}
  BY DEF TypeOK
<1> USE DEF ReaderInv, Command, ReaderAt
<1>1. ASSUME NEW b \in Switches, NEW p \in BOOLEAN, ButtonEdge(b, p)
      PROVE  ReaderInv'
  BY <1>1 DEF ButtonEdge
<1>2. ASSUME NEW d \in Steps, EncoderEdge(d)
      PROVE  ReaderInv'
  BY <1>2 DEF EncoderEdge
<1>3. CASE DebounceExpires
  BY <1>3 DEF DebounceExpires
<1>4. CASE Flush
  BY <1>4 DEF Flush, FlushDue
<1>5. CASE FlushStep
  BY <1>5 DEF FlushStep
<1>6. CASE ReaderCompose
  BY <1>0, <1>6 DEF ReaderCompose, Message
<1>7. CASE ReaderWrite
  BY <1>0, <1>7 DEF ReaderWrite
<1>8. CASE ReaderExit
  BY <1>8 DEF ReaderExit
<1>9. CASE UNCHANGED readerVars
  BY <1>9 DEF readerVars
<1>10. Main \/ PollReturns \/ Term \/ StatusAges \/ Environment \/ Over
          => UNCHANGED readerVars
  BY DEF Main, Accept, GreetCompose, GreetWrite, EnterPoll, PollWake,
         PollTimeout, ReadPipe, WriteSock, ReadSock, Close, PollReturns, Term,
         StatusAges, Environment, PeerConnect, PeerStatus, PeerGone, Over, vars
<1> QED
  BY <1>1, <1>2, <1>3, <1>4, <1>5, <1>6, <1>7, <1>8, <1>9, <1>10
     DEF Next, Operator, Reader, Time, vars

LEMMA MainKeeps == MainInv /\ [Next]_vars => MainInv'
<1> SUFFICES ASSUME MainInv, [Next]_vars PROVE MainInv'
  OBVIOUS
<1> USE DEF MainInv, Greeted
<1>1. CASE Accept
  BY <1>1 DEF Accept
<1>2. CASE GreetCompose
  BY <1>2 DEF GreetCompose, Message
<1>3. CASE GreetWrite
  BY <1>3 DEF GreetWrite, Outer
<1>4. CASE EnterPoll \/ PollWake \/ PollTimeout \/ PollReturns
  BY <1>4 DEF EnterPoll, PollWake, PollTimeout, PollReturns
<1>5. CASE ReadPipe
  BY <1>5 DEF ReadPipe
<1>6. CASE WriteSock
  BY <1>6 DEF WriteSock, Outer, AfterPipe
<1>7. CASE ReadSock
  BY <1>7 DEF ReadSock
<1>8. CASE Close
  BY <1>8 DEF Close
<1>9. CASE Term
  BY <1>9 DEF Term, Outer
<1>10. CASE UNCHANGED <<mpc, mmsg, buf, connect_status>>
  BY <1>10
<1>11. (\E b \in Switches, p \in BOOLEAN : ButtonEdge(b, p))
         \/ (\E d \in Steps : EncoderEdge(d))
         \/ Reader \/ Time \/ Environment \/ Over
           => UNCHANGED <<mpc, mmsg, buf, connect_status>>
  BY DEF ButtonEdge, EncoderEdge, Reader, Flush, FlushStep, ReaderCompose,
         ReaderWrite, ReaderExit, Time, DebounceExpires, StatusAges,
         Environment, PeerConnect, PeerStatus, PeerGone, Over, vars, mainVars
<1> QED
  BY <1>1, <1>2, <1>3, <1>4, <1>5, <1>6, <1>7, <1>8, <1>9, <1>10, <1>11
     DEF Next, Operator, Main, vars, mainVars

-----------------------------------------------------------------------------
(* What the antenna is going to hear. *)

\* A message with the command c, or a greeting behind it, leaves c fresh.
LEMMA AppendFresh ==
  ASSUME NEW s \in Seq(Messages), NEW c, NEW m \in Messages,
         m.cmd = c \/ (Fresh(s, c) /\ m.by = "main")
  PROVE  Fresh(Append(s, m), c)
<1> DEFINE t == Append(s, m)
<1>1. /\ Len(t) = Len(s) + 1 /\ Len(s) \in Nat /\ t[Len(s) + 1] = m
      /\ \A i \in 1..Len(s) : t[i] = s[i]
      /\ DOMAIN t = 1..Len(t) /\ DOMAIN s = 1..Len(s)
  BY AppendProperties, LenProperties
<1> HIDE DEF t
<1>2. CASE m.cmd = c
  <2>1. Len(t) \in DOMAIN t /\ t[Len(t)].cmd = c
    BY <1>1, <1>2
  <2>2. \A j \in Len(t)+1..Len(t) : t[j].by = "main"
    BY <1>1
  <2> QED
    BY <2>1, <2>2 DEF Fresh, t
<1>3. CASE Fresh(s, c) /\ m.by = "main"
  <2>1. PICK i \in DOMAIN s : /\ s[i].cmd = c
                              /\ \A j \in i+1..Len(s) : s[j].by = "main"
    BY <1>3 DEF Fresh
  <2>2. i \in DOMAIN t /\ t[i].cmd = c
    BY <1>1, <2>1
  <2>3. ASSUME NEW j \in i+1..Len(t)
        PROVE  t[j].by = "main"
    <3>1. CASE j = Len(t)
      BY <1>1, <1>3, <3>1
    <3>2. CASE j # Len(t)
      <4>1. j \in i+1..Len(s) /\ j \in 1..Len(s)
        BY <1>1, <2>1, <3>2
      <4> QED
        BY <1>1, <2>1, <4>1
    <3> QED
      BY <3>1, <3>2
  <2> QED
    BY <2>2, <2>3 DEF Fresh, t
<1> QED
  BY <1>2, <1>3

\* What goes into the pipe goes to the end of the trail.
LEMMA TrailAppend ==
  ASSUME TypeOK, NEW m \in Messages
  PROVE  heard \o buf \o Append(pipe, m) = Append(Trail, m)
<1>1. /\ heard \o buf \in Seq(Messages) /\ pipe \in Seq(Messages)
      /\ <<m>> \in Seq(Messages)
  BY ConcatProperties DEF TypeOK
<1>2. Append(pipe, m) = pipe \o <<m>>
  BY <1>1, AppendIsConcat
<1>3. (heard \o buf) \o pipe \in Seq(Messages)
  BY <1>1, ConcatProperties
<1>4. Append((heard \o buf) \o pipe, m) = ((heard \o buf) \o pipe) \o <<m>>
  BY <1>3, AppendIsConcat
<1>5. ((heard \o buf) \o pipe) \o <<m>> = (heard \o buf) \o (pipe \o <<m>>)
  BY <1>1, ConcatAssociative
<1> QED
  BY <1>2, <1>4, <1>5 DEF Trail

LEMMA TrailType ==
  ASSUME TypeOK
  PROVE  Trail \in Seq(Messages)
  BY ConcatProperties DEF TypeOK, Trail

\* The main thread moves messages along the trail.
LEMMA TrailRead ==
  ASSUME TypeOK, MainInv, ReadPipe
  PROVE  Trail' = Trail
<1>1. PICK n \in 1..Len(pipe) : /\ buf' = SubSeq(pipe, 1, n)
                                /\ pipe' = SubSeq(pipe, n + 1, Len(pipe))
  BY DEF ReadPipe
<1>2. buf = <<>> /\ heard' = heard /\ pipe \in Seq(Messages)
      /\ heard \in Seq(Messages) /\ Len(pipe) \in Nat
  BY LenProperties DEF ReadPipe, MainInv, TypeOK, netVars
<1>3. SubSeq(pipe, 1, n) \o SubSeq(pipe, n + 1, Len(pipe)) = pipe
  <2>1. SubSeq(pipe, 1, n) \o SubSeq(pipe, n + 1, Len(pipe))
           = SubSeq(pipe, 1, Len(pipe))
    BY <1>2, ConcatAdjacentSubSeq
  <2> QED
    BY <1>2, <2>1, SubSeqFull
<1> DEFINE front == SubSeq(pipe, 1, n)
           rest == SubSeq(pipe, n + 1, Len(pipe))
<1>4. front \in Seq(Messages) /\ rest \in Seq(Messages)
  BY <1>1, <1>2, SubSeqProperties
<1> HIDE DEF front, rest
<1>5. (heard \o front) \o rest = heard \o (front \o rest)
  <2>1. heard \in Seq(Messages)
    BY <1>2
  <2> QED
    BY <2>1, <1>4, ConcatAssociative
<1>6. heard \o <<>> = heard
  BY <1>2, ConcatEmptySeq
<1> QED
  BY <1>1, <1>2, <1>3, <1>5, <1>6 DEF Trail, front, rest

LEMMA TrailWrite ==
  ASSUME TypeOK, WriteSock, sock' = "open"
  PROVE  Trail' = Trail /\ sock = "open"
<1>1. sock = "open" /\ heard' = heard \o buf /\ buf' = <<>> /\ pipe' = pipe
  BY DEF WriteSock
<1>2. heard \o buf \in Seq(Messages)
  BY ConcatProperties DEF TypeOK
<1>3. (heard \o buf) \o <<>> = heard \o buf
  BY <1>2, ConcatEmptySeq
<1> QED
  BY <1>1, <1>3 DEF Trail

LEMMA TrailKeeps == StationInv /\ [Next]_vars => TrailInv'
<1> SUFFICES ASSUME StationInv, [Next]_vars PROVE TrailInv'
  OBVIOUS
<1>0. TypeOK /\ ReaderInv /\ MainInv /\ TrailInv
  BY DEF StationInv
<1> USE DEF TrailInv, Greeted
<1>1. ASSUME NEW b \in Switches, NEW p \in BOOLEAN, ButtonEdge(b, p)
      PROVE  TrailInv'
  BY <1>0, <1>1 DEF ButtonEdge, Owed, ReaderInv
<1>2. ASSUME NEW d \in Steps, EncoderEdge(d)
      PROVE  TrailInv'
  BY <1>2 DEF EncoderEdge, Owed
<1>3. CASE Flush
  BY <1>3 DEF Flush, Owed
<1>4. CASE FlushStep
  BY <1>4 DEF FlushStep, Owed
<1>5. CASE ReaderCompose
  <2>1. CASE connect_status
    BY <1>5, <2>1 DEF ReaderCompose, Owed
  <2>2. CASE ~connect_status
    BY <1>0, <1>5, <2>2 DEF ReaderCompose, MainInv, mainVars
  <2> QED
    BY <2>1, <2>2
<1>6. CASE ReaderWrite
  <2>1. rmsg \in Messages /\ rmsg.cmd = Command /\ Trail \in Seq(Messages)
    BY <1>0, <1>6, TrailType DEF TypeOK, ReaderWrite, ReaderAt, ReaderInv
  <2>2. Trail' = Append(Trail, rmsg)
    BY <1>0, <1>6, <2>1, TrailAppend DEF ReaderWrite, Trail, mainVars, netVars
  <2>3. Fresh(Trail', Command)
    BY <2>1, <2>2, AppendFresh
  <2>4. Command' = Command
    BY <1>6 DEF ReaderWrite, Command
  <2> QED
    BY <2>3, <2>4
<1>7. CASE GreetWrite
  <2>1. /\ mmsg \in Messages /\ mmsg.by = "main" /\ mpc = "greetwrite"
        /\ Trail \in Seq(Messages)
    BY <1>0, <1>7, TrailType DEF TypeOK, GreetWrite, MainInv
  <2>2. Trail' = Append(Trail, mmsg)
    BY <1>0, <1>7, <2>1, TrailAppend DEF GreetWrite, Trail, netVars
  <2>3. Fresh(Trail, Command) \/ mmsg.cmd = Command => Fresh(Trail', Command)
    BY <2>1, <2>2, AppendFresh
  <2>4. Command' = Command /\ sock' = sock /\ (Owed' <=> Owed)
        /\ mpc' # "greetwrite"
    BY <1>7 DEF GreetWrite, Command, Owed, Outer, readerVars, netVars
  <2> QED
    BY <1>0, <2>1, <2>3, <2>4
<1>8. CASE GreetCompose
  BY <1>8 DEF GreetCompose, Message, Command, readerVars
<1>9. CASE ReadPipe
  <2>1. Trail' = Trail
    BY <1>0, <1>9, TrailRead
  <2> QED
    BY <1>0, <1>9, <2>1 DEF ReadPipe, Owed, Command, readerVars, netVars
<1>10. CASE WriteSock
  <2> SUFFICES ASSUME sock' = "open" PROVE TrailInv'
    OBVIOUS
  <2>1. Trail' = Trail /\ sock = "open"
    BY <1>0, <1>10, TrailWrite
  <2> QED
    BY <1>0, <1>10, <2>1 DEF WriteSock, AfterPipe, Owed, Command, readerVars
<1>11. CASE EnterPoll \/ PollWake \/ PollTimeout \/ PollReturns
  BY <1>0, <1>11 DEF EnterPoll, PollWake, PollTimeout, PollReturns, Trail, Owed,
                     Command, readerVars, netVars
<1>12. CASE ReadSock
  BY <1>0, <1>12 DEF ReadSock, Trail, Owed, Command, readerVars
<1>13. CASE Accept \/ Close \/ Term \/ PeerGone
  BY <1>13 DEF Accept, Close, Term, PeerGone, SockStates
<1>14. CASE UNCHANGED <<sock, heard, buf, pipe, mpc, mmsg, sw, sw_change,
                        counter, rpc>>
  BY <1>0, <1>14 DEF Trail, Owed, Command
<1>15. CASE ReaderExit
  BY <1>0, <1>15 DEF ReaderExit, ReaderAt, Trail, Owed, Command, mainVars,
                     netVars
<1> QED
  BY <1>1, <1>2, <1>3, <1>4, <1>5, <1>6, <1>7, <1>8, <1>9, <1>10, <1>11,
     <1>12, <1>13, <1>14, <1>15
     DEF Next, Operator, Reader, Main, Time, Environment, DebounceExpires,
         StatusAges, PeerConnect, PeerStatus, Over, vars, readerVars, mainVars,
         netVars

-----------------------------------------------------------------------------
(* The theorems. *)

LEMMA StationAlways == Spec => []StationInv
<1>1. Init => StationInv
  BY TypesInit DEF Init, StationInv, ReaderInv, MainInv, TrailInv, Greeted
<1>2. StationInv /\ [Next]_vars => StationInv'
  BY TypesKeep, ReaderKeeps, MainKeeps, TrailKeeps DEF StationInv
<1> QED
  BY <1>1, <1>2, PTL DEF Spec

\* The variables have their types, the pipe stays within its capacity, and the
\* main thread reads the socket only when poll has reported it (start_server).
THEOREM StationTypes == Spec => []TypeOK
<1>1. StationInv => TypeOK
  BY DEF StationInv
<1> QED
  BY <1>1, StationAlways, PTL

\* No edge is lost to the debounce, to a flush or to a reconnection: once the
\* reader is idle its state is in a message to the antenna, and no message but
\* the greeting of the main thread comes after it, for every number of edges
\* and every capacity of the pipe (button_callback, reader, send_message).
THEOREM GreetingStale == Spec => []OnlyGreetingStale
<1>1. StationInv => OnlyGreetingStale
  <2> SUFFICES ASSUME StationInv, Settled
               PROVE  Fresh(Trail, Command)
    BY DEF OnlyGreetingStale, Fresh
  <2> QED
    BY DEF StationInv, TrailInv, Settled, Owed
<1> QED
  BY <1>1, StationAlways, PTL
=============================================================================
