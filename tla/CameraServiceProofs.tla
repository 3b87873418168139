------------------------- MODULE CameraServiceProofs --------------------------
(***************************************************************************)
(* What the two camera programs promise for any number of starts and       *)
(* retries that may wait for their timers.                                 *)
(***************************************************************************)
EXTENDS CameraService, TLAPS

USE CameraAssumption, VideoAssumption

-----------------------------------------------------------------------------
(* The invariant. *)

\* One of the programs is installed; nothing is ever left of the other.
OneProgram == CxxAbsent \/ PyAbsent

\* Places from which the callback schedules a start of its own, or may.
Owing == {"restart", "stopping", "schedule", "teardown", "create", "assigned"}

\* Every start there may be has room: those that wait, the one of a pending
\* SIGUSR1, the one of the callback and the one of the handler that run.
StartsFit ==
    /\ starts + (IF "usr1" \in sig THEN 1 ELSE 0)
              + (IF py \in Owing THEN 1 ELSE 0)
              + (IF handling = "usr1" THEN 1 ELSE 0) <= MaxStarts
    /\ py = "off" => starts = 0 /\ handling = "none"

\* What holds at the places where a watchdog matters: the pipeline that is
\* about to play has the timer of timeout_id, and stop_and_restart has no
\* pipeline any more when it schedules the start.
Guarded ==
    /\ py \in {"off", "schedule"} => pipeline = "none"
    /\ py = "play" /\ pipeline # "none" => own
    /\ WatchdogGuards

\* start_pipeline creates a pipeline only when there is none.
NotTwice == cxx = "create" => ~is_running

CameraInv == /\ TypeOK /\ OneProgram /\ StartsFit /\ StopHolds /\ Guarded
             /\ NotTwice /\ RunningHasSource

-----------------------------------------------------------------------------
(* The program camera-stream.py. *)

PyFlags == booting \in BOOLEAN /\ own \in BOOLEAN /\ stopped \in BOOLEAN

PyPlaces == /\ py \in PyStates /\ pipeline \in {"none", "new", "playing"}
            /\ strays \in Nat /\ starts \in 0..MaxStarts
            /\ handling \in Signals \cup {"none"}
            /\ sig \subseteq Signals /\ asked \in {"start", "stop"}

LEMMA PyTypeParts == PyTypeOK /\ SignalTypeOK <=> PyFlags /\ PyPlaces
  BY DEF PyTypeOK, SignalTypeOK, PyFlags, PyPlaces

LEMMA PyFlagsKeep ==
  ASSUME PyFlags, PyNext
  PROVE  PyFlags'
<1> USE DEF PyFlags
<1>1. CASE Callbacks /\ PyBoot
  BY <1>1, Zenon DEF Callbacks, PyBoot, Ordered
<1>2. CASE Usr1
  BY <1>2, Zenon DEF Usr1, Interruptible, PyAlive, StartTaken, Teardown
<1>3. CASE Usr2
  BY <1>3, Zenon DEF Usr2, Interruptible, PyAlive, StopTaken, NoStartOwed, Teardown
<1>4. CASE Callbacks /\ WatchdogIdle
  BY <1>4, Zenon DEF Callbacks, WatchdogIdle, WatchdogEnds, WatchdogGone
<1>5. CASE Callbacks /\ Restart
  BY <1>5, Zenon DEF Callbacks, Restart
<1>6. CASE Callbacks /\ Stopping
  BY <1>6, Zenon DEF Callbacks, Stopping, Abort, PyEnds, Teardown
<1>7. CASE Callbacks /\ Schedule
  BY <1>7, Zenon DEF Callbacks, Schedule
<1>8. CASE Callbacks /\ StartFires
  BY <1>8, Zenon DEF Callbacks, StartFires, StartsLeft
<1>9. CASE Callbacks /\ StartTeardown
  BY <1>9, Zenon DEF Callbacks, StartTeardown, Abort, PyEnds, Teardown
<1>10. CASE Callbacks /\ Created
  BY <1>10, Zenon DEF Callbacks, Created, Create
<1>11. CASE Callbacks /\ Assigned
  BY <1>11, Zenon DEF Callbacks, Assigned
<1>12. CASE Callbacks /\ Setup
  BY <1>12, Zenon DEF Callbacks, Setup
<1>13. CASE Callbacks /\ Bus
  BY <1>13, Zenon DEF Callbacks, Bus, Abort, PyEnds
<1>14. CASE Callbacks /\ Watch
  BY <1>14, Zenon DEF Callbacks, Watch, WatchAdds
<1>15. CASE Callbacks /\ Play
  BY <1>15, Zenon DEF Callbacks, Play, Abort, PyEnds
<1>16. CASE PySignal
  BY <1>16, Zenon DEF PySignal, PyAlive, Room, Sent, Signals, pyVars
<1>17. CASE Callbacks /\ BusError
  BY <1>17, Zenon DEF Callbacks, BusError, Room
<1>18. CASE Callbacks /\ NoFrames
  BY <1>18, Zenon DEF Callbacks, NoFrames, WatchdogEnds, Room
<1>19. CASE Callbacks /\ CreateFails
  BY <1>19, Zenon DEF Callbacks, CreateFails, Create
<1>20. CASE HandlerEnds
  BY <1>20, Zenon DEF HandlerEnds, HandlerReturns, HandlerRaises, Abort, PyEnds,
     Teardown, NoStartOwed
<1> QED
  BY <1>1, <1>2, <1>3, <1>4, <1>5, <1>6, <1>7, <1>8, <1>9, <1>10, <1>11, <1>12, <1>13, <1>14, <1>15, <1>16, <1>17, <1>18, <1>19, <1>20
     DEF PyNext, PyStep, PyDisturbed

LEMMA PyPlacesKeep ==
  ASSUME PyPlaces, StartsFit, PyNext
  PROVE  PyPlaces'
<1> USE DEF PyPlaces, StartsFit, PyStates, Owing, Signals
<1>1. CASE Callbacks /\ PyBoot
  BY <1>1 DEF Callbacks, PyBoot, Ordered
<1>2. CASE Usr1
  BY <1>2 DEF Usr1, Interruptible, PyAlive, StartTaken, Teardown
<1>3. CASE Usr2
  BY <1>3 DEF Usr2, Interruptible, PyAlive, StopTaken, NoStartOwed, Teardown
<1>4. CASE Callbacks /\ WatchdogIdle
  BY <1>4 DEF Callbacks, WatchdogIdle, WatchdogEnds, WatchdogGone
<1>5. CASE Callbacks /\ Restart
  BY <1>5 DEF Callbacks, Restart
<1>6. CASE Callbacks /\ Stopping
  BY <1>6 DEF Callbacks, Stopping, Abort, PyEnds, Teardown
<1>7. CASE Callbacks /\ Schedule
  BY <1>7 DEF Callbacks, Schedule
<1>8. CASE Callbacks /\ StartFires
  BY <1>8 DEF Callbacks, StartFires, StartsLeft
<1>9. CASE Callbacks /\ StartTeardown
  BY <1>9 DEF Callbacks, StartTeardown, Abort, PyEnds, Teardown
<1>10. CASE Callbacks /\ Created
  BY <1>10 DEF Callbacks, Created, Create
<1>11. CASE Callbacks /\ Assigned
  BY <1>11 DEF Callbacks, Assigned
<1>12. CASE Callbacks /\ Setup
  BY <1>12 DEF Callbacks, Setup
<1>13. CASE Callbacks /\ Bus
  BY <1>13 DEF Callbacks, Bus, Abort, PyEnds
<1>14. CASE Callbacks /\ Watch
  BY <1>14 DEF Callbacks, Watch, WatchAdds
<1>15. CASE Callbacks /\ Play
  BY <1>15 DEF Callbacks, Play, Abort, PyEnds
<1>16. CASE PySignal
  BY <1>16 DEF PySignal, PyAlive, Room, Sent, Signals, pyVars
<1>17. CASE Callbacks /\ BusError
  BY <1>17 DEF Callbacks, BusError, Room
<1>18. CASE Callbacks /\ NoFrames
  BY <1>18 DEF Callbacks, NoFrames, WatchdogEnds, Room
<1>19. CASE Callbacks /\ CreateFails
  BY <1>19 DEF Callbacks, CreateFails, Create
<1>20. CASE HandlerEnds
  BY <1>20 DEF HandlerEnds, HandlerReturns, HandlerRaises, Abort, PyEnds,
     Teardown, NoStartOwed
<1> QED
  BY <1>1, <1>2, <1>3, <1>4, <1>5, <1>6, <1>7, <1>8, <1>9, <1>10, <1>11, <1>12, <1>13, <1>14, <1>15, <1>16, <1>17, <1>18, <1>19, <1>20
     DEF PyNext, PyStep, PyDisturbed

LEMMA PyStartsKeep ==
  ASSUME PyTypeOK, SignalTypeOK, StartsFit, PyNext
  PROVE  StartsFit'
<1> USE DEF PyTypeOK, SignalTypeOK, StartsFit, PyStates, Owing, Signals
<1>1. CASE Callbacks /\ PyBoot
  BY <1>1 DEF Callbacks, PyBoot, Ordered
<1>2. CASE Usr1
  BY <1>2 DEF Usr1, Interruptible, PyAlive, StartTaken, Teardown
<1>3. CASE Usr2
  BY <1>3 DEF Usr2, Interruptible, PyAlive, StopTaken, NoStartOwed, Teardown
<1>4. CASE Callbacks /\ WatchdogIdle
  BY <1>4 DEF Callbacks, WatchdogIdle, WatchdogEnds, WatchdogGone
<1>5. CASE Callbacks /\ Restart
  BY <1>5 DEF Callbacks, Restart
<1>6. CASE Callbacks /\ Stopping
  BY <1>6 DEF Callbacks, Stopping, Abort, PyEnds, Teardown
<1>7. CASE Callbacks /\ Schedule
  BY <1>7 DEF Callbacks, Schedule
<1>8. CASE Callbacks /\ StartFires
  BY <1>8 DEF Callbacks, StartFires, StartsLeft
<1>9. CASE Callbacks /\ StartTeardown
  BY <1>9 DEF Callbacks, StartTeardown, Abort, PyEnds, Teardown
<1>10. CASE Callbacks /\ Created
  BY <1>10 DEF Callbacks, Created, Create
<1>11. CASE Callbacks /\ Assigned
  BY <1>11 DEF Callbacks, Assigned
<1>12. CASE Callbacks /\ Setup
  BY <1>12 DEF Callbacks, Setup
<1>13. CASE Callbacks /\ Bus
  BY <1>13 DEF Callbacks, Bus, Abort, PyEnds
<1>14. CASE Callbacks /\ Watch
  BY <1>14 DEF Callbacks, Watch, WatchAdds
<1>15. CASE Callbacks /\ Play
  BY <1>15 DEF Callbacks, Play, Abort, PyEnds
<1>16. CASE PySignal
  BY <1>16 DEF PySignal, PyAlive, Room, Sent, Signals, pyVars
<1>17. CASE Callbacks /\ BusError
  BY <1>17 DEF Callbacks, BusError, Room
<1>18. CASE Callbacks /\ NoFrames
  BY <1>18 DEF Callbacks, NoFrames, WatchdogEnds, Room
<1>19. CASE Callbacks /\ CreateFails
  BY <1>19 DEF Callbacks, CreateFails, Create
<1>20. CASE HandlerEnds
  BY <1>20 DEF HandlerEnds, HandlerReturns, HandlerRaises, Abort, PyEnds,
     Teardown, NoStartOwed
<1> QED
  BY <1>1, <1>2, <1>3, <1>4, <1>5, <1>6, <1>7, <1>8, <1>9, <1>10, <1>11, <1>12, <1>13, <1>14, <1>15, <1>16, <1>17, <1>18, <1>19, <1>20
     DEF PyNext, PyStep, PyDisturbed

LEMMA PyStopKeeps ==
  ASSUME PyTypeOK, CxxAbsent, StopHolds, PyNext, UNCHANGED cxxVars
  PROVE  StopHolds'
<1> USE DEF CxxAbsent, CxxCleared, StopHolds, PyTypeOK, cxxVars
<1>1. CASE Callbacks /\ PyBoot
  BY <1>1 DEF Callbacks, PyBoot, Ordered
<1>2. CASE Usr1
  BY <1>2 DEF Usr1, Interruptible, PyAlive, StartTaken, Teardown
<1>3. CASE Usr2
  BY <1>3 DEF Usr2, Interruptible, PyAlive, StopTaken, NoStartOwed, Teardown
<1>4. CASE Callbacks /\ WatchdogIdle
  BY <1>4 DEF Callbacks, WatchdogIdle, WatchdogEnds, WatchdogGone
<1>5. CASE Callbacks /\ Restart
  BY <1>5 DEF Callbacks, Restart
<1>6. CASE Callbacks /\ Stopping
  BY <1>6 DEF Callbacks, Stopping, Abort, PyEnds, Teardown
<1>7. CASE Callbacks /\ Schedule
  BY <1>7 DEF Callbacks, Schedule
<1>8. CASE Callbacks /\ StartFires
  BY <1>8 DEF Callbacks, StartFires, StartsLeft
<1>9. CASE Callbacks /\ StartTeardown
  BY <1>9 DEF Callbacks, StartTeardown, Abort, PyEnds, Teardown
<1>10. CASE Callbacks /\ Created
  BY <1>10 DEF Callbacks, Created, Create
<1>11. CASE Callbacks /\ Assigned
  BY <1>11 DEF Callbacks, Assigned
<1>12. CASE Callbacks /\ Setup
  BY <1>12 DEF Callbacks, Setup
<1>13. CASE Callbacks /\ Bus
  BY <1>13 DEF Callbacks, Bus, Abort, PyEnds
<1>14. CASE Callbacks /\ Watch
  BY <1>14 DEF Callbacks, Watch, WatchAdds
<1>15. CASE Callbacks /\ Play
  BY <1>15 DEF Callbacks, Play, Abort, PyEnds
<1>16. CASE PySignal
  BY <1>16 DEF PySignal, PyAlive, Room, Sent, Signals, pyVars
<1>17. CASE Callbacks /\ BusError
  BY <1>17 DEF Callbacks, BusError, Room
<1>18. CASE Callbacks /\ NoFrames
  BY <1>18 DEF Callbacks, NoFrames, WatchdogEnds, Room
<1>19. CASE Callbacks /\ CreateFails
  BY <1>19 DEF Callbacks, CreateFails, Create
<1>20. CASE HandlerEnds
  BY <1>20 DEF HandlerEnds, HandlerReturns, HandlerRaises, Abort, PyEnds,
     Teardown, NoStartOwed
<1> QED
  BY <1>1, <1>2, <1>3, <1>4, <1>5, <1>6, <1>7, <1>8, <1>9, <1>10, <1>11, <1>12, <1>13, <1>14, <1>15, <1>16, <1>17, <1>18, <1>19, <1>20
     DEF PyNext, PyStep, PyDisturbed

LEMMA PyGuardKeeps ==
  ASSUME PyTypeOK, Guarded, PyNext
  PROVE  Guarded'
<1> USE DEF PyTypeOK, Guarded, WatchdogGuards
<1>1. CASE Callbacks /\ PyBoot
  BY <1>1 DEF Callbacks, PyBoot, Ordered
<1>2. CASE Usr1
  BY <1>2 DEF Usr1, Interruptible, PyAlive, StartTaken, Teardown
<1>3. CASE Usr2
  BY <1>3 DEF Usr2, Interruptible, PyAlive, StopTaken, NoStartOwed, Teardown
<1>4. CASE Callbacks /\ WatchdogIdle
  BY <1>4 DEF Callbacks, WatchdogIdle, WatchdogEnds, WatchdogGone
<1>5. CASE Callbacks /\ Restart
  BY <1>5 DEF Callbacks, Restart
<1>6. CASE Callbacks /\ Stopping
  BY <1>6 DEF Callbacks, Stopping, Abort, PyEnds, Teardown
<1>7. CASE Callbacks /\ Schedule
  BY <1>7 DEF Callbacks, Schedule
<1>8. CASE Callbacks /\ StartFires
  BY <1>8 DEF Callbacks, StartFires, StartsLeft
<1>9. CASE Callbacks /\ StartTeardown
  BY <1>9 DEF Callbacks, StartTeardown, Abort, PyEnds, Teardown
<1>10. CASE Callbacks /\ Created
  BY <1>10 DEF Callbacks, Created, Create
<1>11. CASE Callbacks /\ Assigned
  BY <1>11 DEF Callbacks, Assigned
<1>12. CASE Callbacks /\ Setup
  BY <1>12 DEF Callbacks, Setup
<1>13. CASE Callbacks /\ Bus
  BY <1>13 DEF Callbacks, Bus, Abort, PyEnds
<1>14. CASE Callbacks /\ Watch
  BY <1>14 DEF Callbacks, Watch, WatchAdds
<1>15. CASE Callbacks /\ Play
  BY <1>15 DEF Callbacks, Play, Abort, PyEnds
<1>16. CASE PySignal
  BY <1>16 DEF PySignal, PyAlive, Room, Sent, Signals, pyVars
<1>17. CASE Callbacks /\ BusError
  BY <1>17 DEF Callbacks, BusError, Room
<1>18. CASE Callbacks /\ NoFrames
  BY <1>18 DEF Callbacks, NoFrames, WatchdogEnds, Room
<1>19. CASE Callbacks /\ CreateFails
  BY <1>19 DEF Callbacks, CreateFails, Create
<1>20. CASE HandlerEnds
  BY <1>20 DEF HandlerEnds, HandlerReturns, HandlerRaises, Abort, PyEnds,
     Teardown, NoStartOwed
<1> QED
  BY <1>1, <1>2, <1>3, <1>4, <1>5, <1>6, <1>7, <1>8, <1>9, <1>10, <1>11, <1>12, <1>13, <1>14, <1>15, <1>16, <1>17, <1>18, <1>19, <1>20
     DEF PyNext, PyStep, PyDisturbed
-----------------------------------------------------------------------------
(* The program video-streamer. *)

CxxFlags == built \in BOOLEAN /\ is_running \in BOOLEAN /\ stopped \in BOOLEAN

CxxPlaces == /\ cxx \in CxxStates /\ src \in {"null", "live", "freed"}
             /\ retries \in 0..MaxRetries /\ reader \in ReaderStates
             /\ sig \subseteq Signals /\ asked \in {"start", "stop"}

LEMMA CxxTypeParts == CxxTypeOK /\ SignalTypeOK <=> CxxFlags /\ CxxPlaces
  BY DEF CxxTypeOK, SignalTypeOK, CxxFlags, CxxPlaces

LEMMA CxxFlagsKeep ==
  ASSUME CxxFlags, CxxNext
  PROVE  CxxFlags'
<1> USE DEF CxxFlags
<1>1. CASE CxxBoot
  BY <1>1, Zenon DEF CxxBoot, Ordered
<1>2. CASE KilledInWindow
  BY <1>2, Zenon DEF KilledInWindow, Dies
<1>3. CASE Attach
  BY <1>3, Zenon DEF Attach
<1>4. CASE StartPipeline
  BY <1>4, Zenon DEF StartPipeline, RunningGuard
<1>5. CASE CreatePipeline
  BY <1>5, Zenon DEF CreatePipeline, ReaderStarts
<1>6. CASE RetryFires
  BY <1>6, Zenon DEF RetryFires
<1>7. CASE SignalRestart
  BY <1>7, Zenon DEF SignalRestart, StartTaken, StopPipeline
<1>8. CASE SignalStop
  BY <1>8, Zenon DEF SignalStop, StopTaken, StopPipeline
<1>9. CASE CxxReaderStep
  BY <1>9, Zenon DEF CxxReaderStep, InitDevice, StartCapturing, ReadFrame, Push,
              ReaderGoes
<1>10. CASE PushFreed
  BY <1>10, Zenon DEF PushFreed, Dies
<1>11. CASE CxxSignal
  BY <1>11, Zenon DEF CxxSignal, CxxAlive, Sent, Signals, cxxVars
<1>12. CASE CreatePipelineFails
  BY <1>12, Zenon DEF CreatePipelineFails, ReaderStarts, RetryTimers
<1>13. CASE BusMessage
  BY <1>13, Zenon DEF BusMessage, StopPipeline
<1>14. CASE PollTimesOut
  BY <1>14, Zenon DEF PollTimesOut, ReaderGoes
<1>15. CASE DeviceFails
  BY <1>15, Zenon DEF DeviceFails, Dies
<1> QED
  BY <1>1, <1>2, <1>3, <1>4, <1>5, <1>6, <1>7, <1>8, <1>9, <1>10, <1>11, <1>12, <1>13, <1>14, <1>15
     DEF CxxNext, CxxMainStep, CxxDisturbed

LEMMA CxxPlacesKeep ==
  ASSUME CxxPlaces, CxxNext
  PROVE  CxxPlaces'
<1> USE DEF CxxPlaces, CxxStates, ReaderStates, Signals
<1>1. CASE CxxBoot
  BY <1>1 DEF CxxBoot, Ordered
<1>2. CASE KilledInWindow
  BY <1>2 DEF KilledInWindow, Dies
<1>3. CASE Attach
  BY <1>3 DEF Attach
<1>4. CASE StartPipeline
  BY <1>4 DEF StartPipeline, RunningGuard
<1>5. CASE CreatePipeline
  BY <1>5 DEF CreatePipeline, ReaderStarts
<1>6. CASE RetryFires
  BY <1>6 DEF RetryFires
<1>7. CASE SignalRestart
  BY <1>7 DEF SignalRestart, StartTaken, StopPipeline
<1>8. CASE SignalStop
  BY <1>8 DEF SignalStop, StopTaken, StopPipeline
<1>9. CASE CxxReaderStep
  BY <1>9 DEF CxxReaderStep, InitDevice, StartCapturing, ReadFrame, Push,
              ReaderGoes
<1>10. CASE PushFreed
  BY <1>10 DEF PushFreed, Dies
<1>11. CASE CxxSignal
  BY <1>11 DEF CxxSignal, CxxAlive, Sent, Signals, cxxVars
<1>12. CASE CreatePipelineFails
  BY <1>12 DEF CreatePipelineFails, ReaderStarts, RetryTimers
<1>13. CASE BusMessage
  BY <1>13 DEF BusMessage, StopPipeline
<1>14. CASE PollTimesOut
  BY <1>14 DEF PollTimesOut, ReaderGoes
<1>15. CASE DeviceFails
  BY <1>15 DEF DeviceFails, Dies
<1> QED
  BY <1>1, <1>2, <1>3, <1>4, <1>5, <1>6, <1>7, <1>8, <1>9, <1>10, <1>11, <1>12, <1>13, <1>14, <1>15
     DEF CxxNext, CxxMainStep, CxxDisturbed

LEMMA CxxStopKeeps ==
  ASSUME CxxTypeOK, PyAbsent, StopHolds, CxxNext, UNCHANGED pyVars
  PROVE  StopHolds'
<1> USE DEF PyAbsent, StopHolds, CxxTypeOK, pyVars
<1>1. CASE CxxBoot
  BY <1>1 DEF CxxBoot, Ordered
<1>2. CASE KilledInWindow
  BY <1>2 DEF KilledInWindow, Dies
<1>3. CASE Attach
  BY <1>3 DEF Attach
<1>4. CASE StartPipeline
  BY <1>4 DEF StartPipeline, RunningGuard
<1>5. CASE CreatePipeline
  BY <1>5 DEF CreatePipeline, ReaderStarts
<1>6. CASE RetryFires
  BY <1>6 DEF RetryFires
<1>7. CASE SignalRestart
  BY <1>7 DEF SignalRestart, StartTaken, StopPipeline
<1>8. CASE SignalStop
  BY <1>8 DEF SignalStop, StopTaken, StopPipeline
<1>9. CASE CxxReaderStep
  BY <1>9 DEF CxxReaderStep, InitDevice, StartCapturing, ReadFrame, Push,
              ReaderGoes
<1>10. CASE PushFreed
  BY <1>10 DEF PushFreed, Dies
<1>11. CASE CxxSignal
  BY <1>11 DEF CxxSignal, CxxAlive, Sent, Signals, cxxVars
<1>12. CASE CreatePipelineFails
  BY <1>12 DEF CreatePipelineFails, ReaderStarts, RetryTimers
<1>13. CASE BusMessage
  BY <1>13 DEF BusMessage, StopPipeline
<1>14. CASE PollTimesOut
  BY <1>14 DEF PollTimesOut, ReaderGoes
<1>15. CASE DeviceFails
  BY <1>15 DEF DeviceFails, Dies
<1> QED
  BY <1>1, <1>2, <1>3, <1>4, <1>5, <1>6, <1>7, <1>8, <1>9, <1>10, <1>11, <1>12, <1>13, <1>14, <1>15
     DEF CxxNext, CxxMainStep, CxxDisturbed

LEMMA CxxRunKeeps ==
  ASSUME CxxTypeOK, NotTwice, RunningHasSource, CxxNext
  PROVE  NotTwice' /\ RunningHasSource'
<1> USE DEF CxxTypeOK, NotTwice, RunningHasSource
<1>1. CASE CxxBoot
  BY <1>1 DEF CxxBoot, Ordered
<1>2. CASE KilledInWindow
  BY <1>2 DEF KilledInWindow, Dies
<1>3. CASE Attach
  BY <1>3 DEF Attach
<1>4. CASE StartPipeline
  BY <1>4 DEF StartPipeline, RunningGuard
<1>5. CASE CreatePipeline
  BY <1>5 DEF CreatePipeline, ReaderStarts
<1>6. CASE RetryFires
  BY <1>6 DEF RetryFires
<1>7. CASE SignalRestart
  BY <1>7 DEF SignalRestart, StartTaken, StopPipeline
<1>8. CASE SignalStop
  BY <1>8 DEF SignalStop, StopTaken, StopPipeline
<1>9. CASE CxxReaderStep
  BY <1>9 DEF CxxReaderStep, InitDevice, StartCapturing, ReadFrame, Push,
              ReaderGoes
<1>10. CASE PushFreed
  BY <1>10 DEF PushFreed, Dies
<1>11. CASE CxxSignal
  BY <1>11 DEF CxxSignal, CxxAlive, Sent, Signals, cxxVars
<1>12. CASE CreatePipelineFails
  BY <1>12 DEF CreatePipelineFails, ReaderStarts, RetryTimers
<1>13. CASE BusMessage
  BY <1>13 DEF BusMessage, StopPipeline
<1>14. CASE PollTimesOut
  BY <1>14 DEF PollTimesOut, ReaderGoes
<1>15. CASE DeviceFails
  BY <1>15 DEF DeviceFails, Dies
<1> QED
  BY <1>1, <1>2, <1>3, <1>4, <1>5, <1>6, <1>7, <1>8, <1>9, <1>10, <1>11, <1>12, <1>13, <1>14, <1>15
     DEF CxxNext, CxxMainStep, CxxDisturbed

-----------------------------------------------------------------------------
(* Both. *)

LEMMA PyKeeps ==
  ASSUME CameraInv, PyNext, UNCHANGED cxxVars
  PROVE  CameraInv'
<1>0. PyTypeOK /\ SignalTypeOK /\ CxxTypeOK
  BY DEF CameraInv, TypeOK
<1>1. CxxAbsent /\ CxxAbsent'
  <2>1. ~PyAbsent
    BY DEF PyAbsent, PyNext, PyStep, PyDisturbed, PyBoot, Usr1, Usr2, PyAlive,
           WatchdogIdle, Restart, Stopping, Schedule, StartFires, StartTeardown,
           Created, CreateFails, Create, Assigned, Setup, Bus, Watch, Play,
           PySignal, BusError, NoFrames, HandlerEnds, HandlerReturns,
           HandlerRaises, Abort, PyEnds, Interruptible
  <2> QED
    BY <2>1 DEF CameraInv, OneProgram, CxxAbsent, CxxCleared, cxxVars
<1>2. PyTypeOK' /\ SignalTypeOK'
  BY <1>0, PyTypeParts, PyFlagsKeep, PyPlacesKeep
     DEF CameraInv, PyFlags, PyPlaces, PyTypeOK, SignalTypeOK
<1>3. CxxTypeOK'
  BY <1>0 DEF CxxTypeOK, cxxVars
<1>4. StartsFit' /\ StopHolds' /\ Guarded'
  BY <1>0, <1>1, PyStartsKeep, PyStopKeeps, PyGuardKeeps DEF CameraInv
<1>5. NotTwice' /\ RunningHasSource'
  BY DEF CameraInv, NotTwice, RunningHasSource, cxxVars
<1> QED
  BY <1>1, <1>2, <1>3, <1>4, <1>5 DEF CameraInv, TypeOK, OneProgram

LEMMA CxxKeeps ==
  ASSUME CameraInv, CxxNext, UNCHANGED pyVars
  PROVE  CameraInv'
<1>0. PyTypeOK /\ SignalTypeOK /\ CxxTypeOK
  BY DEF CameraInv, TypeOK
<1>1. PyAbsent /\ PyAbsent'
  <2>1. ~CxxAbsent
    BY DEF CxxAbsent, CxxCleared, CxxNext, CxxMainStep, CxxReaderStep,
           CxxDisturbed, CxxBoot, KilledInWindow, Attach, StartPipeline,
           CreatePipeline, RetryFires, SignalRestart, SignalStop, InitDevice,
           StartCapturing, ReadFrame, Push, ReaderGoes, PushFreed, CxxSignal,
           CxxAlive, CreatePipelineFails, BusMessage, PollTimesOut, DeviceFails
  <2> QED
    BY <2>1 DEF CameraInv, OneProgram, PyAbsent, pyVars
<1>2. CxxTypeOK' /\ SignalTypeOK'
  BY <1>0, CxxTypeParts, CxxFlagsKeep, CxxPlacesKeep
     DEF CxxFlags, CxxPlaces, CxxTypeOK, SignalTypeOK
<1>3. PyTypeOK'
  BY <1>0 DEF PyTypeOK, pyVars
<1>4. StopHolds' /\ NotTwice' /\ RunningHasSource'
  BY <1>0, <1>1, CxxStopKeeps, CxxRunKeeps DEF CameraInv
<1>5. StartsFit' /\ Guarded'
  BY <1>1, <1>2 DEF PyAbsent, StartsFit, Owing, Guarded, WatchdogGuards
<1> QED
  BY <1>1, <1>2, <1>3, <1>4, <1>5 DEF CameraInv, TypeOK, OneProgram

LEMMA CameraInit == Init => CameraInv
<1> SUFFICES ASSUME Init PROVE CameraInv
  OBVIOUS
<1> USE DEF Init, PyInit, PyAbsent, CxxInit, CxxAbsent, CxxCleared
<1>1. TypeOK
  <2>1. PyFlags /\ CxxFlags
    BY Zenon DEF PyFlags, CxxFlags
  <2>2. PyPlaces /\ CxxPlaces
    BY DEF PyPlaces, PyStates, CxxPlaces, CxxStates, ReaderStates
  <2> QED
    BY <2>1, <2>2, PyTypeParts, CxxTypeParts DEF TypeOK
<1>2. OneProgram /\ StartsFit
  BY DEF OneProgram, StartsFit, Owing
<1>3. StopHolds /\ Guarded /\ NotTwice /\ RunningHasSource
  BY DEF StopHolds, Guarded, WatchdogGuards, NotTwice, RunningHasSource
<1> QED
  BY <1>1, <1>2, <1>3 DEF CameraInv

LEMMA CameraStutters == CameraInv /\ UNCHANGED vars => CameraInv'
<1> SUFFICES ASSUME CameraInv, UNCHANGED vars PROVE CameraInv'
  OBVIOUS
<1> USE DEF CameraInv, vars, pyVars, cxxVars
<1>1. TypeOK'
  BY DEF TypeOK, SignalTypeOK, PyTypeOK, CxxTypeOK
<1>2. OneProgram' /\ StartsFit'
  BY DEF OneProgram, PyAbsent, CxxAbsent, CxxCleared, StartsFit
<1>3. StopHolds' /\ Guarded' /\ NotTwice' /\ RunningHasSource'
  BY DEF StopHolds, Guarded, WatchdogGuards, NotTwice, RunningHasSource
<1> QED
  BY <1>1, <1>2, <1>3

LEMMA CameraAlways == Spec => []CameraInv
<1>1. CameraInv /\ [Next]_vars => CameraInv'
  BY PyKeeps, CxxKeeps, CameraStutters DEF Next
<1> QED
  BY CameraInit, <1>1, PTL DEF Spec

-----------------------------------------------------------------------------
(* The theorems. *)

\* The variables have their types: there is always room for the start of a
\* pending SIGUSR1, of a handler and of the callback that run (camera-stream.py,
\* video-streamer.cpp).
THEOREM CameraTypes == Spec => []TypeOK
<1>1. CameraInv => TypeOK
  BY DEF CameraInv
<1> QED
  BY <1>1, CameraAlways, PTL

\* Once SIGUSR2 has been handled with no start under way or owed, nothing
\* streams and nothing is going to, until SIGUSR1 or a restart of the process,
\* however many watchdogs are left over (check_pipeline_activity, bus_call,
\* signal_handler_usr2, stop_pipeline).
THEOREM StopAlwaysHolds == Spec => []StopHolds
<1>1. CameraInv => StopHolds
  BY DEF CameraInv
<1> QED
  BY <1>1, CameraAlways, PTL

\* While the loop is idle, a pipeline that plays has a watchdog, however many
\* times timeout_id was overwritten (_setup_pipeline, _teardown_pipeline).
THEOREM AlwaysGuarded == Spec => []WatchdogGuards
<1>1. CameraInv => WatchdogGuards
  BY DEF CameraInv, Guarded
<1> QED
  BY <1>1, CameraAlways, PTL

\* is_running says that there is a pipeline, and then there is a source to
\* push into (start_pipeline, stop_pipeline, process_image).
THEOREM SourceAlways == Spec => []RunningHasSource
<1>1. CameraInv => RunningHasSource
  BY DEF CameraInv
<1> QED
  BY <1>1, CameraAlways, PTL
=============================================================================
