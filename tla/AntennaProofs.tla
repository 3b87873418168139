---------------------------- MODULE AntennaProofs ----------------------------
(***************************************************************************)
(* Theorems about Antenna, for every choice of its constants.              *)
(*                                                                         *)
(* No property is inductive as it stands.  Each strengthening says what     *)
(* holds at the places where the handler may interrupt: RangeInv, where    *)
(* current_pwm may be out of range; PowerInv, what a power line that       *)
(* differs from the switch is waiting for; PendingInv, what a position     *)
(* that is not in the file is waiting for.                                 *)
(***************************************************************************)
EXTENDS Antenna, TLAPS

USE PwmAssumption DEF Duty, IntRange

\* current_pwm leaves its range only until ClampPwm, and only in a real move.
CurrentInRange == (pc # "clamp" \/ delta = 0) => current_pwm \in Duty

RangeInv == TypeOK /\ CurrentInRange /\ HwInRange

-----------------------------------------------------------------------------
(* Lemmas about the operators. *)

\* The centre is a duty cycle.
LEMMA CenterInDuty == PwmCenter \in Duty /\ PwmCenter \in Int
  BY DEF PwmCenter

\* Whatever the ini file holds, the restored position is a duty cycle.
LEMMA RestoredInDuty ==
  ASSUME NEW file
  PROVE  /\ RestoredPwm(file) \in Duty
         /\ RestoredStored(file) \in Int
  BY CenterInDuty DEF RestoredPwm, RestoredStored

\* Clamping brings every int in range
LEMMA ClampInDuty == ASSUME NEW x \in Int PROVE Clamp(x) \in Duty
  BY DEF Clamp

\* C arithmetic yields an int, and changes no value that is in range.
LEMMA WrapInt == ASSUME NEW x \in Int
                 PROVE  Wrap(x) \in Int /\ (x \in Duty => Wrap(x) = x)
<1> DEFINE m == 2 * (IntMax + 1)
<1>1. m \in Nat \ {0}
  OBVIOUS
<1>2. (x + IntMax + 1) % m \in Int
  BY <1>1
<1> QED
  BY <1>2 DEF Wrap

-----------------------------------------------------------------------------
(* Type correctness and the range of the servo. *)

\* A program that has just started satisfies the invariant.
LEMMA RangeInit == Init => RangeInv
<1> SUFFICES ASSUME Init PROVE RangeInv
  OBVIOUS
<1> USE DEF Init
<1>1. ControlOK
  BY DEF ControlOK, Labels
<1>2. FlagsOK
  BY Zenon DEF FlagsOK
<1>3. BitsOK
  BY DEF BitsOK
<1>4. NumbersOK
  BY CenterInDuty DEF NumbersOK, ServoOff
<1>5. CountsOK
  BY TimerAssumption DEF CountsOK
<1>6. CurrentInRange /\ HwInRange
  BY CenterInDuty DEF CurrentInRange, HwInRange
<1> QED
  BY <1>1, <1>2, <1>3, <1>4, <1>5, <1>6 DEF RangeInv, TypeOK

\* The position of a command is an int, and so is that of no command.
LEMMA CommandFields ==
  ASSUME NEW c \in Commands \cup {NoCommand}
  PROVE  c.position \in Int /\ c.on \in BOOLEAN /\ c.fast \in BOOLEAN
<1>1. \A p \in Positions : p \in Int
  BY PositionAssumption
<1>2. CASE c \in Commands
  BY <1>1, <1>2 DEF Commands
<1>3. CASE c = NoCommand
  BY <1>3 DEF NoCommand
<1> QED
  BY <1>2, <1>3

\* A move keeps the types: its delta and its target are ints.
LEMMA MoveTypes ==
  ASSUME RangeInv, NEW c \in Commands
  PROVE  /\ Wrap(c.position - last_position) \in Int
         /\ \A d \in Int :
               /\ Wrap(current_pwm + d * Increment(c)) \in Int
               /\ (d = 0 /\ current_pwm \in Duty)
                     => Wrap(current_pwm + d * Increment(c)) \in Duty
<1>1. c.position \in Int /\ c.fast \in BOOLEAN
  BY CommandFields
<1>2. last_position \in Int /\ current_pwm \in Int
  BY DEF RangeInv, TypeOK, NumbersOK
<1>3. Increment(c) \in Int
  BY <1>1, TickAssumption DEF Increment
<1>4. Wrap(c.position - last_position) \in Int
  BY <1>1, <1>2, WrapInt
<1>5. ASSUME NEW d \in Int
      PROVE  /\ Wrap(current_pwm + d * Increment(c)) \in Int
             /\ (d = 0 /\ current_pwm \in Duty)
                  => Wrap(current_pwm + d * Increment(c)) \in Duty
  <2> DEFINE e == d * Increment(c)
  <2>1. e \in Int /\ (d = 0 => e = 0)
    BY <1>3
  <2> HIDE DEF e
  <2>2. current_pwm + e \in Int
    BY <1>2, <2>1
  <2>3. Wrap(current_pwm + e) \in Int
    BY <2>2, WrapInt
  <2>4. ASSUME d = 0, current_pwm \in Duty PROVE Wrap(current_pwm + e) \in Duty
    BY <1>2, <2>1, <2>4, WrapInt
  <2> QED
    BY <2>3, <2>4 DEF e
<1> QED
  BY <1>4, <1>5

\* No step of the program or of its handler breaks it, nor does a crash.
LEMMA RangeStep == RangeInv /\ [Next]_vars => RangeInv'
<1> SUFFICES ASSUME RangeInv, [Next]_vars PROVE RangeInv'
  OBVIOUS
<1> USE DEF RangeInv, TypeOK
<1>flags. UNCHANGED <<first, sw_status, timer, line>> => FlagsOK'
  BY Zenon DEF FlagsOK
<1>bits. UNCHANGED <<tmp, power_status, camera>> => BitsOK'
  BY DEF BitsOK
<1>numbers. UNCHANGED <<last_position, current_pwm, stored_pwm, hw, nv>>
               => NumbersOK'
  BY DEF NumbersOK
<1>counts. UNCHANGED <<angle_cnt, power_cnt>> => CountsOK'
  BY DEF CountsOK
<1>range. (pc # "clamp" \/ UNCHANGED <<pc, delta>>) /\ UNCHANGED <<current_pwm, hw>>
               => CurrentInRange' /\ HwInRange'
  BY DEF CurrentInRange, HwInRange
<1>1. CASE Boot
  <2> USE <1>1 DEF Boot, At, handlerVars, moveVars
  <2>11. ControlOK'
    BY DEF ControlOK, Labels
  <2>12. FlagsOK'
    BY Zenon DEF FlagsOK
  <2>13. BitsOK'
    BY DEF BitsOK, Bits
  <2>14. NumbersOK'
    BY RestoredInDuty DEF NumbersOK
  <2>16. CurrentInRange' /\ HwInRange'
    BY RestoredInDuty DEF CurrentInRange, HwInRange
  <2> QED
    BY <2>11, <2>12, <2>13, <2>14, <2>16, <1>counts
<1>2. ASSUME NEW c \in Commands, FirstCommand(c) PROVE RangeInv'
  <2> USE <1>2 DEF FirstCommand, At, SetPwm, SetTimerPwm, nvVars, powerVars
  <2>1. delta' \in Int
    BY MoveTypes
  <2>2. current_pwm \in Duty
    BY DEF CurrentInRange
  <2>11. ControlOK'
    BY <2>1 DEF ControlOK, Labels
  <2>12. FlagsOK'
    BY CommandFields, Zenon DEF FlagsOK
  <2>14. NumbersOK'
    BY CommandFields DEF NumbersOK
  <2>15. CountsOK'
    BY TimerAssumption DEF CountsOK
  <2>16. CurrentInRange' /\ HwInRange'
    BY <2>2 DEF CurrentInRange, HwInRange
  <2> QED
    BY <2>11, <2>12, <2>14, <2>15, <2>16, <1>bits
<1>3. ASSUME NEW c \in Commands, MoveCommand(c) PROVE RangeInv'
  <2> USE <1>3 DEF MoveCommand, At, handlerVars, nvVars, powerVars
  <2>1. delta' \in Int
    BY MoveTypes
  <2>2. current_pwm \in Duty
    BY DEF CurrentInRange
  <2>3. current_pwm' \in Int /\ (delta' = 0 => current_pwm' \in Duty)
    BY <2>1, <2>2, MoveTypes
  <2>11. ControlOK'
    BY <2>1 DEF ControlOK, Labels
  <2>14. NumbersOK'
    BY <2>3 DEF NumbersOK
  <2>16. CurrentInRange' /\ HwInRange'
    BY <2>3 DEF CurrentInRange, HwInRange
  <2> QED
    BY <2>11, <2>14, <2>16, <1>flags, <1>bits, <1>counts
<1>4. CASE ClampPwm
  <2> USE <1>4 DEF ClampPwm, At, handlerVars, moveVars, nvVars, powerVars
  <2>11. ControlOK'
    BY DEF ControlOK, Labels
  <2>14. NumbersOK'
    BY ClampInDuty DEF NumbersOK
  <2>16. CurrentInRange' /\ HwInRange'
    BY ClampInDuty DEF CurrentInRange, HwInRange, NumbersOK
  <2> QED
    BY <2>11, <2>14, <2>16, <1>flags, <1>bits, <1>counts
<1>5. CASE MoveServo
  <2> USE <1>5 DEF MoveServo, At, SetPwm, SetTimerPwm, moveVars, nvVars, powerVars
  <2>11. ControlOK'
    BY DEF ControlOK, Labels
  <2>12. FlagsOK'
    BY Zenon DEF FlagsOK
  <2>14. NumbersOK'
    BY DEF NumbersOK
  <2>15. CountsOK'
    BY TimerAssumption DEF CountsOK
  <2>16. CurrentInRange' /\ HwInRange'
    BY DEF CurrentInRange, HwInRange
  <2> QED
    BY <2>11, <2>12, <2>14, <2>15, <2>16, <1>bits
<1>6. CASE Toggle
  <2> USE <1>6 DEF Toggle, At, handlerVars, nvVars, powerVars
  <2>11. ControlOK'
    BY DEF ControlOK, Labels
  <2>12. FlagsOK'
    BY CommandFields, Zenon DEF FlagsOK, ControlOK
  <2>14. NumbersOK'
    BY CommandFields DEF NumbersOK, ControlOK
  <2>16. CurrentInRange' /\ HwInRange'
    BY DEF CurrentInRange, HwInRange
  <2> QED
    BY <2>11, <2>12, <2>14, <2>16, <1>bits, <1>counts
<1>7. CASE SwitchOn
  <2> USE <1>7 DEF SwitchOn, At, handlerVars, moveVars, nvVars
  <2>11. ControlOK'
    BY DEF ControlOK, Labels
  <2>12. FlagsOK'
    BY Zenon DEF FlagsOK
  <2>13. BitsOK'
    BY DEF BitsOK, Bits
  <2> QED
    BY <2>11, <2>12, <2>13, <1>numbers, <1>counts, <1>range
<1>8. CASE PowerStore
  <2> USE <1>8 DEF PowerStore, At, SetBit, KillCamera, CameraSignal,
             handlerVars, moveVars, nvVars
  <2>11. ControlOK'
    BY DEF ControlOK, Labels
  <2>13. BitsOK'
    BY DEF BitsOK, Bits
  <2> QED
    BY <2>11, <2>13, <1>flags, <1>numbers, <1>counts, <1>range
<1>9. CASE LowPowerBitStore
  <2> USE <1>9 DEF LowPowerBitStore, At, handlerVars, moveVars, nvVars
  <2>11. ControlOK'
    BY DEF ControlOK, Labels
  <2>13. BitsOK'
    BY DEF BitsOK, Bits
  <2> QED
    BY <2>11, <2>13, <1>flags, <1>numbers, <1>counts, <1>range
<1>10. CASE SwitchOff
  <2> USE <1>10 DEF SwitchOff, At, SetTimerPower, moveVars, nvVars, powerVars
  <2>11. ControlOK'
    BY DEF ControlOK, Labels
  <2>12. FlagsOK'
    BY Zenon DEF FlagsOK
  <2>15. CountsOK'
    BY DEF CountsOK
  <2> QED
    BY <2>11, <2>12, <2>15, <1>bits, <1>numbers, <1>range
<1>11. CASE PollTimeout
  <2> USE <1>11 DEF PollTimeout, At, handlerVars, moveVars, nvVars, powerVars
  <2>11. ControlOK'
    BY DEF ControlOK, Labels
  <2> QED
    BY <2>11, <1>flags, <1>bits, <1>numbers, <1>counts, <1>range
<1>12. CASE LowPowerEvent
  <2> USE <1>12 DEF LowPowerEvent, At, handlerVars, moveVars, nvVars, powerVars
  <2>11. ControlOK'
    BY DEF ControlOK, Labels
  <2> QED
    BY <2>11, <1>flags, <1>bits, <1>numbers, <1>counts, <1>range
<1>13. CASE SendStatus
  <2> USE <1>13 DEF SendStatus, At, handlerVars, moveVars, nvVars, powerVars
  <2>11. ControlOK'
    BY DEF ControlOK, Labels
  <2> QED
    BY <2>11, <1>flags, <1>bits, <1>numbers, <1>counts, <1>range
<1>14. CASE LowPowerLoad
  <2> USE <1>14 DEF LowPowerLoad, At, handlerVars, moveVars, nvVars, powerVars
  <2>11. ControlOK'
    BY DEF ControlOK, Labels
  <2>13. BitsOK'
    BY DEF BitsOK, Bits
  <2> QED
    BY <2>11, <2>13, <1>flags, <1>numbers, <1>counts, <1>range
<1>15. CASE LowPowerStore
  <2> USE <1>15 DEF LowPowerStore, At, handlerVars, moveVars, nvVars
  <2>11. ControlOK'
    BY DEF ControlOK, Labels
  <2>13. BitsOK'
    BY DEF BitsOK, Bits
  <2> QED
    BY <2>11, <2>13, <1>flags, <1>numbers, <1>counts, <1>range
<1>16. CASE StatusWritten
  <2> USE <1>16 DEF StatusWritten, At, handlerVars, moveVars, nvVars, powerVars
  <2>11. ControlOK'
    BY DEF ControlOK, Labels
  <2> QED
    BY <2>11, <1>flags, <1>bits, <1>numbers, <1>counts, <1>range
<1>17. CASE SigAlrm
  <2> USE <1>17 DEF SigAlrm, Rearm, moveVars, nvVars, powerVars
  <2>1. (angle_cnt' > 0) \in BOOLEAN
    BY SMT DEF CountsOK
  <2>11. ControlOK'
    BY DEF ControlOK, Labels
  <2>12. FlagsOK'
    BY <2>1, Zenon DEF FlagsOK
  <2>15. CountsOK'
    BY TimerAssumption DEF CountsOK
  <2> QED
    BY <2>11, <2>12, <2>15, <1>bits, <1>numbers, <1>range
<1>18. CASE NvOpen
  <2> USE <1>18 DEF NvOpen, moveVars, powerVars
  <2>11. ControlOK'
    BY DEF ControlOK, Labels
  <2>14. NumbersOK'
    BY DEF NumbersOK
  <2> QED
    BY <2>11, <2>14, <1>flags, <1>bits, <1>counts, <1>range
<1>19. CASE NvWrite
  <2> USE <1>19 DEF NvWrite, moveVars, powerVars
  <2>11. ControlOK'
    BY DEF ControlOK, Labels
  <2>14. NumbersOK'
    BY DEF NumbersOK
  <2> QED
    BY <2>11, <2>14, <1>flags, <1>bits, <1>counts, <1>range
<1>20. CASE HandlerPower
  <2> USE <1>20 DEF HandlerPower, SetBit, KillCamera, CameraSignal,
              moveVars, nvVars, powerVars
  <2>11. ControlOK'
    BY DEF ControlOK, Labels
  <2>12. FlagsOK'
    BY Zenon DEF FlagsOK
  <2>13. BitsOK'
    BY DEF BitsOK, Bits
  <2>15. CountsOK'
    BY DEF CountsOK
  <2> QED
    BY <2>11, <2>12, <2>13, <2>15, <1>numbers, <1>range
<1>21. CASE Crash
  <2> USE <1>21 DEF Crash
  <2>11. ControlOK'
    BY DEF ControlOK, Labels
  <2>12. FlagsOK'
    BY Zenon DEF FlagsOK
  <2>13. BitsOK'
    BY DEF BitsOK, Bits
  <2>14. NumbersOK'
    BY CenterInDuty DEF NumbersOK
  <2>15. CountsOK'
    BY TimerAssumption DEF CountsOK
  <2>16. CurrentInRange' /\ HwInRange'
    BY CenterInDuty DEF CurrentInRange, HwInRange
  <2> QED
    BY <2>11, <2>12, <2>13, <2>14, <2>15, <2>16
<1>22. CASE UNCHANGED vars
  BY <1>22
  DEF vars, ControlOK, FlagsOK, BitsOK, NumbersOK, CountsOK, CurrentInRange,
      HwInRange, handlerVars, moveVars, nvVars, powerVars
<1> QED
  BY <1>1, <1>2, <1>3, <1>4, <1>5, <1>6, <1>7, <1>8, <1>9, <1>10, <1>11,
     <1>12, <1>13, <1>14, <1>15, <1>16, <1>17, <1>18, <1>19, <1>20, <1>21, <1>22
  DEF Next, Receive, Step, Handler

\* The strengthened invariant holds in every run.
LEMMA RangeInvariant == Spec => []RangeInv
  BY RangeInit, RangeStep, PTL DEF Spec

\* Every variable keeps its type, in every run and for every constant.
THEOREM TypeCorrect == Spec => []TypeOK
<1>1. RangeInv => TypeOK
  BY DEF RangeInv
<1> QED
  BY <1>1, RangeInvariant, PTL

\* The servo is never driven beyond its limits, for every position a station
\* may send, every width of the int and every content of the ini file.
THEOREM ServoInRange == Spec => []HwInRange
<1>1. RangeInv => HwInRange
  BY DEF RangeInv
<1> QED
  BY <1>1, RangeInvariant, PTL
-----------------------------------------------------------------------------
(* The power line. *)

\* A line that differs from the switch is counted, a count is timed, and the
\* camera is signalled from the main program only with the line on.
PowerInv ==
    /\ (pc \notin {"boot", "switch"} /\ line # sw_status) => power_cnt = 1
    /\ (hpc = "none" /\ power_cnt = 1) => timer
    /\ pc = "boot" => sw_status = FALSE
    /\ pc = "power" => line = TRUE /\ sw_status = TRUE

\* No step leaves the line behind without a count, or a count without a timer.
LEMMA PowerStep == RangeInv /\ PowerInv /\ [Next]_vars => PowerInv'
<1> SUFFICES ASSUME RangeInv, PowerInv, [Next]_vars PROVE PowerInv'
  OBVIOUS
<1> USE DEF PowerInv, RangeInv, TypeOK, FlagsOK, ControlOK, CountsOK,
            handlerVars, moveVars, nvVars, powerVars
<1>1. CASE Boot
  BY <1>1 DEF Boot, At
<1>2. ASSUME NEW c \in Commands, FirstCommand(c) PROVE PowerInv'
  BY <1>2 DEF FirstCommand, At, SetPwm, SetTimerPwm
<1>3. ASSUME NEW c \in Commands, MoveCommand(c) PROVE PowerInv'
  BY <1>3 DEF MoveCommand, At
<1>4. CASE ClampPwm
  BY <1>4 DEF ClampPwm, At
<1>5. CASE MoveServo
  BY <1>5 DEF MoveServo, At, SetPwm, SetTimerPwm
<1>6. CASE Toggle
  BY <1>6 DEF Toggle, At
<1>7. CASE SwitchOn
  BY <1>7 DEF SwitchOn, At
<1>8. CASE PowerStore
  BY <1>8 DEF PowerStore, At
<1>9. CASE LowPowerBitStore
  BY <1>9 DEF LowPowerBitStore, At
<1>10. CASE SwitchOff
  BY <1>10 DEF SwitchOff, At, SetTimerPower
<1>11. CASE PollTimeout
  BY <1>11 DEF PollTimeout, At
<1>12. CASE LowPowerEvent
  BY <1>12 DEF LowPowerEvent, At
<1>13. CASE SendStatus
  BY <1>13 DEF SendStatus, At
<1>14. CASE LowPowerLoad
  BY <1>14 DEF LowPowerLoad, At
<1>15. CASE LowPowerStore
  BY <1>15 DEF LowPowerStore, At
<1>16. CASE StatusWritten
  BY <1>16 DEF StatusWritten, At
<1>17. CASE SigAlrm
  BY <1>17 DEF SigAlrm, At, Rearm
<1>18. CASE NvOpen
  BY <1>18 DEF NvOpen, At
<1>19. CASE NvWrite
  BY <1>19 DEF NvWrite, At
<1>20. CASE HandlerPower
  BY <1>20 DEF HandlerPower, At
<1>21. CASE Crash
  BY <1>21 DEF Crash, At
<1>22. CASE UNCHANGED vars
  BY <1>22 DEF vars
<1> QED
  BY <1>1, <1>2, <1>3, <1>4, <1>5, <1>6, <1>7, <1>8, <1>9, <1>10, <1>11,
     <1>12, <1>13, <1>14, <1>15, <1>16, <1>17, <1>18, <1>19, <1>20, <1>21, <1>22
  DEF Next, Receive, Step, Handler

\* The strengthened invariant holds in every run.
LEMMA PowerInvariant == Spec => []PowerInv
<1>1. Init => PowerInv
  BY DEF Init, PowerInv
<1> QED
  BY <1>1, PowerStep, RangeInvariant, PTL DEF Spec

\* The delayed switch-off is never lost: a line that differs from the switch
\* is counted and the shared timer is armed, however commands and the handler
\* interleave.
THEOREM SwitchOffPending == Spec => []SwitchPending
<1>1. PowerInv => SwitchPending
  BY DEF PowerInv, SwitchPending
<1> QED
  BY <1>1, PowerInvariant, PTL
\* camera-stream is told to run only with its power on, to stop only with it
\* off, from the main program and from the handler alike.
LEMMA CameraStep ==
  RangeInv /\ PowerInv /\ [Next]_vars
      => (camera' # camera => ((camera' = "SIGUSR1") <=> line'))
<1> SUFFICES ASSUME RangeInv, PowerInv, [Next]_vars, camera' # camera
             PROVE  (camera' = "SIGUSR1") <=> line'
  OBVIOUS
<1> USE DEF handlerVars, moveVars, nvVars, powerVars
<1>1. CASE PowerStore
  <2>1. line' = TRUE
    BY <1>1 DEF PowerStore, At, PowerInv
  <2>2. camera' = "SIGUSR1"
    BY <1>1 DEF PowerStore, KillCamera, CameraSignal, SetBit
  <2> QED
    BY <2>1, <2>2
<1>2. CASE HandlerPower
  <2>1. line' = sw_status /\ sw_status \in BOOLEAN
    BY <1>2, Zenon DEF HandlerPower, RangeInv, TypeOK, FlagsOK
  <2>2. camera' = IF sw_status THEN "SIGUSR1" ELSE "SIGUSR2"
    BY <1>2 DEF HandlerPower, KillCamera, CameraSignal, SetBit
  <2> QED
    BY <2>1, <2>2
<1>3. CASE UNCHANGED vars
  BY <1>3 DEF vars
<1> QED
  BY <1>1, <1>2, <1>3
  DEF Next, Receive, Step, Handler, Boot, FirstCommand, MoveCommand, ClampPwm,
      MoveServo, Toggle, SwitchOn, LowPowerBitStore, SwitchOff, PollTimeout,
      LowPowerEvent, SendStatus, LowPowerLoad, LowPowerStore, StatusWritten,
      SigAlrm, NvOpen, NvWrite, Crash

\* The signal sent to camera-stream agrees with the power line at every step.
THEOREM CameraSignalled == Spec => CameraAgrees
  BY CameraStep, RangeInvariant, PowerInvariant, PTL DEF Spec, CameraAgrees

-----------------------------------------------------------------------------
(* The ini file. *)

\* No step makes the program mistake what the ini file holds.
LEMMA StoredStep == StoredIsInFile /\ [Next]_vars => StoredIsInFile'
<1> SUFFICES ASSUME StoredIsInFile, [Next]_vars PROVE StoredIsInFile'
  OBVIOUS
<1> USE DEF StoredIsInFile, RestoredStored, RestoredPwm,
            handlerVars, moveVars, nvVars, powerVars
<1>1. CASE Boot
  BY <1>1 DEF Boot, At
<1>2. ASSUME NEW c \in Commands, FirstCommand(c) PROVE StoredIsInFile'
  BY <1>2 DEF FirstCommand, At
<1>3. ASSUME NEW c \in Commands, MoveCommand(c) PROVE StoredIsInFile'
  BY <1>3 DEF MoveCommand, At
<1>4. CASE ClampPwm
  BY <1>4 DEF ClampPwm, At
<1>5. CASE MoveServo
  BY <1>5 DEF MoveServo, At
<1>6. CASE Toggle
  BY <1>6 DEF Toggle, At
<1>7. CASE SwitchOn
  BY <1>7 DEF SwitchOn, At
<1>8. CASE PowerStore
  BY <1>8 DEF PowerStore, At
<1>9. CASE LowPowerBitStore
  BY <1>9 DEF LowPowerBitStore, At
<1>10. CASE SwitchOff
  BY <1>10 DEF SwitchOff, At
<1>11. CASE PollTimeout
  BY <1>11 DEF PollTimeout, At
<1>12. CASE LowPowerEvent
  BY <1>12 DEF LowPowerEvent, At
<1>13. CASE SendStatus
  BY <1>13 DEF SendStatus, At
<1>14. CASE LowPowerLoad
  BY <1>14 DEF LowPowerLoad, At
<1>15. CASE LowPowerStore
  BY <1>15 DEF LowPowerStore, At
<1>16. CASE StatusWritten
  BY <1>16 DEF StatusWritten, At
<1>17. CASE SigAlrm
  BY <1>17 DEF SigAlrm
<1>18. CASE NvOpen
  BY <1>18 DEF NvOpen
<1>19. CASE NvWrite
  BY <1>19 DEF NvWrite
<1>20. CASE HandlerPower
  BY <1>20 DEF HandlerPower
<1>21. CASE Crash
  BY <1>21 DEF Crash
<1>22. CASE UNCHANGED vars
  BY <1>22 DEF vars
<1> QED
  BY <1>1, <1>2, <1>3, <1>4, <1>5, <1>6, <1>7, <1>8, <1>9, <1>10, <1>11,
     <1>12, <1>13, <1>14, <1>15, <1>16, <1>17, <1>18, <1>19, <1>20, <1>21, <1>22
  DEF Next, Receive, Step, Handler

\* What the program takes the file to hold is what a restart reads from it,
\* whatever crash or open error came between.
THEOREM StoredFaithful == Spec => []StoredIsInFile
<1>1. Init => StoredIsInFile
  BY DEF Init, StoredIsInFile
<1> QED
  BY <1>1, StoredStep, PTL DEF Spec

\* A position not in the file is counted or being written; a count is timed.
\* Between a move and its clamp the handler may store the raw value.
PendingInv ==
    /\ (/\ ~first /\ stored_pwm # current_pwm
        /\ pc \notin {"boot", "clamp", "pwm"} \/ (pc = "clamp" /\ delta = 0))
           => (angle_cnt > 0 \/ hpc \in {"open", "write"})
    /\ angle_cnt > 0 => timer = TRUE
    /\ pc = "boot" => first = TRUE

\* With files that can be opened, no step forgets a position or its timer.
LEMMA PendingStep ==
  ASSUME ~HwFaults, ~NvFaults
  PROVE  RangeInv /\ PendingInv /\ [Next]_vars => PendingInv'
<1> SUFFICES ASSUME RangeInv, PendingInv, [Next]_vars PROVE PendingInv'
  OBVIOUS
<1> USE DEF PendingInv, RangeInv, TypeOK, FlagsOK, ControlOK, CountsOK, NumbersOK,
            handlerVars, moveVars, nvVars, powerVars
<1>1. CASE Boot
  BY <1>1 DEF Boot, At
<1>2. ASSUME NEW c \in Commands, FirstCommand(c) PROVE PendingInv'
  BY <1>2, TimerAssumption DEF FirstCommand, At, SetPwm, SetTimerPwm
<1>3. ASSUME NEW c \in Commands, MoveCommand(c) PROVE PendingInv'
  <2>1. current_pwm \in Duty /\ delta' \in Int
    BY <1>3, MoveTypes DEF MoveCommand, At, CurrentInRange
  <2>2. delta' = 0 => current_pwm' = current_pwm
    <3>1. c.fast \in BOOLEAN
      BY CommandFields
    <3>2. Increment(c) \in Int
      BY <3>1, TickAssumption DEF Increment
    <3>3. delta' = 0 => current_pwm' = Wrap(current_pwm)
      BY <1>3, <2>1, <3>2 DEF MoveCommand
    <3> QED
      BY <2>1, <3>3, WrapInt
  <2> QED
    BY <1>3, <2>2 DEF MoveCommand, At
<1>4. CASE ClampPwm
  BY <1>4 DEF ClampPwm, At
<1>5. CASE MoveServo
  BY <1>5, TimerAssumption DEF MoveServo, At, SetPwm, SetTimerPwm
<1>6. CASE Toggle
  BY <1>6 DEF Toggle, At
<1>7. CASE SwitchOn
  BY <1>7 DEF SwitchOn, At
<1>8. CASE PowerStore
  BY <1>8 DEF PowerStore, At
<1>9. CASE LowPowerBitStore
  BY <1>9 DEF LowPowerBitStore, At
<1>10. CASE SwitchOff
  BY <1>10 DEF SwitchOff, At, SetTimerPower
<1>11. CASE PollTimeout
  BY <1>11 DEF PollTimeout, At
<1>12. CASE LowPowerEvent
  BY <1>12 DEF LowPowerEvent, At
<1>13. CASE SendStatus
  BY <1>13 DEF SendStatus, At
<1>14. CASE LowPowerLoad
  BY <1>14 DEF LowPowerLoad, At
<1>15. CASE LowPowerStore
  BY <1>15 DEF LowPowerStore, At
<1>16. CASE StatusWritten
  BY <1>16 DEF StatusWritten, At
<1>17. CASE SigAlrm
  <2>1. angle_cnt' = IF angle_cnt > 0 THEN angle_cnt - 1 ELSE 0
    BY <1>17 DEF SigAlrm
  <2>2. angle_cnt' > 0 => timer' = TRUE
    BY <1>17, Zenon DEF SigAlrm, Rearm
  <2>3. UNCHANGED <<pc, first, stored_pwm, current_pwm, delta>>
    BY <1>17 DEF SigAlrm
  <2>4. hpc = "none" /\ (angle_cnt = 1 /\ stored_pwm # current_pwm => hpc' = "open")
    BY <1>17 DEF SigAlrm
  <2> QED
    BY <2>1, <2>2, <2>3, <2>4
<1>18. CASE NvOpen
  BY <1>18 DEF NvOpen
<1>19. CASE NvWrite
  BY <1>19 DEF NvWrite
<1>20. CASE HandlerPower
  BY <1>20 DEF HandlerPower
<1>21. CASE Crash
  BY <1>21 DEF Crash
<1>22. CASE UNCHANGED vars
  BY <1>22 DEF vars
<1> QED
  BY <1>1, <1>2, <1>3, <1>4, <1>5, <1>6, <1>7, <1>8, <1>9, <1>10, <1>11,
     <1>12, <1>13, <1>14, <1>15, <1>16, <1>17, <1>18, <1>19, <1>20, <1>21, <1>22
  DEF Next, Receive, Step, Handler

\* With files that can be opened, a position that is not in the ini file is
\* counted and the shared timer is armed, whatever commands re-arm it.
THEOREM PositionPending ==
  ASSUME ~HwFaults, ~NvFaults
  PROVE  Spec => []NvPending
<1>1. Init => PendingInv
  BY DEF Init, PendingInv
<1>2. PendingInv => NvPending
  BY DEF PendingInv, NvPending
<1>3. RangeInv /\ PendingInv /\ [Next]_vars => PendingInv'
  BY PendingStep
<1> QED
  BY <1>1, <1>2, <1>3, RangeInvariant, PTL DEF Spec
=============================================================================
