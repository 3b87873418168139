------------------------------- MODULE Antenna -------------------------------
(***************************************************************************)
(* The antenna control process (antenna.c): it moves the servo from the    *)
(* commands of the station, switches the camera power, and remembers the   *)
(* servo position in /etc/control.ini.                                     *)
(*                                                                         *)
(* There is one thread.  It is interrupted at any point by the SIGALRM     *)
(* handler of one shared one-shot timer, which counts down two delays:     *)
(* angle_cnt, after which the position is stored, and power_cnt, after     *)
(* which the power line is switched off.  pc is where the main program is, *)
(* hpc where the handler is; while the handler runs the main program       *)
(* stands still.  The process can be killed anywhere and is restarted.     *)
(*                                                                         *)
(* The TCP connection is left out: its loss changes no variable of this    *)
(* module, and a command may arrive whenever the main program is idle.     *)
(***************************************************************************)
EXTENDS Integers

CONSTANTS
    PwmMin, PwmMax,   \* PWM_DUTY_CYCLE_MIN and _MAX
    TickPwm,          \* TICK_PWM, the duty cycle of one encoder tick
    FastIncrement,    \* TICK_FAST_INCREMENT, used with SWITCH_ENCODER
    IntMax,           \* the largest C int
    Positions,        \* the encoder positions a command may carry
    AngleTicks,       \* timer periods before the position is stored
    Absent, Empty,    \* no ini file, and one with no pwm line in it
    HwFaults,         \* TRUE if the duty_cycle file may fail to open
    NvFaults          \* TRUE if the ini file may fail to open, to be read or written

ASSUME PwmAssumption == /\ PwmMin \in Nat \ {0}
                        /\ PwmMax \in Nat
                        /\ PwmMin < PwmMax
                        /\ IntMax \in Nat
                        /\ PwmMax <= IntMax
ASSUME TickAssumption == TickPwm \in Nat /\ FastIncrement \in Nat
ASSUME PositionAssumption == Positions \subseteq (-IntMax - 1)..IntMax
ASSUME TimerAssumption == AngleTicks \in Nat \ {0}
ASSUME NvAssumption == Absent \notin Int /\ Empty \notin Int /\ Absent # Empty
ASSUME FaultAssumption == HwFaults \in BOOLEAN /\ NvFaults \in BOOLEAN

VARIABLES
    pc,             \* where the main program is
    hpc,            \* where the SIGALRM handler is, "none" if it does not run
    ret,            \* where set_switch or update_low_power returns to
    cmd, delta,     \* the command being processed, its move in ticks
    tmp,            \* power_status loaded in a read-modify-write
    first,          \* no command was processed since the start
    last_position,  \* the position of the last command
    current_pwm,    \* the duty cycle the program believes in
    stored_pwm,     \* the value it believes the ini file holds
    sw_status,      \* the antenna switch of the last command
    power_status,   \* the status bits it reports
    angle_cnt, power_cnt,
    timer,          \* ITIMER_REAL is running
    nv,             \* the ini file
    hw,             \* the duty cycle the PWM chip drives
    line,           \* the power line
    camera          \* the last signal sent to camera-stream

handlerVars == <<hpc, angle_cnt, power_cnt, timer>>
moveVars == <<cmd, delta, first, last_position>>
nvVars == <<nv, stored_pwm>>
powerVars == <<power_status, line, camera>>
vars == <<pc, ret, tmp, current_pwm, sw_status, hw,
          handlerVars, moveVars, nvVars, powerVars>>

Duty == PwmMin..PwmMax
PwmCenter == (PwmMin + PwmMax) \div 2
ServoOff == 0       \* duty cycle of a chip that was never programmed
Bits == {"POWER", "LOW_POWER"}
Commands == [position : Positions, on : BOOLEAN, fast : BOOLEAN]
NoCommand == [position |-> 0, on |-> FALSE, fast |-> FALSE]
IntRange == (-IntMax - 1)..IntMax

\* Two's complement arithmetic of the C int.
Wrap(x) == IF x \in IntRange
           THEN x
           ELSE ((x + IntMax + 1) % (2 * (IntMax + 1))) - (IntMax + 1)

BugClamp(x) == IF x < PwmMin THEN PwmMin ELSE x    \* mutant: no upper limit
Clamp(x) == IF x < PwmMin THEN PwmMin ELSE IF x > PwmMax THEN PwmMax ELSE x

Increment(c) == TickPwm * (IF c.fast THEN FastIncrement ELSE 1)

\* mutant: the value in the file is taken as it is
BugRestoredPwm(file) == IF file \in {Absent, Empty} THEN PwmCenter ELSE file

\* nv_get_pwm: what the program starts from, given the file.
RestoredPwm(file) == IF file \in Duty THEN file ELSE PwmCenter
RestoredStored(file) == IF file = Absent THEN 0 ELSE RestoredPwm(file)

BugSetBit(b, on) == IF on THEN b \cup {"POWER"} ELSE b  \* mutant: never cleared
SetBit(b, on) == IF on THEN b \cup {"POWER"} ELSE b \ {"POWER"}
CameraSignal(bits) == IF "POWER" \in bits THEN "SIGUSR1" ELSE "SIGUSR2"

-----------------------------------------------------------------------------
(* The subroutines that change state. *)

SetTimerPwm == angle_cnt' = AngleTicks /\ timer' = TRUE
BugPowerCount == power_cnt' = power_cnt + 1 /\ timer' = TRUE \* mutant: adds up
BugPowerUnarmed == power_cnt' = 1 /\ UNCHANGED timer    \* mutant: not armed
SetTimerPower == power_cnt' = 1 /\ timer' = TRUE

\* set_pwm: the chip is written only when the duty cycle is not the stored one.
SetPwm(duty) ==
    \/ /\ stored_pwm # duty
       /\ hw' = duty
       /\ SetTimerPwm
    \/ /\ stored_pwm = duty \/ HwFaults
       /\ UNCHANGED <<hw, angle_cnt, timer>>

\* kill(pid, ...) reaches the camera only if it has written its pid file.
KillCamera(bits) == camera' \in {camera, CameraSignal(bits)}

-----------------------------------------------------------------------------
Init ==
    /\ pc = "boot" /\ hpc = "none" /\ ret = "send"
    /\ cmd = NoCommand /\ delta = 0 /\ tmp = {}
    /\ first = TRUE /\ last_position = 0
    /\ current_pwm = PwmCenter /\ stored_pwm = 0
    /\ sw_status = FALSE /\ power_status = {}
    /\ angle_cnt = 0 /\ power_cnt = 0 /\ timer = FALSE
    /\ nv \in {Absent} \cup Duty         \* what an earlier run left
    /\ hw = ServoOff /\ line = FALSE /\ camera = "none"

\* The main program runs only while the handler does not.
At(label) == pc = label /\ hpc = "none"

\* prepare_pwm and the set-up of the two lines in main.  A file that does not
\* open is taken for one that is not there.
Boot ==
    /\ At("boot")
    /\ \E file \in {nv} \cup (IF NvFaults THEN {Absent} ELSE {}) :
          /\ current_pwm' = RestoredPwm(file)
          /\ stored_pwm' = RestoredStored(file)
          /\ \/ hw' = RestoredPwm(file)
             \/ HwFaults /\ UNCHANGED hw
    /\ line' = FALSE
    /\ power_status' \in {{}, {"LOW_POWER"}}
    /\ pc' = "idle"
    /\ UNCHANGED <<ret, tmp, sw_status, handlerVars, moveVars, nv, camera>>

\* parse_byte has completed a command: the first part of process_command.
FirstCommand(c) ==
    /\ At("idle") /\ first
    /\ cmd' = c /\ delta' = Wrap(c.position - last_position)
    /\ first' = FALSE
    /\ last_position' = c.position
    /\ SetPwm(current_pwm)
    /\ sw_status' = c.on
    /\ ret' = "clamp" /\ pc' = "switch"
    /\ UNCHANGED <<hpc, power_cnt, tmp, current_pwm, nvVars, powerVars>>

MoveCommand(c) ==
    /\ At("idle") /\ ~first
    /\ cmd' = c /\ delta' = Wrap(c.position - last_position)
    /\ current_pwm' = Wrap(current_pwm + delta' * Increment(c))
    /\ pc' = "clamp"
    /\ UNCHANGED <<ret, tmp, sw_status, hw, first, last_position,
                   handlerVars, nvVars, powerVars>>

\* The handler may have seen current_pwm before this step brings it in range.
ClampPwm ==
    /\ At("clamp")
    /\ IF delta # 0
       THEN current_pwm' = Clamp(current_pwm) /\ pc' = "pwm"
       ELSE pc' = "toggle" /\ UNCHANGED current_pwm
    /\ UNCHANGED <<ret, tmp, sw_status, hw,
                   handlerVars, moveVars, nvVars, powerVars>>

MoveServo ==
    /\ At("pwm")
    /\ SetPwm(current_pwm)
    /\ pc' = "toggle"
    /\ UNCHANGED <<hpc, ret, tmp, current_pwm, sw_status, power_cnt,
                   moveVars, nvVars, powerVars>>

Toggle ==
    /\ At("toggle")
    /\ last_position' = cmd.position
    /\ sw_status' = cmd.on
    /\ ret' = "status"
    /\ pc' = IF sw_status # cmd.on THEN "switch" ELSE "status"
    /\ cmd' = NoCommand /\ delta' = 0      \* the locals are gone
    /\ UNCHANGED <<tmp, current_pwm, hw, first,
                   handlerVars, nvVars, powerVars>>

\* set_switch, on: set_power writes the line and loads the status bits.
SwitchOn ==
    /\ At("switch") /\ sw_status
    /\ line' = TRUE
    /\ tmp' = power_status
    /\ pc' = "power"
    /\ UNCHANGED <<ret, current_pwm, sw_status, hw, power_status, camera,
                   handlerVars, moveVars, nvVars>>

\* ... stores them, signals the camera; set_switch loads them again.
PowerStore ==
    /\ At("power")
    /\ power_status' = SetBit(tmp, TRUE)
    /\ tmp' = power_status'
    /\ KillCamera(power_status')
    /\ pc' = "lpbit"
    /\ UNCHANGED <<ret, current_pwm, sw_status, hw, line,
                   handlerVars, moveVars, nvVars>>

LowPowerBitStore ==
    /\ At("lpbit")
    /\ power_status' = tmp \cup {"LOW_POWER"}
    /\ tmp' = {}
    /\ pc' = ret
    /\ UNCHANGED <<ret, current_pwm, sw_status, hw, line, camera,
                   handlerVars, moveVars, nvVars>>

\* set_switch, off: the line is switched off by the handler, later.
SwitchOff ==
    /\ At("switch") /\ ~sw_status
    /\ SetTimerPower
    /\ pc' = ret
    /\ UNCHANGED <<hpc, ret, tmp, current_pwm, sw_status, hw, angle_cnt,
                   moveVars, nvVars, powerVars>>

\* process_connection: a second without a command, or an edge of the low
\* power line, which is read once more before the status is sent.
PollTimeout ==
    /\ At("idle")
    /\ pc' = "status"
    /\ UNCHANGED <<ret, tmp, current_pwm, sw_status, hw,
                   handlerVars, moveVars, nvVars, powerVars>>

LowPowerEvent ==
    /\ At("idle")
    /\ ret' = "status" /\ pc' = "lowpower"
    /\ UNCHANGED <<tmp, current_pwm, sw_status, hw,
                   handlerVars, moveVars, nvVars, powerVars>>

\* send_status: update_low_power, then the message.
SendStatus ==
    /\ At("status")
    /\ ret' = "send" /\ pc' = "lowpower"
    /\ UNCHANGED <<tmp, current_pwm, sw_status, hw,
                   handlerVars, moveVars, nvVars, powerVars>>

\* update_low_power: read the pin, then a read-modify-write of the bits.
LowPowerLoad ==
    /\ At("lowpower")
    /\ \/ /\ tmp' \in {power_status \ {"LOW_POWER"},
                       power_status \cup {"LOW_POWER"}}
          /\ pc' = "lowpowerstore"
       \/ pc' = ret /\ tmp' = {}            \* the pin cannot be read
    /\ UNCHANGED <<ret, current_pwm, sw_status, hw,
                   handlerVars, moveVars, nvVars, powerVars>>

LowPowerStore ==
    /\ At("lowpowerstore")
    /\ power_status' = tmp
    /\ tmp' = {}
    /\ pc' = ret
    /\ UNCHANGED <<ret, current_pwm, sw_status, hw, line, camera,
                   handlerVars, moveVars, nvVars>>

\* The status [angle |-> current_pwm, status |-> power_status] is written.
StatusWritten ==
    /\ At("send")
    /\ pc' = "idle"
    /\ UNCHANGED <<ret, tmp, current_pwm, sw_status, hw,
                   handlerVars, moveVars, nvVars, powerVars>>

-----------------------------------------------------------------------------
(* The SIGALRM handler. *)

BugRearm == timer' = FALSE             \* mutant: counts down once only
Rearm == timer' = (angle_cnt' > 0)

SigAlrm ==
    /\ timer /\ hpc = "none"
    /\ angle_cnt' = IF angle_cnt > 0 THEN angle_cnt - 1 ELSE 0
    /\ Rearm
    /\ hpc' = IF angle_cnt = 1 /\ stored_pwm # current_pwm
              THEN "open" ELSE "power"
    /\ UNCHANGED <<pc, ret, tmp, current_pwm, sw_status, hw, power_cnt,
                   moveVars, nvVars, powerVars>>

\* mutant: an open error is not noticed, the value counts as stored
BugNvOpen ==
    /\ hpc = "open"
    /\ \/ nv' = Empty /\ hpc' = "write" /\ UNCHANGED stored_pwm
       \/ NvFaults /\ hpc' = "power" /\ stored_pwm' = current_pwm /\ UNCHANGED nv
    /\ UNCHANGED <<pc, ret, tmp, current_pwm, sw_status, hw,
                   angle_cnt, power_cnt, timer, moveVars, powerVars>>

\* nv_set_pwm: fopen(..., "w") empties the file, fclose writes the value.
NvOpen ==
    /\ hpc = "open"
    /\ \/ nv' = Empty /\ hpc' = "write"
       \/ NvFaults /\ hpc' = "power" /\ UNCHANGED nv
    /\ UNCHANGED <<pc, ret, tmp, current_pwm, stored_pwm, sw_status, hw,
                   angle_cnt, power_cnt, timer, moveVars, powerVars>>

NvWrite ==
    /\ hpc = "write"
    /\ nv' = current_pwm
    /\ stored_pwm' = current_pwm
    /\ hpc' = "power"
    /\ UNCHANGED <<pc, ret, tmp, current_pwm, sw_status, hw,
                   angle_cnt, power_cnt, timer, moveVars, powerVars>>

HandlerPower ==
    /\ hpc = "power"
    /\ IF power_cnt > 0
       THEN /\ power_cnt' = power_cnt - 1
            /\ line' = sw_status
            /\ power_status' = SetBit(power_status, sw_status)
            /\ KillCamera(power_status')
       ELSE UNCHANGED <<power_cnt, powerVars>>
    /\ hpc' = "none"
    /\ UNCHANGED <<pc, ret, tmp, current_pwm, sw_status, hw,
                   angle_cnt, timer, moveVars, nvVars>>

\* The process dies; systemd starts it again with its variables reset.  The
\* PWM chip, the line and the file keep what they have.
Crash ==
    /\ pc # "boot"
    /\ pc' = "boot" /\ hpc' = "none" /\ ret' = "send"
    /\ cmd' = NoCommand /\ delta' = 0 /\ tmp' = {}
    /\ first' = TRUE /\ last_position' = 0
    /\ current_pwm' = PwmCenter /\ stored_pwm' = 0
    /\ sw_status' = FALSE /\ power_status' = {}
    /\ angle_cnt' = 0 /\ power_cnt' = 0 /\ timer' = FALSE
    /\ UNCHANGED <<nv, hw, line, camera>>

-----------------------------------------------------------------------------
Receive == \E c \in Commands : FirstCommand(c) \/ MoveCommand(c)

Step == \/ Boot \/ ClampPwm \/ MoveServo \/ Toggle
        \/ SwitchOn \/ PowerStore \/ LowPowerBitStore \/ SwitchOff
        \/ SendStatus \/ LowPowerLoad \/ LowPowerStore \/ StatusWritten

Handler == SigAlrm \/ NvOpen \/ NvWrite \/ HandlerPower

Next == Receive \/ PollTimeout \/ LowPowerEvent \/ Step \/ Handler \/ Crash

Spec == Init /\ [][Next]_vars

\* The kernel schedules the process, and a timer that stays armed expires.
FairSpec == Spec /\ WF_vars(Step) /\ WF_vars(Handler)
-----------------------------------------------------------------------------
(* Properties. *)

Labels == {"boot", "idle", "clamp", "pwm", "toggle", "switch", "power",
           "lpbit", "status", "lowpower", "lowpowerstore", "send"}

ControlOK == /\ pc \in Labels
             /\ hpc \in {"none", "open", "write", "power"}
             /\ ret \in {"clamp", "status", "send"}
             /\ cmd \in Commands \cup {NoCommand}
             /\ delta \in Int
FlagsOK == /\ first \in BOOLEAN /\ sw_status \in BOOLEAN
           /\ timer \in BOOLEAN /\ line \in BOOLEAN
BitsOK == /\ tmp \in SUBSET Bits /\ power_status \in SUBSET Bits
          /\ camera \in {"none", "SIGUSR1", "SIGUSR2"}
NumbersOK == /\ last_position \in Int /\ current_pwm \in Int
             /\ stored_pwm \in Int /\ hw \in Int
             /\ nv \in Int \cup {Absent, Empty}
CountsOK == angle_cnt \in 0..AngleTicks /\ power_cnt \in 0..1

\* Every variable has the type its C declaration and its uses give it.
TypeOK == ControlOK /\ FlagsOK /\ BitsOK /\ NumbersOK /\ CountsOK

\* The servo is never driven beyond its limits: not by a jump of the position
\* after a restart of the station, not by an overflow of the C int, and not by
\* an ini file the handler wrote before process_command clamped current_pwm
\* (set_pwm, nv_get_pwm, prepare_pwm).
HwInRange == hw \in Duty \cup {ServoOff}

\* The power line disagrees with the last commanded switch only while the
\* delayed switch-off is counted and the timer that ends it is armed, however
\* the switch is toggled around the delay (set_switch, signal_handler).
SwitchPending ==
    (hpc = "none" /\ pc \notin {"boot", "switch"} /\ line # sw_status)
        => (power_cnt = 1 /\ timer)

\* A position that is not in the ini file is on its way there: the count is
\* running and the timer is armed, although both are shared with the power
\* delay and re-armed by either (set_pwm, set_timer, signal_handler).
NvPending ==
    (/\ hpc = "none" /\ ~first /\ pc \notin {"boot", "clamp", "pwm"}
     /\ stored_pwm # current_pwm)
        => (angle_cnt > 0 /\ timer)

\* What the program takes the ini file to hold is what a restart reads from it,
\* or a value out of range that it replaces within one delay, or nothing it
\* knows of (0, which no position is, so that the next save is not skipped),
\* whatever crash or open error came between (nv_set_pwm, nv_get_pwm).
StoredIsInFile ==
    (pc # "boot" /\ hpc # "write") => stored_pwm \in {0, nv, RestoredStored(nv)}

\* camera-stream is never told to run while its power is off, nor to stop while
\* it is on (set_power, from the main program and from the handler).
CameraAgrees ==
    [][camera' # camera => ((camera' = "SIGUSR1") <=> line')]_vars

\* The status sent to the station carries "Current angle of the antenna"
\* (protocol.h), so the duty cycle it is computed from is the servo's.
AngleReported == pc = "send" /\ hpc = "none" => hw = current_pwm

\* The POWER_BIT of the status sent to the station is the power line.
PowerReported == pc = "send" /\ hpc = "none"
                     => (("POWER" \in power_status) <=> line)

\* No command arrives any more and the process no longer dies.
Calm == <>[][~Receive /\ ~Crash]_vars

\* Once the operator lets go, the position is saved for good (signal_handler's
\* countdown, re-armed by every move).
PositionSaved == Calm => <>[](first \/ stored_pwm = current_pwm)

\* Once the operator lets go, the line is what the switch says for good.
PowerSettles == Calm => <>[](line = sw_status)
=============================================================================
