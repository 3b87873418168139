# Verification of meta-station

meta-station is the software of an FPV ground station and of the antenna it
steers. The station is a box with a rotary encoder, switches, a screen and an
RC transmitter; the antenna is a second computer on a mast with a servo, a
camera and a power line. The two talk over TCP (rotator commands and statuses)
and UDP (RC packets, video).

This directory holds TLA+ models of its programs, the TLC runs that check them
on small instances, and TLAPS proofs for every value of the constants. All file
names below are relative to the repository. `ctl/` is short for
`recipes-extended/control/files/`, `crsf/` for
`recipes-extended/crsf-dridge/files/`.

## 1. The system

### Components, their state and operations

| Component | State | Operations | Talks to |
|---|---|---|---|
| Antenna control, `ctl/antenna.c` | `current_pwm`, `stored_pwm`, `antenna_status` (switch, status bits, two counts), the `static` locals of `process_command` and `parse_byte`, `/etc/control.ini`, PWM chip, power line | connect and poll the station, `process_command`, `send_status`, SIGALRM handler | station over TCP; camera server by SIGUSR1 and SIGUSR2 |
| Station control, `ctl/station.c` | encoder counter, `switch_status`, `sw_change`, `connect_status`, `status_timestamp`, `run`, a pipe, two sockets | reader thread (`poll` on GPIO, `button_callback`, `encoder_callback`, `send_message`), main thread (`start_server`), handler of SIGTERM, SIGHUP and SIGALRM | antenna over TCP; visualisation thread by shared variables; stream viewer by SIGUSR1 |
| Rotator protocol, `ctl/protocol.h` and both `parse_byte` | a byte machine per process, never reset by a reconnection | one byte | both of the above |
| Configuration, `ctl/config.cpp` | the channel table behind a mutex, `/etc/vrxtbl.yaml` | `load_config`, `get_chan_info` | visualisation thread; SIGHUP of station.c |
| Visualisation, `ctl/visualisation.c` | frame buffer | draw loop | shared channels, antenna status |
| CRSF bridge, `crsf/crsf-bridge.c` | two parsers, one clock, a buffer of packets, shared channels | TX mode: a byte of the UART, a byte of a datagram; plain mode: pass through | handset (UART), aircraft side (UDP), visualisation (shared memory) |
| Circular buffer, `crsf/circ_buf.c` | slots, head, tail, full | put, get, look, drop, size, reset | the bridge |
| libmisc | none (CRC, clock, dump, mapping of a file) | | all |
| Camera server, `recipes-multimedia/camera-server` | `pipeline`, `timeout_id`, delayed starts | SIGUSR1 and SIGUSR2, bus messages, watchdog, start timer | antenna control |
| Video streamer, `recipes-multimedia/video-streamer` | `PipelineData`, retry timers, a capture device | SIGUSR1 and SIGUSR2, bus messages, retry; reader thread | antenna control, instead of the camera server |
| Stream viewer, `recipes-multimedia/stream-viewer` | `is_recording`, `record_elements`, cleanup timers, the flag in shared memory | toggle by SIGUSR1, bus messages, cleanup | station control, mount point file |
| Video output, `recipes-multimedia/video-out` | none | starts one pipeline | |
| USB mount and updater, `recipes-core/udev`, `recipes-kernel/mnthelper` | mount table, `/media`, mount point file, `.new` file | add, remove, update | udev; SIGHUP to station control |
| Recipes, images, scripts | | build only | |

### What is hard

- **antenna.c**: a signal handler interrupts the only thread between any two
  instructions. It shares status bits, the position, the stored position and
  one one-shot timer that serves two delays. The process may die anywhere, the
  ini file between `fopen("w")` and the write included.
- **station.c**: two threads share a counter, switches and a connection flag
  without a lock, and both write commands into one pipe. Connections end in
  several ways (closed, reset, silent), and SIGTERM closes the descriptors under
  the main thread.
- **crsf-bridge.c**: two parsers share the clock that resynchronises them; a
  buffer overwrites its oldest packet; lengths come from the wire.
- **antenna.c with station.c**: connections that are cut, reset, abandoned or
  timed out in the middle of a message, with byte machines that are never reset,
  sockets that leak, and SIGPIPE, which ends either process for good. The statuses
  of a quiet link come from the timeout of a `poll` that SIGALRM keeps restarting.
- **config.cpp** with station.c: a mutex that one path does not release and that
  a signal handler takes, on either of two threads at once.
- **camera server, streamer, viewer**: delayed starts, retries and toggles that
  race with stops; Python signal handlers between any two statements of a
  callback; a second thread that uses what the first frees.
- **usb-mount.sh, updater.sh**: concurrent scripts over one mount point file, one
  `/media` and one `.new` file.

`PROJECT.json` lists every hazard at its line, with the properties that cover it
or the reason why none does.

### What makes each component correct

- Antenna: the servo stays in range; a delayed switch-off and a delayed save are
  never lost and end; the ini file is what the program takes it for; the camera
  is told to run only with power; the status reports what the hardware does.
- Station: what the operator does reaches the antenna, and last; a silent
  antenna is dropped; SIGTERM ends the process.
- Bridge and buffer: no packet overruns the parser's buffer or its slot, or is sent
  cut; a parser gets back in step; an undisturbed packet is queued; the buffer is a
  queue that drops its oldest packet.
- Link: a parser gets back in step whatever the last connection left in it, a
  message in step is acted on, nothing but a moving servo makes the station drop a
  live antenna for silence, and the two ends find each other again.
- Configuration: the mutex is held by somebody who will release it, but for a
  table without a channel; the table in memory is the installed one.
- Cameras: a stop holds, a playing pipeline is watched, a camera that should
  stream does so in the end.
- USB and recorder: the mount point file names a mounted drive; the red dot is
  shown for a recording that runs; a recording to a drive that is gone ends.

## 2. The modules

| Module | Models | Checked by | Proofs |
|---|---|---|---|
| `Antenna` | antenna.c: commands, servo, power, SIGALRM, ini file, crashes | `MCAntenna`, four runs | `AntennaProofs` |
| `Station` | station.c: reader thread, server loop, pipe, socket, SIGTERM | `MCStation`, three runs | `StationProofs` |
| `DropOldestQueue` | the abstract queue of packets | as a PROPERTY of `CircBuf`, as a part of `CrsfBridge` | |
| `CircBuf` | circ_buf.c | `MCCircBuf` | `CircBufProofs` |
| `CrsfBridge` | crsf-bridge.c in TX mode, over `DropOldestQueue` | `MCCrsfBridge` | `CrsfBridgeProofs` |
| `RotatorParser` | both `parse_byte`, as operators on a place in a message | through `ControlLink` | |
| `ControlLink` | the connection of antenna.c and station.c, byte by byte | `MCControlLink` | `ControlLinkProofs` |
| `CameraSignals` | SIGUSR1, SIGUSR2 and the orders they stand for | through `CameraService` | |
| `CameraStream` | camera-stream.py | through `CameraService` | |
| `VideoStreamer` | video-streamer.cpp | through `CameraService` | |
| `CameraService` | one of the two programs under signals and systemd | `MCCameraService` | `CameraServiceProofs` |
| `UsbMount` | the udev rules, the unit, usb-mount.sh, mnthlp.c | through `StationServices` | |
| `ConfigStore` | updater.sh, SIGHUP of station.c, config.cpp; extends `UsbMount` | through `StationServices` | |
| `StreamRecorder` | stream-view.py, the record button of station.c; extends `UsbMount` | through `StationServices` | |
| `StationServices` | the three together | `MCStationServices` | `StationServicesProofs` |

`CrsfBridge` instantiates the abstract queue and not `CircBuf`: the refinement
proved in `CircBufProofs` is what makes that the same program.

### Antenna

`pc` is the place of the main program and `hpc` that of the handler; the main
program moves only while `hpc = "none"`, since a handler runs to its end on the
thread it interrupts. An action is what lies between two points at which the
handler can make a difference:

| Action | Code |
|---|---|
| `Boot` | `nv_get_pwm`, `prepare_pwm`, lines requested in `main` |
| `FirstCommand`, `MoveCommand`, `ClampPwm`, `MoveServo`, `Toggle` | `process_command`; the first command after a start is a path of its own |
| `SwitchOn`, `PowerStore`, `LowPowerBitStore`, `SwitchOff` | `set_switch`, `set_power` in the main program, with the load and the store of `power_status` apart |
| `PollTimeout`, `LowPowerEvent`, `SendStatus`, `LowPowerLoad`, `LowPowerStore`, `StatusWritten` | `process_connection`, `update_low_power`, `send_status` |
| `SigAlrm`, `NvOpen`, `NvWrite`, `HandlerPower` | `signal_handler`, `nv_set_pwm`, `set_power` in the handler |
| `Crash` | the process dies and systemd starts it again; chip, line and file keep their state |

Where two assignments are one step (`set_timer`; the compare, the write and the
`set_timer` of `set_pwm`; the two lines of the ini file, which `fclose` writes at
once), the handler between them would find a count and a timer that the second
assignment sets to the same values anyway. `HwFaults` and `NvFaults` say whether
the duty_cycle file and the ini file may fail to open; a failure is a choice at
each open, for reading in `Boot` (which then takes the centre and leaves
`stored_pwm` at 0, though the file is there) and for writing in `NvOpen`.

Left out: the TCP connection, whose loss changes none of these variables, and the
byte parser (a command arrives whole, whenever the program is idle), which are in
`ControlLink`; `vbat`,
which is always 0; the scaling of the duty cycle to an angle, a monotone function
of `current_pwm` that no property needs.

### Station

`rpc` and `mpc` are the places of the reader and of the main thread. The test of
`connect_status` with the composition of a message is one step and its `write`
another, in both threads: that is where they can overtake each other. `sock` is
what the kernel knows of the connection, with the order in which a dead peer
shows itself: end of file, then EPIPE; or a reset, reported once as ECONNRESET
and as EPIPE after that.

| Action | Code |
|---|---|
| `ButtonEdge`, `EncoderEdge` | `button_callback`; `encoder_callback`, a decoded edge |
| `Flush`, `FlushStep` | the time-out branch of `reader`, `check_switch` |
| `ReaderCompose`, `ReaderWrite`, `GreetCompose`, `GreetWrite` | `send_message` in either thread |
| `Accept`, `EnterPoll`, `PollWake`, `PollTimeout`, `PollReturns`, `ReadPipe`, `WriteSock`, `ReadSock`, `Close` | `start_server` |
| `Term` | SIGTERM in `signal_handler`; it is delivered to the main thread |
| `Peer*`, `StatusAges`, `DebounceExpires` | the antenna, the network, time |

Abstractions: shared variables are sequentially consistent; TCP delivers what was
written to an open connection in order; `ReadPipe` moves whole messages, whereas
the code moves up to 100 bytes and may split a 17 byte message, which the next
read completes; the time stamp of the last status is `"never"`, `"recent"` or
`"old"`. Left out: the quadrature decoding, `diff_counter` (only logged), the
record button (`StreamRecorder`), SIGHUP (`ConfigStore`), and the drawing.

### CircBuf and DropOldestQueue

One action per function of circ_buf.c: the bridge calls it from one thread. The
abstract queue is `Queue`, the items from `tail` over `CbufSize` slots.

### CrsfBridge

`parser` holds both parsers, a record of the fields of `struct crsf_parser`;
`clock` is the single static clock of `parser()`. `sender` and `intact` belong to the
environment: how far each sender is in its packet, and whether the line was
undisturbed since a silence. Bytes are small numbers: 1 and 2 are lengths that
are too short, then the legal lengths, one that is too long, and an address. A
byte may be garbled, lost, or come in time. A checksum is right for an
undisturbed packet and arbitrary otherwise.

`shared` is what `process_tx_packet` did last: 0, or, with the flag set, how many
bytes it copied over the 22 bytes of the shared channels. The code takes any packet
of type 0x16 that is long enough and copies its whole payload, so a longer one goes
on over `num_channels` and the memory behind it. The model reaches that; what lies
there is not modelled.

Left out: the plain mode (bytes pass unparsed), the packet counters (printed by
an option only), the set-up of sockets, SIGINT.

### RotatorParser and ControlLink

`place` is `state` and `current_length` of `parse_byte` in one number: how many
bytes of a message the parser believes to have seen. `at` is how many of the
message on the wire have really been fed to it. The header bytes of a message are
what the sender puts there; a data byte is any byte, so that data can look like a
start of message, a header, or a message of the other type. The CRC is right for a
parser in step, wrong for one that is not, and either where a parser out of step
reaches the place of the CRC.

| Action | Code |
|---|---|
| `Socket`, `Connect` | `start_client`: a failed `connect` leaks its socket and sleeps |
| `ReadByte`, `ReadEnds`, `ReadError`, `Reply`, `Status`, `LowPowerEvent`, `Close`, `SigPipe` | `process_connection` with `parse_byte` and `send_status` |
| `Accept`, `Forward`, `StatusByte`, `PeerClosed`, `Drop` (in `Tick`) | `start_server` with `parse_byte` |
| `Tick` | a second: the polls time out or, at the antenna, are cut short by SIGALRM; `sleep`, `RestartSec` |
| `StationStops`, `StationStarts`, `AntennaDies`, `PowerLoss`, `NetChanges` | failures |

`conn` is the antenna's socket as its system calls meet it: a connection the
station has closed takes one write before it is reset, a reset is reported once,
and the write after that raises SIGPIPE. `peer` is the same for the station. A
connection may outlive either process. `tail` is where the last read of the pipe
(100 bytes, 17 in a message) cut a command: when the connection is closed then, the
next one begins with the rest of that command.

`alarm` is for how many seconds SIGALRM still comes. A command that writes the duty
cycle arms it (`set_pwm`, `set_timer`, in `ReadByte`), and the handler re-arms it ten
times, half a second apart. `poll` is not restarted by the kernel, and the branch for
EINTR goes back to it with a new second to wait and without a status: a `Tick` in
`poll` while `alarm` lasts (`Interrupted`) sends nothing. The one alarm of a delayed
switch-off lengthens one wait to a second and a half at most, which the two seconds of
the station outlast; it is not shown. `noted` is a history variable: a status was taken
in step on this connection, and no alarm has cut short a wait since.

Abstractions: a command in flight carries no value (what it does is in `Antenna`);
an antenna that vanished leaves its connection in the backlog unnoticed; a
network outage delays bytes and loses none, as TCP does; the five seconds of
`sleep` and of `RestartSec` are one `Tick`, whose length the properties do not tell
apart.

### CameraSignals, CameraStream, VideoStreamer, CameraService

The antenna's image runs camera-stream.py or video-streamer.cpp (whose recipe no
image installs at present); `Init` chooses one, and the other is absent.

In `CameraStream` `py` is the place inside a callback. Python runs a signal handler
between two bytecodes: `Usr1` and `Usr2` are enabled at every place, so
`self.pipeline` may have become `None` where a callback goes on to use it. `Abort`
is the exception: it ends a callback of the loop, and ends the process in the first
start, which runs outside of the loop. `own` says whether the timer of `timeout_id`
exists; `strays` counts the watchdogs whose identity was overwritten by a second
start. Two pending signals are taken in either order. A handler may be interrupted
by the other one too: `handling` is the one that has passed `if self.pipeline` of its
teardown, and what comes in the meantime may set the pipeline to `None` under it. Then
the outer handler raises AttributeError (`HandlerRaises`), which ends the callback it
has interrupted, or, in the idle loop, is printed or ends the loop. A third level of
handlers would add nothing: the inner one is over at once, in an order of signals that
is possible without it.

In `VideoStreamer` GLib runs signals and timers one after another in the main
loop, and `reader` is the second thread, which opens the device and pushes frames.
`src` may be that of a pipeline that was freed; to push into it is a crash.
`retries` is a set of timers, since `start_pipeline` returns nothing where GLib reads
whether to keep one. The watchdog of this program has its body commented out and is
left out.

### UsbMount, ConfigStore, StreamRecorder, StationServices

`UsbMount` has one script per drive, with a place for each command of usb-mount.sh
whose outcome another script can change. The unit is oneshot with
`RemainAfterExit`, so that systemd skips a start of an active unit. What runs the
scripts of one drive one after another is udev: its rule waits for `systemctl`, which
blocks until the script is over, and the next event of the same device is held until
then. (`systemctl stop` alone would kill a script that still mounts.) `job` is this
queue of events, in order. `mounted` is the mount table, `dirs` is `/media`, `helper`
is what mnthlp.c holds.

`ConfigStore` adds updater.sh to the script, and the station. `cpInto` says what
file the descriptor of a `cp` leads to while the handler of SIGHUP renames or
unlinks it. `stage` is how far the station's start is: between `store_pid` and
`signal` SIGHUP still kills it. The handler runs on the main thread, and on another
one while the main thread is in it; its own thread never holds a mutex that another
must release, except `main` at boot and the visualisation thread, and then it waits
for ever.

`StreamRecorder` is stream-view.py: `viewer` is `"sync"` while the loop is blocked
in `cleanup_recording_branch`, where a toggle waits and then runs before the flag is
cleared. A recording goes to the drive mounted at the mount point, or, when nothing
is mounted there, into the directory on the station's own disk (`littered`, which
keeps `rmdir` from removing it).

Left out: labels that `blkid` cannot read, the LED, `modprobe`, a toggle nested in
`start_recording`, the stdio and malloc calls of the SIGHUP handler (undefined in C
when they interrupt themselves), and which frequency a channel value selects.

## 3. The runs

| Run | Checks | Bounds |
|---|---|---|
| `antenna` | `TypeOK`, `HwInRange`, `SwitchPending`, `StoredIsInFile`, `CameraAgrees`; files may fail to open | duty cycles 1..3, positions -1..1, int -5..4, `AngleTicks` 2 |
| `antenna_live` | `NvPending`, `PositionSaved`, `PowerSettles`; files open | duty cycles 1..2, positions 0..1 |
| `antenna_angle` | **violated**: `AngleReported` | `AngleTicks` 10, as in the code |
| `antenna_power` | **violated**: `PowerReported` | |
| `station` | `TypeOK`, `OnlyGreetingStale` | two edges |
| `station_live` | `OperatorHeard`, `VanishedDropped`, `TermStops` | one edge |
| `station_stale` | **violated**: `LatestIsCurrent` | two edges |
| `circ_buf` | `TypeOK`, `Refines` | 3 slots, the number in the bridge; 3 packets |
| `crsf_bridge` | `TypeOK`, `WholePackets`, `InStep`, `IntactQueued` | payloads of 1 or 2 bytes, channels of 1 byte, 1 slot |
| `control_link` | `TypeOK`, `CleanResync`, `KilledWithInput`, `Processed`, `DropNeedsAlarm`, `Reconnects` | no timestamp, commands of 2 data bytes, statuses of 1; 1 message in flight to either end, 2 to the antenna after a cut command; alarms for 1 second, a timeout of 2; 1 leaked socket |
| `camera_service` | `TypeOK`, `StopHolds`, `WatchdogGuards`, `RunningHasSource`, `StreamsWhenOn` | 4 pending starts, 3 stray watchdogs, 2 retry timers |
| `station_services` | `TypeOK`, `HelperMounted`, `LockFreed`, `FlagTruth`, `RecordingEnds`, `ConfigCurrent` | two drives, 3 plug events, 3 toggles, 2 cleanup timers |

Why the bounds are enough:

- Three duty cycles have a minimum, a maximum and a centre. One tick moves the
  servo by one, a fast tick by two: moves reach both limits and overshoot them.
  Two ticks of fast move from the upper limit exceed `IntMax` = 4 and wrap.
- `AngleTicks` is 10 in the code. The handler distinguishes 0, 1 and more, and
  all three occur with 2. The proofs hold for every value of it.
- The number of commands, timer periods and crashes is not bounded: the
  reachable states are finite without that.
- Two edges give the reader two commands (a button edge gives up to three
  messages) while a greeting is under way, which is what an overtaking needs;
  an edge inside the debounce of another; an edge before and one after a
  reconnection. `station_live` has one edge: that a second edge is not lost is checked
  as safety (`OnlyGreetingStale`), not as a liveness property. Connections,
  disconnections and statuses are not bounded. The
  pipe holds eight messages and, with two edges, never fills (a full pipe is
  left out, see section 5). The counter only goes up, since a step back restores a
  position, and a stale command would be invisible.
- Three slots wrap and overrun from every position of the tail. In the bridge
  one slot is enough to find the buffer empty and full.
- Two payload lengths let a short packet follow a long one in the same buffer;
  the illegal lengths are one below, two below and one above. With `ChannelsLen` = 1
  the longer payload is longer than the channels it is copied over; the test for a
  payload that is too short is in the theorems only.

- Messages of a header, one or two data bytes and a CRC have every place of the protocol,
  and two let a whole false header, with a wrong type, fit between two real ones;
  the timestamp is data like the payload, and its length only makes messages
  longer. A command may be forwarded as soon as the one before is read, and in front
  of a greeting stands the rest of a cut command; one leaked socket is a limit that
  is reached. `Tails` has a read that ends with a command and one inside its header.
  A second of alarms, five in the code, and the second of the wait
  behind them are as long as the timeout; armed again by the next command, they outlast
  it. The theorem is for any number of seconds.
- Four pending starts are those of a signal, of the handler and of the callback it
  interrupts, and one more; three stray watchdogs see each other's restarts. A signal
  is sent only below these bounds.
- Two drives with one label ask for one mount point, and have two tables, one of
  which names no channel. Three plug events are two insertions with a removal
  between, before or behind. Three toggles are a recording, its end, and the next
  one during its `sync`. The station and the viewer share nothing but the drives:
  `MCInit` runs one of them at a time.

Deadlock is checked in every run but `station_services`, where plug events and
toggles are bounded and a station killed by SIGHUP at its start stays down: there
everything may come to rest. `Over` in `Station` is the end of a process that was
killed or has stopped, and nothing else may stop.

### What the runs show

- With any interleaving, open errors and crashes, the servo is driven only within
  its limits, even though the handler may save a position that is out of range;
  `nv_get_pwm` is what stops it, at the next start.
- The two delays share one timer safely: each is always counted and timed, and
  both end once the operator lets go.
- What the station's operator did is in a message to the antenna when the reader
  is idle, whatever the debounce, the flush and the reconnections; only the greeting
  of the main thread can come after it.
- A vanished antenna is dropped if it ever sent a status, and SIGTERM ends the
  process if the main thread was in `poll` or `accept`. Elsewhere the loop of
  line 588 may spin on a closed descriptor: the property says no more than the
  code does.
- The buffer implements the queue; no packet of the bridge is cut or overrun.
- One message whose data holds no start byte brings either parser in step for the
  rest of the connection, whatever the connection before left in it, the rest of a
  cut command included. It is the length of a message and the end of it that do
  this: the checks of the header only make it sooner.
- A live antenna on a network that works **is** dropped by STATUS_TIMEOUT, in two
  cases. After a move of the servo: SIGALRM restarts the antenna's `poll` every
  half second for five seconds, so that it answers the command and is then silent for
  up to six, while the station waits for two and a little. And before a status was
  taken in step: `status_timestamp` is not reset at `accept`, and the time of an
  earlier connection is held against the new one. `DropNeedsAlarm` says that there is
  no third: without an alarm in the wait the polls of the two ends, one second each,
  leave room, whichever times out first and whatever outage came before. No doc or
  comment of the repository states how often a status comes, so this is recorded as a
  hazard (antenna.c:506) and not as a disagreement.
- After any failure the two ends are connected again, through such drops too, with
  three premises the code does need. The servo comes to rest: each move starts the
  alarms again (`AtRest`; the greeting of a reconnection repeats the last position and
  moves nothing). A station that never had a status from anybody never drops a
  connection whose antenna vanished (`age # Never`). And a byte that is taken for a
  start of message while a parser is out of step, in every one of the short
  connections, would keep it out of step (`Dirty`). In step, data and CRCs may be any
  byte for ever.
- SIGPIPE ends the antenna only when it still had bytes to read as its connection
  was reset; the quiet ways of closing are survived.
- A stop of the camera holds when no start is owed. One that falls into the delay
  before a start, or before a retry, is undone by it, which `StopHolds` leaves out
  because it is what the code does.
- The mutex of the channel table is held only by somebody inside `load_config` or
  `get_chan_info`, with the exception that is in the code: `get_chan_info` returns with
  it for a table whose switch names no channel. `LockFreed` is about all other paths; it
  does not catch that leak, nor the handler that waits for its own thread.
- The red dot agrees with the recording, with the exception that is in the code: a
  recording begun during `sync` loses its dot when the `sync` of the last is over.
- A recording to a drive that was pulled ends, given that the file sink reports an
  error for such a drive each time.
- The mount point file names a mounted drive but for the instant between `umount`
  and the `echo` behind it.
- The table in memory is the installed one, with two exceptions the property names:
  two threads in the handler at once, and a copy that replaced the file between its
  load and its rename by one that does not parse.

The three violated runs are disagreements with what protocol.h says of its fields:

- `antenna_angle`: `set_pwm` compares with the value in the ini file, not with
  the value the chip was given. Move one tick up, then one tick down within five
  seconds: the second write is skipped, and the angle reported from then on is
  not the servo's.
- `antenna_power`: `update_low_power` loads the status bits, the handler
  switches the line off and clears POWER_BIT, the store brings the bit back.
- `station_stale`: the main thread composes the greeting, the reader sends a
  newer command, the greeting is written behind it.

### Fairness

- `Antenna`: the main program and the handler are scheduled
  (`WF(Step)`, `WF(Handler)`). That an armed timer expires is justified only
  when it is not re-armed for ever, so both liveness properties are stated under
  `Calm`: from some time on no command arrives and the process does not die.
  `Receive`, `PollTimeout` and `Crash` have no fairness.
- `Station`: both threads are scheduled and time passes (`WF(Reader)`,
  `WF(Main)`, `WF(DebounceExpires)`, `WF(StatusAges)`). The operator, the antenna
  and SIGTERM have none. `VanishedDropped` assumes that signals do not cut every
  wait of poll short (`PollWaits`), since each one starts the second of line 589
  again.
- `ControlLink`: both processes are scheduled and time passes (`WF(AntennaStep)`,
  `WF(StationStep)`, `WF(Tick)`). Failures, commands and edges have none.
  `Reconnects` is stated under `Calm`: failures end, no new command or edge comes,
  the network works, the station is up, the antenna was not killed by SIGPIPE (which
  systemd does not restart), the servo is at rest, the station once had a status, and
  while a parser is out of step no data byte is a start byte, nor a CRC that it takes
  for one. A parser in step may be fed any data, as real timestamps and CRCs are.
- `CameraService`: callbacks are dispatched, timers expire and systemd restarts
  what failed (`WF(PyStep)`, `WF(CxxMainStep)`, `WF(CxxReaderStep)`). Signals, errors
  and failures have none, and end in the premise of `StreamsWhenOn`.
- `StationServices`: scripts, the updater, the start of the station, the
  visualisation thread and the viewer's loop are scheduled (`WF`). The main thread
  gets a mutex that is released again and again (`SF(Handle("main"))`): a waiter of a
  futex is woken, and the visualisation thread sleeps between two frames. Plug
  events, toggles and deaths have none.

## 4. The proofs

`tlapm` proves all obligations of `AntennaProofs`, `CircBufProofs`,
`ControlLinkProofs`, `CrsfBridgeProofs`, `StationProofs`, `CameraServiceProofs` and
`StationServicesProofs`: every invariant that a passing run checks, every action
property and the refinement, for every value of the constants.
The assumptions are the ones on the constants, each named in the module that
declares it and evaluated by TLC in the runs: the limits are naturals with
`PwmMin < PwmMax`, the int holds them, positions are ints, `AngleTicks` is not 0,
the two marks for an absent and an empty file are not numbers; a payload has a
byte at least, and the header four (its definition); `Never` is not a number,
STATUS_TIMEOUT is two seconds or more, and the alarms last any number of them; buffer, pipe, timers
and messages in flight have
room for one; a step of the encoder is one up or one down; the factory table is one
that parses, and the marks for no drive, no file and an empty file are none of them.
The bounds that only keep the runs finite (edges, plug events, toggles) may be any
natural in the theorems.

**Antenna.** Three strengthenings, each saying what holds where the handler may
interrupt:

- `RangeInv` = `TypeOK`, `HwInRange` and `CurrentInRange`: `current_pwm` is in
  range except at `"clamp"` after a real move. Without it `HwInRange` is not
  inductive, since `MoveServo` writes `current_pwm`. It gives `TypeCorrect` and
  `ServoInRange`, for every position a station may send and every int width.
- `PowerInv` says, place by place, what a power line that differs from the
  switch waits for: the switch code of the main program, or a count of 1 with the
  timer armed. It needs `RangeInv` for the counts. It gives `SwitchOffPending`.
- `PendingInv` says the same of the position: the servo code of the main
  program, the handler's write, or a positive count with the timer armed. It gives
  `PositionPending`, under the assumption that files can be opened: with a failed
  open the code gives the save up until the next move.
- `StoredFaithful` is inductive as it stands. `CameraSignalled` is an action
  property proved action by action from `PowerInv`.

**CircBuf.** `TypeOK` is inductive; the lemmas `PutRoom`, `PutFull` and
`TakeOldest` say what a put and a take do to the slots, and `QueueSeq` that
`Queue` is a sequence. `Refinement` (`Spec => Refines`) follows: the initial state
is the empty queue, and each call is the call of the same name, for every number
of slots.

**ControlLink.** `LinkInv` is `TypeOK` with two strengthenings.

- `Sockets`: where the antenna is in its loops says whether it has a socket, and a
  connection that is not accepted has no byte of a stream behind it. Without it a
  restart that resets the parser could meet a stream in the middle of a message.
- `Streams` is what makes `CleanResync` inductive. Inside a message that has shown
  no start byte but its own, a parser is in step, or waits for a start byte, or is
  ahead of the stream by a whole header (`Follows`). The start byte of the message
  is data or an error to a parser out of step, which leaves it at 0 or behind the
  header; any other byte takes it on or back to 0, and it reaches its CRC before
  the stream does. So it stands at 0 when the message ends (`FedPlain`), and takes
  the next one from its start byte (`FedInStep`). That needs nothing of the lengths
  but that a message is longer than its header.

`LinkTypes` and `Resync` follow, for every length of payload and timestamp, where
the run has one or two bytes. `Acted` is an action property: only a byte moves a
stream in step (`WhoMoves`), and in step the last byte is a message with a right
CRC. `QuietSurvived` has an invariant of its own, `Killed`, and `DroppedByAlarm`
has `Noting`: once a status was taken in step, the station's parser is in step, so that
the next status that comes in whole is noted; and, until an alarm cuts a wait short,
with nothing on the way to the station the last status is of this second, or a second
old with the antenna about to write (`Silent`). A second that is not cut short can pass
only for an antenna in `poll` with its last status of this second, which makes it one
second old, whatever the queues hold and however often the network fails in between.
Only a second can end in the drop (`WhoDrops`), and it takes two of them.

**CrsfBridge.** `BridgeInv` is `LinesInv`, `BufferInv` and `SharedOK`: what is
copied over the shared channels fills them and is no longer than a payload.

- `LinesInv`: the fields of a parser agree with its state (`ParserOK`; that is why no
  byte is stored behind `MAX_PACKET`), and a parser whose packet is undisturbed
  stands where its sender does, with the length the sender chose (`Follows`). The
  clock is shared, so a silence that resets the parser of one line needs a silence of
  both: `AwakeOK` is the lemma on what the clock does to a parser, `ParseSource` and
  its kin on what a byte does in each state.
- `BufferInv`: what is buffered or written is a packet whose length is the one its
  second byte says. `TypeOK` alone does not give that, as the buffer keeps the bytes
  of an earlier, longer packet.

**Station.** `StationInv` is `TypeOK` with three parts.

- `TrailInv` is the property made inductive: while there is a connection, either the
  reader has yet to send (`Owed`), or the command of its present state is on the way,
  in the socket, the buffer of the main thread or the pipe, with nothing but greetings
  behind it (`Fresh(Trail, Command)`). The greeting itself is the third case: it may
  be the first message to carry that state.
- `ReaderInv`: an edge inside a debounce finds its switch still marked, so the flush
  cannot lose it; a message that is composed is not overtaken by an edge of its own
  thread. `MainInv`: `connect_status` is set from before the greeting is composed, so
  an edge that the reader drops for want of a connection is in the greeting.

**CameraService.** `CameraInv` has every invariant of the run, and what they lean on:

- `OneProgram`: the half of the state that belongs to the other program is at rest.
- `StartsFit`: a start that waits, one of a pending SIGUSR1, one of a handler inside its
  teardown and one of the callback under it have room together. `TypeOK`
  alone would let a callback schedule a start
  too many.
- `Guarded`: a pipeline about to play has the timer of `timeout_id` (a handler that
  ran inside the callback may have replaced it, or have torn the pipeline down), and
  the restart has none when it schedules its start. `NotTwice` is the same for
  `create` of video-streamer, whose retry timer outlives a stop.

**StationServices.** `ServicesInv` is `TypeOK`, `HelperMounted`, `LockFreed`, and two
strengthenings.

- `Scripts`: what the place of a script says of its drive. A script that is about to
  tell the kernel module a mount point has its drive mounted there, and a drive is
  mounted by one script only. `HelperMounted` rests on it, for drives that share the
  one file.
- `RecordingInv`: a recording that runs during `sync` was begun in it, and a viewer
  that is down records nothing.

The theorems of `StationServices` are about its `Spec`. The run starts from
`MCInit`, a part of the initial states of `Spec`, and takes the same steps, so they
hold of it too.

The theorems prove what the models say. Three things in the models a reader should
have in mind. The `Tick` of `ControlLink` lets all work of a second be done before
the second passes, so an antenna that is stopped for seconds is not in it. A
connection keeps the order of its bytes, which is TCP's promise and not the code's.
And a handler of Python runs between two steps of a callback or of another handler,
not inside a call.

**Only model-checked**: liveness (`PositionSaved`, `PowerSettles`,
`OperatorHeard`, `VanishedDropped`, `TermStops`, `Reconnects`, `StreamsWhenOn`,
`RecordingEnds`, `ConfigCurrent`), which needs ENABLED and is out of the prover's
reach. No module declares a RECURSIVE operator or needs an induction over data: the
parsers and the buffers are state machines, and their lemmas are about one byte, one
put or one take.

## 5. Not modelled, and the plan

1. An abstract specification of what `Station` promises, a register whose last value
   the antenna hears in the end, with the refinement proved from `StationInv`; and the
   same for the stop and start of the two cameras, from `CameraInv`.
2. A full pipe between the threads of the station (the main thread would wait on
   the pipe only it drains): it takes thousands of commands against a peer that
   stops reading.

Not modelled:

- The value of commands across a restart of the station, which counts from zero
  while the antenna remembers `last_position`: `Antenna` takes any position as the
  next command, so every jump is in it, and no text says where it should end.
- The quadrature decoding of the encoder: a table of two bits with no state that
  the models of `Station` do not have as an edge.
- Drawing, GStreamer graphs, the conversion of frames, the selection of a band by a
  channel value: output without control. The first frame drawn after
  `get_chan_info` returned -1 shows what the stack held.
- The plain mode of the bridge, CRC, logging, the clock, the mapping of shared
  memory: pure functions or pass-through.
- Recipes, images, start-up scripts: they run at build time, or once.

## 6. Running

    tlc -workers 2 -config MCAntenna.cfg MCAntenna
    tlapm AntennaProofs.tla

and likewise for the other configurations and the other proof modules. The longest
run takes about three minutes with two workers.
