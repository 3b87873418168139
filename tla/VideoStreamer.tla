---------------------------- MODULE VideoStreamer ----------------------------
(***************************************************************************)
(* video-streamer.cpp: the other program that streams the camera.          *)
(*                                                                         *)
(* The GLib loop runs signals, bus messages and the retry timer one after  *)
(* another; a second thread reads frames from the device and pushes them   *)
(* into data->src, whatever the loop does with the pipeline.  An exit or a *)
(* crash ends both, and systemd starts the program again.                  *)
(***************************************************************************)
EXTENDS CameraSignals

CONSTANT MaxRetries    \* bound on the retry timers that exist at a time

ASSUME VideoAssumption == MaxRetries \in Nat \ {0}

VARIABLES
    cxx,         \* "off", or where the main thread is
    built,       \* data->pipeline is not NULL
    is_running,
    src,         \* data->src: "null", of a "live" pipeline, or "freed" with it
    retries,     \* timers that call start_pipeline
    reader       \* place of the reader thread

cxxVars == <<cxx, built, is_running, src, retries, reader>>

\* "window": the PID file names the process, and the signals still kill it;
\* "start": about to call start_pipeline; "create": in it; "loop".
CxxStates == {"off", "absent", "window", "start", "create", "loop"}
CxxAlive == cxx \notin {"off", "absent"}
ReaderStates == {"none", "open", "on", "poll", "push"}

CxxTypeOK == /\ cxx \in CxxStates /\ built \in BOOLEAN /\ is_running \in BOOLEAN
             /\ src \in {"null", "live", "freed"}
             /\ retries \in 0..MaxRetries /\ reader \in ReaderStates

CxxCleared == /\ built = FALSE /\ is_running = FALSE /\ src = "null"
              /\ retries = 0 /\ reader = "none"
CxxAbsent == cxx = "absent" /\ CxxCleared
CxxInit == cxx = "off" /\ CxxCleared

-----------------------------------------------------------------------------
(* The process. *)

CxxBoot == /\ cxx = "off"
           /\ cxx' = "window" /\ Ordered
           /\ UNCHANGED <<built, is_running, src, retries, reader>>

CxxSignal == /\ CxxAlive
             /\ \E s \in Signals : Sent(s)
             /\ UNCHANGED cxxVars

\* exit, an assertion, a signal without a handler: all but a clean exit.
Dies == /\ cxx' = "off" /\ built' = FALSE /\ is_running' = FALSE
        /\ src' = "null" /\ retries' = 0 /\ reader' = "none"
        /\ UNCHANGED <<sig, asked, stopped>>

KilledInWindow == cxx = "window" /\ sig # {} /\ Dies

\* The signal sources are attached.
Attach == /\ cxx = "window" /\ sig = {}
          /\ cxx' = "start"
          /\ UNCHANGED <<built, is_running, src, retries, reader,
                         sig, asked, stopped>>

-----------------------------------------------------------------------------
(* The main loop. *)

\* stop_pipeline
StopPipeline == /\ built' = FALSE
                /\ is_running' = (is_running /\ ~built)
                /\ src' = IF built THEN "freed" ELSE src

BugRunningGuard == FALSE             \* mutant: does not ask is_running
RunningGuard == is_running

\* start_pipeline: nothing to do, or a pipeline to be created.
StartPipeline == /\ cxx = "start"
                 /\ cxx' = IF RunningGuard THEN "loop" ELSE "create"
                 /\ UNCHANGED <<built, is_running, src, retries, reader,
                                sig, asked, stopped>>

\* main starts the reader behind its own start_pipeline.
ReaderStarts == reader' = IF reader = "none" THEN "open" ELSE reader

CreatePipeline == /\ cxx = "create"
                  /\ cxx' = "loop" /\ ReaderStarts
                  /\ built' = TRUE /\ is_running' = TRUE /\ src' = "live"
                  /\ UNCHANGED <<retries, sig, asked, stopped>>

BugRetryTimers == 0                  \* mutant: not tried again
RetryTimers == 1
CreatePipelineFails == /\ cxx = "create" /\ retries < MaxRetries
                       /\ cxx' = "loop" /\ ReaderStarts
                       /\ built' = FALSE /\ retries' = retries + RetryTimers
                       /\ UNCHANGED <<is_running, src, sig, asked, stopped>>

\* The timer's function returns nothing, where GLib reads whether to keep the
\* timer: kept or not is up to the build.
RetryFires == /\ cxx = "loop" /\ retries > 0
              /\ cxx' = "start"
              /\ retries' \in {retries, retries - 1}
              /\ UNCHANGED <<built, is_running, src, reader, sig, asked, stopped>>

\* bus_call: an error, or the end of the stream.
BusMessage == /\ cxx = "loop" /\ built
              /\ StopPipeline
              /\ cxx' = "start"
              /\ UNCHANGED <<retries, reader, sig, asked, stopped>>

SignalRestart == /\ cxx = "loop" /\ StartTaken
                 /\ StopPipeline
                 /\ cxx' = "start"
                 /\ UNCHANGED <<retries, reader>>

SignalStop == /\ cxx = "loop" /\ StopTaken(retries = 0)
              /\ StopPipeline
              /\ UNCHANGED <<cxx, retries, reader>>

-----------------------------------------------------------------------------
(* The reader thread. *)

ReaderGoes(from, to) == /\ reader = from
                        /\ reader' = to
                        /\ UNCHANGED <<cxx, built, is_running, src, retries,
                                       sig, asked, stopped>>

\* init_device and init_mmap; start_capturing; a frame is dequeued, converted,
\* pushed, and its buffer queued again.
InitDevice == ReaderGoes("open", "on")
StartCapturing == ReaderGoes("on", "poll")
ReadFrame == ReaderGoes("poll", "push")
Push == ReaderGoes("push", "poll")

\* No frame in 200 ms: stop_capturing, and the device is opened once more.
PollTimesOut == ReaderGoes("poll", "open")

\* An ioctl, open or mmap fails: exit(errno).  The device that is opened while
\* its old descriptor still holds the buffers is busy.
DeviceFails == reader # "none" /\ Dies

PushCrashes == src = "freed"         \* ... which may not be there any more
PushFreed == reader = "push" /\ PushCrashes /\ Dies

-----------------------------------------------------------------------------
CxxMainStep == \/ CxxBoot \/ KilledInWindow \/ Attach \/ StartPipeline
               \/ CreatePipeline \/ RetryFires \/ SignalRestart \/ SignalStop

CxxReaderStep == InitDevice \/ StartCapturing \/ ReadFrame \/ Push

CxxDisturbed == \/ CxxSignal \/ CreatePipelineFails \/ BusMessage
                \/ PollTimesOut \/ DeviceFails

CxxNext == CxxMainStep \/ CxxReaderStep \/ PushFreed \/ CxxDisturbed

\* Frames go into a pipeline that plays.
CxxStreams == is_running /\ src = "live" /\ reader \in {"poll", "push"}
=============================================================================
