---------------------------- MODULE CameraStream -----------------------------
(***************************************************************************)
(* camera-stream.py: the program that streams the camera of the antenna.   *)
(*                                                                         *)
(* One thread runs the GLib loop.  The handlers of SIGUSR1 (tear down and  *)
(* start again) and of SIGUSR2 (tear down) run between any two statements  *)
(* of a callback, and of one another, so self.pipeline may be gone when it *)
(* is used: then AttributeError ends the callback, or, in the first start, *)
(* the process.  py is the place in the callback that runs, handling the   *)
(* signal whose handler has interrupted it.                                *)
(***************************************************************************)
EXTENDS CameraSignals

CONSTANTS MaxStarts,    \* bound on the starts that wait for their timer
          MaxStrays     \* no signal once timeout_id has lost so many watchdogs

ASSUME CameraAssumption == MaxStarts \in Nat \ {0} /\ MaxStrays \in Nat \ {0}

VARIABLES
    py,          \* "off" or a place
    booting,     \* in the start_pipeline of run
    pipeline,    \* self.pipeline: "none", "new" or "playing"
    own,         \* the timer of timeout_id exists
    strays,      \* watchdog timers nobody knows any more
    starts,      \* timers that call start_pipeline
    handling     \* the handler that is behind `if self.pipeline`, or "none"

pyVars == <<py, booting, pipeline, own, strays, starts, handling>>

\* Places: "loop" no callback runs; "restart", "stopping", "schedule" in
\* stop_and_restart; "teardown", "create", "assigned", "setup", "bus", "watch",
\* "play" in start_pipeline, each before the statement it is named for.
PyStates == {"off", "absent", "loop", "restart", "stopping", "schedule",
             "teardown", "create", "assigned", "setup", "bus", "watch", "play"}
PyAlive == py \notin {"off", "absent"}

PyTypeOK == /\ py \in PyStates /\ booting \in BOOLEAN
            /\ pipeline \in {"none", "new", "playing"} /\ own \in BOOLEAN
            /\ strays \in Nat /\ starts \in 0..MaxStarts
            /\ handling \in Signals \cup {"none"}

PyAbsent == /\ py = "absent" /\ booting = FALSE /\ pipeline = "none"
            /\ own = FALSE /\ strays = 0 /\ starts = 0 /\ handling = "none"

PyInit == /\ py = "off" /\ booting = FALSE /\ pipeline = "none"
          /\ own = FALSE /\ strays = 0 /\ starts = 0 /\ handling = "none"

-----------------------------------------------------------------------------
(* The process. *)

\* systemd starts it, at first or again; main writes the PID file, with the
\* handlers in place, and begins its first start.
PyBoot == /\ py = "off"
          /\ py' = "create" /\ booting' = TRUE /\ Ordered
          /\ UNCHANGED <<pipeline, own, strays, starts>>

\* Room for the starts of a signal, of the handler and of the callback that run.
Room == starts + 2 + (IF handling = "usr1" THEN 1 ELSE 0) <= MaxStarts

\* The antenna sends a signal.
PySignal == /\ PyAlive /\ Room /\ strays < MaxStrays
            /\ \E s \in Signals : Sent(s)
            /\ UNCHANGED pyVars

\* _teardown_pipeline
Teardown == /\ pipeline' = "none"
            /\ own' = (own /\ pipeline = "none")

PyEnds == /\ py' = "off" /\ booting' = FALSE /\ pipeline' = "none"
          /\ own' = FALSE /\ strays' = 0 /\ starts' = 0

\* The exception of a callback that finds self.pipeline gone.
Abort == \/ booting /\ PyEnds
         \/ /\ ~booting /\ py' = "loop"
            /\ UNCHANGED <<booting, pipeline, own, strays, starts>>

-----------------------------------------------------------------------------
(* The signal handlers, at any place. *)

\* A handler that finds a pipeline stands behind `if self.pipeline` of
\* _teardown_pipeline until HandlerEnds, and the callback under it stands still.
\* A second one that comes in the meantime is over at once: one more inside it
\* would only leave what other signals in another order leave.
Interruptible == handling = "none" /\ pipeline # "none"

Usr1 == /\ PyAlive /\ StartTaken
        /\ \/ /\ Interruptible /\ handling' = "usr1"
              /\ UNCHANGED <<pipeline, own, starts>>
           \/ /\ ~Interruptible /\ Teardown /\ starts' = starts + 1
              /\ UNCHANGED handling
        /\ UNCHANGED <<py, booting, strays>>

NoStartOwed == py = "loop" /\ starts = 0 /\ handling # "usr1"
Usr2 == /\ PyAlive
        /\ \/ /\ Interruptible /\ StopTaken(FALSE) /\ handling' = "usr2"
              /\ UNCHANGED <<pipeline, own>>
           \/ /\ ~Interruptible /\ StopTaken(NoStartOwed) /\ Teardown
              /\ UNCHANGED handling
        /\ UNCHANGED <<py, booting, strays, starts>>

\* The rest of the handler.
HandlerReturns ==
    /\ Teardown
    /\ starts' = IF handling = "usr1" THEN starts + 1 ELSE starts
    /\ stopped' = (asked = "stop" /\ NoStartOwed)
    /\ UNCHANGED <<py, booting, strays>>

\* It finds the pipeline gone that another handler has torn down: the exception
\* ends the handler and the callback under it, and in the idle loop it is
\* printed or ends the loop.
HandlerRaises ==
    /\ pipeline = "none"
    /\ Abort \/ (py = "loop" /\ PyEnds)
    /\ stopped' = (asked = "stop" /\ starts' = 0)

HandlerEnds == /\ handling # "none" /\ handling' = "none"
               /\ HandlerReturns \/ HandlerRaises
               /\ UNCHANGED <<sig, asked>>

-----------------------------------------------------------------------------
(* The callbacks. *)

\* No statement of them runs while a handler does.
Callbacks == handling = "none" /\ UNCHANGED handling

\* bus_call: an error, or the end of the stream.
BusError == /\ py = "loop" /\ pipeline = "playing" /\ Room
            /\ py' = "restart"
            /\ UNCHANGED <<booting, pipeline, own, strays, starts,
                           sig, asked, stopped>>

BugWatchdogEnds == FALSE             \* mutant: restarts what was stopped
WatchdogEnds == pipeline = "none"    \* check_pipeline_activity: SOURCE_REMOVE

\* A watchdog goes off; both kinds are removed when they see no pipeline, and
\* when they restart it because no frame has come.
WatchdogGone == \/ own /\ own' = FALSE /\ UNCHANGED strays
                \/ strays > 0 /\ strays' = strays - 1 /\ UNCHANGED own
WatchdogIdle == /\ py = "loop" /\ WatchdogEnds
                /\ WatchdogGone
                /\ UNCHANGED <<py, booting, pipeline, starts, sig, asked, stopped>>
NoFrames == /\ py = "loop" /\ ~WatchdogEnds /\ Room
            /\ \/ own /\ UNCHANGED <<own, strays>>
               \/ strays > 0 /\ strays' = strays - 1 /\ UNCHANGED own
            /\ py' = "restart"
            /\ UNCHANGED <<booting, pipeline, starts, sig, asked, stopped>>

\* stop_and_restart: `if self.pipeline` in _teardown_pipeline.
Restart == /\ py = "restart"
           /\ py' = IF pipeline = "none" THEN "schedule" ELSE "stopping"
           /\ UNCHANGED <<booting, pipeline, own, strays, starts,
                          sig, asked, stopped>>

\* The rest of _teardown_pipeline in stop_and_restart.
Stopping == /\ py = "stopping"
            /\ IF pipeline = "none"
               THEN Abort
               ELSE /\ Teardown /\ py' = "schedule"
                    /\ UNCHANGED <<booting, strays, starts>>
            /\ UNCHANGED <<sig, asked, stopped>>

Schedule == /\ py = "schedule"
            /\ py' = "loop" /\ starts' = starts + 1
            /\ UNCHANGED <<booting, pipeline, own, strays, sig, asked, stopped>>

BugStartsLeft == starts          \* mutant: the timer calls it again and again
StartsLeft == starts - 1

\* A timer calls start_pipeline.
StartFires == /\ py = "loop" /\ starts > 0
              /\ starts' = StartsLeft
              /\ py' = IF pipeline = "none" THEN "create" ELSE "teardown"
              /\ UNCHANGED <<booting, pipeline, own, strays, sig, asked, stopped>>

StartTeardown == /\ py = "teardown"
                 /\ IF pipeline = "none"
                    THEN Abort
                    ELSE /\ Teardown /\ py' = "create"
                         /\ UNCHANGED <<booting, strays, starts>>
                 /\ UNCHANGED <<sig, asked, stopped>>

\* create_pipeline, and the assignment of what it returns.
Create(made) == /\ py = "create"
                /\ py' = "assigned" /\ pipeline' = made
                /\ UNCHANGED <<booting, own, strays, starts, sig, asked, stopped>>
Created == Create("new")
CreateFails == Create("none")

\* `if self.pipeline`: no pipeline, made or left, is tried again later.
Assigned == /\ py = "assigned"
            /\ \/ /\ pipeline # "none"
                  /\ py' = "setup" /\ UNCHANGED <<booting, starts>>
               \/ /\ pipeline = "none"
                  /\ py' = "loop" /\ booting' = FALSE /\ starts' = starts + 1
            /\ UNCHANGED <<pipeline, own, strays, sig, asked, stopped>>

\* _setup_pipeline
Setup == /\ py = "setup"
         /\ IF pipeline = "none"
            THEN py' = "loop" /\ booting' = FALSE
            ELSE py' = "bus" /\ UNCHANGED booting
         /\ UNCHANGED <<pipeline, own, strays, starts, sig, asked, stopped>>

Bus == /\ py = "bus"
       /\ IF pipeline = "none"
          THEN Abort
          ELSE py' = "watch" /\ UNCHANGED <<booting, pipeline, own, strays, starts>>
       /\ UNCHANGED <<sig, asked, stopped>>

BugWatchAdds == booting              \* mutant: only for the first pipeline
WatchAdds == TRUE

\* timeout_id is overwritten; a timer it named goes on.
Watch == /\ py = "watch"
         /\ py' = "play" /\ own' = WatchAdds
         /\ strays' = IF own THEN strays + 1 ELSE strays
         /\ UNCHANGED <<booting, pipeline, starts, sig, asked, stopped>>

Play == /\ py = "play"
        /\ IF pipeline = "none"
           THEN Abort
           ELSE /\ py' = "loop" /\ booting' = FALSE /\ pipeline' = "playing"
                /\ UNCHANGED <<own, strays, starts>>
        /\ UNCHANGED <<sig, asked, stopped>>

-----------------------------------------------------------------------------
PyStep == \/ Usr1 \/ Usr2 \/ HandlerEnds
          \/ /\ Callbacks
             /\ \/ PyBoot \/ WatchdogIdle \/ Restart \/ Stopping \/ Schedule
                \/ StartFires \/ StartTeardown \/ Created \/ Assigned
                \/ Setup \/ Bus \/ Watch \/ Play

PyDisturbed == \/ PySignal
               \/ Callbacks /\ (BusError \/ NoFrames \/ CreateFails)

PyNext == PyStep \/ PyDisturbed

PyStreams == pipeline = "playing"
=============================================================================
