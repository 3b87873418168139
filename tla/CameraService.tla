---------------------------- MODULE CameraService ----------------------------
(***************************************************************************)
(* The camera service of the antenna: one of the two programs, under the   *)
(* signals of the antenna and under systemd's Restart=on-failure.          *)
(***************************************************************************)
EXTENDS CameraStream, VideoStreamer

vars == <<sig, asked, stopped, pyVars, cxxVars>>

Init == /\ sig = {} /\ asked = "start" /\ stopped = FALSE
        /\ \/ PyInit /\ CxxAbsent
           \/ PyAbsent /\ CxxInit

Next == \/ PyNext /\ UNCHANGED cxxVars
        \/ CxxNext /\ UNCHANGED pyVars

\* Callbacks are dispatched, timers expire, systemd restarts what failed.
Spec == /\ Init /\ [][Next]_vars
        /\ WF_vars(PyStep /\ UNCHANGED cxxVars)
        /\ WF_vars(CxxMainStep /\ UNCHANGED pyVars)
        /\ WF_vars(CxxReaderStep /\ UNCHANGED pyVars)

-----------------------------------------------------------------------------
TypeOK == SignalTypeOK /\ PyTypeOK /\ CxxTypeOK

\* Once SIGUSR2 has been handled with no start under way or owed, nothing
\* streams and nothing is going to, until SIGUSR1 or a restart of the process:
\* watchdogs and bus messages left over do not revive the pipeline
\* (check_pipeline_activity, bus_call, signal_handler_usr2, stop_pipeline).
StopHolds ==
    stopped => /\ pipeline = "none" /\ starts = 0 /\ ~built /\ retries = 0
               /\ py \in {"off", "absent", "loop"}
               /\ cxx \in {"off", "absent", "loop"}

\* While the loop is idle, a pipeline that plays has a watchdog, whatever
\* signals cut into its start and into the restarts before it, and however
\* timeout_id was overwritten (_setup_pipeline, _teardown_pipeline).
WatchdogGuards ==
    (py = "loop" /\ pipeline # "none") => own \/ strays > 0

\* is_running says that there is a pipeline, which stop_pipeline relies on to
\* end it, and then the reader thread pushes into a source that exists
\* (start_pipeline, stop_pipeline, process_image).
RunningHasSource == /\ is_running <=> built
                    /\ is_running => src = "live"

\* When the last order was a start, and signals, errors and failures end, the
\* camera streams for good: through starts that a signal aborted, a first
\* start that ended the process, and retries (both programs).
StreamsWhenOn ==
    /\ (<>[][~PyDisturbed]_vars /\ <>[](PyAlive => asked = "start"))
           => (<>[](py = "absent" \/ PyStreams))
    /\ (<>[][~CxxDisturbed]_vars /\ <>[](CxxAlive => asked = "start"))
           => (<>[](cxx = "absent" \/ CxxStreams))
=============================================================================
