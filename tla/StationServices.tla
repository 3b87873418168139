--------------------------- MODULE StationServices ---------------------------
(***************************************************************************)
(* The services of the station around a USB drive: the scripts that mount  *)
(* it, the table of channels that it may bring, and the recording that     *)
(* goes to it.                                                             *)
(***************************************************************************)
EXTENDS ConfigStore, StreamRecorder

vars == <<usbVars, configVars, recorderVars>>

Init == UsbInit /\ ConfigInit /\ RecorderInit

UsbNext == /\ \E d \in Drives : Plug(d) \/ UsbStep(d)
           /\ UNCHANGED <<configVars, recorderVars>>

ConfigNext == /\ \/ \E d \in Drives : UpdaterStep(d)
                 \/ \E t \in Threads : Handle(t)
                 \/ StationUpStep \/ StationDies
                 \/ LookUp \/ LookedUp
              /\ UNCHANGED recorderVars

RecorderNext == /\ RecorderStep \/ ViewerDies \/ Toggle
                /\ UNCHANGED configVars

Next == UsbNext \/ ConfigNext \/ RecorderNext

\* The scripts run, the threads of the station are scheduled, systemd starts
\* what it starts, timers expire and messages are dispatched.
Fairness ==
    /\ \A d \in Drives :
          /\ WF_vars(UsbStep(d) /\ UNCHANGED <<configVars, recorderVars>>)
          /\ WF_vars(UpdaterStep(d) /\ UNCHANGED recorderVars)
    /\ WF_vars((StationUpStep \/ LookedUp) /\ UNCHANGED recorderVars)
    /\ SF_vars(Handle("main") /\ UNCHANGED recorderVars)
    /\ WF_vars(RecorderStep /\ UNCHANGED configVars)

Spec == Init /\ [][Next]_vars /\ Fairness

-----------------------------------------------------------------------------
TypeOK == UsbTypeOK /\ ConfigTypeOK /\ RecorderTypeOK

\* The mount point file names a point where a drive is mounted, but for the
\* moment between umount and the echo that clears it: else a recording goes to
\* the flash of the station (usb-mount.sh, start_recording).
HelperMounted ==
    helper # NoPoint => \/ InUse(helper)
                        \/ \E d \in Drives : script[d] = "clear"

\* Nobody holds the mutex of the table outside load_config and get_chan_info,
\* but for a table whose channel is none (get_chan_info, load_config).
LockFreed == owner # "none" => \/ owner = "main" /\ stage = "boot"
                               \/ owner = "vis" /\ (drawing \/ config \in Absent)

\* The red dot is shown for a recording that runs, and a recording that runs
\* has its red dot unless it was started while the last one was synced
\* (set_recording_flag, cleanup_recording_branch).
FlagTruth == viewer = "loop" => /\ flag => is_recording
                                /\ is_recording => flag \/ resumed

\* A recording on a drive that was pulled out ends (on_message, stop_recording,
\* cleanup_recording_branch).
RecordingEnds == (is_recording /\ target \in Drives \ plugged)
                     ~> (~is_recording \/ target \in plugged)

\* Two threads in the handler at a time.
Overlap == \E t, u \in Threads : t # u /\ handler[t] # "none" /\ handler[u] # "none"

\* Once drives stay where they are and the station stays up, with a mutex that
\* is released again and again, and if SIGHUP never came while it was handled,
\* the table in memory is the one that is installed, unless that is a file
\* that a copy replaced between its load and its rename by one that does not
\* parse (updater.sh, signal_handler, load_config).
ConfigCurrent ==
    (/\ []~Overlap /\ []<>(owner = "none") /\ <>[](stage = "run"))
        => <>[](config = installed \/ installed \notin Good)
=============================================================================
