--------------------------- MODULE StreamRecorder ----------------------------
(***************************************************************************)
(* stream-view.py: recording the video to the drive whose mount point the  *)
(* kernel module holds.  The record button of the station toggles it by    *)
(* SIGUSR1; a flag in shared memory makes the station draw a red dot.      *)
(*                                                                         *)
(* Stopping sends the end of the stream and leaves the rest to a timer of  *)
(* 10 ms, which blocks in `sync` before it clears the flag.                *)
(***************************************************************************)
EXTENDS UsbMount

CONSTANTS MaxToggles,  \* bound on the toggles
          MaxCleanups  \* bound on the timers that call cleanup_recording_branch

NoDrive == "none"                \* no file, or one in /media itself

ASSUME RecorderAssumption == /\ MaxToggles \in Nat /\ MaxCleanups \in Nat \ {0}
                             /\ NoDrive \notin Drives

VARIABLES
    viewer,      \* "off" (its unit is stopped), "down", "loop", or "sync" in
                 \* cleanup_recording_branch
    toggles,     \* toggles so far
    toggled,     \* SIGUSR1 is pending
    is_recording,
    elements,    \* record_elements: "none", "linked", or "stuck" unlinked
    target,      \* the drive the file is on
    flag,        \* shared_buffer.recording
    cleanups,    \* pending timers
    resumed      \* a recording began while the last one was synced

recorderVars == <<viewer, toggles, toggled, is_recording, elements, target,
                  flag, cleanups, resumed>>

RecorderTypeOK ==
    /\ viewer \in {"off", "down", "loop", "sync"} /\ toggles \in 0..MaxToggles
    /\ toggled \in BOOLEAN /\ is_recording \in BOOLEAN
    /\ elements \in {"none", "linked", "stuck"}
    /\ target \in Drives \cup {NoDrive}
    /\ flag \in BOOLEAN /\ cleanups \in 0..MaxCleanups /\ resumed \in BOOLEAN

Running == {"loop", "sync"}

RecorderCleared == /\ is_recording = FALSE /\ elements = "none"
                   /\ target = NoDrive /\ cleanups = 0
RecorderInit == /\ viewer \in {"off", "down"} /\ toggles = 0 /\ toggled = FALSE
                /\ flag = FALSE /\ resumed = FALSE /\ RecorderCleared

BugFlagAtStart == flag               \* mutant: the flag is left as it is
FlagAtStart == FALSE
\* The constructor clears the flag that the process before has left.
ViewerStarts ==
    /\ viewer = "down"
    /\ viewer' = "loop" /\ flag' = FlagAtStart /\ resumed' = FALSE
    /\ UNCHANGED <<usbVars, toggles, toggled, is_recording, elements, target,
                   cleanups>>

ViewerDies ==
    /\ viewer \in Running
    /\ viewer' = "down" /\ toggled' = FALSE /\ is_recording' = FALSE
    /\ elements' = "none" /\ target' = NoDrive /\ cleanups' = 0
    /\ UNCHANGED <<usbVars, toggles, flag, resumed>>

\* The record button of station.c, at the end of its debounce.
Toggle ==
    /\ viewer \in Running /\ toggles < MaxToggles
    /\ toggles' = toggles + 1 /\ toggled' = TRUE
    /\ UNCHANGED <<usbVars, viewer, is_recording, elements, target, flag,
                   cleanups, resumed>>

-----------------------------------------------------------------------------
(* toggle_recording, run by the signal between two statements; while `sync` *)
(* runs it waits for its end.                                               *)

CanRecord == helper # NoPoint /\ helper \in dirs

\* The file is on a drive that is mounted there, or in the directory itself.
OpenFile == \/ /\ target' \in {d \in Drives : mounted[d] = helper}
               /\ UNCHANGED littered
            \/ /\ ~InUse(helper) /\ target' = NoDrive
               /\ littered' = littered \cup {helper}

StartRecording ==
    /\ toggled /\ viewer \in Running /\ ~is_recording
    /\ toggled' = FALSE
    /\ \/ /\ ~CanRecord
          /\ UNCHANGED <<is_recording, elements, target, flag, resumed, littered>>
       \/ /\ CanRecord /\ elements = "none"
          /\ is_recording' = TRUE /\ elements' = "linked" /\ flag' = TRUE
          /\ OpenFile
          /\ resumed' = (viewer = "sync")
       \/ /\ CanRecord                  \* a link fails, and then every one
          /\ elements' = "stuck"
          /\ UNCHANGED <<is_recording, target, flag, resumed, littered>>
    /\ UNCHANGED <<plugged, plugs, job, unit, script, point, mounted, dirs,
                   helper, viewer, toggles, cleanups>>

StopRecording == /\ cleanups < MaxCleanups
                 /\ cleanups' = cleanups + 1

ToggleOff ==
    /\ toggled /\ viewer \in Running /\ is_recording
    /\ toggled' = FALSE
    /\ StopRecording
    /\ UNCHANGED <<usbVars, viewer, toggles, is_recording, elements, target,
                   flag, resumed>>

\* The file cannot be written: an error message of the file-sink.
BugSinkStops == UNCHANGED cleanups   \* mutant: the error is only printed
SinkStops == StopRecording
SinkError ==
    /\ viewer = "loop" /\ is_recording /\ cleanups = 0
    /\ target \in Drives \ plugged
    /\ SinkStops
    /\ UNCHANGED <<usbVars, viewer, toggles, toggled, is_recording, elements,
                   target, flag, resumed>>

-----------------------------------------------------------------------------
(* cleanup_recording_branch *)

BugCleanupGuard == TRUE              \* mutant: does not ask is_recording
CleanupGuard == is_recording
Cleanup ==
    /\ viewer = "loop" /\ cleanups > 0
    /\ cleanups' = cleanups - 1
    /\ IF CleanupGuard
       THEN /\ elements' = "none" /\ is_recording' = FALSE
            /\ target' = NoDrive /\ viewer' = "sync" /\ resumed' = FALSE
       ELSE UNCHANGED <<elements, is_recording, target, viewer, resumed>>
    /\ UNCHANGED <<usbVars, toggles, toggled, flag>>

\* A SIGUSR1 of the time of `sync` is handled before the flag is cleared.
Synced ==
    /\ viewer = "sync" /\ ~toggled
    /\ viewer' = "loop" /\ flag' = FALSE
    /\ UNCHANGED <<usbVars, toggles, toggled, is_recording, elements, target,
                   cleanups, resumed>>

RecorderStep == \/ ViewerStarts \/ StartRecording \/ ToggleOff \/ SinkError
                \/ Cleanup \/ Synced
=============================================================================
