------------------------ MODULE StationServicesProofs -------------------------
(***************************************************************************)
(* What the services around a USB drive promise for any set of drives,     *)
(* labels and files, and any number of plug events and toggles.            *)
(***************************************************************************)
EXTENDS StationServices, TLAPS

USE DriveAssumption, FileAssumption, RecorderAssumption

-----------------------------------------------------------------------------
(* The invariant. *)

\* What the place of a script says: it has a mount point from mkdir on, which
\* is where its drive is mounted when it is told to the kernel module; a drive
\* is mounted at most once; updater.sh copies a file that is there.
ScriptAt(d) ==
    /\ script[d] \in {"mkdir", "mount", "helper"} => point[d] \in Points
    /\ script[d] = "helper" => mounted[d] = point[d]
    /\ script[d] \in {"label", "mkdir", "mount", "clear", "rmdir"}
          => mounted[d] = NoPoint
    /\ script[d] = "idle" /\ unit[d] # "active" => mounted[d] = NoPoint
    /\ script[d] = "copy" => FileOn[d] \in Files
Scripts == \A d \in Drives : ScriptAt(d)

\* A recording that runs during `sync` was begun during it, and a viewer that
\* does not run records nothing.
RecordingInv == /\ FlagTruth
                /\ viewer = "sync" => (is_recording => resumed)
                /\ viewer \in {"off", "down"} => ~is_recording

ServicesInv == TypeOK /\ Scripts /\ HelperMounted /\ LockFreed /\ RecordingInv

-----------------------------------------------------------------------------
(* The scripts of the drives. *)

\* A step of the scripts of d, or of udev and systemd for it.
DriveStep(d) == Plug(d) \/ UsbStep(d) \/ UpdaterStep(d)

\* An event joins the queue of udev or leaves it.
LEMMA EventQueue ==
  ASSUME NEW S, NEW q \in Seq(S)
  PROVE  /\ \A e \in S : Append(q, e) \in Seq(S)
         /\ q # << >> => Tail(q) \in Seq(S)
  OBVIOUS

LEMMA DriveTypes ==
  ASSUME UsbTypeOK, Scripts, NEW d \in Drives, DriveStep(d)
  PROVE  UsbTypeOK'
<1> USE DEF UsbTypeOK, Scripts, ScriptAt, AddPlaces, RemovePlaces
<1>1. CASE Plug(d)
  <2>1. /\ Append(job[d], "start") \in Seq({"start", "stop"})
        /\ Append(job[d], "stop") \in Seq({"start", "stop"})
    BY EventQueue
  <2>2. job' \in [Drives -> Seq({"start", "stop"})]
    BY <1>1, <2>1 DEF Plug
  <2> QED
    BY <1>1, <2>2 DEF Plug
<1>2. CASE RunJob(d)
  <2>1. Tail(job[d]) \in Seq({"start", "stop"})
    BY <1>2, EventQueue DEF RunJob
  <2>2. job' \in [Drives -> Seq({"start", "stop"})]
    BY <1>2, <2>1 DEF RunJob
  <2> QED
    BY <1>2, <2>2 DEF RunJob
<1>3. CASE PickPoint(d)
  BY <1>3 DEF PickPoint, Goes, Points
<1>4. CASE Mkdir(d)
  BY <1>4 DEF Mkdir, Goes
<1>5. CASE Mount(d)
  BY <1>5 DEF Mount, Goes
<1>6. CASE MountFails(d)
  BY <1>6 DEF MountFails, Ends
<1>7. CASE WriteHelper(d)
  BY <1>7 DEF WriteHelper, Goes
<1>8. CASE Umount(d)
  BY <1>8 DEF Umount, Goes, UmountNext
<1>9. CASE ClearHelper(d)
  BY <1>9 DEF ClearHelper, Goes
<1>10. CASE Rmdir(d)
  BY <1>10 DEF Rmdir, Ends
<1>11. CASE Diff(d)
  BY <1>11 DEF Diff, Ends
<1>12. CASE Copy(d)
  BY <1>12 DEF Copy, Goes
<1>13. CASE KillHup(d)
  BY <1>13 DEF KillHup, Ends
<1> QED
  BY <1>1, <1>2, <1>3, <1>4, <1>5, <1>6, <1>7, <1>8, <1>9, <1>10, <1>11, <1>12, <1>13
     DEF DriveStep, UsbStep, UpdaterStep

LEMMA DriveScripts ==
  ASSUME UsbTypeOK, Scripts, ConfigTypeOK, NEW d \in Drives, DriveStep(d)
  PROVE  Scripts'
<1> USE DEF UsbTypeOK, Scripts, ScriptAt
<1>1. CASE Plug(d)
  BY <1>1 DEF Plug
<1>2. CASE RunJob(d)
  BY <1>2 DEF RunJob
<1>3. CASE PickPoint(d)
  BY <1>3 DEF PickPoint, Goes, Points
<1>4. CASE Mkdir(d)
  BY <1>4 DEF Mkdir, Goes
<1>5. CASE Mount(d)
  BY <1>5 DEF Mount, Goes
<1>6. CASE MountFails(d)
  BY <1>6 DEF MountFails, Ends
<1>7. CASE WriteHelper(d)
  BY <1>7 DEF WriteHelper, Goes
<1>8. CASE Umount(d)
  BY <1>8 DEF Umount, Goes, UmountNext
<1>9. CASE ClearHelper(d)
  BY <1>9 DEF ClearHelper, Goes
<1>10. CASE Rmdir(d)
  BY <1>10 DEF Rmdir, Ends
<1>11. CASE Diff(d)
  BY <1>11 DEF Diff, Ends
<1>12. CASE Copy(d)
  BY <1>12 DEF Copy, Goes
<1>13. CASE KillHup(d)
  BY <1>13 DEF KillHup, Ends
<1> QED
  BY <1>1, <1>2, <1>3, <1>4, <1>5, <1>6, <1>7, <1>8, <1>9, <1>10, <1>11, <1>12, <1>13
     DEF DriveStep, UsbStep, UpdaterStep

LEMMA DriveHelper ==
  ASSUME UsbTypeOK, Scripts, HelperMounted, NEW d \in Drives, DriveStep(d)
  PROVE  HelperMounted'
<1> USE DEF UsbTypeOK, Scripts, ScriptAt, HelperMounted, InUse
<1>1. CASE Plug(d)
  BY <1>1 DEF Plug
<1>2. CASE RunJob(d)
  BY <1>2 DEF RunJob
<1>3. CASE PickPoint(d)
  BY <1>3 DEF PickPoint, Goes
<1>4. CASE Mkdir(d)
  BY <1>4 DEF Mkdir, Goes
<1>5. CASE Mount(d)
  BY <1>5 DEF Mount, Goes
<1>6. CASE MountFails(d)
  BY <1>6 DEF MountFails, Ends
<1>7. CASE WriteHelper(d)
  BY <1>7 DEF WriteHelper, Goes
<1>8. CASE Umount(d)
  BY <1>8 DEF Umount, Goes, UmountNext
<1>9. CASE ClearHelper(d)
  BY <1>9 DEF ClearHelper, Goes
<1>10. CASE Rmdir(d)
  BY <1>10 DEF Rmdir, Ends
<1>11. CASE Diff(d)
  BY <1>11 DEF Diff, Ends
<1>12. CASE Copy(d)
  BY <1>12 DEF Copy, Goes
<1>13. CASE KillHup(d)
  BY <1>13 DEF KillHup, Ends
<1> QED
  BY <1>1, <1>2, <1>3, <1>4, <1>5, <1>6, <1>7, <1>8, <1>9, <1>10, <1>11, <1>12, <1>13
     DEF DriveStep, UsbStep, UpdaterStep

-----------------------------------------------------------------------------
(* The table of channels. *)

ConfigFlags == hup \in BOOLEAN /\ drawing \in BOOLEAN

ConfigPlaces ==
    /\ installed \in Files \cup {Empty} /\ new \in Files \cup {Empty, NoFile}
    /\ cpInto \in [Drives -> {"none", "new", "installed", "unlinked"}]
    /\ stage \in Stages /\ handler \in [Threads -> HandlerPlaces]
    /\ owner \in Threads \cup {"none"} /\ config \in Good \cup {NoFile}

LEMMA ConfigTypeParts == ConfigTypeOK <=> ConfigFlags /\ ConfigPlaces
  BY DEF ConfigTypeOK, ConfigFlags, ConfigPlaces

\* A step of the threads of the station, or its start or death.
TableStep(t) == \/ Handle(t) \/ StationUpStep \/ StationDies
                \/ LookUp \/ LookedUp

LEMMA UpdaterFlags ==
  ASSUME ConfigFlags, NEW d \in Drives, UpdaterStep(d)
  PROVE  ConfigFlags'
<1> USE DEF ConfigFlags
<1>1. CASE Diff(d)
  BY <1>1, Zenon DEF Diff
<1>2. CASE Copy(d)
  BY <1>2, Zenon DEF Copy
<1>3. CASE KillHup(d)
  BY <1>3, Zenon DEF KillHup, Listening
<1> QED
  BY <1>1, <1>2, <1>3 DEF UpdaterStep

LEMMA UpdaterPlaces ==
  ASSUME ConfigPlaces, Scripts, NEW d \in Drives, UpdaterStep(d)
  PROVE  ConfigPlaces'
<1> USE DEF ConfigPlaces, Scripts, ScriptAt, Stages
<1>1. CASE Diff(d)
  BY <1>1 DEF Diff
<1>2. CASE Copy(d)
  BY <1>2 DEF Copy, Goes
<1>3. CASE KillHup(d)
  BY <1>3 DEF KillHup, Listening
<1> QED
  BY <1>1, <1>2, <1>3 DEF UpdaterStep

LEMMA UpdaterLock ==
  ASSUME LockFreed, NEW d \in Drives, UpdaterStep(d)
  PROVE  LockFreed'
<1> USE DEF LockFreed
<1>1. CASE Diff(d)
  BY <1>1 DEF Diff
<1>2. CASE Copy(d)
  BY <1>2 DEF Copy
<1>3. CASE KillHup(d)
  BY <1>3 DEF KillHup, Listening
<1> QED
  BY <1>1, <1>2, <1>3 DEF UpdaterStep

LEMMA TableFlags ==
  ASSUME ConfigFlags, NEW t \in Threads, TableStep(t)
  PROVE  ConfigFlags'
<1> USE DEF ConfigFlags
<1>1. CASE SigHup(t)
  BY <1>1, Zenon DEF SigHup, HandlerGoes
<1>2. CASE LoadNew(t)
  BY <1>2, Zenon DEF LoadNew, HandlerGoes, Parses
<1>3. CASE Rename(t)
  BY <1>3, Zenon DEF Rename, HandlerGoes, Moved
<1>4. CASE Unlink(t)
  BY <1>4, Zenon DEF Unlink, HandlerGoes, Moved
<1>5. CASE Reload(t)
  BY <1>5, Zenon DEF Reload, HandlerGoes, Parses, Reloaded
<1>6. CASE StationUp
  BY <1>6, Zenon DEF StationUp
<1>7. CASE BootLoad
  BY <1>7, Zenon DEF BootLoad
<1>8. CASE BootLoaded
  BY <1>8, Zenon DEF BootLoaded, Parses
<1>9. CASE StationDies
  BY <1>9, Zenon DEF StationDies
<1>10. CASE LookUp
  BY <1>10, Zenon DEF LookUp
<1>11. CASE LookedUp
  BY <1>11, Zenon DEF LookedUp, KeepsLock
<1> QED
  BY <1>1, <1>2, <1>3, <1>4, <1>5, <1>6, <1>7, <1>8, <1>9, <1>10, <1>11
     DEF TableStep, Handle, StationUpStep

LEMMA TablePlaces ==
  ASSUME ConfigPlaces, NEW t \in Threads, TableStep(t)
  PROVE  ConfigPlaces'
<1> USE DEF ConfigPlaces, Stages, HandlerPlaces, Threads
<1>1. CASE SigHup(t)
  BY <1>1 DEF SigHup, HandlerGoes
<1>2. CASE LoadNew(t)
  BY <1>2 DEF LoadNew, HandlerGoes, Parses
<1>3. CASE Rename(t)
  BY <1>3 DEF Rename, HandlerGoes, Moved
<1>4. CASE Unlink(t)
  BY <1>4 DEF Unlink, HandlerGoes, Moved
<1>5. CASE Reload(t)
  BY <1>5 DEF Reload, HandlerGoes, Parses, Reloaded
<1>6. CASE StationUp
  BY <1>6 DEF StationUp
<1>7. CASE BootLoad
  BY <1>7 DEF BootLoad
<1>8. CASE BootLoaded
  BY <1>8 DEF BootLoaded, Parses
<1>9. CASE StationDies
  BY <1>9 DEF StationDies
<1>10. CASE LookUp
  BY <1>10 DEF LookUp
<1>11. CASE LookedUp
  BY <1>11 DEF LookedUp, KeepsLock
<1> QED
  BY <1>1, <1>2, <1>3, <1>4, <1>5, <1>6, <1>7, <1>8, <1>9, <1>10, <1>11
     DEF TableStep, Handle, StationUpStep

LEMMA TableLock ==
  ASSUME LockFreed, NEW t \in Threads, TableStep(t)
  PROVE  LockFreed'
<1> USE DEF LockFreed
<1>1. CASE SigHup(t)
  BY <1>1 DEF SigHup, HandlerGoes
<1>2. CASE LoadNew(t)
  BY <1>2 DEF LoadNew, HandlerGoes, Parses
<1>3. CASE Rename(t)
  BY <1>3 DEF Rename, HandlerGoes, Moved
<1>4. CASE Unlink(t)
  BY <1>4 DEF Unlink, HandlerGoes, Moved
<1>5. CASE Reload(t)
  BY <1>5 DEF Reload, HandlerGoes, Parses, Reloaded
<1>6. CASE StationUp
  BY <1>6 DEF StationUp
<1>7. CASE BootLoad
  BY <1>7 DEF BootLoad
<1>8. CASE BootLoaded
  BY <1>8 DEF BootLoaded, Parses
<1>9. CASE StationDies
  BY <1>9 DEF StationDies
<1>10. CASE LookUp
  BY <1>10 DEF LookUp
<1>11. CASE LookedUp
  BY <1>11 DEF LookedUp, KeepsLock
<1> QED
  BY <1>1, <1>2, <1>3, <1>4, <1>5, <1>6, <1>7, <1>8, <1>9, <1>10, <1>11
     DEF TableStep, Handle, StationUpStep

-----------------------------------------------------------------------------
(* The recording. *)

RecorderFlags == /\ toggled \in BOOLEAN /\ is_recording \in BOOLEAN
                 /\ flag \in BOOLEAN /\ resumed \in BOOLEAN

RecorderPlaces ==
    /\ viewer \in {"off", "down", "loop", "sync"} /\ toggles \in 0..MaxToggles
    /\ elements \in {"none", "linked", "stuck"}
    /\ target \in Drives \cup {NoDrive} /\ cleanups \in 0..MaxCleanups

LEMMA RecorderTypeParts == RecorderTypeOK <=> RecorderFlags /\ RecorderPlaces
  BY DEF RecorderTypeOK, RecorderFlags, RecorderPlaces

\* A step of the viewer, its death, or the button.
ViewerStep == RecorderStep \/ ViewerDies \/ Toggle

LEMMA ViewerFlags ==
  ASSUME RecorderFlags, ViewerStep
  PROVE  RecorderFlags'
<1> USE DEF RecorderFlags
<1>1. CASE ViewerStarts
  BY <1>1, Zenon DEF ViewerStarts, FlagAtStart
<1>2. CASE StartRecording
  BY <1>2, Zenon DEF StartRecording, OpenFile
<1>3. CASE ToggleOff
  BY <1>3, Zenon DEF ToggleOff, StopRecording
<1>4. CASE SinkError
  BY <1>4, Zenon DEF SinkError, SinkStops, StopRecording
<1>5. CASE Cleanup
  BY <1>5, Zenon DEF Cleanup, CleanupGuard
<1>6. CASE Synced
  BY <1>6, Zenon DEF Synced
<1>7. CASE ViewerDies
  BY <1>7, Zenon DEF ViewerDies, Running
<1>8. CASE Toggle
  BY <1>8, Zenon DEF Toggle, Running
<1> QED
  BY <1>1, <1>2, <1>3, <1>4, <1>5, <1>6, <1>7, <1>8
     DEF ViewerStep, RecorderStep

LEMMA ViewerPlaces ==
  ASSUME RecorderPlaces, ViewerStep
  PROVE  RecorderPlaces'
<1> USE DEF RecorderPlaces
<1>1. CASE ViewerStarts
  BY <1>1 DEF ViewerStarts, FlagAtStart
<1>2. CASE StartRecording
  BY <1>2 DEF StartRecording, OpenFile
<1>3. CASE ToggleOff
  BY <1>3 DEF ToggleOff, StopRecording
<1>4. CASE SinkError
  BY <1>4 DEF SinkError, SinkStops, StopRecording
<1>5. CASE Cleanup
  BY <1>5 DEF Cleanup, CleanupGuard
<1>6. CASE Synced
  BY <1>6 DEF Synced
<1>7. CASE ViewerDies
  BY <1>7 DEF ViewerDies, Running
<1>8. CASE Toggle
  BY <1>8 DEF Toggle, Running
<1> QED
  BY <1>1, <1>2, <1>3, <1>4, <1>5, <1>6, <1>7, <1>8
     DEF ViewerStep, RecorderStep

LEMMA ViewerTruth ==
  ASSUME RecorderTypeOK, RecordingInv, ViewerStep
  PROVE  RecordingInv'
<1> USE DEF RecorderTypeOK, RecordingInv, FlagTruth, Running
<1>1. CASE ViewerStarts
  BY <1>1 DEF ViewerStarts, FlagAtStart
<1>2. CASE StartRecording
  <2>1. viewer \in {"loop", "sync"} /\ ~is_recording /\ viewer' = viewer
    BY <1>2 DEF StartRecording
  <2>2. CASE UNCHANGED <<is_recording, flag, resumed>>
    BY <2>1, <2>2
  <2>3. CASE is_recording' = TRUE /\ flag' = TRUE /\ resumed' = (viewer = "sync")
    BY <2>1, <2>3
  <2> QED
    BY <1>2, <2>2, <2>3 DEF StartRecording
<1>3. CASE ToggleOff
  BY <1>3 DEF ToggleOff, StopRecording
<1>4. CASE SinkError
  BY <1>4 DEF SinkError, SinkStops, StopRecording
<1>5. CASE Cleanup
  BY <1>5 DEF Cleanup, CleanupGuard
<1>6. CASE Synced
  BY <1>6 DEF Synced
<1>7. CASE ViewerDies
  BY <1>7 DEF ViewerDies, Running
<1>8. CASE Toggle
  BY <1>8 DEF Toggle, Running
<1> QED
  BY <1>1, <1>2, <1>3, <1>4, <1>5, <1>6, <1>7, <1>8
     DEF ViewerStep, RecorderStep

\* The viewer leaves the scripts alone; it may leave a file in a directory.
LEMMA ViewerDrives ==
  ASSUME UsbTypeOK, Scripts, HelperMounted, ViewerStep
  PROVE  UsbTypeOK' /\ Scripts' /\ HelperMounted'
<1>1. /\ UNCHANGED <<plugged, plugs, job, unit, script, point, mounted, dirs,
                     helper>>
      /\ littered' \subseteq dirs
  <2>1. CASE StartRecording
    BY <2>1 DEF StartRecording, OpenFile, CanRecord, UsbTypeOK
  <2>2. CASE ~StartRecording
    BY <2>2 DEF ViewerStep, RecorderStep, ViewerStarts, ToggleOff, SinkError,
                Cleanup, Synced, ViewerDies, Toggle, usbVars, UsbTypeOK
  <2> QED
    BY <2>1, <2>2
<1>2. UsbTypeOK'
  BY <1>1 DEF UsbTypeOK
<1>3. Scripts'
  BY <1>1 DEF Scripts, ScriptAt
<1>4. HelperMounted'
  BY <1>1 DEF HelperMounted, InUse
<1> QED
  BY <1>2, <1>3, <1>4

-----------------------------------------------------------------------------
(* All of them. *)

LEMMA DrivesKeep ==
  ASSUME ServicesInv, UsbNext
  PROVE  ServicesInv'
<1>1. UsbTypeOK' /\ Scripts' /\ HelperMounted'
  <2>1. PICK d \in Drives : Plug(d) \/ UsbStep(d)
    BY DEF UsbNext
  <2> QED
    BY <2>1, DriveTypes, DriveScripts, DriveHelper
       DEF DriveStep, ServicesInv, TypeOK
<1>2. UNCHANGED <<configVars, recorderVars>>
  BY DEF UsbNext
<1>3. ConfigTypeOK' /\ LockFreed'
  BY <1>2 DEF ServicesInv, TypeOK, ConfigTypeOK, LockFreed, configVars
<1>4. RecorderTypeOK' /\ RecordingInv'
  BY <1>2 DEF ServicesInv, TypeOK, RecorderTypeOK, RecordingInv, FlagTruth,
              recorderVars
<1> QED
  BY <1>1, <1>3, <1>4 DEF ServicesInv, TypeOK

LEMMA TableKeeps ==
  ASSUME ServicesInv, ConfigNext
  PROVE  ServicesInv'
<1>0. /\ UsbTypeOK /\ ConfigFlags /\ ConfigPlaces /\ ConfigTypeOK
      /\ Scripts /\ HelperMounted /\ LockFreed
  BY ConfigTypeParts DEF ServicesInv, TypeOK
<1>1. RecorderTypeOK' /\ RecordingInv'
  BY DEF ConfigNext, ServicesInv, TypeOK, RecorderTypeOK, RecordingInv,
         FlagTruth, recorderVars
<1>2. ASSUME NEW d \in Drives, UpdaterStep(d)
      PROVE  /\ UsbTypeOK' /\ Scripts' /\ HelperMounted'
             /\ ConfigFlags' /\ ConfigPlaces' /\ LockFreed'
  <2>1. UsbTypeOK' /\ Scripts' /\ HelperMounted'
    BY <1>0, <1>2, DriveTypes, DriveScripts, DriveHelper DEF DriveStep
  <2> QED
    BY <1>0, <1>2, <2>1, UpdaterFlags, UpdaterPlaces, UpdaterLock
<1>3. ASSUME NEW t \in Threads, TableStep(t)
      PROVE  /\ UsbTypeOK' /\ Scripts' /\ HelperMounted'
             /\ ConfigFlags' /\ ConfigPlaces' /\ LockFreed'
  <2>1. UNCHANGED usbVars
    BY <1>3 DEF TableStep, Handle, SigHup, LoadNew, Rename, Unlink, Reload,
                StationUpStep, StationUp, BootLoad, BootLoaded, StationDies,
                LookUp, LookedUp
  <2>2. UsbTypeOK' /\ Scripts' /\ HelperMounted'
    BY <1>0, <2>1 DEF UsbTypeOK, Scripts, ScriptAt, HelperMounted, InUse, usbVars
  <2> QED
    BY <1>0, <1>3, <2>2, TableFlags, TablePlaces, TableLock
<1>4. ConfigFlags' /\ ConfigPlaces' => ConfigTypeOK'
  BY DEF ConfigTypeOK, ConfigFlags, ConfigPlaces
<1>5. "main" \in Threads
  BY DEF Threads
<1> QED
  BY <1>1, <1>2, <1>3, <1>4, <1>5
     DEF ConfigNext, TableStep, ServicesInv, TypeOK

LEMMA RecorderKeeps ==
  ASSUME ServicesInv, RecorderNext
  PROVE  ServicesInv'
<1>1. ViewerStep /\ UNCHANGED configVars
  BY DEF RecorderNext, ViewerStep
<1>2. ConfigTypeOK' /\ LockFreed'
  BY <1>1 DEF ServicesInv, TypeOK, ConfigTypeOK, LockFreed, configVars
<1>3. UsbTypeOK' /\ Scripts' /\ HelperMounted'
  BY <1>1, ViewerDrives DEF ServicesInv, TypeOK
<1>4. RecorderFlags' /\ RecorderPlaces' /\ RecordingInv'
  BY <1>1, RecorderTypeParts, ViewerFlags, ViewerPlaces, ViewerTruth
     DEF ServicesInv, TypeOK
<1>5. RecorderTypeOK'
  BY <1>4 DEF RecorderTypeOK, RecorderFlags, RecorderPlaces
<1> QED
  BY <1>2, <1>3, <1>4, <1>5 DEF ServicesInv, TypeOK

LEMMA ServicesInit == Init => ServicesInv
<1> SUFFICES ASSUME Init PROVE ServicesInv
  OBVIOUS
<1> USE DEF Init
<1>1. UsbTypeOK /\ Scripts /\ HelperMounted
  BY DEF UsbInit, UsbTypeOK, Scripts, ScriptAt, HelperMounted
<1>2. ConfigPlaces /\ LockFreed
  BY DEF ConfigInit, ConfigPlaces, LockFreed, Stages, HandlerPlaces
<1>3. ConfigFlags /\ RecorderFlags
  BY Zenon DEF ConfigInit, RecorderInit, RecorderCleared, ConfigFlags,
               RecorderFlags
<1>4. RecorderPlaces /\ RecordingInv
  BY DEF RecorderInit, RecorderCleared, RecorderPlaces, RecordingInv, FlagTruth
<1> QED
  BY <1>1, <1>2, <1>3, <1>4, ConfigTypeParts, RecorderTypeParts
     DEF ServicesInv, TypeOK

LEMMA ServicesStutter == ServicesInv /\ UNCHANGED vars => ServicesInv'
<1> SUFFICES ASSUME ServicesInv, UNCHANGED vars PROVE ServicesInv'
  OBVIOUS
<1> USE DEF ServicesInv, TypeOK, vars
<1>1. UsbTypeOK' /\ Scripts' /\ HelperMounted'
  BY DEF UsbTypeOK, Scripts, ScriptAt, HelperMounted, InUse, usbVars
<1>2. ConfigTypeOK' /\ LockFreed'
  BY DEF ConfigTypeOK, LockFreed, configVars
<1>3. RecorderTypeOK' /\ RecordingInv'
  BY DEF RecorderTypeOK, RecordingInv, FlagTruth, recorderVars
<1> QED
  BY <1>1, <1>2, <1>3

LEMMA ServicesAlways == Spec => []ServicesInv
<1>1. ServicesInv /\ [Next]_vars => ServicesInv'
  BY DrivesKeep, TableKeeps, RecorderKeeps, ServicesStutter DEF Next
<1> QED
  BY ServicesInit, <1>1, PTL DEF Spec

-----------------------------------------------------------------------------
(* The theorems. *)

\* The variables have their types: a directory is only littered while it is
\* there, and no place but a mount point is ever made, mounted on or told to
\* the kernel module (usb-mount.sh, mntpoints_store).
THEOREM ServicesTypes == Spec => []TypeOK
<1>1. ServicesInv => TypeOK
  BY DEF ServicesInv
<1> QED
  BY <1>1, ServicesAlways, PTL

\* The mount point file names a point where a drive is mounted, but for the
\* moment between umount and the echo that clears it, for any number of drives
\* with any labels (usb-mount.sh).
THEOREM HelperAlwaysMounted == Spec => []HelperMounted
<1>1. ServicesInv => HelperMounted
  BY DEF ServicesInv
<1> QED
  BY <1>1, ServicesAlways, PTL

\* Nobody holds the mutex of the table outside load_config and get_chan_info,
\* but for a table whose channel is none (get_chan_info, load_config).
THEOREM LockAlwaysFreed == Spec => []LockFreed
<1>1. ServicesInv => LockFreed
  BY DEF ServicesInv
<1> QED
  BY <1>1, ServicesAlways, PTL

\* The red dot is shown for a recording that runs, and a recording that runs
\* has its red dot unless it was started while the last one was synced, for
\* any number of toggles and timers (set_recording_flag,
\* cleanup_recording_branch).
THEOREM FlagAlwaysTrue == Spec => []FlagTruth
<1>1. ServicesInv => FlagTruth
  BY DEF ServicesInv, RecordingInv
<1> QED
  BY <1>1, ServicesAlways, PTL
=============================================================================
