------------------------------ MODULE UsbMount -------------------------------
(***************************************************************************)
(* The USB drives of the station: udev starts and stops the unit           *)
(* usb-mount@<drive>, whose script mounts the drive, tells its mount point *)
(* to the kernel module mnthlp and calls updater.sh, or unmounts it.       *)
(*                                                                         *)
(* The scripts of one drive run one after another, since udev holds the    *)
(* next event of a device until systemctl has returned for the last; those *)
(* of two drives run at the same time, over one mount table, one /media and*)
(* one mount point file.                                                   *)
(***************************************************************************)
EXTENDS Integers, FiniteSets, Sequences

CONSTANTS Drives,
          Label,       \* of the file system on a drive
          MaxPlugs     \* bound on the plug events

\* A mount point is made of the label and, where that is in use, of the device.
Plain(d) == <<Label[d]>>
Unique(d) == <<Label[d], d>>
Points == {Plain(d) : d \in Drives} \cup {Unique(d) : d \in Drives}
NoPoint == << >>

ASSUME DriveAssumption == MaxPlugs \in Nat

VARIABLES
    plugged,     \* drives in the sockets
    plugs,       \* number of plug events so far
    job,         \* calls of systemctl for a drive, "start" and "stop", to be made
    unit,        \* "inactive", "active" or "failed"
    script,      \* place in usb-mount.sh, or in the updater.sh it calls
    point,       \* MOUNT_POINT of the script
    mounted,     \* the mount table: where a drive is
    dirs,        \* directories of /media
    littered,    \* those that hold files themselves, under no mount
    helper       \* mount_point of the kernel module

usbVars == <<plugged, plugs, job, unit, script, point, mounted, dirs,
             littered, helper>>

AddPlaces == {"label", "mkdir", "mount", "helper", "update", "copy", "kill"}
RemovePlaces == {"umount", "clear", "rmdir"}

UsbTypeOK ==
    /\ plugged \subseteq Drives /\ plugs \in 0..MaxPlugs
    /\ job \in [Drives -> Seq({"start", "stop"})]
    /\ unit \in [Drives -> {"inactive", "active", "failed"}]
    /\ script \in [Drives -> {"idle"} \cup AddPlaces \cup RemovePlaces]
    /\ point \in [Drives -> Points \cup {NoPoint}]
    /\ mounted \in [Drives -> Points \cup {NoPoint}]
    /\ dirs \subseteq Points /\ littered \subseteq dirs
    /\ helper \in Points \cup {NoPoint}

UsbInit ==
    /\ plugged = {} /\ plugs = 0
    /\ job = [d \in Drives |-> << >>] /\ unit = [d \in Drives |-> "inactive"]
    /\ script = [d \in Drives |-> "idle"]
    /\ point = [d \in Drives |-> NoPoint]
    /\ mounted = [d \in Drives |-> NoPoint]
    /\ dirs = {} /\ littered = {} /\ helper = NoPoint

InUse(p) == \E d \in Drives : mounted[d] = p

\* The script of d goes from one place to another.
Goes(d, from, to) == script[d] = from /\ script' = [script EXCEPT ![d] = to]

-----------------------------------------------------------------------------
(* udev and systemd. *)

\* A drive is plugged in or pulled out: an event for udev, in order.
Plug(d) ==
    /\ plugs < MaxPlugs /\ plugs' = plugs + 1
    /\ \/ /\ d \notin plugged /\ plugged' = plugged \cup {d}
          /\ job' = [job EXCEPT ![d] = Append(@, "start")]
       \/ /\ d \in plugged /\ plugged' = plugged \ {d}
          /\ job' = [job EXCEPT ![d] = Append(@, "stop")]
    /\ UNCHANGED <<unit, script, point, mounted, dirs, littered, helper>>

\* The systemctl of an event blocks until the script is over, and udev keeps
\* the next event of the drive until then.  Starting an active unit and
\* stopping another does nothing; a script that fails in its start has no
\* ExecStop.
RunJob(d) ==
    /\ job[d] # << >> /\ script[d] = "idle"
    /\ job' = [job EXCEPT ![d] = Tail(@)]
    /\ CASE Head(job[d]) = "start" /\ unit[d] # "active" ->
                /\ script' = [script EXCEPT ![d] = "label"]
                /\ UNCHANGED unit
         [] Head(job[d]) = "stop" /\ unit[d] = "active" ->
                /\ script' = [script EXCEPT ![d] = "umount"]
                /\ UNCHANGED unit
         [] OTHER ->
                /\ unit' = [unit EXCEPT ![d] =
                                IF Head(job[d]) = "stop" THEN "inactive" ELSE @]
                /\ UNCHANGED script
    /\ UNCHANGED <<plugged, plugs, point, mounted, dirs, littered, helper>>

Ends(d, state) == /\ script' = [script EXCEPT ![d] = "idle"]
                  /\ unit' = [unit EXCEPT ![d] = state]

-----------------------------------------------------------------------------
(* do_mount *)

\* The label, unless the mount table has it already.
PickPoint(d) ==
    /\ Goes(d, "label", "mkdir")
    /\ point' = [point EXCEPT ![d] =
                     IF InUse(Plain(d)) THEN Unique(d) ELSE Plain(d)]
    /\ UNCHANGED <<plugged, plugs, job, unit, mounted, dirs, littered, helper>>

Mkdir(d) ==
    /\ Goes(d, "mkdir", "mount")
    /\ dirs' = dirs \cup {point[d]}
    /\ UNCHANGED <<plugged, plugs, job, unit, point, mounted, littered, helper>>

Mount(d) ==
    /\ d \in plugged /\ point[d] \in dirs
    /\ Goes(d, "mount", "helper")
    /\ mounted' = [mounted EXCEPT ![d] = point[d]]
    /\ UNCHANGED <<plugged, plugs, job, unit, point, dirs, littered, helper>>

\* The drive is gone, or the directory is, which another script found empty;
\* rmdir leaves a directory that is mounted on.
MountFails(d) ==
    /\ script[d] = "mount" /\ (d \notin plugged \/ point[d] \notin dirs)
    /\ Ends(d, "failed")
    /\ dirs' = IF InUse(point[d]) THEN dirs
               ELSE dirs \ ({point[d]} \ littered)
    /\ UNCHANGED <<plugged, plugs, job, point, mounted, littered, helper>>

\* mntpoints_store
WriteHelper(d) ==
    /\ Goes(d, "helper", "update")
    /\ helper' = point[d]
    /\ UNCHANGED <<plugged, plugs, job, unit, point, mounted, dirs, littered>>

-----------------------------------------------------------------------------
(* do_unmount *)

BugUmountNext == "rmdir"             \* mutant: the mount point stays
UmountNext == "clear"
Umount(d) ==
    /\ Goes(d, "umount", UmountNext)
    /\ mounted' = [mounted EXCEPT ![d] = NoPoint]
    /\ UNCHANGED <<plugged, plugs, job, unit, point, dirs, littered, helper>>

\* Whatever the file says, of this drive or of another.
ClearHelper(d) ==
    /\ Goes(d, "clear", "rmdir")
    /\ helper' = NoPoint
    /\ UNCHANGED <<plugged, plugs, job, unit, point, mounted, dirs, littered>>

\* Every empty directory that is not mounted on.
Rmdir(d) ==
    /\ script[d] = "rmdir"
    /\ Ends(d, "inactive")
    /\ dirs' = {p \in dirs : InUse(p) \/ p \in littered}
    /\ UNCHANGED <<plugged, plugs, job, point, mounted, littered, helper>>

UsbStep(d) == \/ RunJob(d) \/ PickPoint(d) \/ Mkdir(d) \/ Mount(d)
              \/ MountFails(d) \/ WriteHelper(d)
              \/ Umount(d) \/ ClearHelper(d) \/ Rmdir(d)
=============================================================================
