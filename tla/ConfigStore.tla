---------------------------- MODULE ConfigStore ------------------------------
(***************************************************************************)
(* The channel table of the station: /etc/vrxtbl.yaml, the .new file that  *)
(* updater.sh copies from a drive, SIGHUP, the handler of station.c that   *)
(* installs it, and config.cpp, whose mutex the handler and the            *)
(* visualisation thread take.                                              *)
(*                                                                         *)
(* The kernel gives SIGHUP to the main thread, and to another thread while *)
(* the main thread is in the handler.                                      *)
(***************************************************************************)
EXTENDS UsbMount

CONSTANTS FileOn,      \* the file on a drive, or NoFile
          Files,       \* files of configuration
          Good,        \* those that parse_yaml takes
          Absent,      \* those whose vrx_switch is no channel of 1..16
          Factory,     \* the one that is installed at first
          NoFile, Empty

ASSUME FileAssumption == /\ Absent \subseteq Good /\ Good \subseteq Files
                         /\ Factory \in Good
                         /\ NoFile \notin Files /\ Empty \notin Files
                         /\ FileOn \in [Drives -> Files \cup {NoFile}]

Threads == {"main", "reader", "vis"}

VARIABLES
    installed,   \* /etc/vrxtbl.yaml
    new,         \* /etc/vrxtbl.yaml.new
    cpInto,      \* what the file that cp has opened is by now
    stage,       \* the process of the station
    hup,         \* SIGHUP is pending
    handler,     \* place of each thread in the handler
    owner,       \* of the mutex
    drawing,     \* the visualisation thread is in get_chan_info
    config       \* the configuration in memory

configVars == <<installed, new, cpInto, stage, hup, handler, owner,
                drawing, config>>

\* "pid": its PID file is written, its handlers are not; "boot": in the
\* load_config of main; "exited": not started (again) by systemd.
Stages == {"down", "pid", "boot", "run", "exited"}
HandlerPlaces == {"none", "load", "rename", "unlink", "reload"}

ConfigTypeOK ==
    /\ installed \in Files \cup {Empty} /\ new \in Files \cup {Empty, NoFile}
    /\ cpInto \in [Drives -> {"none", "new", "installed", "unlinked"}]
    /\ stage \in Stages /\ hup \in BOOLEAN
    /\ handler \in [Threads -> HandlerPlaces]
    /\ owner \in Threads \cup {"none"} /\ drawing \in BOOLEAN
    /\ config \in Good \cup {NoFile}

ConfigInit ==
    /\ installed = Factory /\ new = NoFile
    /\ cpInto = [d \in Drives |-> "none"]
    /\ stage \in {"down", "exited"} /\ hup = FALSE
    /\ handler = [t \in Threads |-> "none"]
    /\ owner = "none" /\ drawing = FALSE /\ config = NoFile

\* The .new file gets another name, or none, under the copies that go on.
Moved(into) == cpInto' = [d \in Drives |->
                              IF cpInto[d] = "new" THEN into ELSE cpInto[d]]

-----------------------------------------------------------------------------
(* updater.sh, called by the script of a drive. *)

\* No file, or the installed one: nothing to do.  cp empties the .new file.
Diff(d) ==
    /\ script[d] = "update"
    /\ \/ /\ FileOn[d] \in {NoFile, installed}
          /\ Ends(d, "active")
          /\ UNCHANGED <<new, cpInto>>
       \/ /\ FileOn[d] \notin {NoFile, installed}
          /\ script' = [script EXCEPT ![d] = "copy"]
          /\ new' = Empty /\ cpInto' = [cpInto EXCEPT ![d] = "new"]
          /\ UNCHANGED unit
    /\ UNCHANGED <<plugged, plugs, job, point, mounted, dirs,
                   littered, helper,
                   installed, stage, hup, handler, owner, drawing, config>>

\* cp writes, into the file it has opened.
Copy(d) ==
    /\ Goes(d, "copy", "kill")
    /\ new' = IF cpInto[d] = "new" THEN FileOn[d] ELSE new
    /\ installed' = IF cpInto[d] = "installed" THEN FileOn[d] ELSE installed
    /\ cpInto' = [cpInto EXCEPT ![d] = "none"]
    /\ UNCHANGED <<plugged, plugs, job, unit, point, mounted, dirs,
                   littered, helper,
                   stage, hup, handler, owner, drawing, config>>

BugListening == {}                   \* mutant: the signal is not sent
Listening == {"boot", "run"}         \* the stages in which a handler gets it
KillHup(d) ==
    /\ script[d] = "kill"
    /\ Ends(d, "active")
    /\ stage' = IF stage = "pid" THEN "exited" ELSE stage
    /\ hup' = (hup \/ stage \in Listening)
    /\ UNCHANGED <<plugged, plugs, job, point, mounted, dirs,
                   littered, helper,
                   installed, new, cpInto, handler, owner, drawing, config>>

UpdaterStep(d) == Diff(d) \/ Copy(d) \/ KillHup(d)

-----------------------------------------------------------------------------
(* main of station.c *)

BugParses(file) == file # NoFile     \* mutant: an error of yaml-cpp is ignored
Parses(file) == file \in Good

StationUp ==
    /\ stage = "down" /\ stage' = "pid"
    /\ UNCHANGED <<usbVars, installed, new, cpInto, hup, handler, owner,
                   drawing, config>>

\* The handlers are in place and load_config has the mutex.
BootLoad ==
    /\ stage = "pid" /\ stage' = "boot" /\ owner' = "main"
    /\ UNCHANGED <<usbVars, installed, new, cpInto, hup, handler, drawing, config>>

BootLoaded ==
    /\ stage = "boot" /\ handler["main"] = "none"
    /\ stage' = "run" /\ owner' = "none"
    /\ config' = IF Parses(installed) THEN installed ELSE config
    /\ UNCHANGED <<usbVars, installed, new, cpInto, hup, handler, drawing>>

\* The process dies and is started again.
StationDies ==
    /\ stage \in {"pid", "boot", "run"}
    /\ stage' = "down" /\ hup' = FALSE /\ owner' = "none" /\ drawing' = FALSE
    /\ handler' = [t \in Threads |-> "none"] /\ config' = NoFile
    /\ UNCHANGED <<usbVars, installed, new, cpInto>>

-----------------------------------------------------------------------------
(* signal_handler of station.c, SIGHUP *)

HandlerGoes(t, to) == handler' = [handler EXCEPT ![t] = to]

\* A thread in the handler has the signal blocked, and the main thread comes
\* first; at boot there is no other.
SigHup(t) ==
    /\ hup /\ stage \in {"boot", "run"} /\ handler[t] = "none"
    /\ t = "main" \/ (stage = "run" /\ handler["main"] # "none")
    /\ hup' = FALSE
    /\ HandlerGoes(t, "load")
    /\ UNCHANGED <<usbVars, installed, new, cpInto, stage, owner, drawing, config>>

\* load_config of the .new file, which waits for the mutex.
LoadNew(t) ==
    /\ handler[t] = "load" /\ owner = "none"
    /\ IF Parses(new)
       THEN config' = new /\ HandlerGoes(t, "rename")
       ELSE HandlerGoes(t, "unlink") /\ UNCHANGED config
    /\ UNCHANGED <<usbVars, installed, new, cpInto, stage, hup, owner, drawing>>

\* rename installs what the .new file is by now.
Rename(t) ==
    /\ handler[t] = "rename"
    /\ IF new # NoFile
       THEN /\ installed' = new /\ new' = NoFile /\ Moved("installed")
            /\ HandlerGoes(t, "none")
       ELSE HandlerGoes(t, "unlink") /\ UNCHANGED <<installed, new, cpInto>>
    /\ UNCHANGED <<usbVars, stage, hup, owner, drawing, config>>

Unlink(t) ==
    /\ handler[t] = "unlink"
    /\ new' = NoFile /\ Moved("unlinked")
    /\ HandlerGoes(t, "reload")
    /\ UNCHANGED <<usbVars, installed, stage, hup, owner, drawing, config>>

BugReloaded == config                \* mutant: the old table is not read again
Reloaded == installed
Reload(t) ==
    /\ handler[t] = "reload" /\ owner = "none"
    /\ config' = IF Parses(Reloaded) THEN Reloaded ELSE config
    /\ HandlerGoes(t, "none")
    /\ UNCHANGED <<usbVars, installed, new, cpInto, stage, hup, owner, drawing>>

-----------------------------------------------------------------------------
(* get_chan_info of config.cpp, in the visualisation thread *)

LookUp ==
    /\ stage = "run" /\ ~drawing /\ handler["vis"] = "none"
    /\ config # NoFile /\ owner = "none"
    /\ drawing' = TRUE /\ owner' = "vis"
    /\ UNCHANGED <<usbVars, installed, new, cpInto, stage, hup, handler, config>>

BugKeepsLock == TRUE                 \* mutant: no path releases the mutex
KeepsLock == config \in Absent       \* return -1
LookedUp ==
    /\ drawing /\ handler["vis"] = "none"
    /\ drawing' = FALSE
    /\ owner' = IF KeepsLock THEN "vis" ELSE "none"
    /\ UNCHANGED <<usbVars, installed, new, cpInto, stage, hup, handler, config>>

Handle(t) == \/ SigHup(t) \/ LoadNew(t) \/ Rename(t) \/ Unlink(t)
             \/ Reload(t)

StationUpStep == StationUp \/ BootLoad \/ BootLoaded
=============================================================================
