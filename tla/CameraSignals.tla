---------------------------- MODULE CameraSignals ----------------------------
(***************************************************************************)
(* What the two camera programs share: SIGUSR1 and SIGUSR2, sent by the    *)
(* antenna to the process named in /tmp/camera-stream.pid (antenna.c,      *)
(* set_power), and the orders they stand for.                              *)
(*                                                                         *)
(* A signal that is pending is not sent twice, and two different ones are  *)
(* not handled in the order in which they were sent: Python and GLib both  *)
(* take SIGUSR1 first when they find both, and SIGUSR2 first when SIGUSR1  *)
(* comes a moment later.                                                   *)
(***************************************************************************)
EXTENDS Integers

VARIABLES
    sig,       \* pending signals
    asked,     \* the last order: "start" (SIGUSR1, or a new process), "stop"
    stopped    \* it was a stop, at a time when no start was owed

Signals == {"usr1", "usr2"}

SignalTypeOK == /\ sig \subseteq Signals
                /\ asked \in {"start", "stop"} /\ stopped \in BOOLEAN

\* A new process streams, whatever was asked of the one before it.
Ordered == sig' = {} /\ asked' = "start" /\ stopped' = FALSE

Sent(s) == /\ sig' = sig \cup {s}
           /\ UNCHANGED <<asked, stopped>>

StartTaken == /\ "usr1" \in sig /\ sig' = sig \ {"usr1"}
              /\ asked' = "start" /\ stopped' = FALSE

StopTaken(idle) == /\ "usr2" \in sig /\ sig' = sig \ {"usr2"}
                   /\ asked' = "stop" /\ stopped' = idle
=============================================================================
