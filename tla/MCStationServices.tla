-------------------------- MODULE MCStationServices --------------------------
(* A small instance of StationServices: two drives that ask for the same     *)
(* mount point, with different tables, one of them without a channel.        *)
EXTENDS StationServices

CONSTANTS sda1, sdb1

MCLabel == [d \in Drives |-> "video"]
MCFileOn == [d \in Drives |-> IF d = sda1 THEN "table" ELSE "absent"]

\* The station and the viewer share nothing but the drives: one of them runs.
MCInit == Init /\ (stage = "exited") # (viewer = "off")
MCSpec == MCInit /\ [][Next]_vars /\ Fairness
=============================================================================
