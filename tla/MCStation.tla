------------------------------ MODULE MCStation ------------------------------
(***************************************************************************)
(* Small instances of Station for TLC.  Two edges make up to five messages *)
(* with the greeting, so that a pipe of eight messages never fills.        *)
(***************************************************************************)
EXTENDS Station
=============================================================================
