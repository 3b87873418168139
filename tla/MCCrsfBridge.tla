---------------------------- MODULE MCCrsfBridge ----------------------------
(***************************************************************************)
(* CrsfBridge for TLC: payloads of one and two bytes, so that packets of   *)
(* different lengths follow each other, channels of one byte, so that a    *)
(* packet of channels may be longer than they are, and a buffer of one     *)
(* packet, so that a put often finds it full (CircBuf has the sizes of the *)
(* buffer).                                                                *)
(***************************************************************************)
EXTENDS CrsfBridge
=============================================================================
