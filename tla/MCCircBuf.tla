------------------------------ MODULE MCCircBuf ------------------------------
(***************************************************************************)
(* CircBuf for TLC with the size the bridge gives it (CBUF_NUM is 3): the  *)
(* indices wrap, and the buffer fills, empties and overruns from every     *)
(* position.                                                               *)
(***************************************************************************)
EXTENDS CircBuf
=============================================================================
