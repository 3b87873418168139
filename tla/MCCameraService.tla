--------------------------- MODULE MCCameraService ---------------------------
(* A small instance of CameraService. *)
EXTENDS CameraService
=============================================================================
