--------------------------- MODULE MCCameraReader ---------------------------
(* Instances of CameraReader for TLC. *)
EXTENDS CameraReader

=============================================================================
