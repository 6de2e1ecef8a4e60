--------------------------- MODULE MCCameraStream ---------------------------
(* Instance of CameraStream for model checking: every thread, one viewer. *)
EXTENDS CameraStream
=============================================================================
