-------------------------- MODULE MCCameraSettings --------------------------
(* Instance of CameraSettings for model checking: two overlapping requests. *)
EXTENDS CameraSettings, TLC

Symmetry == Permutations(Requests)
=============================================================================
