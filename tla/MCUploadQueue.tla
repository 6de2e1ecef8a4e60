--------------------------- MODULE MCUploadQueue ----------------------------
(* Instance of UploadQueue for model checking: more sessions than slots. *)
EXTENDS UploadQueue
=============================================================================
