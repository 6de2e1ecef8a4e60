--------------------------- MODULE MCEventGallery ---------------------------
(* An instance of EventGallery for model checking. *)
EXTENDS EventGallery
=============================================================================
