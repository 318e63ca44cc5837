------------------------- MODULE MCAttachmentUpload -------------------------
(* Small instances of AttachmentUpload for TLC. *)
EXTENDS AttachmentUpload, TLC

MCUploads == {"c1", "t1", "o1"}
MCRole == [u \in MCUploads |->
    CASE u = "c1" -> "customer" [] u = "t1" -> "technician" [] u = "o1" -> "operations"]
=============================================================================
