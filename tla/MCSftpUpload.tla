---------------------------- MODULE MCSftpUpload ----------------------------
(* One upload to one destination. *)
EXTENDS SftpUpload
=============================================================================
