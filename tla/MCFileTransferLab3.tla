------------------------- MODULE MCFileTransferLab3 -------------------------
(* Values for checking FileTransferLab3. *)
EXTENDS FileTransferLab3

AnyByte == BOOLEAN
=============================================================================
