--------------------------- MODULE MCFileTransfer ---------------------------
(* Model values for checking FileTransfer. *)
EXTENDS FileTransfer

TimerMayBeZero == {TRUE, FALSE}
LastTwoReadFin == {TotalFrag - 1, TotalFrag}
=============================================================================
