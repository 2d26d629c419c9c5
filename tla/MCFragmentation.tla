--------------------------- MODULE MCFragmentation --------------------------
(* Values for checking Fragmentation. *)
EXTENDS Fragmentation

AllLengths == 0 .. 60
=============================================================================
