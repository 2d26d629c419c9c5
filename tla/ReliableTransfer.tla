-------------------------- MODULE ReliableTransfer --------------------------
(***************************************************************************)
(* What a file transfer promises, without packets, timers or a network: a  *)
(* file of N fragments reaches the receiver in order and each fragment     *)
(* once; the sender reaches one verdict, and only reports success when the *)
(* receiver holds the whole file.  A sender that gives up promises         *)
(* nothing: what it sent may still arrive.                                 *)
(***************************************************************************)
EXTENDS Naturals, Sequences

CONSTANT N

VARIABLES received, verdict

vars == <<received, verdict>>

Init ==
  /\ received = <<>>
  /\ verdict = "pending"

Deliver ==
  /\ Len(received) < N
  /\ received' = Append(received, Len(received) + 1)
  /\ UNCHANGED verdict

Confirm ==
  /\ verdict = "pending"
  /\ Len(received) = N
  /\ verdict' = "success"
  /\ UNCHANGED received

GiveUp ==
  /\ verdict = "pending"
  /\ verdict' = "failure"
  /\ UNCHANGED received

Next == Deliver \/ Confirm \/ GiveUp

Spec == Init /\ [][Next]_vars
=============================================================================
