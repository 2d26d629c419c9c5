----------------------------- MODULE Datagrams -----------------------------
(***************************************************************************)
(* What deliver and server of the File Transfer Lab send each other, and   *)
(* the UDP network between them.  A fragment is known by its number.  What *)
(* the code does with the text of a packet (packet.h, the same file in     *)
(* LAB3 and LAB4) matters in one place only: a handshake datagram that     *)
(* arrives late is parsed as a packet, see Parse.                          *)
(***************************************************************************)
EXTENDS Integers

CONSTANTS
  TotalFrag,    (* number of fragments of the file, at least 1           *)
  NetCap        (* copies of one datagram the network holds at once      *)

ASSUME DatagramAssumption ==
  /\ TotalFrag \in Nat \ {0}
  /\ NetCap \in Nat \ {0}

Frags == 1 .. TotalFrag

Ftp     == [kind |-> "ftp",  frag |-> 0]
Yes     == [kind |-> "yes",  frag |-> 0]
No      == [kind |-> "no",   frag |-> 0]
Fin     == [kind |-> "FIN",  frag |-> 0]
Data(n) == [kind |-> "DATA", frag |-> n]
Ack(n)  == [kind |-> "ACK",  frag |-> n]

ToServer == {Ftp, Fin} \cup {Data(n) : n \in Frags}
ToClient == {Yes, No} \cup {Ack(n) : n \in Frags}

(***************************************************************************)
(* The network.  It may deliver any datagram in flight, so it reorders.    *)
(***************************************************************************)
InFlight(net, m) == net[m] > 0

\* A datagram that finds the network full is dropped.
Put(net, m) == IF net[m] < NetCap THEN [net EXCEPT ![m] = @ + 1] ELSE net
Take(net, m) == [net EXCEPT ![m] = @ - 1]

(***************************************************************************)
(* What stringToPacket() can make of datagram m when the buffer m was read *)
(* into still holds packet text of fragment residue (0: no such text).     *)
(* A packet overwrites the whole buffer and yields its frag_no, 0 for FIN. *)
(* A handshake word overwrites only the first bytes: without packet text   *)
(* behind it there is no colon to match and the process exits; with it,    *)
(* the word replaces part of total_frag's digits, and whether the rest     *)
(* still has its four colons depends on how many digits there were.        *)
(***************************************************************************)
Unparsable == -1

Parse(m, residue) ==
  IF m.kind \in {"DATA", "ACK", "FIN"}
    THEN {m.frag}
    ELSE {Unparsable} \cup ({residue} \ {0})
=============================================================================
