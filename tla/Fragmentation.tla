---------------------------- MODULE Fragmentation ---------------------------
(***************************************************************************)
(* How send_file() of FileTransferLab/LAB4/deliver.c cuts a file into      *)
(* packets before sending any: the number of packets, what fread() puts    *)
(* into each and the size each declares.  The server writes the declared   *)
(* size of every packet (server.c:93), and the data buffer is zeroed       *)
(* first, so a size larger than what was read reaches the output as zeros. *)
(***************************************************************************)
EXTENDS Integers

CONSTANTS
  DATA_SIZE,   (* bytes of data per packet: 1000                          *)
  FileLengths  (* the lengths of the files considered                     *)

ASSUME SizesAssumption ==
  /\ DATA_SIZE \in Nat \ {0, 1}
  /\ FileLengths \subseteq Nat

VARIABLES
  length,      (* length of the file, ftell() at its end                   *)
  packet_num,  (* the packet built next                                    *)
  pos,         (* position of fp                                           *)
  declared     (* sum of the sizes of the packets built: the bytes the     *)
               (* server will write for them                               *)

vars == <<length, packet_num, pos, declared>>

\* Mutant: the incomplete packet at the end is not counted.
total_frag_rounded_down == length \div DATA_SIZE

total_frag == length \div DATA_SIZE + 1

\* The remainder as C computes it, with the sign of the dividend.
CRemainder(a, b) == IF a >= 0 THEN a % b ELSE 0 - ((0 - a) % b)

BytesRead == IF length - pos < DATA_SIZE THEN length - pos ELSE DATA_SIZE

\* Mutant: the last size is off by one.
SizeOneLess ==
  IF packet_num # total_frag THEN DATA_SIZE ELSE CRemainder(length - 1, DATA_SIZE)

Size ==
  IF packet_num # total_frag
    THEN DATA_SIZE
    ELSE CRemainder(length - 1, DATA_SIZE) + 1

Init ==
  /\ length \in FileLengths
  /\ packet_num = 1
  /\ pos = 0
  /\ declared = 0

\* One turn of the loop; the last one moves fp to the end of the file.
BuildPacket ==
  /\ packet_num <= total_frag
  /\ declared' = declared + Size
  /\ pos' = IF packet_num # total_frag THEN pos + BytesRead ELSE length
  /\ packet_num' = packet_num + 1
  /\ UNCHANGED length

Next == BuildPacket

Spec == Init /\ [][Next]_vars

-----------------------------------------------------------------------------
(***************************************************************************)
(* Properties.                                                             *)
(***************************************************************************)

\* Types: the position stays inside the file, and a packet's size in the
\* range the data field allows.
TypeOK ==
  /\ length \in Nat
  /\ packet_num \in 1 .. total_frag + 1
  /\ pos \in 0 .. length
  /\ declared \in Nat
  /\ packet_num <= total_frag => Size \in 0 .. DATA_SIZE

Built == packet_num > total_frag

\* No byte is left behind: when the last packet is built its fread() reaches
\* the end of the file, for every length.
LastReadReachesEnd == packet_num = total_frag => pos + BytesRead = length

\* The file the server writes is as long as the one the client read: what a
\* reliable transfer promises.  It fails at positive multiples of DATA_SIZE, where
\* the packet count (deliver.c:34) has one packet too many: its fread() returns
\* nothing and it is declared full (deliver.c:63).
OutputLength == Built => declared = length

\* At every other length, the empty file included, the packet count, the sizes
\* and the length of the last packet do add up to the file.
OutputLengthOffMultiples ==
  Built /\ (length = 0 \/ length % DATA_SIZE # 0) => declared = length
=============================================================================
