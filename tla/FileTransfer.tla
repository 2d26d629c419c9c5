---------------------------- MODULE FileTransfer ----------------------------
(***************************************************************************)
(* The stop-and-wait file transfer of FileTransferLab/LAB4: one client     *)
(* (deliver.c) sends the fragments of one file to one server (server.c)    *)
(* over UDP.  The client is a single thread that alternates between        *)
(* sending and waiting; the server is a single thread that answers every   *)
(* datagram it reads.  The network may lose, reorder and duplicate.        *)
(***************************************************************************)
EXTENDS Datagrams, Integers, Sequences

CONSTANTS
  ALIVE,        (* timeouts the client tolerates for one fragment (32)    *)
  MaxDup,       (* duplications the network performs in one behaviour     *)
  TimerChoices, (* what recomputing SO_RCVTIMEO can leave behind: TRUE a  *)
                (* positive timeout, FALSE zero, which means "no timeout" *)
  FinText       (* the fragments whose data reads as the string "FIN"     *)

ASSUME ParamsAssumption ==
  /\ ALIVE \in Nat
  /\ MaxDup \in Nat
  /\ TimerChoices \subseteq BOOLEAN /\ TimerChoices # {}
  /\ FinText \subseteq 1 .. TotalFrag

VARIABLES
  cli,         (* where the client is in main() and send_file()            *)
  packet_num,  (* the fragment the client is sending                       *)
  timesent,    (* timeouts seen for that fragment                          *)
  armed,       (* whether the client's SO_RCVTIMEO is not zero             *)
  cliBuf,      (* fragment number of the packet text left in rec_buf, or 0 *)
  srv,         (* where the server is in main()                            *)
  fragRecv,    (* the server's array of fragments received                 *)
  file,        (* the fragments written to pFile, in the order of writing  *)
  srvBuf,      (* fragment number of the packet text left in buf, or 0     *)
  c2s, s2c,    (* copies of each datagram in flight, per direction         *)
  dups         (* duplications performed so far                            *)

client == <<cli, packet_num, timesent, armed, cliBuf>>
server == <<srv, fragRecv, file, srvBuf>>
vars == <<client, server, c2s, s2c, dups>>

-----------------------------------------------------------------------------
Init ==
  /\ cli = "hello"
  /\ packet_num = 1
  /\ timesent = 0
  /\ armed = TRUE
  /\ cliBuf = 0
  /\ srv = "idle"
  /\ fragRecv = [n \in Frags |-> FALSE]
  /\ file = <<>>
  /\ srvBuf = 0
  /\ c2s = [m \in ToServer |-> 0]
  /\ s2c = [m \in ToClient |-> 0]
  /\ dups = 0

(***************************************************************************)
(* The client.                                                             *)
(***************************************************************************)
CliHello ==
  /\ cli = "hello"
  /\ c2s' = Put(c2s, Ftp)
  /\ cli' = "awaitYes"
  /\ UNCHANGED <<packet_num, timesent, armed, cliBuf, server, s2c, dups>>

\* The first recvfrom() has no timeout, and the transfer starts whatever the
\* reply says: the branch for anything but "yes" only prints.
CliReply(m) ==
  /\ cli = "awaitYes"
  /\ InFlight(s2c, m)
  /\ s2c' = Take(s2c, m)
  /\ cli' = "send"
  /\ UNCHANGED <<packet_num, timesent, armed, cliBuf, server, c2s, dups>>

CliSend ==
  /\ cli = "send"
  /\ packet_num <= TotalFrag
  /\ c2s' = Put(c2s, Data(packet_num))
  /\ cliBuf' = 0
  /\ cli' = "awaitAck"
  /\ UNCHANGED <<packet_num, timesent, armed, server, s2c, dups>>

\* Mutant: any acknowledgement is taken for the current one.
CliParsedAnyAck(f) ==
  \/ /\ f = Unparsable
     /\ cli' = "failed"
     /\ UNCHANGED <<packet_num, timesent, armed, cliBuf>>
  \/ /\ f # Unparsable
     /\ cliBuf' = f
     /\ packet_num' = packet_num + 1
     /\ timesent' = 0
     /\ armed' \in TimerChoices
     /\ cli' = "send"

\* What the client does with a packet that parsed as fragment f: the process
\* exits when it does not parse, waits on when it is not the current ACK, and
\* moves to the next fragment when it is.
CliParsed(f) ==
  \/ /\ f = Unparsable
     /\ cli' = "failed"
     /\ UNCHANGED <<packet_num, timesent, armed, cliBuf>>
  \/ /\ f \notin {Unparsable, packet_num}
     /\ cliBuf' = f
     /\ UNCHANGED <<cli, packet_num, timesent, armed>>
  \/ /\ f = packet_num
     /\ cliBuf' = f
     /\ packet_num' = packet_num + 1
     /\ timesent' = 0
     /\ armed' \in TimerChoices
     /\ cli' = "send"

CliAck(m) ==
  /\ cli = "awaitAck"
  /\ InFlight(s2c, m)
  /\ s2c' = Take(s2c, m)
  /\ \E f \in Parse(m, cliBuf) : CliParsed(f)
  /\ UNCHANGED <<server, c2s, dups>>

\* Mutant: one resend too many.
CliTimeoutOneMore ==
  /\ cli = "awaitAck"
  /\ armed
  /\ timesent' = timesent + 1
  /\ IF timesent <= ALIVE
       THEN cli' = "send" /\ armed' \in TimerChoices
       ELSE cli' = "failed" /\ armed' = armed
  /\ UNCHANGED <<packet_num, cliBuf, server, c2s, s2c, dups>>

\* Mutant: the resends are not counted.
CliTimeoutUncounted ==
  /\ cli = "awaitAck"
  /\ armed
  /\ cli' = "send"
  /\ armed' \in TimerChoices
  /\ UNCHANGED <<packet_num, timesent, cliBuf, server, c2s, s2c, dups>>

\* recvfrom() timed out.  With a zero SO_RCVTIMEO it never does.
CliTimeout ==
  /\ cli = "awaitAck"
  /\ armed
  /\ timesent' = timesent + 1
  /\ IF timesent' <= ALIVE
       THEN cli' = "send" /\ armed' \in TimerChoices
       ELSE cli' = "failed" /\ armed' = armed
  /\ UNCHANGED <<packet_num, cliBuf, server, c2s, s2c, dups>>

\* Mutant: FIN follows the last but one fragment.
CliFinEarly ==
  /\ cli = "send"
  /\ packet_num >= TotalFrag
  /\ c2s' = Put(c2s, Fin)
  /\ cli' = "done"
  /\ UNCHANGED <<packet_num, timesent, armed, cliBuf, server, s2c, dups>>

CliFin ==
  /\ cli = "send"
  /\ packet_num > TotalFrag
  /\ c2s' = Put(c2s, Fin)
  /\ cli' = "done"
  /\ UNCHANGED <<packet_num, timesent, armed, cliBuf, server, s2c, dups>>

Client ==
  \/ CliHello
  \/ \E m \in ToClient : CliReply(m) \/ CliAck(m)
  \/ CliSend
  \/ CliTimeout
  \/ CliFin

(***************************************************************************)
(* The server.                                                             *)
(***************************************************************************)
SrvHello(m) ==
  /\ srv = "idle"
  /\ InFlight(c2s, m)
  /\ c2s' = Take(c2s, m)
  /\ s2c' = Put(s2c, IF m = Ftp THEN Yes ELSE No)
  /\ srvBuf' = m.frag
  /\ srv' = "recv"
  /\ UNCHANGED <<client, fragRecv, file, dups>>

\* Mutants: the end is looked for before the fragment is marked; the loop ends
\* with the last but one fragment.
SrvStoresMarksLate(m, f) ==
  \/ /\ f \notin Frags
     /\ srv' = IF f = Unparsable THEN "dead" ELSE "undefined"
     /\ UNCHANGED <<fragRecv, file, srvBuf, s2c>>
  \/ /\ f \in Frags
     /\ file' = IF fragRecv[f] THEN file ELSE Append(file, f)
     /\ fragRecv' = [fragRecv EXCEPT ![f] = TRUE]
     /\ s2c' = Put(s2c, Ack(f))
     /\ srvBuf' = f
     /\ srv' = IF m = Data(TotalFrag) /\ \A p \in Frags : fragRecv[p]
                 THEN "finWait" ELSE "recv"

SrvStoresOneShort(m, f) ==
  \/ /\ f \notin Frags
     /\ srv' = IF f = Unparsable THEN "dead" ELSE "undefined"
     /\ UNCHANGED <<fragRecv, file, srvBuf, s2c>>
  \/ /\ f \in Frags
     /\ file' = IF fragRecv[f] THEN file ELSE Append(file, f)
     /\ fragRecv' = [fragRecv EXCEPT ![f] = TRUE]
     /\ s2c' = Put(s2c, Ack(f))
     /\ srvBuf' = f
     /\ srv' = IF \A p \in 1 .. TotalFrag - 1 : fragRecv'[p] THEN "finWait" ELSE "recv"

\* The main loop: write a fragment not seen before, acknowledge every
\* fragment, and stop looking for data when the one just read is the last
\* and none is missing.  frag_no = 0 would index fragRecv[-1].
SrvStores(m, f) ==
  \/ /\ f \notin Frags
     /\ srv' = IF f = Unparsable THEN "dead" ELSE "undefined"
     /\ UNCHANGED <<fragRecv, file, srvBuf, s2c>>
  \/ /\ f \in Frags
     /\ file' = IF fragRecv[f] THEN file ELSE Append(file, f)
     /\ fragRecv' = [fragRecv EXCEPT ![f] = TRUE]
     /\ s2c' = Put(s2c, Ack(f))
     /\ srvBuf' = f
     /\ srv' = IF m = Data(TotalFrag) /\ \A p \in Frags : fragRecv'[p]
                 THEN "finWait" ELSE "recv"

SrvData(m) ==
  /\ srv = "recv"
  /\ InFlight(c2s, m)
  /\ c2s' = Take(c2s, m)
  /\ \E f \in Parse(m, srvBuf) : SrvStores(m, f)
  /\ UNCHANGED <<client, dups>>

\* The second loop: acknowledge what is not FIN again, until FIN is read.
\* The test is strcmp(filedata, "FIN"), which a data fragment may also pass.
ReadsFin(m) == m = Fin \/ \E n \in FinText : m = Data(n)

SrvAnswers(m, f) ==
  \/ /\ f = Unparsable
     /\ srv' = "dead"
     /\ UNCHANGED <<srvBuf, s2c>>
  \/ /\ ReadsFin(m)
     /\ srv' = "closed"
     /\ UNCHANGED <<srvBuf, s2c>>
  \/ /\ f # Unparsable
     /\ ~ReadsFin(m)
     /\ s2c' = Put(s2c, Ack(f))
     /\ srvBuf' = f
     /\ UNCHANGED srv

SrvFin(m) ==
  /\ srv = "finWait"
  /\ InFlight(c2s, m)
  /\ c2s' = Take(c2s, m)
  /\ \E f \in Parse(m, srvBuf) : SrvAnswers(m, f)
  /\ UNCHANGED <<client, fragRecv, file, dups>>

\* Mutant: the wait for FIN starts again.
SrvTimeoutWaitsOn == srv = "finWait" /\ UNCHANGED vars

SrvTimeout ==
  /\ srv = "finWait"
  /\ srv' = "quit"
  /\ UNCHANGED <<client, fragRecv, file, srvBuf, c2s, s2c, dups>>

Server ==
  \/ \E m \in ToServer : SrvHello(m) \/ SrvData(m) \/ SrvFin(m)
  \/ SrvTimeout

(***************************************************************************)
(* The network loses and duplicates; it reorders by what is received next. *)
(***************************************************************************)
Lose ==
  /\ \/ \E m \in ToServer : InFlight(c2s, m) /\ c2s' = Take(c2s, m) /\ s2c' = s2c
     \/ \E m \in ToClient : InFlight(s2c, m) /\ s2c' = Take(s2c, m) /\ c2s' = c2s
  /\ UNCHANGED <<client, server, dups>>

Duplicate ==
  /\ dups < MaxDup
  /\ \/ \E m \in ToServer : InFlight(c2s, m) /\ c2s' = Put(c2s, m) /\ s2c' = s2c
     \/ \E m \in ToClient : InFlight(s2c, m) /\ s2c' = Put(s2c, m) /\ c2s' = c2s
  /\ dups' = dups + 1
  /\ UNCHANGED <<client, server>>

Next == Client \/ Server \/ Lose \/ Duplicate

Spec == Init /\ [][Next]_vars

\* Each process keeps running while it has something to do: a datagram to
\* read or an expired timer.  Nothing is assumed of the network.
FairSpec == Spec /\ WF_vars(Client) /\ WF_vars(Server)

-----------------------------------------------------------------------------
(***************************************************************************)
(* Properties.                                                             *)
(***************************************************************************)

\* Types: control points, counters within the bounds the code enforces, and
\* no more copies in flight than the network holds.
TypeOK ==
  /\ cli \in {"hello", "awaitYes", "send", "awaitAck", "done", "failed"}
  /\ packet_num \in 1 .. TotalFrag + 1
  /\ timesent \in 0 .. ALIVE + 1
  /\ armed \in BOOLEAN
  /\ cliBuf \in 0 .. TotalFrag
  /\ srv \in {"idle", "recv", "finWait", "closed", "quit", "dead", "undefined"}
  /\ fragRecv \in [Frags -> BOOLEAN]
  /\ file \in Seq(Frags)
  /\ srvBuf \in 0 .. TotalFrag
  /\ c2s \in [ToServer -> 0 .. NetCap]
  /\ s2c \in [ToClient -> 0 .. NetCap]
  /\ dups \in 0 .. MaxDup

\* The server appends fragments in the order their first copies arrive, and
\* never looks at the position: the output is in order, each fragment once,
\* only because the client never runs ahead of the server by more than one
\* fragment (server.c:92-99 against deliver.c:119-140).
FileInOrder == file = [i \in 1 .. Len(file) |-> i]

\* Stop and wait: every fragment before packet_num is on the server's disk,
\* and none after it, whatever stale acknowledgements the client consumed.
InStep ==
  /\ packet_num - 1 <= Len(file)
  /\ Len(file) <= packet_num

\* The client reports completion only when the server has the whole file.
DoneMeansDelivered == cli = "done" => Len(file) = TotalFrag

\* A FIN (frag_no 0) never reaches the loop that indexes
\* fragRecv[frag_no - 1], however late or duplicated the datagrams are.
NoIndexUnderflow == srv # "undefined"

\* A server that announces "transfer completed" was told so by a client that
\* had every fragment acknowledged; or, when the data of some fragment reads as
\* "FIN" (server.c:131 compares the data of whatever it received), a copy of that
\* fragment ended it early.  Then too the whole file is written, and the client
\* is at its last fragment: all it may lack is that fragment's acknowledgement.
FinMeansDone ==
  srv = "closed" =>
    /\ Len(file) = TotalFrag
    /\ cli = "done" \/ (FinText # {} /\ packet_num >= TotalFrag)

\* A server that stopped listening for data holds the whole file: late
\* retransmissions in its second loop write nothing.
NothingMissingAfterLoop ==
  srv \in {"finWait", "closed", "quit"} => Len(file) = TotalFrag

\* The transfer implements the abstract one: in order, once, success only
\* when complete, and one final verdict.
Verdict == CASE cli = "done" -> "success"
             [] cli = "failed" -> "failure"
             [] OTHER -> "pending"

Abstract == INSTANCE ReliableTransfer
              WITH N <- TotalFrag, received <- file, verdict <- Verdict

Implements == Abstract!Spec

\* Once the handshake is answered the client reaches a verdict, unless it waits
\* with a timeout of zero: retransmissions are bounded by ALIVE and stale
\* acknowledgements run out.
SendingEnds == (cli = "send") ~> (cli \in {"done", "failed"} \/ ~armed)

\* The server's first loop has no timeout (server.c:65): it ends because the
\* client sends until it has every acknowledgement, or gives up.
ServerLeavesLoop ==
  (cli = "send" /\ srv = "recv") ~> (srv # "recv" \/ cli = "failed" \/ ~armed)

\* A client waiting for the answer to "ftp" eventually moves on.
HandshakeEnds == (cli = "awaitYes") ~> (cli # "awaitYes")

\* A server that has the file does not wait for FIN forever.
FinWaitEnds == (srv = "finWait") ~> (srv \in {"closed", "quit", "dead"})

-----------------------------------------------------------------------------
(***************************************************************************)
(* The inductive invariant: FileInOrder and InStep hold because of what    *)
(* can be in flight in each phase.                                         *)
(***************************************************************************)

\* What the server wrote is exactly the fragments up to Len(file).
FileInv ==
  /\ FileInOrder
  /\ InStep
  /\ \A n \in Frags : fragRecv[n] <=> n <= Len(file)

\* Before the handshake is answered there is nothing but handshake around.
HandshakeInv ==
  /\ cli \in {"hello", "awaitYes"} => packet_num = 1 /\ c2s[Fin] = 0
  /\ cli \in {"hello", "awaitYes"} => \A n \in Frags : c2s[Data(n)] = 0
  /\ cli \notin {"hello", "awaitYes"} => srv # "idle"
  /\ srv = "idle" => \A m \in ToClient : s2c[m] = 0

\* The network carries no fragment the client has not reached, no ACK of a
\* fragment the server has not written, and no FIN of a client still sending.
\* Text left over in a receive buffer is no newer than that.
WireInv ==
  /\ \A n \in Frags : c2s[Data(n)] > 0 => n <= packet_num
  /\ \A n \in Frags : s2c[Ack(n)] > 0 => n <= Len(file)
  /\ c2s[Fin] > 0 => cli = "done"
  /\ cliBuf <= Len(file)
  /\ srvBuf <= Len(file)

\* The two control points agree with the progress made.
PhaseInv ==
  /\ cli = "awaitAck" => packet_num <= TotalFrag
  /\ cli = "done" => packet_num = TotalFrag + 1
  /\ srv \in {"idle", "recv"} => Len(file) < TotalFrag
  /\ srv \in {"finWait", "closed", "quit"} => Len(file) = TotalFrag
  /\ srv # "undefined"

\* A client that is still running has retries left.
RetryInv == cli # "failed" => timesent <= ALIVE

IInv == TypeOK /\ RetryInv /\ FileInv /\ HandshakeInv /\ WireInv /\ PhaseInv
=============================================================================
