-------------------------- MODULE FileTransferLab3 --------------------------
(***************************************************************************)
(* The file transfer of FileTransferLab/LAB3, the predecessor of LAB4.     *)
(* The client (deliver.c) waits one second for an answer and reads one     *)
(* datagram per wait: whatever is not the acknowledgement it waits for     *)
(* makes it send the fragment again.  There is no FIN: the server          *)
(* (server.c) is gone once it has answered the last fragment.              *)
(***************************************************************************)
EXTENDS Datagrams, Sequences

CONSTANTS
  ALIVE,     (* sends of one fragment after which a timeout ends the client (32) *)
  MaxDup,    (* duplications the network performs in one behaviour               *)
  LastFlag   (* what the memory behind fragRecv[total_frag - 1] can read as      *)

ASSUME Lab3Assumption ==
  /\ ALIVE \in Nat
  /\ MaxDup \in Nat
  /\ LastFlag \subseteq BOOLEAN /\ LastFlag # {}

VARIABLES
  cli,         (* where the client is in main() and send_file()          *)
  packet_num,  (* the fragment the client is sending                     *)
  timesent,    (* times that fragment was sent                           *)
  srv,         (* where the server is in main()                          *)
  fragRecv,    (* the server's array of fragments received               *)
  file,        (* the fragments written to pFile, in the order written   *)
  srvBuf,      (* fragment number of the packet text left in buf, or 0   *)
  c2s, s2c,    (* copies of each datagram in flight, per direction       *)
  dups         (* duplications performed so far                          *)

client == <<cli, packet_num, timesent>>
server == <<srv, fragRecv, file, srvBuf>>
vars == <<client, server, c2s, s2c, dups>>

\* fragRecv is used at 1 .. total_frag and initialised at 0 .. total_frag - 1:
\* the flag of the last fragment is whatever malloc() left there.
Init ==
  /\ cli = "hello"
  /\ packet_num = 1
  /\ timesent = 0
  /\ srv = "idle"
  /\ \E b \in LastFlag : fragRecv = [n \in Frags |-> n = TotalFrag /\ b]
  /\ file = <<>>
  /\ srvBuf = 0
  /\ c2s = [m \in ToServer |-> 0]
  /\ s2c = [m \in ToClient |-> 0]
  /\ dups = 0

(***************************************************************************)
(* The client.                                                             *)
(***************************************************************************)
CliHello ==
  /\ cli = "hello"
  /\ c2s' = Put(c2s, Ftp)
  /\ cli' = "awaitYes"
  /\ UNCHANGED <<packet_num, timesent, server, s2c, dups>>

\* No timeout yet, and no answer keeps the transfer from starting.
CliReply(m) ==
  /\ cli = "awaitYes"
  /\ InFlight(s2c, m)
  /\ s2c' = Take(s2c, m)
  /\ cli' = "send"
  /\ UNCHANGED <<packet_num, timesent, server, c2s, dups>>

CliSend ==
  /\ cli = "send"
  /\ packet_num <= TotalFrag
  /\ timesent' = timesent + 1
  /\ c2s' = Put(c2s, Data(packet_num))
  /\ cli' = "awaitAck"
  /\ UNCHANGED <<packet_num, server, s2c, dups>>

\* rec_buf was zeroed: a handshake word in it has no colon to find.
CliParse(m) == Parse(m, 0)

\* Mutant: any acknowledgement is taken for the current one.
CliAckAny(m) ==
  /\ cli = "awaitAck"
  /\ InFlight(s2c, m)
  /\ s2c' = Take(s2c, m)
  /\ \E f \in CliParse(m) :
       IF f = Unparsable
         THEN cli' = "failed" /\ UNCHANGED <<packet_num, timesent>>
         ELSE cli' = "send" /\ packet_num' = packet_num + 1 /\ timesent' = 0
  /\ UNCHANGED <<server, c2s, dups>>

\* File name and text are the same in every acknowledgement of a transfer, so
\* the number is what the comparison tells apart (LAB3/deliver.c:116-118).
CliAck(m) ==
  /\ cli = "awaitAck"
  /\ InFlight(s2c, m)
  /\ s2c' = Take(s2c, m)
  /\ \E f \in CliParse(m) :
       \/ f = Unparsable /\ cli' = "failed" /\ UNCHANGED <<packet_num, timesent>>
       \/ f \notin {Unparsable, packet_num} /\ cli' = "send" /\ UNCHANGED <<packet_num, timesent>>
       \/ f = packet_num /\ cli' = "send" /\ packet_num' = packet_num + 1 /\ timesent' = 0
  /\ UNCHANGED <<server, c2s, dups>>

\* Mutant: the count starts again with every timeout.
CliTimeoutForgets ==
  /\ cli = "awaitAck"
  /\ cli' = IF timesent < ALIVE THEN "send" ELSE "failed"
  /\ timesent' = 0
  /\ UNCHANGED <<packet_num, server, c2s, s2c, dups>>

CliTimeout ==
  /\ cli = "awaitAck"
  /\ cli' = IF timesent < ALIVE THEN "send" ELSE "failed"
  /\ UNCHANGED <<packet_num, timesent, server, c2s, s2c, dups>>

CliDone ==
  /\ cli = "send"
  /\ packet_num > TotalFrag
  /\ cli' = "done"
  /\ UNCHANGED <<packet_num, timesent, server, c2s, s2c, dups>>

Client ==
  \/ CliHello
  \/ \E m \in ToClient : CliReply(m) \/ CliAck(m)
  \/ CliSend \/ CliTimeout \/ CliDone

(***************************************************************************)
(* The server.                                                             *)
(***************************************************************************)
SrvHello(m) ==
  /\ srv = "idle"
  /\ InFlight(c2s, m)
  /\ c2s' = Take(c2s, m)
  /\ s2c' = Put(s2c, IF m = Ftp THEN Yes ELSE No)
  /\ srvBuf' = m.frag
  /\ srv' = "recv"
  /\ UNCHANGED <<client, fragRecv, file, dups>>

\* Mutant: a fragment is written as often as it comes.
SrvStoresAgain(m, f) ==
  /\ f \in Frags
  /\ file' = Append(file, f)
  /\ fragRecv' = [fragRecv EXCEPT ![f] = TRUE]
  /\ s2c' = Put(s2c, Ack(f))
  /\ srvBuf' = f
  /\ srv' = IF m = Data(TotalFrag) THEN "closed" ELSE "recv"

\* Write a fragment not marked yet, acknowledge every fragment, and stop after
\* the last one, whether or not the others came.
SrvStores(m, f) ==
  /\ f \in Frags
  /\ file' = IF fragRecv[f] THEN file ELSE Append(file, f)
  /\ fragRecv' = [fragRecv EXCEPT ![f] = TRUE]
  /\ s2c' = Put(s2c, Ack(f))
  /\ srvBuf' = f
  /\ srv' = IF m = Data(TotalFrag) THEN "closed" ELSE "recv"

SrvData(m) ==
  /\ srv = "recv"
  /\ InFlight(c2s, m)
  /\ c2s' = Take(c2s, m)
  /\ \E f \in Parse(m, srvBuf) :
       \/ SrvStores(m, f)
       \/ f = Unparsable /\ srv' = "dead" /\ UNCHANGED <<fragRecv, file, srvBuf, s2c>>
  /\ UNCHANGED <<client, dups>>

Server == \E m \in ToServer : SrvHello(m) \/ SrvData(m)

(***************************************************************************)
(* The network loses and duplicates; it reorders by what is received next. *)
(***************************************************************************)
Lose ==
  /\ \/ \E m \in ToServer : InFlight(c2s, m) /\ c2s' = Take(c2s, m) /\ s2c' = s2c
     \/ \E m \in ToClient : InFlight(s2c, m) /\ s2c' = Take(s2c, m) /\ c2s' = c2s
  /\ UNCHANGED <<client, server, dups>>

Duplicate ==
  /\ dups < MaxDup
  /\ \/ \E m \in ToServer : InFlight(c2s, m) /\ c2s' = Put(c2s, m) /\ s2c' = s2c
     \/ \E m \in ToClient : InFlight(s2c, m) /\ s2c' = Put(s2c, m) /\ c2s' = c2s
  /\ dups' = dups + 1
  /\ UNCHANGED <<client, server>>

Next == Client \/ Server \/ Lose \/ Duplicate

Spec == Init /\ [][Next]_vars

\* The client runs while it has something to do, and its timer always expires.
\* Nothing is assumed of the server, which may be gone, or of the network.
FairSpec == Spec /\ WF_vars(Client)

-----------------------------------------------------------------------------
(***************************************************************************)
(* Properties.                                                             *)
(***************************************************************************)

\* What is certain to be written: everything before the last fragment.
Certain == IF file # <<>> /\ file[Len(file)] = TotalFrag
             THEN SubSeq(file, 1, Len(file) - 1) ELSE file

\* The server stops at the last fragment without asking for the others
\* (server.c:104); they are there because the client sends the last one only
\* when all of them are acknowledged.
NothingMissingBeforeLast ==
  srv = "closed" => \A n \in 1 .. TotalFrag - 1 : \E i \in DOMAIN file : file[i] = n

\* Up to the last fragment, and whatever the memory behind fragRecv holds, the
\* transfer implements the abstract one: in order, once, success only when
\* complete.  The last fragment may be acknowledged without being written
\* (server.c:85 and 89).
Verdict == CASE cli = "done" -> "success"
             [] cli = "failed" -> "failure"
             [] OTHER -> "pending"

Abstract == INSTANCE ReliableTransfer
              WITH N <- TotalFrag - 1, received <- Certain, verdict <- Verdict

Implements == Abstract!Spec

\* The client reaches a verdict.  Resends are only counted when a timeout
\* comes (deliver.c:104), and an unexpected acknowledgement brings one more
\* resend and so one more acknowledgement (deliver.c:128), but those of
\* earlier fragments run out.
SendingEnds == (cli = "send") ~> (cli \in {"done", "failed"})
=============================================================================
