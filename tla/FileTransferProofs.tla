------------------------- MODULE FileTransferProofs -------------------------
(***************************************************************************)
(* Proofs about FileTransfer, for every number of fragments, retry limit,  *)
(* network capacity and number of duplications.                            *)
(***************************************************************************)
EXTENDS FileTransfer, DatagramsProofs, TLAPS

-----------------------------------------------------------------------------
(***************************************************************************)
(* Types.                                                                  *)
(***************************************************************************)

\* The types hold in every reachable state: the counters stay within the
\* bounds the code's own tests enforce.
LEMMA InitTypes == Init => TypeOK
<1> SUFFICES ASSUME Init PROVE TypeOK
  OBVIOUS
<1>1. c2s \in [ToServer -> 0 .. NetCap] /\ s2c \in [ToClient -> 0 .. NetCap]
  BY ParamsAssumption, DatagramAssumption DEF Init
<1>2. file \in Seq(Frags) /\ fragRecv \in [Frags -> BOOLEAN]
  BY DEF Init
<1>3. QED
  BY <1>1, <1>2, ParamsAssumption, DatagramAssumption DEF Init, TypeOK

\* Whatever is put into or taken from the network, its type stays.
LEMMA NetworkTypes ==
  ASSUME TypeOK
  PROVE  /\ \A m \in ToServer : Put(c2s, m) \in [ToServer -> 0 .. NetCap]
         /\ \A m \in ToClient : Put(s2c, m) \in [ToClient -> 0 .. NetCap]
         /\ \A m \in ToServer : InFlight(c2s, m) => Take(c2s, m) \in [ToServer -> 0 .. NetCap]
         /\ \A m \in ToClient : InFlight(s2c, m) => Take(s2c, m) \in [ToClient -> 0 .. NetCap]
         /\ \A n \in Frags : Put(c2s, Data(n)) \in [ToServer -> 0 .. NetCap]
         /\ \A n \in Frags : Put(s2c, Ack(n)) \in [ToClient -> 0 .. NetCap]
<1>1. c2s \in [ToServer -> 0 .. NetCap] /\ s2c \in [ToClient -> 0 .. NetCap]
  BY DEF TypeOK
<1>2. \A m \in ToServer : Put(c2s, m) \in [ToServer -> 0 .. NetCap]
  BY <1>1, PutIsTyped
<1>3. \A m \in ToClient : Put(s2c, m) \in [ToClient -> 0 .. NetCap]
  BY <1>1, PutIsTyped
<1>4. \A m \in ToServer : InFlight(c2s, m) => Take(c2s, m) \in [ToServer -> 0 .. NetCap]
  BY <1>1, TakeIsTyped
<1>5. \A m \in ToClient : InFlight(s2c, m) => Take(s2c, m) \in [ToClient -> 0 .. NetCap]
  BY <1>1, TakeIsTyped
<1>6. QED
  BY <1>2, <1>3, <1>4, <1>5, Datagrams

LEMMA NextTypes == TypeOK /\ RetryInv /\ [Next]_vars => TypeOK' /\ RetryInv'
<1> SUFFICES ASSUME TypeOK, RetryInv, [Next]_vars PROVE TypeOK' /\ RetryInv'
  OBVIOUS
<1> USE ParamsAssumption, DatagramAssumption
<1>1. CASE CliHello
  <2>1. c2s' \in [ToServer -> 0 .. NetCap]
    BY <1>1, NetworkTypes, Datagrams DEF CliHello, TypeOK
  <2>2. QED
    BY <1>1, <2>1 DEF CliHello, TypeOK, RetryInv, server
<1>2. ASSUME NEW m \in ToClient, CliReply(m)
      PROVE  TypeOK' /\ RetryInv'
  <2>1. s2c' \in [ToClient -> 0 .. NetCap]
    BY <1>2, NetworkTypes DEF CliReply, TypeOK
  <2>2. QED
    BY <1>2, <2>1 DEF CliReply, TypeOK, RetryInv, server
<1>3. ASSUME NEW m \in ToClient, CliAck(m)
      PROVE  TypeOK' /\ RetryInv'
  <2>1. s2c' \in [ToClient -> 0 .. NetCap]
    BY <1>3, NetworkTypes DEF CliAck, TypeOK
  <2>2. PICK f \in Parse(m, cliBuf) : CliParsed(f)
    BY <1>3 DEF CliAck
  <2>3. CASE f = packet_num /\ f # Unparsable
    <3>1. f \in Frags
      BY <2>3, ParseAtClient DEF TypeOK
    <3>2. /\ cliBuf' = f /\ packet_num' = packet_num + 1 /\ timesent' = 0
          /\ armed' \in TimerChoices /\ cli' = "send"
      BY <2>2, <2>3, <3>1 DEF CliParsed
    <3>3. QED
      BY <1>3, <2>1, <2>3, <3>1, <3>2 DEF CliAck, TypeOK, RetryInv, server, Frags
  <2>4. CASE f # packet_num \/ f = Unparsable
    <3>1. f # Unparsable => f \in Frags
      BY ParseAtClient DEF TypeOK
    <3>2. cliBuf' \in {f, cliBuf} \ {Unparsable} /\ cli' \in {cli, "failed"}
      BY <2>2, <2>4, <3>1 DEF CliParsed, TypeOK, Unparsable, Frags
    <3>3. UNCHANGED <<packet_num, timesent, armed>>
      BY <2>2, <2>4, <3>1 DEF CliParsed, TypeOK, Unparsable, Frags
    <3>4. QED
      BY <1>3, <2>1, <3>1, <3>2, <3>3 DEF CliAck, TypeOK, RetryInv, server, Frags
  <2>5. QED
    BY <2>3, <2>4
<1>4. CASE CliSend
  <2>1. packet_num \in Frags
    BY <1>4 DEF CliSend, TypeOK, Frags
  <2>2. c2s' \in [ToServer -> 0 .. NetCap]
    BY <1>4, <2>1, NetworkTypes, Datagrams DEF CliSend, TypeOK
  <2>3. QED
    BY <1>4, <2>2 DEF CliSend, TypeOK, RetryInv, server
<1>5. CASE CliTimeout
  <2>1. timesent' \in 0 .. ALIVE + 1 /\ cli' \in {"send", "failed"}
    <3>1. timesent \in 0 .. ALIVE /\ timesent' = timesent + 1
      BY <1>5 DEF CliTimeout, TypeOK, RetryInv
    <3>2. cli' \in {"send", "failed"}
      BY <1>5 DEF CliTimeout
    <3>3. QED
      BY <3>1, <3>2
  <2>2. armed' \in BOOLEAN
    BY <1>5 DEF CliTimeout, TypeOK
  <2>3. RetryInv'
    BY <1>5 DEF CliTimeout, RetryInv
  <2>4. QED
    BY <1>5, <2>1, <2>2, <2>3 DEF CliTimeout, TypeOK, server
<1>6. CASE CliFin
  <2>1. c2s' \in [ToServer -> 0 .. NetCap]
    BY <1>6, NetworkTypes, Datagrams DEF CliFin, TypeOK
  <2>2. QED
    BY <1>6, <2>1 DEF CliFin, TypeOK, RetryInv, server
<1>7. ASSUME NEW m \in ToServer, SrvHello(m)
      PROVE  TypeOK' /\ RetryInv'
  <2>1. c2s' \in [ToServer -> 0 .. NetCap]
    BY <1>7, NetworkTypes DEF SrvHello, TypeOK
  <2>2. s2c' \in [ToClient -> 0 .. NetCap]
    BY <1>7, NetworkTypes, Datagrams DEF SrvHello, TypeOK
  <2>3. m.frag \in 0 .. TotalFrag
    BY Kinds DEF Ftp, Fin, Data, Frags
  <2>4. QED
    BY <1>7, <2>1, <2>2, <2>3 DEF SrvHello, TypeOK, RetryInv, client
<1>8. ASSUME NEW m \in ToServer, SrvData(m)
      PROVE  TypeOK' /\ RetryInv'
  <2>1. c2s' \in [ToServer -> 0 .. NetCap]
    BY <1>8, NetworkTypes DEF SrvData, TypeOK
  <2>2. PICK f \in Parse(m, srvBuf) : SrvStores(m, f)
    BY <1>8 DEF SrvData
  <2>3. CASE f \notin Frags
    BY <1>8, <2>1, <2>2, <2>3 DEF SrvData, SrvStores, TypeOK, RetryInv, client
  <2>4. CASE f \in Frags
    <3>1. s2c' \in [ToClient -> 0 .. NetCap]
      BY <2>2, <2>4, NetworkTypes DEF SrvStores
    <3>2. file' \in {file, Append(file, f)} /\ Append(file, f) \in Seq(Frags)
      BY <2>2, <2>4 DEF SrvStores, TypeOK
    <3>3. fragRecv' \in [Frags -> BOOLEAN]
      BY <2>2, <2>4 DEF SrvStores, TypeOK
    <3>4. srv' \in {"finWait", "recv"} /\ srvBuf' = f
      BY <2>2, <2>4 DEF SrvStores
    <3>5. file' \in Seq(Frags)
      BY <3>2 DEF TypeOK
    <3>6. srv' \in {"finWait", "recv"} /\ srvBuf' \in 0 .. TotalFrag
      BY <2>4, <3>4 DEF Frags
    <3>7. UNCHANGED <<client, dups>>
      BY <1>8 DEF SrvData
    <3>8. QED
      BY <2>1, <3>1, <3>3, <3>5, <3>6, <3>7 DEF TypeOK, RetryInv, client
  <2>5. QED
    BY <2>3, <2>4
<1>9. ASSUME NEW m \in ToServer, SrvFin(m)
      PROVE  TypeOK' /\ RetryInv'
  <2>1. c2s' \in [ToServer -> 0 .. NetCap]
    BY <1>9, NetworkTypes DEF SrvFin, TypeOK
  <2>2. PICK f \in Parse(m, srvBuf) : SrvAnswers(m, f)
    BY <1>9 DEF SrvFin
  <2>3. CASE UNCHANGED <<srvBuf, s2c>> /\ srv' \in {"dead", "closed"}
    BY <1>9, <2>1, <2>3 DEF SrvFin, TypeOK, RetryInv, client
  <2>4. CASE f # Unparsable /\ ~ReadsFin(m) /\ s2c' = Put(s2c, Ack(f))
             /\ srvBuf' = f /\ UNCHANGED srv
    <3>1. f \in Frags
      BY <2>4, ParseAtServer DEF TypeOK, ReadsFin
    <3>2. s2c' \in [ToClient -> 0 .. NetCap]
      BY <2>4, <3>1, NetworkTypes
    <3>3. QED
      BY <1>9, <2>1, <2>4, <3>1, <3>2 DEF SrvFin, TypeOK, RetryInv, client, Frags
  <2>5. QED
    BY <2>2, <2>3, <2>4 DEF SrvAnswers
<1>10. CASE SrvTimeout
  BY <1>10 DEF SrvTimeout, TypeOK, RetryInv, client
<1>11. CASE Lose
  <2>1. c2s' \in [ToServer -> 0 .. NetCap] /\ s2c' \in [ToClient -> 0 .. NetCap]
    BY <1>11, NetworkTypes DEF Lose, TypeOK
  <2>2. QED
    BY <1>11, <2>1 DEF Lose, TypeOK, RetryInv, client, server
<1>12. CASE Duplicate
  <2>1. c2s' \in [ToServer -> 0 .. NetCap] /\ s2c' \in [ToClient -> 0 .. NetCap]
    BY <1>12, NetworkTypes DEF Duplicate, TypeOK
  <2>2. QED
    BY <1>12, <2>1 DEF Duplicate, TypeOK, RetryInv, client, server
<1>13. CASE UNCHANGED vars
  BY <1>13 DEF vars, client, server, TypeOK, RetryInv
<1>14. QED
  BY <1>1, <1>2, <1>3, <1>4, <1>5, <1>6, <1>7, <1>8, <1>9, <1>10, <1>11, <1>12, <1>13
  DEF Next, Client, Server

THEOREM TypeCorrect == Spec => []TypeOK
<1>1. Init => TypeOK /\ RetryInv
  BY InitTypes, ParamsAssumption, DatagramAssumption DEF Init, RetryInv
<1>2. QED
  BY <1>1, NextTypes, PTL DEF Spec

-----------------------------------------------------------------------------
(***************************************************************************)
(* The inductive invariant.                                                *)
(***************************************************************************)

\* It holds initially: nothing is written and nothing is in flight.
LEMMA InitInv == Init => IInv
<1> SUFFICES ASSUME Init PROVE IInv
  OBVIOUS
<1> USE ParamsAssumption, DatagramAssumption
<1>1. TypeOK
  BY InitTypes
<1>2. Len(file) = 0 /\ file = <<>>
  BY DEF Init
<1>3. FileInv
  BY <1>2 DEF Init, FileInv, FileInOrder, InStep, Frags
<1>4. HandshakeInv /\ WireInv
  BY <1>2, Datagrams DEF Init, HandshakeInv, WireInv
<1>5. PhaseInv /\ RetryInv
  BY <1>2 DEF Init, PhaseInv, RetryInv
<1>6. QED
  BY <1>1, <1>3, <1>4, <1>5 DEF IInv

\* The steps of the client.
LEMMA ClientInv ==
  ASSUME IInv, Client
  PROVE  FileInv' /\ HandshakeInv' /\ WireInv' /\ PhaseInv'
<1> USE ParamsAssumption, DatagramAssumption DEF IInv
<1>0. Len(file) \in Nat /\ packet_num \in Int
  BY DEF TypeOK
<1>1. CASE CliHello
  <2>1. \A x \in ToServer : x # Ftp => c2s'[x] = c2s[x]
    BY <1>1, PutIsTyped, Datagrams DEF CliHello, TypeOK
  <2>2. FileInv'
    BY <1>1 DEF CliHello, server, FileInv, FileInOrder, InStep
  <2>3. HandshakeInv'
    BY <1>1, <2>1, Datagrams DEF CliHello, server, HandshakeInv
  <2>4. WireInv'
    BY <1>1, <2>1, Datagrams DEF CliHello, server, WireInv, HandshakeInv
  <2>5. PhaseInv'
    BY <1>1 DEF CliHello, server, PhaseInv
  <2>6. QED
    BY <2>2, <2>3, <2>4, <2>5
<1>2. ASSUME NEW m \in ToClient, CliReply(m)
      PROVE  FileInv' /\ HandshakeInv' /\ WireInv' /\ PhaseInv'
  <2>1. \A x \in ToClient : s2c'[x] > 0 => s2c[x] > 0
    BY <1>2, TakeIsTyped DEF CliReply, TypeOK
  <2>2. srv # "idle"
    BY <1>2 DEF CliReply, InFlight, HandshakeInv
  <2>3. FileInv'
    BY <1>2 DEF CliReply, server, FileInv, FileInOrder, InStep
  <2>4. HandshakeInv'
    BY <1>2, <2>2 DEF CliReply, server, HandshakeInv
  <2>5. WireInv'
    BY <1>2, <2>1, Datagrams DEF CliReply, server, WireInv, HandshakeInv
  <2>6. PhaseInv'
    BY <1>2 DEF CliReply, server, PhaseInv
  <2>7. QED
    BY <2>3, <2>4, <2>5, <2>6
<1>3. ASSUME NEW m \in ToClient, CliAck(m)
      PROVE  FileInv' /\ HandshakeInv' /\ WireInv' /\ PhaseInv'
  <2>1. \A x \in ToClient : s2c'[x] > 0 => s2c[x] > 0
    BY <1>3, TakeIsTyped DEF CliAck, TypeOK
  <2>2. PICK f \in Parse(m, cliBuf) : CliParsed(f)
    BY <1>3 DEF CliAck
  <2>3. f # Unparsable => f \in Frags /\ f <= Len(file)
    <3>1. \A n \in Frags : m = Ack(n) => n <= Len(file)
      BY <1>3 DEF CliAck, InFlight, WireInv
    <3>2. QED
      BY <3>1, ParseAtClient DEF TypeOK, WireInv
  <2>4. srv # "idle" /\ c2s[Fin] = 0
    BY <1>3, Datagrams DEF CliAck, HandshakeInv, WireInv, TypeOK
  <2>5. /\ cli' \in {"failed", "awaitAck", "send"}
        /\ packet_num' \in {packet_num, packet_num + 1}
        /\ packet_num' - 1 <= Len(file)
        /\ cliBuf' <= Len(file)
        /\ cli' = "awaitAck" => packet_num' = packet_num
    BY <1>0, <1>3, <2>2, <2>3
    DEF CliAck, CliParsed, FileInv, InStep, WireInv, Unparsable, Frags
  <2>6. UNCHANGED <<srv, fragRecv, file, srvBuf, c2s>>
    BY <1>3 DEF CliAck, server
  <2>7. FileInv'
    BY <1>0, <2>5, <2>6 DEF FileInv, FileInOrder, InStep
  <2>8. HandshakeInv'
    BY <2>4, <2>5, <2>6 DEF HandshakeInv
  <2>9. WireInv'
    <3>1. \A n \in Frags : c2s'[Data(n)] > 0 => n <= packet_num'
      BY <1>0, <2>5, <2>6 DEF WireInv, Frags
    <3>2. \A n \in Frags : s2c'[Ack(n)] > 0 => n <= Len(file')
      BY <2>1, <2>6, Datagrams DEF WireInv
    <3>3. QED
      BY <2>4, <2>5, <2>6, <3>1, <3>2 DEF WireInv
  <2>10. PhaseInv'
    BY <1>3, <2>5, <2>6 DEF CliAck, PhaseInv
  <2>11. QED
    BY <2>7, <2>8, <2>9, <2>10
<1>4. CASE CliSend
  <2>1. packet_num \in Frags
    BY <1>4 DEF CliSend, TypeOK, Frags
  <2>2. \A x \in ToServer : x # Data(packet_num) => c2s'[x] = c2s[x]
    <3>1. Data(packet_num) \in ToServer /\ c2s' = Put(c2s, Data(packet_num))
      BY <1>4, <2>1, Datagrams DEF CliSend
    <3>2. QED
      BY <3>1, PutIsTyped DEF TypeOK
  <2>3. FileInv'
    BY <1>4 DEF CliSend, server, FileInv, FileInOrder, InStep
  <2>4. HandshakeInv'
    BY <1>4 DEF CliSend, server, HandshakeInv
  <2>5. WireInv'
    <3>1. \A n \in Frags : c2s'[Data(n)] > 0 => n <= packet_num
      BY <2>1, <2>2, Datagrams DEF WireInv, Frags
    <3>2. c2s'[Fin] = 0
      BY <1>4, <2>1, <2>2, Datagrams DEF CliSend, WireInv, TypeOK
    <3>3. QED
      BY <1>0, <1>4, <3>1, <3>2 DEF CliSend, server, WireInv
  <2>6. PhaseInv'
    BY <1>4 DEF CliSend, server, PhaseInv
  <2>7. QED
    BY <2>3, <2>4, <2>5, <2>6
<1>5. CASE CliTimeout
  <2>1. cli' \in {"send", "failed"} /\ c2s[Fin] = 0
    <3>1. cli = "awaitAck" /\ cli' \in {"send", "failed"}
      BY <1>5 DEF CliTimeout
    <3>2. c2s[Fin] \in 0 .. NetCap /\ ~(c2s[Fin] > 0)
      BY <3>1, Datagrams DEF WireInv, TypeOK
    <3>3. QED
      BY <3>1, <3>2
  <2>2. FileInv'
    BY <1>5 DEF CliTimeout, server, FileInv, FileInOrder, InStep
  <2>3. HandshakeInv'
    BY <1>5, <2>1 DEF CliTimeout, server, HandshakeInv
  <2>4. WireInv'
    BY <1>5, <2>1 DEF CliTimeout, server, WireInv
  <2>5. PhaseInv'
    BY <1>5, <2>1 DEF CliTimeout, server, PhaseInv
  <2>6. QED
    BY <2>2, <2>3, <2>4, <2>5
<1>6. CASE CliFin
  <2>1. \A x \in ToServer : x # Fin => c2s'[x] = c2s[x]
    BY <1>6, PutIsTyped, Datagrams DEF CliFin, TypeOK
  <2>2. packet_num = TotalFrag + 1
    BY <1>6 DEF CliFin, TypeOK
  <2>3. FileInv'
    BY <1>6 DEF CliFin, server, FileInv, FileInOrder, InStep
  <2>4. HandshakeInv'
    BY <1>6 DEF CliFin, server, HandshakeInv
  <2>5. WireInv'
    BY <1>6, <2>1, Datagrams DEF CliFin, server, WireInv
  <2>6. PhaseInv'
    BY <1>6, <2>2 DEF CliFin, server, PhaseInv
  <2>7. QED
    BY <2>3, <2>4, <2>5, <2>6
<1>7. QED
  BY <1>1, <1>2, <1>3, <1>4, <1>5, <1>6 DEF Client

\* The steps of the server.  A fragment is stored exactly when it is the next
\* one, because nothing beyond packet_num is in flight and packet_num is at
\* most one ahead of the file.
LEMMA ServerInv ==
  ASSUME IInv, Server
  PROVE  FileInv' /\ HandshakeInv' /\ WireInv' /\ PhaseInv'
<1> USE ParamsAssumption, DatagramAssumption DEF IInv
<1>0. Len(file) \in Nat /\ packet_num \in Int /\ srvBuf \in Int
  BY DEF TypeOK
<1>1. ASSUME NEW m \in ToServer, SrvHello(m)
      PROVE  FileInv' /\ HandshakeInv' /\ WireInv' /\ PhaseInv'
  <2>1. \A x \in ToServer : c2s'[x] > 0 => c2s[x] > 0
    BY <1>1, TakeIsTyped DEF SrvHello, TypeOK
  <2>2. \A x \in ToServer : c2s[x] = 0 => c2s'[x] = 0
    BY <1>1, TakeIsTyped DEF SrvHello, TypeOK
  <2>3. \A x \in ToClient : x \notin {Yes, No} => s2c'[x] = s2c[x]
    <3>1. s2c' = Put(s2c, Yes) \/ s2c' = Put(s2c, No)
      BY <1>1 DEF SrvHello
    <3>2. s2c \in [ToClient -> 0 .. NetCap]
      BY DEF TypeOK
    <3>3. QED
      BY <3>1, <3>2, PutIsTyped, Datagrams
  <2>4. m.frag = 0
    <3>1. \A n \in Frags : m # Data(n)
      BY <1>1, Datagrams DEF SrvHello, InFlight, HandshakeInv
    <3>2. QED
      BY <3>1, Kinds DEF Ftp, Fin
  <2>5. FileInv'
    BY <1>1 DEF SrvHello, client, FileInv, FileInOrder, InStep
  <2>6. HandshakeInv'
    BY <1>1, <2>2, Datagrams DEF SrvHello, client, HandshakeInv
  <2>7. WireInv'
    BY <1>0, <1>1, <2>1, <2>3, <2>4, Datagrams DEF SrvHello, client, WireInv
  <2>8. PhaseInv'
    BY <1>1 DEF SrvHello, client, PhaseInv
  <2>9. QED
    BY <2>5, <2>6, <2>7, <2>8
<1>2. ASSUME NEW m \in ToServer, SrvData(m)
      PROVE  FileInv' /\ HandshakeInv' /\ WireInv' /\ PhaseInv'
  <2>1. \A x \in ToServer : c2s'[x] > 0 => c2s[x] > 0
    BY <1>2, TakeIsTyped DEF SrvData, TypeOK
  <2>2. \A x \in ToServer : c2s[x] = 0 => c2s'[x] = 0
    BY <1>2, TakeIsTyped DEF SrvData, TypeOK
  <2>3. PICK f \in Parse(m, srvBuf) : SrvStores(m, f)
    BY <1>2 DEF SrvData
  <2>4. m # Fin
    <3>1. Len(file) < TotalFrag
      BY <1>2 DEF SrvData, PhaseInv
    <3>2. cli # "done"
      BY <1>0, <3>1 DEF PhaseInv, FileInv, InStep
    <3>3. QED
      BY <1>2, <3>2 DEF SrvData, InFlight, WireInv
  <2>5. UNCHANGED <<cli, packet_num, timesent, armed, cliBuf>>
    BY <1>2 DEF SrvData, client
  <2>6. CASE f = Unparsable
    <3>1. srv' = "dead" /\ UNCHANGED <<fragRecv, file, srvBuf, s2c>>
      BY <2>3, <2>6 DEF SrvStores, Unparsable, Frags
    <3>2. FileInv'
      BY <2>5, <3>1 DEF FileInv, FileInOrder, InStep
    <3>3. HandshakeInv'
      BY <2>2, <2>5, <3>1, Datagrams DEF HandshakeInv
    <3>4. WireInv'
      BY <2>1, <2>5, <3>1, Datagrams DEF WireInv
    <3>5. PhaseInv'
      BY <2>5, <3>1 DEF PhaseInv
    <3>6. QED
      BY <3>2, <3>3, <3>4, <3>5
  <2>7. CASE f # Unparsable
    <3>1. f \in Frags
      BY <2>4, <2>7, ParseAtServer DEF TypeOK
    <3>2. f <= Len(file) \/ (f = Len(file) + 1 /\ m = Data(f) /\ f <= packet_num)
      <4>1. f <= Len(file) \/ (m = Data(f) /\ f <= packet_num)
        <5>1. m = Data(f) => f <= packet_num
          BY <1>2, <3>1 DEF SrvData, InFlight, WireInv
        <5>2. f = srvBuf \/ m = Data(f)
          BY <2>7, <3>1, <2>4, ParseAtServer DEF TypeOK
        <5>3. QED
          BY <5>1, <5>2 DEF WireInv
      <4>2. packet_num - 1 <= Len(file)
        BY DEF FileInv, InStep
      <4>3. QED
        BY <1>0, <3>1, <4>1, <4>2 DEF Frags
    <3>3. fragRecv[f] <=> f <= Len(file)
      BY <3>1 DEF FileInv
    <3>4. /\ fragRecv' = [fragRecv EXCEPT ![f] = TRUE]
          /\ s2c' = Put(s2c, Ack(f))
          /\ srvBuf' = f
          /\ srv' \in {"finWait", "recv"}
      BY <2>3, <3>1 DEF SrvStores
    <3>5. \A x \in ToClient : x # Ack(f) => s2c'[x] = s2c[x]
      <4>1. Ack(f) \in ToClient /\ s2c \in [ToClient -> 0 .. NetCap]
        BY <3>1, Datagrams DEF TypeOK
      <4>2. QED
        BY <3>4, <4>1, PutIsTyped
    <3>6. /\ Len(file') \in Nat
          /\ Len(file') = IF f <= Len(file) THEN Len(file) ELSE Len(file) + 1
          /\ FileInOrder'
      <4>1. CASE f <= Len(file)
        <5>1. file' = file
          BY <2>3, <3>1, <3>3, <4>1 DEF SrvStores
        <5>2. QED
          BY <1>0, <4>1, <5>1 DEF FileInv, FileInOrder
      <4>2. CASE ~(f <= Len(file))
        <5>1. file' = Append(file, Len(file) + 1)
          BY <2>3, <3>1, <3>2, <3>3, <4>2 DEF SrvStores
        <5>2. Len(file') = Len(file) + 1
          BY <5>1 DEF TypeOK
        <5>3. file = [i \in 1 .. Len(file) |-> i]
          BY DEF FileInv, FileInOrder
        <5>4. file' = [i \in 1 .. Len(file) + 1 |-> i]
          BY <1>0, <5>1, <5>3 DEF TypeOK
        <5>5. QED
          BY <1>0, <4>2, <5>2, <5>4 DEF FileInOrder
      <4>3. QED
        BY <4>1, <4>2
    <3>7. f <= Len(file')
      BY <1>0, <3>1, <3>2, <3>6 DEF Frags
    <3>8. FileInv'
      <4>1. InStep'
        BY <1>0, <2>5, <3>1, <3>2, <3>6 DEF FileInv, InStep, Frags
      <4>2. \A n \in Frags : fragRecv'[n] <=> n <= Len(file')
        <5> TAKE n \in Frags
        <5>1. fragRecv[n] <=> n <= Len(file)
          BY DEF FileInv
        <5>2. fragRecv'[n] <=> (n = f \/ fragRecv[n])
          BY <3>1, <3>4 DEF TypeOK
        <5>3. n <= Len(file') <=> (n = f \/ n <= Len(file))
          BY <1>0, <3>1, <3>2, <3>6 DEF Frags
        <5>4. QED
          BY <5>1, <5>2, <5>3
      <4>3. QED
        BY <3>6, <4>1, <4>2 DEF FileInv
    <3>9. HandshakeInv'
      BY <1>2, <2>2, <2>5, <3>4, Datagrams DEF SrvData, HandshakeInv
    <3>10. WireInv'
      <4>1. \A n \in Frags : s2c'[Ack(n)] > 0 => n <= Len(file')
        BY <1>0, <3>1, <3>5, <3>6, <3>7, Datagrams DEF WireInv, Frags
      <4>2. \A n \in Frags : c2s'[Data(n)] > 0 => n <= packet_num
        BY <2>1, Datagrams DEF WireInv
      <4>3. cliBuf <= Len(file')
        BY <1>0, <3>6 DEF WireInv, TypeOK
      <4>4. c2s'[Fin] > 0 => cli = "done"
        BY <2>1, Datagrams DEF WireInv
      <4>5. QED
        BY <2>5, <3>4, <3>7, <4>1, <4>2, <4>3, <4>4 DEF WireInv
    <3>11. PhaseInv'
      <4>1. Len(file) < TotalFrag /\ Len(file') <= TotalFrag
        BY <1>0, <1>2, <3>1, <3>2, <3>6 DEF SrvData, PhaseInv, Frags
      <4>2. srv' = "finWait" => Len(file') = TotalFrag
        <5>1. srv' = "finWait" => m = Data(TotalFrag)
          BY <2>3, <3>1 DEF SrvStores
        <5>2. srv' = "finWait" => fragRecv'[TotalFrag]
          BY <2>3, <3>1 DEF SrvStores, Frags
        <5>3. QED
          BY <3>6, <3>8, <4>1, <5>2 DEF FileInv, Frags
      <4>3. srv' = "recv" => Len(file') < TotalFrag
        <5> SUFFICES ASSUME Len(file') = TotalFrag PROVE srv' = "finWait"
          BY <1>0, <3>4, <3>6, <4>1
        <5>1. f = TotalFrag /\ m = Data(f)
          BY <1>0, <3>1, <3>2, <3>6, <4>1 DEF Frags
        <5>2. \A p \in Frags : fragRecv'[p]
          BY <3>8 DEF FileInv, Frags
        <5>3. QED
          BY <2>3, <3>1, <5>1, <5>2 DEF SrvStores
      <4>4. QED
        BY <2>5, <3>4, <4>2, <4>3 DEF PhaseInv
    <3>12. QED
      BY <3>8, <3>9, <3>10, <3>11
  <2>8. QED
    BY <2>6, <2>7
<1>3. ASSUME NEW m \in ToServer, SrvFin(m)
      PROVE  FileInv' /\ HandshakeInv' /\ WireInv' /\ PhaseInv'
  <2>1. \A x \in ToServer : c2s'[x] > 0 => c2s[x] > 0
    BY <1>3, TakeIsTyped DEF SrvFin, TypeOK
  <2>2. \A x \in ToServer : c2s[x] = 0 => c2s'[x] = 0
    BY <1>3, TakeIsTyped DEF SrvFin, TypeOK
  <2>3. PICK f \in Parse(m, srvBuf) : SrvAnswers(m, f)
    BY <1>3 DEF SrvFin
  <2>4. UNCHANGED <<cli, packet_num, timesent, armed, cliBuf, fragRecv, file>>
    BY <1>3 DEF SrvFin, client
  <2>5. Len(file) = TotalFrag /\ srv' \in {"dead", "closed", "finWait"}
    BY <1>3, <2>3 DEF SrvFin, SrvAnswers, PhaseInv
  <2>6. srvBuf' <= TotalFrag /\ \A n \in Frags : s2c'[Ack(n)] > 0 => n <= TotalFrag
    <3>1. CASE UNCHANGED <<srvBuf, s2c>>
      BY <2>5, <3>1 DEF WireInv
    <3>2. CASE f # Unparsable /\ ~ReadsFin(m) /\ srvBuf' = f
      <4>1. f \in Frags
        BY <3>2, ParseAtServer DEF TypeOK, ReadsFin
      <4>2. QED
        BY <3>2, <4>1 DEF Frags
    <3>3. QED
      BY <2>3, <3>1, <3>2 DEF SrvAnswers
  <2>7. FileInv'
    BY <2>4 DEF FileInv, FileInOrder, InStep
  <2>8. HandshakeInv'
    BY <2>2, <2>4, <2>5, Datagrams DEF HandshakeInv
  <2>9. WireInv'
    BY <2>1, <2>4, <2>5, <2>6, Datagrams DEF WireInv
  <2>10. PhaseInv'
    BY <2>4, <2>5 DEF PhaseInv
  <2>11. QED
    BY <2>7, <2>8, <2>9, <2>10
<1>4. CASE SrvTimeout
  <2>1. FileInv'
    BY <1>4 DEF SrvTimeout, client, FileInv, FileInOrder, InStep
  <2>2. HandshakeInv' /\ WireInv' /\ PhaseInv'
    BY <1>4 DEF SrvTimeout, client, HandshakeInv, WireInv, PhaseInv
  <2>3. QED
    BY <2>1, <2>2
<1>5. QED
  BY <1>1, <1>2, <1>3, <1>4 DEF Server

\* Losing and duplicating puts nothing new in flight.
LEMMA NetworkInv ==
  ASSUME IInv, Lose \/ Duplicate
  PROVE  FileInv' /\ HandshakeInv' /\ WireInv' /\ PhaseInv'
<1> USE ParamsAssumption, DatagramAssumption DEF IInv
<1>1. UNCHANGED <<client, server>>
  BY DEF Lose, Duplicate
<1>2. /\ \A x \in ToServer : c2s'[x] > 0 => c2s[x] > 0
      /\ \A x \in ToClient : s2c'[x] > 0 => s2c[x] > 0
  <2>1. CASE Lose
    BY <2>1, TakeIsTyped DEF Lose, TypeOK
  <2>2. CASE Duplicate
    <3>1. \A m \in ToServer : InFlight(c2s, m) =>
            \A x \in ToServer : Put(c2s, m)[x] > 0 => c2s[x] > 0
      BY PutAgain DEF TypeOK
    <3>2. \A m \in ToClient : InFlight(s2c, m) =>
            \A x \in ToClient : Put(s2c, m)[x] > 0 => s2c[x] > 0
      BY PutAgain DEF TypeOK
    <3>3. QED
      BY <2>2, <3>1, <3>2 DEF Duplicate
  <2>3. QED
    BY <2>1, <2>2
<1>3. /\ \A x \in ToServer : c2s[x] = 0 => c2s'[x] = 0
      /\ \A x \in ToClient : s2c[x] = 0 => s2c'[x] = 0
  <2>1. TypeOK'
    BY NextTypes DEF Next
  <2>2. \A x \in ToServer : c2s[x] \in 0 .. NetCap /\ c2s'[x] \in 0 .. NetCap
    BY <2>1 DEF TypeOK
  <2>3. \A x \in ToClient : s2c[x] \in 0 .. NetCap /\ s2c'[x] \in 0 .. NetCap
    BY <2>1 DEF TypeOK
  <2>4. QED
    BY <1>2, <2>2, <2>3
<1>4. FileInv'
  BY <1>1 DEF client, server, FileInv, FileInOrder, InStep
<1>5. HandshakeInv'
  BY <1>1, <1>3, Datagrams DEF client, server, HandshakeInv
<1>6. WireInv'
  BY <1>1, <1>2, Datagrams DEF client, server, WireInv
<1>7. PhaseInv'
  BY <1>1 DEF client, server, PhaseInv
<1>8. QED
  BY <1>4, <1>5, <1>6, <1>7

LEMMA NextInv == IInv /\ [Next]_vars => IInv'
<1> SUFFICES ASSUME IInv, [Next]_vars PROVE IInv'
  OBVIOUS
<1>1. TypeOK' /\ RetryInv'
  BY NextTypes DEF IInv
<1>2. CASE Client
  BY <1>1, <1>2, ClientInv DEF IInv
<1>3. CASE Server
  BY <1>1, <1>3, ServerInv DEF IInv
<1>4. CASE Lose \/ Duplicate
  BY <1>1, <1>4, NetworkInv DEF IInv
<1>5. CASE UNCHANGED vars
  <2>1. FileInv'
    BY <1>5 DEF vars, client, server, IInv, FileInv, FileInOrder, InStep
  <2>2. HandshakeInv' /\ WireInv' /\ PhaseInv'
    BY <1>5 DEF vars, client, server, IInv, HandshakeInv, WireInv, PhaseInv
  <2>3. QED
    BY <1>1, <2>1, <2>2 DEF IInv
<1>6. QED
  BY <1>2, <1>3, <1>4, <1>5 DEF Next

\* Every reachable state satisfies the inductive invariant.
THEOREM Invariance == Spec => []IInv
  BY InitInv, NextInv, PTL DEF Spec

-----------------------------------------------------------------------------
(***************************************************************************)
(* What follows for the transfer.                                          *)
(***************************************************************************)

\* The file never exceeds the number of fragments.
LEMMA FileFits == IInv => Len(file) \in Nat /\ Len(file) <= TotalFrag
<1> SUFFICES ASSUME IInv, Len(file) > TotalFrag PROVE FALSE
  BY ParamsAssumption, DatagramAssumption DEF IInv, TypeOK
<1>1. Len(file) \in Nat
  BY DEF IInv, TypeOK
<1>2. Len(file) \in 1 .. Len(file) /\ file[Len(file)] = Len(file)
  BY <1>1, ParamsAssumption, DatagramAssumption DEF IInv, FileInv, FileInOrder
<1>3. file[Len(file)] \in Frags
  BY <1>2 DEF IInv, TypeOK
<1>4. QED
  BY <1>2, <1>3, ParamsAssumption, DatagramAssumption DEF Frags

\* The server's file holds the fragments in order, each one once, whatever
\* the network did (server.c:92-99 appends in the order of arrival).
THEOREM OutputInOrder == Spec => []FileInOrder
<1>1. IInv => FileInOrder
  BY DEF IInv, FileInv
<1>2. QED
  BY <1>1, Invariance, PTL

\* Client and server are never more than one fragment apart, so a stale
\* acknowledgement never makes the client skip a fragment.
THEOREM StopAndWait == Spec => []InStep
<1>1. IInv => InStep
  BY DEF IInv, FileInv
<1>2. QED
  BY <1>1, Invariance, PTL

\* When the client reports completion, the server has the whole file.
THEOREM CompletionIsTrue == Spec => []DoneMeansDelivered
<1>1. IInv => DoneMeansDelivered
  <2> SUFFICES ASSUME IInv, cli = "done" PROVE Len(file) = TotalFrag
    BY DEF DoneMeansDelivered
  <2>1. Len(file) >= TotalFrag
    BY ParamsAssumption, DatagramAssumption DEF IInv, PhaseInv, FileInv, InStep, TypeOK
  <2>2. QED
    BY <2>1, FileFits, ParamsAssumption, DatagramAssumption
<1>2. QED
  BY <1>1, Invariance, PTL

\* The loop that indexes fragRecv[frag_no - 1] never reads a FIN.
THEOREM IndexInRange == Spec => []NoIndexUnderflow
<1>1. IInv => NoIndexUnderflow
  BY DEF IInv, PhaseInv, NoIndexUnderflow
<1>2. QED
  BY <1>1, Invariance, PTL

\* A server out of its receiving loop holds the whole file.
THEOREM LoopEndsComplete == Spec => []NothingMissingAfterLoop
<1>1. IInv => NothingMissingAfterLoop
  BY DEF IInv, PhaseInv, NothingMissingAfterLoop
<1>2. QED
  BY <1>1, Invariance, PTL

\* A server that announces the end has the whole file, and the client has had
\* every fragment acknowledged, but for the last one where a fragment's data may
\* pass for FIN (server.c:131).
THEOREM FinIsTrue == Spec => []FinMeansDone
<1> DEFINE Told == srv = "closed" => cli = "done" \/ FinText # {}
<1>1. Init => Told
  BY DEF Init
<1>2. IInv /\ Told /\ [Next]_vars => Told'
  <2> SUFFICES ASSUME IInv, Told, [Next]_vars PROVE Told'
    OBVIOUS
  <2>1. CASE Client
    <3>1. UNCHANGED srv
      BY <2>1 DEF Client, CliHello, CliReply, CliAck, CliSend, CliTimeout, CliFin, server
    <3>2. cli # "done"
      BY <2>1 DEF Client, CliHello, CliReply, CliAck, CliSend, CliTimeout, CliFin
    <3>3. QED
      BY <3>1, <3>2
  <2>2. CASE Server
    <3>1. UNCHANGED cli
      BY <2>2 DEF Server, SrvHello, SrvData, SrvFin, SrvTimeout, client
    <3>2. ASSUME NEW m \in ToServer, SrvFin(m), srv' = "closed"
          PROVE  cli = "done" \/ FinText # {}
      <4>1. PICK f \in Parse(m, srvBuf) : SrvAnswers(m, f)
        BY <3>2 DEF SrvFin
      <4>2. srv = "finWait" /\ InFlight(c2s, m)
        BY <3>2 DEF SrvFin
      <4>3. m = Fin \/ FinText # {}
        BY <3>2, <4>1, <4>2 DEF SrvAnswers, ReadsFin
      <4>4. QED
        BY <4>2, <4>3 DEF InFlight, IInv, WireInv
    <3>3. ASSUME NEW m \in ToServer, SrvData(m) PROVE srv' # "closed"
      BY <3>3 DEF SrvData, SrvStores
    <3>4. QED
      BY <2>2, <3>1, <3>2, <3>3 DEF Server, SrvHello, SrvTimeout
  <2>3. CASE Lose \/ Duplicate \/ UNCHANGED vars
    BY <2>3 DEF Lose, Duplicate, vars, client, server
  <2>4. QED
    BY <2>1, <2>2, <2>3 DEF Next
<1>3. IInv /\ Told => FinMeansDone
  <2> SUFFICES ASSUME IInv, Told, srv = "closed"
               PROVE  /\ Len(file) = TotalFrag
                      /\ cli = "done" \/ (FinText # {} /\ packet_num >= TotalFrag)
    BY DEF FinMeansDone
  <2>1. Len(file) = TotalFrag
    BY DEF IInv, PhaseInv
  <2>2. packet_num >= TotalFrag
    BY <2>1, DatagramAssumption DEF IInv, FileInv, InStep, TypeOK
  <2>3. QED
    BY <2>1, <2>2
<1>4. QED
  BY <1>1, <1>2, <1>3, Invariance, PTL DEF Spec

-----------------------------------------------------------------------------
(***************************************************************************)
(* Refinement: every step of the transfer delivers the next fragment,      *)
(* settles the verdict, or changes nothing the abstract transfer sees.     *)
(***************************************************************************)

\* The initial states are the abstract ones.
LEMMA InitRefines == Init => Abstract!Init
  BY DEF Init, Abstract!Init, Verdict

\* A step of the client settles the verdict or is invisible.
LEMMA ClientRefines ==
  ASSUME IInv, IInv', Client
  PROVE  [Abstract!Next]_Abstract!vars
<1>1. file' = file
  BY DEF Client, CliHello, CliReply, CliAck, CliSend, CliTimeout, CliFin, server
<1>2. cli \notin {"done", "failed"}
  BY DEF Client, CliHello, CliReply, CliAck, CliSend, CliTimeout, CliFin
<1>3. CASE cli' = "done"
  <2>1. CliFin
    BY <1>3 DEF Client, CliHello, CliReply, CliAck, CliParsed, CliSend, CliTimeout
  <2>2. Len(file) = TotalFrag
    <3>1. packet_num = TotalFrag + 1
      BY <2>1, ParamsAssumption, DatagramAssumption DEF CliFin, IInv, TypeOK
    <3>2. Len(file) >= TotalFrag
      BY <3>1, ParamsAssumption, DatagramAssumption DEF IInv, FileInv, InStep, TypeOK
    <3>3. QED
      BY <3>2, FileFits, ParamsAssumption, DatagramAssumption
  <2>3. QED
    BY <1>1, <1>2, <1>3, <2>2 DEF Abstract!Next, Abstract!Confirm, Verdict
<1>4. CASE cli' = "failed"
  BY <1>1, <1>2, <1>4 DEF Abstract!Next, Abstract!GiveUp, Verdict
<1>5. CASE cli' \notin {"done", "failed"}
  BY <1>1, <1>2, <1>5 DEF Abstract!vars, Verdict
<1>6. QED
  BY <1>3, <1>4, <1>5

\* A step of the server delivers the next fragment or is invisible.
LEMMA ServerRefines ==
  ASSUME IInv, IInv', Server
  PROVE  [Abstract!Next]_Abstract!vars
<1>1. cli' = cli
  BY DEF Server, SrvHello, SrvData, SrvFin, SrvTimeout, client
<1>2. CASE file' = file
  BY <1>1, <1>2 DEF Abstract!vars, Verdict
<1>3. CASE file' # file
  <2>1. PICK m \in ToServer : SrvData(m)
    BY <1>3 DEF Server, SrvHello, SrvFin, SrvTimeout
  <2>2. PICK f \in Parse(m, srvBuf) : SrvStores(m, f)
    BY <2>1 DEF SrvData
  <2>3. f \in Frags /\ file' = Append(file, f)
    BY <1>3, <2>2 DEF SrvStores
  <2>4. Len(file) \in Nat /\ Len(file') = Len(file) + 1 /\ file'[Len(file) + 1] = f
    BY <2>3 DEF IInv, TypeOK
  <2>5. f = Len(file) + 1
    BY <2>4 DEF IInv, FileInv, FileInOrder
  <2>6. Len(file) < TotalFrag
    BY <2>3, <2>4, <2>5, ParamsAssumption, DatagramAssumption DEF Frags
  <2>7. QED
    BY <1>1, <2>3, <2>5, <2>6 DEF Abstract!Next, Abstract!Deliver, Verdict
<1>4. QED
  BY <1>2, <1>3

\* The file transfer implements the abstract transfer, for every number of
\* fragments and whatever the network loses, duplicates or reorders.
THEOREM Refinement == Spec => Implements
<1>1. IInv /\ IInv' /\ [Next]_vars => [Abstract!Next]_Abstract!vars
  <2> SUFFICES ASSUME IInv, IInv', [Next]_vars
               PROVE  [Abstract!Next]_Abstract!vars
    OBVIOUS
  <2>1. CASE Client
    BY <2>1, ClientRefines
  <2>2. CASE Server
    BY <2>2, ServerRefines
  <2>3. CASE Lose \/ Duplicate \/ UNCHANGED vars
    BY <2>3 DEF Lose, Duplicate, vars, client, server, Abstract!vars, Verdict
  <2>4. QED
    BY <2>1, <2>2, <2>3 DEF Next
<1>2. QED
  BY <1>1, InitRefines, Invariance, PTL DEF Spec, Implements, Abstract!Spec
=============================================================================
