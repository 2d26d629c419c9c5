------------------------ MODULE FileTransferLab3Proofs ----------------------
(***************************************************************************)
(* A proof about FileTransferLab3, for every number of fragments, retry    *)
(* limit, network capacity and number of duplications.                     *)
(***************************************************************************)
EXTENDS FileTransferLab3, DatagramsProofs, TLAPS

Written(n) == \E i \in DOMAIN file : file[i] = n

Types ==
  /\ packet_num \in 1 .. TotalFrag + 1
  /\ fragRecv \in [Frags -> BOOLEAN]
  /\ file \in Seq(Frags)
  /\ srvBuf \in 0 .. TotalFrag
  /\ c2s \in [ToServer -> 0 .. NetCap]
  /\ s2c \in [ToClient -> 0 .. NetCap]

(***************************************************************************)
(* The inductive invariant.  The server does not look for what is missing, *)
(* so completeness rests on the other side: the client passes a fragment   *)
(* only when it was acknowledged, acknowledgements are of fragments the    *)
(* file has, and neither a datagram nor the server's buffer has a fragment *)
(* the client has not reached.  So a fragment not yet marked that is read  *)
(* is the next one of the file.  The flag of the last fragment may be set  *)
(* without the fragment being there, not the other way round.              *)
(***************************************************************************)
FileInv ==
  /\ Len(file) <= TotalFrag /\ \A i \in DOMAIN file : file[i] = i
  /\ \A n \in Frags : Written(n) => fragRecv[n]

Inv ==
  /\ Types
  /\ \A n \in Frags : n < TotalFrag =>
       /\ fragRecv[n] => Written(n)
       /\ n < packet_num => Written(n)
       /\ s2c[Ack(n)] > 0 => Written(n)
  /\ \A n \in Frags : c2s[Data(n)] > 0 => n <= packet_num
  /\ srv = "closed" => packet_num >= TotalFrag
  /\ srvBuf <= packet_num
  /\ FileInv

LEMMA InitInv == Init => Inv
<1> SUFFICES ASSUME Init PROVE Inv
  OBVIOUS
<1> USE DatagramAssumption
<1>1. c2s \in [ToServer -> 0 .. NetCap] /\ s2c \in [ToClient -> 0 .. NetCap]
  BY DEF Init
<1>2. \A n \in Frags : c2s[Data(n)] = 0 /\ s2c[Ack(n)] = 0
  BY Datagrams DEF Init
<1>3. /\ fragRecv \in [Frags -> BOOLEAN]
      /\ \A n \in Frags : n < TotalFrag => ~fragRecv[n]
  <2>1. PICK b : fragRecv = [n \in Frags |-> n = TotalFrag /\ b]
    BY DEF Init
  <2>2. \A n \in Frags : (n = TotalFrag /\ b) \in BOOLEAN
    OBVIOUS
  <2>3. fragRecv \in [Frags -> BOOLEAN]
    BY <2>1, <2>2, Zenon
  <2>4. \A n \in Frags : fragRecv[n] => n = TotalFrag
    BY <2>1, Zenon
  <2>5. QED
    BY <2>3, <2>4 DEF Frags
<1>4. file \in Seq(Frags) /\ packet_num = 1 /\ srv # "closed" /\ srvBuf = 0
  BY DEF Init
<1>5. file = <<>> /\ Len(file) = 0
  BY DEF Init
<1>6. FileInv
  BY <1>5 DEF FileInv, Written
<1>7. QED
  BY <1>1, <1>2, <1>3, <1>4, <1>6 DEF Inv, Types, Frags

LEMMA FileUnchanged ==
  ASSUME FileInv, UNCHANGED <<file, fragRecv>>
  PROVE  FileInv'
BY DEF FileInv, Written

\* The network invents nothing: a step that puts no new datagram in flight and
\* leaves both processes alone keeps the invariant.
LEMMA NetworkInv ==
  ASSUME Inv, UNCHANGED <<client, server>>,
         c2s' \in [ToServer -> 0 .. NetCap], s2c' \in [ToClient -> 0 .. NetCap],
         \A m \in ToServer : c2s'[m] > 0 => c2s[m] > 0,
         \A m \in ToClient : s2c'[m] > 0 => s2c[m] > 0
  PROVE  Inv'
<1>1. FileInv'
  BY FileUnchanged DEF Inv, server
<1>2. QED
  BY <1>1, Datagrams DEF Inv, Types, Written, client, server

\* A step of the client that sends nothing and passes no fragment, or passes
\* one the file has.
LEMMA ClientInv ==
  ASSUME Inv, UNCHANGED server,
         c2s' \in [ToServer -> 0 .. NetCap], s2c' \in [ToClient -> 0 .. NetCap],
         \A n \in Frags : c2s'[Data(n)] > 0 => n <= packet_num,
         \A m \in ToClient : s2c'[m] > 0 => s2c[m] > 0,
         \/ packet_num' = packet_num
         \/ /\ packet_num \in Frags /\ packet_num' = packet_num + 1
            /\ packet_num < TotalFrag => Written(packet_num)
  PROVE  Inv'
<1>1. packet_num' \in 1 .. TotalFrag + 1 /\ packet_num' >= packet_num
  BY DatagramAssumption DEF Inv, Types, Frags
<1>2. Types'
  BY <1>1 DEF Inv, Types, server
<1>3. \A n \in Frags : n < TotalFrag /\ n < packet_num' => Written(n)
  BY DatagramAssumption DEF Inv, Types, Frags
<1>4. \A n \in Frags : Written(n)' <=> Written(n)
  BY DEF Written, server
<1>5. \A n \in Frags : s2c'[Ack(n)] > 0 => s2c[Ack(n)] > 0
  BY Datagrams
<1>6. \A n \in Frags : c2s'[Data(n)] > 0 => n <= packet_num'
  BY <1>1, DatagramAssumption DEF Inv, Types, Frags
<1>7. srv' = "closed" => packet_num' >= TotalFrag
  BY <1>1, DatagramAssumption DEF Inv, Types, server
<1>8. FileInv' /\ srvBuf' <= packet_num'
  BY <1>1, FileUnchanged DEF Inv, Types, server
<1>9. QED
  BY <1>2, <1>3, <1>4, <1>5, <1>6, <1>7, <1>8 DEF Inv, server

LEMMA ClientSteps ==
  ASSUME Inv, Client
  PROVE  Inv'
<1> USE DatagramAssumption
<1> USE DEF Types
<1>1. CASE CliHello
  <2>1. c2s' \in [ToServer -> 0 .. NetCap] /\ \A n \in Frags : c2s'[Data(n)] = c2s[Data(n)]
    BY <1>1, PutIsTyped, Datagrams DEF CliHello, Inv
  <2>2. QED
    BY <1>1, <2>1, ClientInv DEF CliHello, Inv
<1>2. ASSUME NEW m \in ToClient, CliReply(m) PROVE Inv'
  <2>1. s2c' \in [ToClient -> 0 .. NetCap] /\ \A x \in ToClient : s2c'[x] > 0 => s2c[x] > 0
    BY <1>2, TakeIsTyped DEF CliReply, Inv
  <2>2. QED
    BY <1>2, <2>1, ClientInv DEF CliReply, Inv
<1>3. ASSUME NEW m \in ToClient, CliAck(m) PROVE Inv'
  <2>1. s2c' \in [ToClient -> 0 .. NetCap] /\ \A x \in ToClient : s2c'[x] > 0 => s2c[x] > 0
    BY <1>3, TakeIsTyped DEF CliAck, Inv
  <2>2. PICK f \in CliParse(m) :
          \/ f \notin {Unparsable, packet_num} /\ packet_num' = packet_num
          \/ f = Unparsable /\ packet_num' = packet_num
          \/ f = packet_num /\ packet_num' = packet_num + 1
    BY <1>3 DEF CliAck
  <2>3. packet_num' # packet_num =>
          /\ packet_num \in Frags /\ packet_num' = packet_num + 1
          /\ packet_num < TotalFrag => Written(packet_num)
    <3>1. SUFFICES ASSUME packet_num' # packet_num
                   PROVE  packet_num \in Frags /\ (packet_num < TotalFrag => Written(packet_num))
      BY <2>2
    <3>2. f = packet_num /\ f \in Parse(m, 0) /\ 0 \in 0 .. TotalFrag
      BY <2>2, <3>1 DEF CliParse
    <3>3. f \in Frags /\ m = Ack(f)
      BY <3>2, ParseAtClient DEF Inv, Unparsable, Frags
    <3>4. s2c[Ack(f)] > 0
      BY <1>3, <3>3 DEF CliAck, InFlight
    <3>5. QED
      BY <3>2, <3>3, <3>4 DEF Inv
  <2>4. UNCHANGED <<server, c2s>>
    BY <1>3 DEF CliAck
  <2>5. QED
    BY <2>1, <2>3, <2>4, ClientInv DEF Inv
<1>4. CASE CliSend
  <2>1. packet_num \in Frags
    BY <1>4 DEF CliSend, Inv, Frags
  <2>2. /\ c2s' \in [ToServer -> 0 .. NetCap]
        /\ \A x \in ToServer : x # Data(packet_num) => c2s'[x] = c2s[x]
    <3>1. /\ Data(packet_num) \in ToServer /\ c2s \in [ToServer -> 0 .. NetCap]
          /\ c2s' = Put(c2s, Data(packet_num))
      BY <1>4, <2>1, Datagrams DEF CliSend, Inv
    <3>2. QED
      BY <3>1, PutIsTyped
  <2>3. \A n \in Frags : c2s'[Data(n)] > 0 => n <= packet_num
    <3>1. SUFFICES ASSUME NEW n \in Frags, c2s'[Data(n)] > 0 PROVE n <= packet_num
      OBVIOUS
    <3>2. CASE n = packet_num
      BY <3>2, <2>1 DEF Frags
    <3>3. CASE n # packet_num
      BY <3>1, <3>3, <2>1, <2>2, Datagrams DEF Inv
    <3>4. QED
      BY <3>2, <3>3
  <2>4. QED
    BY <1>4, <2>2, <2>3, ClientInv DEF CliSend, Inv
<1>5. CASE CliTimeout \/ CliDone
  BY <1>5, ClientInv DEF CliTimeout, CliDone, Inv
<1>6. QED
  BY <1>1, <1>2, <1>3, <1>4, <1>5 DEF Client

\* A fragment that is read, and not marked yet, is the next one.
LEMMA NextInOrder ==
  ASSUME Inv, NEW f \in Frags, f <= packet_num, ~fragRecv[f]
  PROVE  f = Len(file) + 1
<1> USE DatagramAssumption DEF Inv, Types, FileInv
<1>1. Len(file) \in Nat /\ DOMAIN file = 1 .. Len(file)
  OBVIOUS
<1>2. ~Written(f)
  OBVIOUS
<1>3. f > Len(file)
  BY <1>1, <1>2 DEF Written, Frags
<1>4. \A n \in Frags : n < f => Written(n)
  BY DEF Frags
<1>5. \A n \in Frags : n < f => n <= Len(file)
  BY <1>1, <1>4 DEF Written
<1>6. CASE f = 1
  BY <1>1, <1>3, <1>6
<1>7. CASE f # 1
  <2>1. f - 1 \in Frags /\ f - 1 < f
    BY <1>7 DEF Frags
  <2>2. QED
    BY <1>1, <1>3, <1>5, <2>1 DEF Frags
<1>8. QED
  BY <1>6, <1>7

\* A fragment the server reads is marked, in the file and acknowledged; the
\* server stops only when the client has reached the last one.
LEMMA ServerSteps ==
  ASSUME Inv, Server
  PROVE  Inv'
<1> USE DatagramAssumption
<1> USE DEF Types
<1>1. ASSUME NEW m \in ToServer, SrvHello(m) PROVE Inv'
  <2>1. /\ c2s' \in [ToServer -> 0 .. NetCap]
        /\ \A x \in ToServer : c2s'[x] > 0 => c2s[x] > 0
    BY <1>1, TakeIsTyped DEF SrvHello, Inv
  <2>2. /\ s2c' \in [ToClient -> 0 .. NetCap]
        /\ \A n \in Frags : s2c'[Ack(n)] = s2c[Ack(n)]
    BY <1>1, PutIsTyped, Datagrams DEF SrvHello, Inv
  <2>3. srvBuf' \in 0 .. TotalFrag
    BY <1>1, Kinds DEF SrvHello, Ftp, Fin, Data, Frags
  <2>4. /\ srv' = "recv" /\ UNCHANGED <<packet_num, fragRecv, file>>
        /\ \A n \in Frags : Written(n)' <=> Written(n)
    BY <1>1 DEF SrvHello, client, Written
  <2>5. Types'
    BY <2>1, <2>2, <2>3, <2>4 DEF Inv
  <2>6. FileInv'
    BY <2>4, FileUnchanged DEF Inv
  <2>7. srvBuf' <= packet_num'
    <3>1. \A n \in Frags : m = Data(n) => n <= packet_num
      BY <1>1 DEF SrvHello, InFlight, Inv
    <3>2. m.frag <= packet_num
      BY <3>1, Kinds DEF Inv, Ftp, Fin, Data
    <3>3. QED
      BY <1>1, <2>4, <3>2 DEF SrvHello
  <2>8. QED
    BY <2>1, <2>2, <2>4, <2>5, <2>6, <2>7, Datagrams DEF Inv
<1>2. ASSUME NEW m \in ToServer, SrvData(m) PROVE Inv'
  <2>1. /\ c2s' \in [ToServer -> 0 .. NetCap]
        /\ \A x \in ToServer : c2s'[x] > 0 => c2s[x] > 0
        /\ c2s[m] > 0
    BY <1>2, TakeIsTyped DEF SrvData, Inv, InFlight
  <2>2. UNCHANGED packet_num
    BY <1>2 DEF SrvData, client
  <2>3. ASSUME NEW f \in Frags, f \in Parse(m, srvBuf), SrvStores(m, f) PROVE Inv'
    <3>0. f <= packet_num
      BY <2>1, <2>3, ParseAtServer DEF Inv, Unparsable, Frags
    <3>1. /\ fragRecv' \in [Frags -> BOOLEAN]
          /\ \A n \in Frags : fragRecv'[n] => fragRecv[n] \/ n = f
      BY <2>3 DEF SrvStores, Inv
    <3>2. /\ s2c' \in [ToClient -> 0 .. NetCap]
          /\ \A n \in Frags : s2c'[Ack(n)] > 0 => s2c[Ack(n)] > 0 \/ n = f
      <4>1. /\ Ack(f) \in ToClient /\ s2c \in [ToClient -> 0 .. NetCap]
            /\ s2c' = Put(s2c, Ack(f))
        BY <2>3, Datagrams DEF SrvStores, Inv
      <4>2. /\ s2c' \in [ToClient -> 0 .. NetCap]
            /\ \A x \in ToClient : x # Ack(f) => s2c'[x] = s2c[x]
        BY <4>1, PutIsTyped
      <4>3. ASSUME NEW n \in Frags, n # f PROVE s2c'[Ack(n)] = s2c[Ack(n)]
        BY <4>2, <4>3, Datagrams
      <4>4. QED
        BY <4>2, <4>3
    <3>3. /\ file' \in Seq(Frags)
          /\ \A n \in Frags : Written(n) => Written(n)'
          /\ file' = Append(file, f) => Written(f)'
      <4>1. CASE file' = file
        <5>1. file # Append(file, f)
          BY DEF Inv
        <5>2. QED
          BY <4>1, <5>1 DEF Inv, Written
      <4>2. CASE file' = Append(file, f)
        <5>1. /\ file' \in Seq(Frags) /\ Len(file') = Len(file) + 1
              /\ file'[Len(file) + 1] = f
              /\ \A i \in DOMAIN file : i \in DOMAIN file' /\ file'[i] = file[i]
          BY <4>2 DEF Inv
        <5>2. Len(file) + 1 \in DOMAIN file'
          BY <5>1 DEF Inv
        <5>3. QED
          BY <5>1, <5>2 DEF Written
      <4>3. QED
        BY <2>3, <4>1, <4>2 DEF SrvStores
    <3>4. f < TotalFrag => Written(f)'
      BY <2>3, <3>3 DEF SrvStores, Inv
    <3>5. srv' = "closed" => packet_num >= TotalFrag
      <4>1. srv' = "closed" => m = Data(TotalFrag)
        BY <2>3 DEF SrvStores
      <4>2. QED
        BY <2>1, <4>1 DEF Inv, Frags
    <3>6. Types'
      BY <2>1, <2>2, <2>3, <3>1, <3>2, <3>3 DEF Inv, SrvStores, Frags
    <3>7. \A n \in Frags : c2s'[Data(n)] > 0 => n <= packet_num'
      BY <2>1, <2>2, Datagrams DEF Inv
    <3>8. \A n \in Frags : n < TotalFrag =>
            /\ fragRecv'[n] => Written(n)'
            /\ n < packet_num' => Written(n)'
            /\ s2c'[Ack(n)] > 0 => Written(n)'
      BY <2>2, <3>1, <3>2, <3>3, <3>4 DEF Inv
    <3>9. FileInv'
      <4>1. CASE file' = file
        <5>1. \A n \in Frags : fragRecv[n] => fragRecv'[n]
          BY <2>3 DEF SrvStores, Inv
        <5>2. \A n \in Frags : Written(n)' => Written(n)
          BY <4>1 DEF Written
        <5>3. QED
          BY <4>1, <5>1, <5>2 DEF Inv, FileInv
      <4>2. CASE file' # file
        <5>1. ~fragRecv[f] /\ file' = Append(file, f)
          BY <2>3, <4>2 DEF SrvStores
        <5>2. f = Len(file) + 1
          BY <3>0, <5>1, NextInOrder
        <5>3. /\ Len(file') = Len(file) + 1 /\ file'[Len(file) + 1] = f
              /\ DOMAIN file' = 1 .. Len(file) + 1
              /\ \A i \in 1 .. Len(file) : file'[i] = file[i]
          BY <5>1 DEF Inv
        <5>4. Len(file') <= TotalFrag /\ \A i \in DOMAIN file' : file'[i] = i
          <6>1. Len(file) \in Nat /\ f \in 1 .. TotalFrag
            BY DEF Inv, Frags
          <6>2. \A i \in 1 .. Len(file) : file[i] = i
            BY DEF Inv, FileInv
          <6>3. Len(file') <= TotalFrag
            BY <5>2, <5>3, <6>1
          <6>4. \A i \in 1 .. Len(file) + 1 : i \in 1 .. Len(file) \/ i = Len(file) + 1
            BY <6>1
          <6>5. QED
            BY <5>2, <5>3, <6>2, <6>3, <6>4
        <5>5. \A n \in Frags : Written(n)' => Written(n) \/ n = f
          BY <5>3 DEF Inv, Written
        <5>6. \A n \in Frags : Written(n) \/ n = f => fragRecv'[n]
          BY <2>3 DEF SrvStores, Inv, FileInv
        <5>7. QED
          BY <5>4, <5>5, <5>6 DEF FileInv
      <4>3. QED
        BY <4>1, <4>2
    <3>10. srvBuf' <= packet_num'
      BY <2>2, <2>3, <3>0 DEF SrvStores
    <3>11. QED
      BY <2>2, <3>5, <3>6, <3>7, <3>8, <3>9, <3>10 DEF Inv
  <2>4. CASE srv' = "dead" /\ UNCHANGED <<fragRecv, file, srvBuf, s2c>>
    <3>1. \A n \in Frags : Written(n)' <=> Written(n)
      BY <2>4 DEF Written
    <3>2. FileInv'
      BY <2>4, FileUnchanged DEF Inv
    <3>3. QED
      BY <2>1, <2>2, <2>4, <3>1, <3>2, Datagrams DEF Inv
  <2>5. QED
    <3>1. PICK f \in Parse(m, srvBuf) :
            \/ SrvStores(m, f)
            \/ srv' = "dead" /\ UNCHANGED <<fragRecv, file, srvBuf, s2c>>
      BY <1>2 DEF SrvData
    <3>2. SrvStores(m, f) => f \in Frags
      BY DEF SrvStores
    <3>3. QED
      BY <2>3, <2>4, <3>1, <3>2
<1>3. QED
  BY <1>1, <1>2 DEF Server

LEMMA NetworkSteps ==
  ASSUME Inv, Lose \/ Duplicate
  PROVE  Inv'
<1> USE DEF Types
<1>1. CASE Lose
  BY <1>1, NetworkInv, TakeIsTyped DEF Lose, Inv
<1>2. CASE Duplicate
  <2>1. ASSUME NEW m \in ToServer, InFlight(c2s, m), c2s' = Put(c2s, m), s2c' = s2c
        PROVE  Inv'
    <3>1. c2s \in [ToServer -> 0 .. NetCap] /\ s2c \in [ToClient -> 0 .. NetCap]
      BY DEF Inv
    <3>2. c2s' \in [ToServer -> 0 .. NetCap]
      BY <2>1, <3>1, PutIsTyped
    <3>3. \A x \in ToServer : c2s'[x] > 0 => c2s[x] > 0
      BY <2>1, <3>1, PutAgain
    <3>4. QED
      BY <1>2, <2>1, <3>1, <3>2, <3>3, NetworkInv DEF Duplicate
  <2>2. ASSUME NEW m \in ToClient, InFlight(s2c, m), s2c' = Put(s2c, m), c2s' = c2s
        PROVE  Inv'
    <3>1. c2s \in [ToServer -> 0 .. NetCap] /\ s2c \in [ToClient -> 0 .. NetCap]
      BY DEF Inv
    <3>2. s2c' \in [ToClient -> 0 .. NetCap]
      BY <2>2, <3>1, PutIsTyped
    <3>3. \A x \in ToClient : s2c'[x] > 0 => s2c[x] > 0
      BY <2>2, <3>1, PutAgain
    <3>4. QED
      BY <1>2, <2>2, <3>1, <3>2, <3>3, NetworkInv DEF Duplicate
  <2>3. QED
    BY <1>2, <2>1, <2>2 DEF Duplicate
<1>3. QED
  BY <1>1, <1>2

LEMMA Invariant == Spec => []Inv
<1>1. Inv /\ UNCHANGED vars => Inv'
  BY FileUnchanged DEF Inv, Types, Written, vars, client, server
<1>2. Inv /\ [Next]_vars => Inv'
  BY <1>1, ClientSteps, ServerSteps, NetworkSteps DEF Next
<1>3. QED
  BY <1>2, InitInv, PTL DEF Spec

\* When the server stops at the last fragment (server.c:104, which looks for
\* nothing else) every other fragment is in the file, whatever was lost,
\* duplicated or reordered on the way.
THEOREM CompleteBeforeLast == Spec => []NothingMissingBeforeLast
<1>1. Inv => NothingMissingBeforeLast
  BY DatagramAssumption DEF Inv, Types, Written, NothingMissingBeforeLast, Frags
<1>2. QED
  BY <1>1, Invariant, PTL
-----------------------------------------------------------------------------
(***************************************************************************)
(* Refinement: a fragment before the last is delivered, the verdict is     *)
(* settled, or nothing changes that the abstract transfer sees.            *)
(***************************************************************************)

\* The fragments before the last are the whole file, or all but the last of it.
LEMMA CertainIs ==
  ASSUME Inv
  PROVE  /\ Len(file) < TotalFrag => Certain = file
         /\ Len(file) = TotalFrag => Certain = SubSeq(file, 1, TotalFrag - 1)
<1> USE DatagramAssumption DEF Inv, Types, FileInv
<1>1. Len(file) \in Nat /\ DOMAIN file = 1 .. Len(file) /\ (file # <<>> <=> Len(file) > 0)
  OBVIOUS
<1>2. CASE Len(file) = 0
  BY <1>1, <1>2 DEF Certain
<1>3. CASE Len(file) > 0
  <2>1. file[Len(file)] = Len(file)
    BY <1>1, <1>3
  <2>2. file # <<>> /\ (file[Len(file)] = TotalFrag <=> Len(file) = TotalFrag)
    BY <1>1, <1>3, <2>1
  <2> HIDE DEF Inv, Types, FileInv
  <2>3. CASE Len(file) = TotalFrag
    <3>1. Certain = SubSeq(file, 1, Len(file) - 1)
      BY <2>2, <2>3 DEF Certain
    <3>2. QED
      BY <2>3, <3>1
  <2>4. CASE Len(file) # TotalFrag
    <3>1. Certain = file
      BY <2>2, <2>4 DEF Certain
    <3>2. QED
      BY <2>4, <3>1
  <2>5. QED
    BY <2>3, <2>4
<1>4. QED
  BY <1>1, <1>2, <1>3

LEMMA InitRefines == Init => Abstract!Init
  BY DEF Init, Abstract!Init, Certain, Verdict

LEMMA ClientRefines ==
  ASSUME Inv, Client
  PROVE  [Abstract!Next]_Abstract!vars
<1> USE DatagramAssumption
<1>1. Certain' = Certain
  BY DEF Client, CliHello, CliReply, CliAck, CliSend, CliTimeout, CliDone, server, Certain
<1>2. cli \notin {"done", "failed"}
  BY DEF Client, CliHello, CliReply, CliAck, CliSend, CliTimeout, CliDone
<1>3. CASE cli' = "done"
  <2>1. packet_num > TotalFrag
    BY <1>3 DEF Client, CliHello, CliReply, CliAck, CliSend, CliTimeout, CliDone
  <2>2. Len(file) \in Nat /\ Len(file) <= TotalFrag /\ Len(file) >= TotalFrag - 1
    <3>1. Len(file) \in Nat /\ Len(file) <= TotalFrag /\ DOMAIN file = 1 .. Len(file)
      BY DEF Inv, Types, FileInv
    <3>2. CASE TotalFrag = 1
      BY <3>1, <3>2
    <3>3. CASE TotalFrag # 1
      <4>1. TotalFrag - 1 \in Frags /\ TotalFrag - 1 < TotalFrag /\ TotalFrag - 1 < packet_num
        BY <2>1, <3>3 DEF Frags, Inv, Types
      <4>2. Written(TotalFrag - 1)
        BY <4>1 DEF Inv
      <4>3. QED
        BY <3>1, <4>2 DEF Written, Inv, FileInv
    <3>4. QED
      BY <3>2, <3>3
  <2>3. Len(Certain) = TotalFrag - 1
    BY <2>2, CertainIs DEF Inv, Types
  <2>4. QED
    BY <1>1, <1>2, <1>3, <2>3 DEF Abstract!Next, Abstract!Confirm, Verdict
<1>4. CASE cli' = "failed"
  BY <1>1, <1>2, <1>4 DEF Abstract!Next, Abstract!GiveUp, Verdict
<1>5. CASE cli' \notin {"done", "failed"}
  BY <1>1, <1>2, <1>5 DEF Abstract!vars, Verdict
<1>6. QED
  BY <1>3, <1>4, <1>5

LEMMA ServerRefines ==
  ASSUME Inv, Inv', Server
  PROVE  [Abstract!Next]_Abstract!vars
<1> USE DatagramAssumption
<1>1. cli' = cli
  BY DEF Server, SrvHello, SrvData, client
<1>2. CASE file' = file
  BY <1>1, <1>2 DEF Abstract!vars, Verdict, Certain
<1>3. CASE file' # file
  <2>1. PICK m \in ToServer : SrvData(m)
    BY <1>3 DEF Server, SrvHello
  <2>2. PICK f \in Parse(m, srvBuf) : SrvStores(m, f)
    BY <1>3, <2>1 DEF SrvData
  <2>3. f \in Frags /\ file' = Append(file, f)
    BY <1>3, <2>2 DEF SrvStores
  <2>4. /\ Len(file) \in Nat /\ Len(file') = Len(file) + 1 /\ file'[Len(file) + 1] = f
        /\ SubSeq(file', 1, Len(file)) = file
    BY <2>3 DEF Inv, Types
  <2>5. f = Len(file) + 1 /\ Len(file') <= TotalFrag
    BY <2>4 DEF Inv, Types, FileInv
  <2>6. Certain = file
    <3>1. Len(file) < TotalFrag
      BY <2>4, <2>5
    <3>2. QED
      BY <3>1, CertainIs
  <2>7. CASE Len(file') = TotalFrag
    <3>1. Certain' = SubSeq(file', 1, TotalFrag - 1)
      BY <2>4, <2>5, <2>7 DEF Certain
    <3>2. Certain' = Certain
      BY <2>4, <2>6, <2>7, <3>1
    <3>3. QED
      BY <1>1, <3>2 DEF Abstract!vars, Verdict
  <2>8. CASE Len(file') < TotalFrag
    <3>1. Certain' = file'
      BY <2>3, <2>4, <2>5, <2>8 DEF Certain
    <3>2. Certain' = Append(Certain, Len(Certain) + 1) /\ Len(Certain) < TotalFrag - 1
      BY <2>3, <2>4, <2>5, <2>6, <2>8, <3>1
    <3>3. QED
      BY <1>1, <3>2 DEF Abstract!Next, Abstract!Deliver, Verdict
  <2>9. QED
    BY <2>4, <2>5, <2>7, <2>8
<1>4. QED
  BY <1>2, <1>3

\* Up to the last fragment the first transfer keeps the promise of the later
\* one, whatever the network does and whatever the memory behind fragRecv
\* held (server.c:85): in order, once, success only when complete.
THEOREM Refinement == Spec => Implements
<1>1. Inv /\ Inv' /\ [Next]_vars => [Abstract!Next]_Abstract!vars
  <2> SUFFICES ASSUME Inv, Inv', [Next]_vars
               PROVE  [Abstract!Next]_Abstract!vars
    OBVIOUS
  <2>1. CASE Client
    BY <2>1, ClientRefines
  <2>2. CASE Server
    BY <2>2, ServerRefines
  <2>3. CASE Lose \/ Duplicate \/ UNCHANGED vars
    BY <2>3 DEF Lose, Duplicate, vars, client, server, Abstract!vars, Verdict, Certain
  <2>4. QED
    BY <2>1, <2>2, <2>3 DEF Next
<1>2. QED
  BY <1>1, InitRefines, Invariant, PTL DEF Spec, Implements, Abstract!Spec
=============================================================================
