-------------------------- MODULE DatagramsProofs ---------------------------
(***************************************************************************)
(* Lemmas about the datagrams of the file transfer and their network, used *)
(* by the proofs about both versions of the transfer.                      *)
(***************************************************************************)
EXTENDS Datagrams, TLAPS

(***************************************************************************)
(* The network as a function from datagrams to copies.                     *)
(***************************************************************************)

\* Every datagram is in its direction's set, and datagrams of different
\* kinds or fragments are different.
LEMMA Datagrams ==
  /\ Ftp \in ToServer /\ Fin \in ToServer
  /\ Yes \in ToClient /\ No \in ToClient
  /\ \A n \in Frags : Data(n) \in ToServer /\ Ack(n) \in ToClient
  /\ \A n \in Frags : Data(n) # Fin /\ Data(n) # Ftp /\ Ack(n) # Yes /\ Ack(n) # No
  /\ \A n, k \in Frags : (Data(n) = Data(k) \/ Ack(n) = Ack(k)) => n = k
  /\ Fin # Ftp
BY DEF Ftp, Fin, Yes, No, Data, Ack, ToServer, ToClient, Frags

\* A datagram is one of the kinds its direction carries.
LEMMA Kinds ==
  /\ \A m \in ToServer : m = Ftp \/ m = Fin \/ \E n \in Frags : m = Data(n)
  /\ \A m \in ToClient : m = Yes \/ m = No \/ \E n \in Frags : m = Ack(n)
BY DEF ToServer, ToClient

\* Put adds at most one copy of m, up to the capacity, and touches nothing
\* else.
LEMMA PutIsTyped ==
  ASSUME NEW S, NEW net \in [S -> 0 .. NetCap], NEW m \in S
  PROVE  /\ Put(net, m) \in [S -> 0 .. NetCap]
         /\ \A x \in S : x # m => Put(net, m)[x] = net[x]
BY DatagramAssumption DEF Put

\* Take removes one copy of a datagram in flight and touches nothing else.
LEMMA TakeIsTyped ==
  ASSUME NEW S, NEW net \in [S -> 0 .. NetCap], NEW m \in S, InFlight(net, m)
  PROVE  /\ Take(net, m) \in [S -> 0 .. NetCap]
         /\ \A x \in S : Take(net, m)[x] > 0 => net[x] > 0
         /\ \A x \in S : net[x] = 0 => Take(net, m)[x] = 0
BY DatagramAssumption DEF Take, InFlight

\* Duplicating a datagram in flight puts nothing else in flight.
LEMMA PutAgain ==
  ASSUME NEW S, NEW net \in [S -> 0 .. NetCap], NEW m \in S, InFlight(net, m),
         NEW x \in S
  PROVE  Put(net, m)[x] > 0 => net[x] > 0
<1>1. CASE x = m
  BY <1>1 DEF InFlight
<1>2. CASE x # m
  BY <1>2, PutIsTyped
<1>3. QED
  BY <1>1, <1>2

\* What a datagram to the client parses as.
LEMMA ParseAtClient ==
  ASSUME NEW m \in ToClient, NEW r \in 0 .. TotalFrag, NEW f \in Parse(m, r)
  PROVE  \/ f = Unparsable
         \/ f \in Frags /\ f = r
         \/ f \in Frags /\ m = Ack(f)
<1>1. CASE m = Yes \/ m = No
  BY <1>1, DatagramAssumption DEF Parse, Yes, No, Unparsable, Frags
<1>2. CASE \E n \in Frags : m = Ack(n)
  BY <1>2 DEF Parse, Ack
<1>3. QED
  BY <1>1, <1>2, Kinds

\* What a datagram to the server parses as.
LEMMA ParseAtServer ==
  ASSUME NEW m \in ToServer, NEW r \in 0 .. TotalFrag, NEW f \in Parse(m, r)
  PROVE  \/ f = Unparsable
         \/ f = 0 /\ m = Fin
         \/ f \in Frags /\ f = r /\ m = Ftp
         \/ f \in Frags /\ m = Data(f)
<1>1. CASE m = Ftp
  BY <1>1, DatagramAssumption DEF Parse, Ftp, Unparsable, Frags
<1>2. CASE m = Fin
  BY <1>2 DEF Parse, Fin
<1>3. CASE \E n \in Frags : m = Data(n)
  BY <1>3 DEF Parse, Data
<1>4. QED
  BY <1>1, <1>2, <1>3, Kinds
=============================================================================
