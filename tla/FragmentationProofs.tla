------------------------- MODULE FragmentationProofs ------------------------
(***************************************************************************)
(* Proofs about Fragmentation, for every packet size and file length.      *)
(***************************************************************************)
EXTENDS Fragmentation, TLAPS

\* Euclidean division, as a fact the solver can use on symbolic sizes.
LEMMA Division ==
  ASSUME NEW a \in Nat, NEW d \in Nat \ {0}
  PROVE  /\ a \div d \in Nat
         /\ a % d \in 0 .. d - 1
         /\ (a \div d) * d + (a % d) = a
<1>1. a \div d \in Int /\ a % d \in 0 .. d - 1
  OBVIOUS
<1>0. a \in Int /\ d \in Int /\ d > 0
  OBVIOUS
<1>2. (a \div d) * d + (a % d) = a
  BY ONLY <1>0, Z3
<1>3. a \div d \in Nat
  <2> SUFFICES ASSUME a \div d <= -1 PROVE FALSE
    BY <1>1
  <2>1. (a \div d) * d <= -d
    BY <1>1
  <2>2. QED
    BY <1>1, <1>2, <2>1
<1>4. QED
  BY <1>1, <1>2, <1>3

\* Multiples of d are at least d apart.
LEMMA Apart ==
  ASSUME NEW a \in Int, NEW b \in Int, NEW d \in Nat \ {0}, a < b
  PROVE  a * d + d <= b * d
<1>1. (b - a - 1) \in Nat
  OBVIOUS
<1>2. (b - a - 1) * d >= 0
  BY <1>1
<1>3. (b - a - 1) * d = b * d - a * d - d
  OBVIOUS
<1>4. QED
  BY <1>2, <1>3

\* Quotient and remainder are unique.
LEMMA DivisionUnique ==
  ASSUME NEW a \in Nat, NEW d \in Nat \ {0}, NEW q \in Int, NEW r \in 0 .. d - 1,
         a = q * d + r
  PROVE  a \div d = q /\ a % d = r
<1> DEFINE p == a \div d
           t == a % d
<1>1. p \in Nat /\ t \in 0 .. d - 1 /\ a = p * d + t
  BY Division
<1> HIDE DEF p, t
<1>2. p * d \in Int /\ q * d \in Int
  BY <1>1
<1>3. ~(p < q)
  BY <1>1, <1>2, Apart
<1>4. ~(q < p)
  BY <1>1, <1>2, Apart
<1>5. p = q
  BY <1>1, <1>3, <1>4
<1>6. t = r
  BY <1>1, <1>2, <1>5
<1>7. QED
  BY <1>5, <1>6 DEF p, t

-----------------------------------------------------------------------------
(***************************************************************************)
(* The loop invariant: before packet packet_num is built, the packets built *)
(* hold the first packet_num - 1 times DATA_SIZE bytes and fp stands right *)
(* behind them; afterwards all but the last declare DATA_SIZE bytes.       *)
(***************************************************************************)
Inv ==
  /\ length \in FileLengths
  /\ packet_num \in 1 .. total_frag + 1
  /\ packet_num <= total_frag =>
       /\ declared = (packet_num - 1) * DATA_SIZE
       /\ pos = (packet_num - 1) * DATA_SIZE
  /\ packet_num > total_frag =>
       /\ declared = (total_frag - 1) * DATA_SIZE + CRemainder(length - 1, DATA_SIZE) + 1
       /\ pos = length

\* What the file's length looks like in packets.
LEMMA LengthInPackets ==
  ASSUME NEW l \in Nat
  PROVE  /\ l \div DATA_SIZE \in Nat
         /\ l % DATA_SIZE \in 0 .. DATA_SIZE - 1
         /\ (l \div DATA_SIZE) * DATA_SIZE + (l % DATA_SIZE) = l
  BY Division, SizesAssumption

\* The size the last packet declares: what is left of the file, or a whole
\* packet when nothing is left, or nothing when the file is empty.
LEMMA LastSize ==
  ASSUME NEW l \in Nat
  PROVE  CRemainder(l - 1, DATA_SIZE) + 1 =
           IF l = 0 THEN 0
           ELSE IF l % DATA_SIZE = 0 THEN DATA_SIZE ELSE l % DATA_SIZE
<1> USE SizesAssumption
<1> DEFINE q == l \div DATA_SIZE
           r == l % DATA_SIZE
<1>1. q \in Nat /\ r \in 0 .. DATA_SIZE - 1 /\ l = q * DATA_SIZE + r
  BY LengthInPackets
<1>2. CASE l = 0
  <2>1. 0 - (l - 1) = 1 /\ l - 1 < 0
    BY <1>2
  <2>2. 1 % DATA_SIZE = 1
    <3>1. 1 = 0 * DATA_SIZE + 1 /\ 1 \in 0 .. DATA_SIZE - 1
      OBVIOUS
    <3>2. QED
      BY <3>1, DivisionUnique
  <2>3. CRemainder(l - 1, DATA_SIZE) = 0 - 1
    BY <2>1, <2>2 DEF CRemainder
  <2>4. QED
    BY <1>2, <2>3
<1>3. CASE l # 0 /\ r # 0
  <2> HIDE DEF q, r
  <2>1. l - 1 = q * DATA_SIZE + (r - 1) /\ r - 1 \in 0 .. DATA_SIZE - 1 /\ l - 1 \in Nat
    BY <1>1, <1>3
  <2>2. (l - 1) % DATA_SIZE = r - 1
    BY <1>1, <2>1, DivisionUnique
  <2>3. CRemainder(l - 1, DATA_SIZE) + 1 = r
    BY <1>1, <2>1, <2>2 DEF CRemainder
  <2>4. QED
    BY <1>3, <2>3 DEF r
<1>4. CASE l # 0 /\ r = 0
  <2> HIDE DEF q, r
  <2>1. l - 1 = (q - 1) * DATA_SIZE + (DATA_SIZE - 1) /\ l - 1 \in Nat
    BY <1>1, <1>4
  <2>2. (l - 1) % DATA_SIZE = DATA_SIZE - 1
    BY <1>1, <2>1, DivisionUnique
  <2>3. CRemainder(l - 1, DATA_SIZE) + 1 = DATA_SIZE
    BY <2>1, <2>2 DEF CRemainder
  <2>4. QED
    BY <1>4, <2>3 DEF r
<1>5. QED
  BY <1>2, <1>3, <1>4

\* Before the last packet there is a whole packet left to read.
LEMMA FullRead ==
  ASSUME Inv, packet_num < total_frag
  PROVE  BytesRead = DATA_SIZE /\ pos + BytesRead = packet_num * DATA_SIZE
<1> USE SizesAssumption
<1> DEFINE q == length \div DATA_SIZE
<1>1. length \in Nat /\ q \in Nat /\ length >= q * DATA_SIZE /\ packet_num \in Nat \ {0}
  BY LengthInPackets DEF Inv, total_frag
<1>2. packet_num <= q
  BY <1>1 DEF Inv, total_frag
<1> HIDE DEF q
<1>3. packet_num * DATA_SIZE <= q * DATA_SIZE
  <2>1. CASE packet_num = q
    BY <1>1, <2>1
  <2>2. CASE packet_num < q
    BY <1>1, <2>2, Apart
  <2>3. QED
    BY <1>1, <1>2, <2>1, <2>2
<1>4. pos = (packet_num - 1) * DATA_SIZE
  BY <1>1 DEF Inv, total_frag
<1>5. (packet_num - 1) * DATA_SIZE = packet_num * DATA_SIZE - DATA_SIZE
  BY <1>1
<1>6. packet_num * DATA_SIZE \in Nat /\ q * DATA_SIZE \in Nat
  BY <1>1
<1>7. QED
  BY <1>1, <1>3, <1>4, <1>5, <1>6 DEF BytesRead

LEMMA InitLoop == Init => Inv
<1> SUFFICES ASSUME Init PROVE Inv
  OBVIOUS
<1>1. length \in FileLengths /\ length \div DATA_SIZE \in Nat
  BY LengthInPackets, SizesAssumption DEF Init
<1>2. QED
  BY <1>1, SizesAssumption DEF Init, Inv, total_frag

LEMMA NextLoop == Inv /\ [Next]_vars => Inv'
<1> SUFFICES ASSUME Inv, [Next]_vars PROVE Inv'
  OBVIOUS
<1> USE SizesAssumption
<1>1. length \in FileLengths /\ length \in Nat /\ total_frag \in Nat \ {0}
  BY LengthInPackets DEF Inv, total_frag
<1>2. CASE UNCHANGED vars
  BY <1>2 DEF vars, Inv, total_frag
<1>3. CASE BuildPacket /\ packet_num = total_frag
  <2>1. /\ length' = length /\ total_frag' = total_frag
        /\ packet_num' = total_frag + 1 /\ pos' = length
        /\ declared' = declared + CRemainder(length - 1, DATA_SIZE) + 1
    <3>1. /\ UNCHANGED length /\ packet_num' = packet_num + 1
          /\ declared' = declared + Size /\ pos' = length
      BY <1>3 DEF BuildPacket
    <3>2. Size = CRemainder(length - 1, DATA_SIZE) + 1
      BY <1>3 DEF Size
    <3>3. declared \in Int
      BY <1>1, <1>3 DEF Inv
    <3>4. CRemainder(length - 1, DATA_SIZE) \in Int
      BY <1>1, LengthInPackets DEF CRemainder
    <3>5. QED
      BY <1>1, <1>3, <3>1, <3>2, <3>3, <3>4 DEF total_frag
  <2>2. declared = (total_frag - 1) * DATA_SIZE
    BY <1>1, <1>3 DEF Inv
  <2>3. QED
    BY <1>1, <2>1, <2>2 DEF Inv
<1>4. CASE BuildPacket /\ packet_num < total_frag
  <2>1. /\ length' = length /\ total_frag' = total_frag
        /\ packet_num' = packet_num + 1 /\ packet_num \in Nat \ {0}
        /\ declared' = declared + DATA_SIZE /\ pos' = pos + BytesRead
    BY <1>1, <1>4 DEF BuildPacket, Size, total_frag, Inv
  <2>2. pos' = packet_num * DATA_SIZE
    BY <1>4, <2>1, FullRead
  <2>3. declared = (packet_num - 1) * DATA_SIZE
    BY <1>1, <1>4, <2>1 DEF Inv
  <2>4. declared' = packet_num * DATA_SIZE
    BY <2>1, <2>3
  <2>5. QED
    BY <1>1, <1>4, <2>1, <2>2, <2>4 DEF Inv
<1>5. QED
  BY <1>1, <1>2, <1>3, <1>4 DEF Next, BuildPacket, Inv

\* The loop invariant holds throughout.
THEOREM LoopInvariant == Spec => []Inv
  BY InitLoop, NextLoop, PTL DEF Spec

\* The last fread() reaches the end of the file, whatever its length.
THEOREM NothingLeftUnread == Spec => []LastReadReachesEnd
<1>1. Inv => LastReadReachesEnd
  <2> SUFFICES ASSUME Inv, packet_num = total_frag PROVE pos + BytesRead = length
    BY DEF LastReadReachesEnd
  <2> USE SizesAssumption
  <2> DEFINE q == length \div DATA_SIZE
             r == length % DATA_SIZE
  <2>1. length \in Nat /\ q \in Nat /\ r \in 0 .. DATA_SIZE - 1 /\ length = q * DATA_SIZE + r
    BY LengthInPackets DEF Inv
  <2>2. pos = (packet_num - 1) * DATA_SIZE /\ packet_num - 1 = q
    BY <2>1 DEF Inv, total_frag
  <2> HIDE DEF q, r
  <2>3. pos = length - r
    BY <2>1, <2>2
  <2>4. QED
    BY <2>1, <2>3 DEF BytesRead
<1>2. QED
  BY <1>1, LoopInvariant, PTL

\* The output is as long as the input at every length that is not a positive
\* multiple of the packet size (deliver.c:34 and 63, server.c:93).
THEOREM LengthOffMultiples == Spec => []OutputLengthOffMultiples
<1>1. Inv => OutputLengthOffMultiples
  <2> SUFFICES ASSUME Inv, packet_num > total_frag,
                      length = 0 \/ length % DATA_SIZE # 0
               PROVE  declared = length
    BY DEF OutputLengthOffMultiples, Built
  <2> USE SizesAssumption
  <2> DEFINE q == length \div DATA_SIZE
             r == length % DATA_SIZE
             z == CRemainder(length - 1, DATA_SIZE) + 1
  <2>1. length \in Nat /\ q \in Nat /\ r \in 0 .. DATA_SIZE - 1 /\ length = q * DATA_SIZE + r
    BY LengthInPackets DEF Inv
  <2>2. total_frag - 1 = q /\ CRemainder(length - 1, DATA_SIZE) \in Int
    BY <2>1, LengthInPackets DEF total_frag, CRemainder
  <2>3. declared = q * DATA_SIZE + z
    BY <2>1, <2>2 DEF Inv
  <2>4. z = IF length = 0 THEN 0 ELSE IF r = 0 THEN DATA_SIZE ELSE r
    BY <2>1, LastSize
  <2>5. length = 0 => q = 0
    BY DivisionUnique
  <2>6. length = 0 \/ r # 0
    OBVIOUS
  <2> HIDE DEF q, r, z
  <2>7. QED
    BY <2>1, <2>3, <2>4, <2>5, <2>6
<1>2. QED
  BY <1>1, LoopInvariant, PTL

\* Position and declared sizes stay in range: no packet declares more than its
\* data field holds (packet.h:14), whatever the length.
THEOREM SizesInRange == Spec => []TypeOK
<1>1. Inv => TypeOK
  <2> SUFFICES ASSUME Inv PROVE TypeOK
    OBVIOUS
  <2> USE SizesAssumption
  <2> DEFINE z == CRemainder(length - 1, DATA_SIZE) + 1
  <2>1. length \in Nat /\ length \div DATA_SIZE \in Nat /\ length % DATA_SIZE \in 0 .. DATA_SIZE - 1
    BY LengthInPackets DEF Inv
  <2>2. total_frag \in Nat \ {0} /\ total_frag - 1 = length \div DATA_SIZE
    BY <2>1 DEF total_frag
  <2>3. z \in 0 .. DATA_SIZE
    <3>1. z = IF length = 0 THEN 0
              ELSE IF length % DATA_SIZE = 0 THEN DATA_SIZE ELSE length % DATA_SIZE
      BY <2>1, LastSize
    <3>2. QED
      BY <2>1, <3>1
  <2>4. packet_num \in 1 .. total_frag + 1
    BY DEF Inv
  <2>5. packet_num <= total_frag => Size \in 0 .. DATA_SIZE
    BY <2>3 DEF Size
  <2> HIDE DEF z
  <2>6. CASE packet_num <= total_frag
    <3>1. declared = (packet_num - 1) * DATA_SIZE /\ pos = (packet_num - 1) * DATA_SIZE
      BY <2>6 DEF Inv
    <3>2. packet_num - 1 \in Nat /\ packet_num - 1 <= length \div DATA_SIZE
      BY <2>2, <2>4, <2>6
    <3>3. (packet_num - 1) * DATA_SIZE <= (length \div DATA_SIZE) * DATA_SIZE
      BY <2>1, <3>2
    <3>4. (length \div DATA_SIZE) * DATA_SIZE <= length /\ (length \div DATA_SIZE) * DATA_SIZE \in Nat
      BY <2>1, LengthInPackets
    <3>5. (packet_num - 1) * DATA_SIZE \in 0 .. length
      BY <2>1, <3>2, <3>3, <3>4
    <3>6. QED
      BY <2>1, <2>4, <2>5, <3>1, <3>5 DEF TypeOK
  <2>7. CASE packet_num > total_frag
    <3>1. declared = (total_frag - 1) * DATA_SIZE + z /\ pos = length
      <4>1. declared = (total_frag - 1) * DATA_SIZE + CRemainder(length - 1, DATA_SIZE) + 1 /\ pos = length
        BY <2>7 DEF Inv
      <4>2. CRemainder(length - 1, DATA_SIZE) \in Int
        BY <2>1, LengthInPackets DEF CRemainder
      <4>3. QED
        BY <2>2, <4>1, <4>2 DEF z
    <3>2. (total_frag - 1) * DATA_SIZE \in Nat
      BY <2>1, <2>2
    <3>3. declared \in Nat
      BY <2>3, <3>1, <3>2
    <3>4. QED
      BY <2>1, <2>2, <2>4, <2>7, <3>1, <3>3 DEF TypeOK
  <2>8. QED
    BY <2>2, <2>4, <2>6, <2>7
<1>2. QED
  BY <1>1, LoopInvariant, PTL
=============================================================================
