-------------------------- MODULE ConferenceProofs --------------------------
(***************************************************************************)
(* Proofs about the conference server, for any number of threads, names    *)
(* and sessions: what its lists do; who is logged in while one request is  *)
(* served at a time (which ConferenceAccountsProofs uses); it does not go  *)
(* down under a client (both versions); its variables keep their types;    *)
(* and logins at once lose nobody (the first version).                     *)
(***************************************************************************)
EXTENDS ConferenceLab1, SequenceTheorems, FiniteSetTheorems, WellFoundedInduction, TLAPS

-----------------------------------------------------------------------------
(***************************************************************************)
(* A set of natural numbers has a least element: the initial segments they *)
(* end are finite sets, and strict inclusion is well-founded on those.     *)
(***************************************************************************)
LEMMA StrictSubset ==
  ASSUME NEW a \in SUBSET Nat, NEW b \in SUBSET Nat, a \subseteq b, a # b
  PROVE  <<a, b>> \in StrictSubsetOrdering(Nat)
  BY DEF StrictSubsetOrdering

LEMMA LeastNatural ==
  ASSUME NEW S \in SUBSET Nat, S # {}
  PROVE  \E x \in S : \A y \in S : x <= y
<1> DEFINE R == StrictSubsetOrdering(Nat)
           T == {0 .. n : n \in S}
<1>1. IsWellFoundedOn(R, FiniteSubsetsOf(Nat))
  BY FS_StrictSubsetOrderingWellFounded
<1>2. T \subseteq FiniteSubsetsOf(Nat) /\ T # {}
  <2>1. \A n \in S : 0 .. n \in SUBSET Nat /\ IsFiniteSet(0 .. n)
    BY FS_Interval
  <2> QED
    BY <2>1 DEF FiniteSubsetsOf
<1>3. \E x \in T : \A y \in T : ~(<<y, x>> \in R)
  <2> HIDE DEF R, T
  <2> QED
    BY <1>1, <1>2, WFMin
<1>4. PICK x \in S : \A y \in S : ~(<<0 .. y, 0 .. x>> \in R)
  BY <1>3
<1>5. ASSUME NEW y \in S, y < x PROVE FALSE
  <2>1. 0 .. y \subseteq 0 .. x /\ x \notin 0 .. y /\ x \in 0 .. x
    BY <1>5
  <2>2. 0 .. y # 0 .. x
    BY <2>1
  <2>3. <<0 .. y, 0 .. x>> \in StrictSubsetOrdering(Nat)
    BY <2>1, <2>2, StrictSubset
  <2> QED
    BY <1>4, <2>3
<1> QED
  BY <1>5

LEMMA MinIs ==
  ASSUME NEW I \in SUBSET Nat, I # {}
  PROVE  Min(I) \in I /\ \A i \in I : Min(I) <= i
<1>1. \E x \in I : \A y \in I : x <= y
  BY LeastNatural
<1> QED
  BY <1>1 DEF Min

-----------------------------------------------------------------------------
(***************************************************************************)
(* Sequences without repetitions, as sets.                                 *)
(***************************************************************************)
LEMMA ContainsIsRange ==
  ASSUME NEW S, NEW s \in Seq(S), NEW e
  PROVE  Contains(s, e) <=> e \in Range(s)
  BY LenProperties DEF Contains, Range

LEMMA Prefixed ==
  ASSUME NEW S, NEW s \in Seq(S), NEW e \in S
  PROVE  /\ <<e>> \o s \in Seq(S) /\ <<e>> \o s # <<>>
         /\ Range(<<e>> \o s) = {e} \cup Range(s)
         /\ IsInjective(s) /\ e \notin Range(s) => IsInjective(<<e>> \o s)
<1> DEFINE r == <<e>> \o s
<1>1. <<e>> \in Seq(S) /\ Len(<<e>>) = 1 /\ <<e>>[1] = e /\ Len(s) \in Nat /\ DOMAIN s = 1 .. Len(s)
  BY LenProperties
<1>2. /\ r \in Seq(S) /\ Len(r) = Len(s) + 1
      /\ \A i \in 1 .. Len(s) + 1 : r[i] = IF i <= 1 THEN e ELSE s[i - 1]
  BY <1>1, ConcatProperties
<1>3. DOMAIN r = 1 .. Len(s) + 1 /\ r # <<>>
  BY <1>1, <1>2, LenProperties
<1>4. Range(r) = {e} \cup Range(s)
  <2>1. ASSUME NEW i \in DOMAIN s PROVE \E k \in DOMAIN r : r[k] = s[i]
    <3>1. i + 1 \in DOMAIN r /\ r[i + 1] = s[i]
      BY <1>1, <1>2, <1>3
    <3> QED
      BY <3>1
  <2>2. 1 \in DOMAIN r /\ r[1] = e
    BY <1>1, <1>2, <1>3
  <2>3. \A k \in DOMAIN r : r[k] = e \/ (k - 1 \in DOMAIN s /\ r[k] = s[k - 1])
    BY <1>1, <1>2, <1>3
  <2> HIDE DEF r
  <2> QED
    BY <2>1, <2>2, <2>3 DEF Range
<1>5. ASSUME IsInjective(s), e \notin Range(s) PROVE IsInjective(r)
  <2>1. \A i \in DOMAIN s : s[i] # e
    BY <1>5 DEF Range
  <2>2. \A k \in DOMAIN r : (k = 1 /\ r[k] = e) \/ (k - 1 \in DOMAIN s /\ r[k] = s[k - 1])
    BY <1>1, <1>2, <1>3
  <2>3. \A k, l \in DOMAIN r : k \in Int /\ l \in Int /\ (k - 1 = l - 1 => k = l)
    BY <1>1, <1>3
  <2> HIDE DEF r
  <2> QED
    BY <1>5, <2>1, <2>2, <2>3 DEF IsInjective
<1> QED
  BY <1>2, <1>3, <1>4, <1>5

LEMMA TailIs ==
  ASSUME NEW S, NEW s \in Seq(S), s # <<>>, IsInjective(s)
  PROVE  /\ Head(s) \in Range(s) /\ Tail(s) \in Seq(S) /\ IsInjective(Tail(s))
         /\ Range(Tail(s)) = Range(s) \ {Head(s)}
<1> DEFINE r == Tail(s)
<1>1. Len(s) \in Nat \ {0} /\ DOMAIN s = 1 .. Len(s) /\ Head(s) = s[1]
  BY LenProperties, EmptySeq
<1>2. r \in Seq(S) /\ Len(r) = Len(s) - 1 /\ \A i \in 1 .. Len(s) - 1 : r[i] = s[i + 1]
  BY HeadTailProperties
<1>3. DOMAIN r = 1 .. Len(s) - 1
  BY <1>2, LenProperties
<1> HIDE DEF r
<1>4. \A i \in DOMAIN r : i + 1 \in DOMAIN s /\ r[i] = s[i + 1] /\ i + 1 # 1
  BY <1>1, <1>2, <1>3
<1>5. \A i \in DOMAIN s : i # 1 => i - 1 \in DOMAIN r /\ r[i - 1] = s[i]
  BY <1>1, <1>2, <1>3
<1>6. IsInjective(r)
  BY <1>1, <1>3, <1>4 DEF IsInjective
<1>7. Range(r) = Range(s) \ {s[1]}
  BY <1>1, <1>4, <1>5 DEF Range, IsInjective
<1>8. s[1] \in Range(s)
  BY <1>1 DEF Range
<1> QED
  BY <1>1, <1>2, <1>6, <1>7, <1>8 DEF r

LEMMA SubSeqIs ==
  ASSUME NEW S, NEW s \in Seq(S), NEW i \in 1 .. Len(s) + 1
  PROVE  /\ SubSeq(s, i, Len(s)) \in Seq(S)
         /\ Range(SubSeq(s, i, Len(s))) \subseteq Range(s)
<1> DEFINE r == SubSeq(s, i, Len(s))
<1>1. Len(s) \in Nat /\ DOMAIN s = 1 .. Len(s) /\ i \in Int /\ Len(s) \in Int
  BY LenProperties
<1>2. \A k \in i .. Len(s) : s[k] \in S
  BY <1>1, ElementOfSeq
<1>3. /\ r \in Seq(S)
      /\ Len(r) = IF i <= Len(s) THEN Len(s) - i + 1 ELSE 0
      /\ \A k \in 1 .. Len(s) - i + 1 : r[k] = s[i + k - 1]
  BY <1>1, <1>2, SubSeqProperties
<1>4. DOMAIN r = 1 .. Len(r)
  BY <1>3, LenProperties
<1> HIDE DEF r
<1>5. \A k \in DOMAIN r : i + k - 1 \in DOMAIN s /\ r[k] = s[i + k - 1]
  BY <1>1, <1>3, <1>4
<1>6. Range(r) \subseteq Range(s)
  BY <1>5 DEF Range
<1> QED
  BY <1>3, <1>6 DEF r

LEMMA RemoveAtIs ==
  ASSUME NEW S, NEW s \in Seq(S), NEW i \in 1 .. Len(s)
  PROVE  /\ RemoveAt(s, i) \in Seq(S) /\ Len(RemoveAt(s, i)) = Len(s) - 1
         /\ DOMAIN RemoveAt(s, i) = 1 .. Len(s) - 1
         /\ \A k \in 1 .. Len(s) - 1 : RemoveAt(s, i)[k] = IF k < i THEN s[k] ELSE s[k + 1]
<1> DEFINE a == SubSeq(s, 1, i - 1)
           b == SubSeq(s, i + 1, Len(s))
           r == a \o b
<1>1. Len(s) \in Nat /\ i \in Nat /\ i >= 1 /\ i <= Len(s) /\ DOMAIN s = 1 .. Len(s)
  BY LenProperties
<1>2. \A k \in 1 .. Len(s) : s[k] \in S
  BY <1>1, ElementOfSeq
<1>3. a \in Seq(S) /\ Len(a) = i - 1 /\ \A k \in 1 .. i - 1 : a[k] = s[k]
  <2>1. \A k \in 1 .. i - 1 : s[k] \in S
    BY <1>1, <1>2
  <2>2. /\ a \in Seq(S) /\ Len(a) = IF 1 <= i - 1 THEN (i - 1) - 1 + 1 ELSE 0
        /\ \A k \in 1 .. (i - 1) - 1 + 1 : a[k] = s[1 + k - 1]
    BY <1>1, <2>1, SubSeqProperties
  <2> HIDE DEF a
  <2> QED
    BY <1>1, <2>2
<1>4. b \in Seq(S) /\ Len(b) = Len(s) - i /\ \A k \in 1 .. Len(s) - i : b[k] = s[i + k]
  <2>1. \A k \in i + 1 .. Len(s) : s[k] \in S
    BY <1>1, <1>2
  <2>2. /\ b \in Seq(S) /\ Len(b) = IF i + 1 <= Len(s) THEN Len(s) - (i + 1) + 1 ELSE 0
        /\ \A k \in 1 .. Len(s) - (i + 1) + 1 : b[k] = s[(i + 1) + k - 1]
    BY <1>1, <2>1, SubSeqProperties
  <2> HIDE DEF b
  <2>3. ASSUME NEW k \in 1 .. Len(s) - i PROVE b[k] = s[i + k]
    <3>1. k \in 1 .. Len(s) - (i + 1) + 1 /\ (i + 1) + k - 1 = i + k
      BY <1>1
    <3> QED
      BY <2>2, <3>1
  <2>4. Len(b) = Len(s) - i
    <3>1. CASE i + 1 <= Len(s)
      BY <1>1, <2>2, <3>1
    <3>2. CASE ~(i + 1 <= Len(s))
      <4>1. Len(b) = 0
        BY <2>2, <3>2
      <4>2. \A m, n \in Nat : m <= n /\ ~(m + 1 <= n) => n - m = 0
        OBVIOUS
      <4> QED
        BY <1>1, <3>2, <4>1, <4>2
    <3> QED
      BY <3>1, <3>2
  <2> QED
    BY <2>2, <2>3, <2>4
<1> HIDE DEF a, b
<1>5. /\ r \in Seq(S) /\ Len(r) = Len(a) + Len(b)
      /\ \A k \in 1 .. Len(a) + Len(b) : r[k] = IF k <= Len(a) THEN a[k] ELSE b[k - Len(a)]
  BY <1>3, <1>4, ConcatProperties
<1>6. DOMAIN r = 1 .. Len(r)
  BY <1>5, LenProperties
<1> HIDE DEF r
<1>7. /\ Len(r) = Len(s) - 1
      /\ \A k \in 1 .. Len(s) - 1 : r[k] = IF k < i THEN s[k] ELSE s[k + 1]
  <2>1. Len(a) = i - 1 /\ Len(b) = Len(s) - i /\ Len(a) + Len(b) = Len(s) - 1
    BY <1>1, <1>3, <1>4
  <2>2. ASSUME NEW k \in 1 .. Len(s) - 1, k < i PROVE r[k] = s[k]
    <3>1. k \in 1 .. Len(a) + Len(b) /\ k <= Len(a) /\ k \in 1 .. i - 1
      BY <1>1, <2>1, <2>2
    <3> QED
      BY <1>3, <1>5, <3>1
  <2>3. ASSUME NEW k \in 1 .. Len(s) - 1, ~(k < i) PROVE r[k] = s[k + 1]
    <3>1. /\ k \in 1 .. Len(a) + Len(b) /\ ~(k <= Len(a))
          /\ k - Len(a) \in 1 .. Len(s) - i /\ i + (k - Len(a)) = k + 1
      BY <1>1, <2>1, <2>3
    <3> QED
      BY <1>4, <1>5, <3>1
  <2> QED
    BY <1>5, <2>1, <2>2, <2>3
<1>8. r = RemoveAt(s, i)
  BY DEF r, a, b, RemoveAt
<1> QED
  BY <1>5, <1>6, <1>7, <1>8

LEMMA RemovedIs ==
  ASSUME NEW S, NEW s \in Seq(S), NEW i \in 1 .. Len(s)
  PROVE  /\ Range(RemoveAt(s, i)) \subseteq Range(s)
         /\ IsInjective(s) => /\ IsInjective(RemoveAt(s, i))
                              /\ Range(RemoveAt(s, i)) = Range(s) \ {s[i]}
<1> DEFINE r == RemoveAt(s, i)
<1>1. Len(s) \in Nat /\ i \in Nat /\ i >= 1 /\ i <= Len(s) /\ DOMAIN s = 1 .. Len(s)
  BY LenProperties
<1>2. DOMAIN r = 1 .. Len(s) - 1 /\ \A k \in 1 .. Len(s) - 1 : r[k] = IF k < i THEN s[k] ELSE s[k + 1]
  BY RemoveAtIs
<1> HIDE DEF r
<1> DEFINE From(k) == IF k < i THEN k ELSE k + 1
<1>3. \A k \in DOMAIN r : From(k) \in DOMAIN s \ {i} /\ r[k] = s[From(k)]
  BY <1>1, <1>2
<1>4. \A k \in DOMAIN s \ {i} : \E l \in DOMAIN r : r[l] = s[k]
  <2>1. ASSUME NEW k \in DOMAIN s, k < i PROVE k \in DOMAIN r /\ r[k] = s[k]
    BY <1>1, <1>2, <2>1
  <2>2. ASSUME NEW k \in DOMAIN s, k > i PROVE k - 1 \in DOMAIN r /\ r[k - 1] = s[k]
    BY <1>1, <1>2, <2>2
  <2>3. \A k \in DOMAIN s \ {i} : k < i \/ k > i
    BY <1>1
  <2> QED
    BY <2>1, <2>2, <2>3
<1>5. \A k, l \in DOMAIN r : From(k) = From(l) => k = l
  BY <1>1, <1>2
<1> HIDE DEF From
<1>6. Range(r) \subseteq Range(s)
  BY <1>3 DEF Range
<1>7. ASSUME IsInjective(s) PROVE IsInjective(r)
  BY <1>3, <1>5, <1>7 DEF IsInjective
<1>8. ASSUME IsInjective(s) PROVE Range(r) = Range(s) \ {s[i]}
  BY <1>1, <1>3, <1>4, <1>8 DEF IsInjective, Range
<1> QED
  BY <1>6, <1>7, <1>8 DEF r

-----------------------------------------------------------------------------
(***************************************************************************)
(* The lists of user.h.                                                    *)
(***************************************************************************)
LEMMA SameAsItself ==
  ASSUME NEW t \in Threads
  PROVE  SameName(t, t)
  BY ServerAssumption DEF SameName

LEMMA RangeOfNone == Range(<<>>) = {} /\ IsInjective(<<>>)
  BY DEF Range, IsInjective

\* The nodes of userLoggedin.
Nodes == Threads \cup {Freed}

\* Nobody but t enters userLoggedin.
NodesSame(t) ==
  /\ userLoggedin' \in Seq(Nodes)
  /\ Range(userLoggedin') \subseteq Range(userLoggedin) \cup {t, Freed}

\* remove_user() takes out the first node of the name, or changes nothing.
LEMMA RemoveUserShrinks ==
  ASSUME NEW S, NEW list \in Seq(S), NEW t \in Threads
  PROVE  /\ remove_user(list, t) \in Seq(S)
         /\ Range(remove_user(list, t)) \subseteq Range(list)
<1> DEFINE I == {i \in 1 .. Len(list) : SameName(list[i], t)}
<1>1. CASE I = {}
  <2>1. ~\E i \in 1 .. Len(list) : SameName(list[i], t)
    BY <1>1
  <2>2. remove_user(list, t) = list
    BY <2>1 DEF remove_user, RemoveFirstMatch
  <2> QED
    BY <2>2
<1>2. CASE I # {}
  <2>1. remove_user(list, t) = RemoveAt(list, Min(I))
    BY <1>2 DEF remove_user, RemoveFirstMatch, SelectInSeq
  <2>2. Min(I) \in I
    <3>1. I \in SUBSET Nat
      BY LenProperties
    <3> HIDE DEF I
    <3> QED
      BY <1>2, <3>1, MinIs
  <2>3. Min(I) \in 1 .. Len(list)
    BY <2>2
  <2> HIDE DEF I
  <2> QED
    BY <2>1, <2>3, RemoveAtIs, RemovedIs
<1> QED
  BY <1>1, <1>2

LEMMA RemoveUserIs ==
  ASSUME NEW list \in Seq(Threads), IsInjective(list), NEW t \in Threads,
         \A u \in Range(list) : SameName(u, t) => u = t
  PROVE  /\ remove_user(list, t) \in Seq(Threads)
         /\ IsInjective(remove_user(list, t))
         /\ Range(remove_user(list, t)) = Range(list) \ {t}
<1> DEFINE I == {i \in 1 .. Len(list) : SameName(list[i], t)}
<1>1. DOMAIN list = 1 .. Len(list) /\ Len(list) \in Nat
  BY LenProperties
<1>2. \A i \in 1 .. Len(list) : list[i] \in Threads /\ (i \in I <=> list[i] = t)
  BY <1>1, SameAsItself, ElementOfSeq DEF Range
<1>3. CASE I = {}
  <2>1. ~\E i \in 1 .. Len(list) : SameName(list[i], t)
    BY <1>3
  <2>2. remove_user(list, t) = list
    BY <2>1 DEF remove_user, RemoveFirstMatch
  <2>3. t \notin Range(list)
    BY <1>1, <1>2, <1>3 DEF Range
  <2> QED
    BY <2>2, <2>3
<1>4. CASE I # {}
  <2>1. remove_user(list, t) = RemoveAt(list, Min(I))
    BY <1>4 DEF remove_user, RemoveFirstMatch, SelectInSeq
  <2>2. Min(I) \in I
    <3>1. I \in SUBSET Nat
      BY <1>1
    <3> HIDE DEF I
    <3> QED
      BY <1>4, <3>1, MinIs
  <2>3. Min(I) \in 1 .. Len(list) /\ list[Min(I)] = t
    BY <1>2, <2>2
  <2> HIDE DEF I
  <2> QED
    BY <2>1, <2>3, RemoveAtIs, RemovedIs
<1> QED
  BY <1>3, <1>4

LEMMA FindIs ==
  ASSUME NEW S, NEW list \in Seq(S), NEW id, isValidSession(list, id)
  PROVE  Find(list, id) \in 1 .. Len(list) /\ list[Find(list, id)].id = id
<1> DEFINE I == {i \in 1 .. Len(list) : list[i].id = id}
<1>1. I # {} /\ I \in SUBSET Nat
  BY LenProperties DEF isValidSession
<1>2. Find(list, id) = Min(I)
  BY <1>1 DEF Find, SelectInSeq
<1>3. Min(I) \in I
  <2> HIDE DEF I
  <2> QED
    BY <1>1, MinIs
<1> QED
  BY <1>2, <1>3

\* Making a node the head of userLoggedin brings nobody back.
LEMMA RelinkedIs ==
  ASSUME userLoggedin \in Seq(Nodes), NEW t \in Threads, NEW front \in {<<>>, <<t>>}, Relinked(t, front)
  PROVE  NodesSame(t)
<1> DEFINE i == SelectInSeq(userLoggedin, LAMBDA u : u = head[t])
           I == {k \in 1 .. Len(userLoggedin) : userLoggedin[k] = head[t]}
           rest == IF i = 0 THEN <<>> ELSE SubSeq(userLoggedin, i, Len(userLoggedin))
<1>1. userLoggedin \in Seq(Nodes) /\ Len(userLoggedin) \in Nat
  BY LenProperties
<1>2. i = 0 \/ i \in 1 .. Len(userLoggedin) + 1
  <2>1. CASE I = {}
    BY <2>1 DEF SelectInSeq
  <2>2. CASE I # {}
    <3>1. i = Min(I)
      BY <2>2 DEF SelectInSeq
    <3>2. I \in SUBSET Nat
      BY <1>1
    <3>3. Min(I) \in I
      <4> HIDE DEF I
      <4> QED
        BY <2>2, <3>2, MinIs
    <3>4. Min(I) \in 1 .. Len(userLoggedin)
      BY <3>3
    <3> HIDE DEF I, i
    <3> QED
      BY <1>1, <3>1, <3>4
  <2> QED
    BY <2>1, <2>2
<1>3. userLoggedin' = front \o rest
  BY DEF Relinked
<1> HIDE DEF i
<1>4. rest \in Seq(Nodes) /\ Range(rest) \subseteq Range(userLoggedin)
  <2>1. CASE i = 0
    BY <2>1, RangeOfNone
  <2>2. CASE i # 0
    BY <1>1, <1>2, <2>2, SubSeqIs
  <2> QED
    BY <2>1, <2>2
<1> HIDE DEF rest
<1>5. front \in Seq(Nodes) /\ Range(front) \subseteq {t}
  <2>1. t \in Nodes
    BY DEF Nodes
  <2>2. CASE front = <<>>
    BY <2>2, RangeOfNone
  <2>3. CASE front = <<t>>
    BY <2>1, <2>3 DEF Range
  <2> QED
    BY <2>2, <2>3
<1>6. front \o rest \in Seq(Nodes) /\ Range(front \o rest) = Range(front) \cup Range(rest)
  BY <1>4, <1>5, ConcatProperties, RangeConcatenation
<1> QED
  BY <1>3, <1>4, <1>5, <1>6 DEF NodesSame

\* A head that is still the first node keeps the whole list.
LEMMA RelinkedToHead ==
  ASSUME userLoggedin \in Seq(Threads), NEW t \in Threads, NEW front,
         head[t] = FirstNode(userLoggedin), Relinked(t, front)
  PROVE  userLoggedin' = front \o userLoggedin
<1> DEFINE I == {k \in 1 .. Len(userLoggedin) : userLoggedin[k] = head[t]}
           i == SelectInSeq(userLoggedin, LAMBDA u : u = head[t])
<1>1. i = IF I = {} THEN 0 ELSE Min(I)
  BY DEF SelectInSeq
<1>2. userLoggedin' = front \o (IF i = 0 THEN <<>> ELSE SubSeq(userLoggedin, i, Len(userLoggedin)))
  BY DEF Relinked
<1>3. Len(userLoggedin) \in Nat
  BY LenProperties
<1> HIDE DEF i
<1>4. CASE userLoggedin = <<>>
  <2>1. I = {}
    BY <1>4, EmptySeq
  <2> QED
    BY <1>1, <1>2, <1>4, <2>1
<1>5. CASE userLoggedin # <<>>
  <2>1. Len(userLoggedin) # 0 /\ Head(userLoggedin) = userLoggedin[1]
    BY <1>5, EmptySeq
  <2>2. 1 \in I /\ I \in SUBSET Nat
    BY <1>3, <1>5, <2>1 DEF FirstNode
  <2>3. Min(I) = 1
    <3> HIDE DEF I
    <3>1. Min(I) \in I /\ Min(I) <= 1
      BY <2>2, MinIs
    <3>2. Min(I) \in 1 .. Len(userLoggedin)
      BY <3>1 DEF I
    <3> QED
      BY <1>3, <3>1, <3>2
  <2>4. SubSeq(userLoggedin, 1, Len(userLoggedin)) = userLoggedin
    BY SubSeqFull
  <2>5. i = 1
    <3> HIDE DEF I
    <3> QED
      BY <1>1, <2>2, <2>3
  <2> QED
    BY <1>2, <2>4, <2>5
<1> QED
  BY <1>4, <1>5

LEMMA UnlinkedIs ==
  ASSUME userLoggedin \in Seq(Nodes), NEW t \in Threads, Unlinked(t)
  PROVE  NodesSame(t)
<1> DEFINE next == remove_user(userLoggedin, t)
<1>1. userLoggedin \in Seq(Nodes) /\ Freed \in Nodes
  BY DEF Nodes
<1>2. next \in Seq(Nodes) /\ Range(next) \subseteq Range(userLoggedin)
  BY <1>1, RemoveUserShrinks
<1>3. userLoggedin' = <<Freed>> \o next \/ userLoggedin' = next
  BY DEF Unlinked
<1> HIDE DEF next
<1>4. <<Freed>> \o next \in Seq(Nodes) /\ Range(<<Freed>> \o next) = {Freed} \cup Range(next)
  BY <1>1, <1>2, Prefixed
<1> QED
  BY <1>2, <1>3, <1>4 DEF NodesSame

-----------------------------------------------------------------------------
(***************************************************************************)
(* While one request is served at a time.  userLoggedin then has a node    *)
(* for everyone online, once, but for the head that Unlink has freed and   *)
(* Relink is about to put right, and no name is online twice.              *)
(***************************************************************************)
OneActive ==
  \A t, u \in Threads : pc[t] \notin Quiet /\ pc[u] \notin Quiet => t = u

\* Online, or accepted by Login.
Engaged(t) == Online(t) \/ pc[t] \in {"loginAdd", "loginLink"}

NamesOnce == \A t, u \in Threads : Engaged(t) /\ Engaged(u) /\ SameName(t, u) => t = u

\* The nodes that are not freed.
Kept(list) == IF list # <<>> /\ Head(list) = Freed THEN Tail(list) ELSE list
Live == Kept(userLoggedin)

ListedOnce ==
  /\ Live \in Seq(Threads) /\ IsInjective(Live)
  /\ Range(Live) = {t \in Threads : Online(t)}
  /\ \/ userLoggedin = Live
     \/ userLoggedin = <<Freed>> \o Live /\ \E t \in Threads : pc[t] = "relink"

HeadIsLive == \A t \in Threads : pc[t] \in {"loginLink", "relink"} => head[t] = FirstNode(Live)

SerialInv ==
  /\ DOMAIN pc = Threads /\ DOMAIN head = Threads
  /\ OneActive /\ NamesOnce /\ ListedOnce /\ HeadIsLive

\* Nobody but t is served: it is its turn, whether it was before or is now.
Alone(t) == pc[t] \notin Quiet \/ \A u \in Threads \ {t} : pc[u] \in Quiet

Turn(t) ==
  pc' = pc \/ \E l : pc' = [pc EXCEPT ![t] = l] /\ (l \in Quiet \/ Alone(t))

\* A step that leaves the list of users alone, and t online or not.
Changing == {"loginAdd", "loginLink", "relink"}

Away == {"none", "connected", "reject", "uncount", "done"}

Calm(t) ==
  /\ userLoggedin' = userLoggedin /\ head' = head
  /\ \/ pc' = pc
     \/ pc[t] \in Away /\ \E l \in Away : pc' = [pc EXCEPT ![t] = l]
     \/ /\ pc[t] \notin Away \cup Changing
        /\ \E l : l \notin Away \cup Changing /\ pc' = [pc EXCEPT ![t] = l]

LEMMA KeptIs ==
  ASSUME NEW s \in Seq(Threads)
  PROVE  Kept(s) = s /\ Kept(<<Freed>> \o s) = s
<1>1. Kept(s) = s
  <2>1. s # <<>> => Head(s) \in Threads
    BY HeadTailProperties
  <2> QED
    BY <2>1, ServerAssumption DEF Kept
<1>2. Kept(<<Freed>> \o s) = s
  <2> DEFINE r == <<Freed>> \o s
  <2>1. s \in Seq(Nodes) /\ Freed \in Nodes /\ <<Freed>> \in Seq(Nodes)
    BY DEF Nodes
  <2>2. r \in Seq(Nodes) /\ r # <<>>
    BY <2>1, Prefixed
  <2>3. Len(r) = Len(s) + 1 /\ \A i \in 1 .. Len(s) + 1 : r[i] = IF i <= 1 THEN Freed ELSE s[i - 1]
    BY <2>1, ConcatProperties
  <2>4. Len(s) \in Nat /\ Head(r) = r[1]
    BY LenProperties
  <2> HIDE DEF r
  <2>5. Head(r) = Freed
    BY <2>3, <2>4
  <2>6. Tail(r) \in Seq(Nodes) /\ Len(Tail(r)) = Len(s) /\ \A i \in 1 .. Len(s) : Tail(r)[i] = r[i + 1]
    BY <2>2, <2>3, <2>4, HeadTailProperties
  <2>7. \A i \in 1 .. Len(s) : Tail(r)[i] = s[i]
    BY <2>3, <2>4, <2>6
  <2>8. Tail(r) = s
    BY <2>1, <2>6, <2>7, SeqEqual
  <2> QED
    BY <2>2, <2>5, <2>8 DEF Kept, r
<1> QED
  BY <1>1, <1>2

LEMMA ActiveKept ==
  ASSUME DOMAIN pc = Threads, OneActive, NEW t \in Threads, Turn(t)
  PROVE  DOMAIN pc' = Threads /\ OneActive'
  BY DEF OneActive, Turn, Alone

\* Only one request is served.
LEMMA OthersQuiet ==
  ASSUME OneActive, NEW t \in Threads, Alone(t), NEW u \in Threads \ {t}
  PROVE  pc[u] \in Quiet
  BY DEF OneActive, Alone

LEMMA CalmKeeps ==
  ASSUME SerialInv, NEW t \in Threads, Turn(t), Calm(t)
  PROVE  SerialInv'
<1>1. DOMAIN pc' = Threads /\ DOMAIN head' = Threads /\ OneActive'
  BY ActiveKept DEF SerialInv, Calm
<1>2. \A u \in Threads : /\ Online(u)' <=> Online(u)
                         /\ Engaged(u)' <=> Engaged(u)
                         /\ pc'[u] \in Changing <=> pc[u] \in Changing
                         /\ pc[u] \in Changing => pc'[u] = pc[u]
                         /\ pc'[u] \in Changing => pc'[u] = pc[u]
  BY DEF SerialInv, Calm, Online, Engaged, Changing, Away
<1>3. NamesOnce'
  BY <1>2 DEF SerialInv, NamesOnce, SameName
<1>4. Live' = Live /\ userLoggedin' = userLoggedin /\ head' = head
  BY DEF Calm, Live
<1>5. ListedOnce'
  BY <1>2, <1>4 DEF SerialInv, ListedOnce, Changing
<1>6. HeadIsLive'
  BY <1>2, <1>4 DEF SerialInv, HeadIsLive, Changing
<1> QED
  BY <1>1, <1>3, <1>5, <1>6 DEF SerialInv

\* Nobody is about to put the list right while another thread is served.
LEMMA ListIsLive ==
  ASSUME SerialInv, NEW t \in Threads, Alone(t), pc[t] # "relink"
  PROVE  userLoggedin = Live
  BY OthersQuiet DEF SerialInv, ListedOnce, Quiet

LEMMA LoginKeeps ==
  ASSUME SerialInv, Serial, NEW t \in Threads, Login(t)
  PROVE  SerialInv'
<1>0. Alone(t) /\ Turn(t)
  BY DEF Login, Begin, Goto, Alone, Turn, Quiet
<1>1. DOMAIN pc' = Threads /\ OneActive'
  BY <1>0, ActiveKept DEF SerialInv
<1>2. /\ pc[t] = "connected" /\ userLoggedin' = userLoggedin /\ head' = head
      /\ \E l \in {"loginAdd", "reject"} : pc' = [pc EXCEPT ![t] = l]
      /\ in_list(userLoggedin, t) => pc' = [pc EXCEPT ![t] = "reject"]
  BY DEF Login, Begin, Goto, shared, private
<1>3. userLoggedin = Live
  BY <1>0, <1>2, ListIsLive
<1>4. \A u \in Threads : Online(u)' <=> Online(u)
  BY <1>1, <1>2 DEF SerialInv, Online
<1>5. NamesOnce'
  <2>1. ASSUME NEW u \in Threads \ {t}, Engaged(u)', SameName(t, u)
        PROVE  pc'[t] = "reject"
    <3>1. pc'[u] = pc[u] /\ pc[u] \in Quiet
      BY <1>0, <1>2, OthersQuiet DEF SerialInv
    <3>2. Online(u)
      BY <2>1, <3>1 DEF Engaged, Online, Quiet
    <3>3. u \in Range(userLoggedin)
      BY <1>3, <3>2 DEF SerialInv, ListedOnce
    <3>4. in_list(userLoggedin, t)
      BY <2>1, <3>3 DEF in_list, Range, SameName
    <3> QED
      BY <1>2, <3>4 DEF SerialInv
  <2>2. \A u \in Threads \ {t} : Engaged(u)' <=> Engaged(u)
    BY <1>2 DEF SerialInv, Engaged, Online
  <2>3. pc'[t] = "reject" => ~Engaged(t)'
    BY DEF Engaged, Online
  <2> HIDE DEF Engaged
  <2>4. ASSUME NEW u \in Threads, NEW v \in Threads, Engaged(u)', Engaged(v)', SameName(u, v)
        PROVE  u = v
    <3>1. CASE u # t /\ v # t
      BY <2>2, <2>4, <3>1 DEF SerialInv, NamesOnce
    <3>2. CASE u = t /\ v # t
      BY <2>1, <2>3, <2>4, <3>2
    <3>3. CASE u # t /\ v = t
      <4>1. SameName(t, u)
        BY <2>4, <3>3 DEF SameName
      <4> QED
        BY <2>1, <2>3, <2>4, <3>3, <4>1
    <3> QED
      BY <3>1, <3>2, <3>3
  <2> QED
    BY <2>4 DEF NamesOnce, SameName
<1>6. Live' = Live
  BY <1>2 DEF Live
<1>7. ListedOnce'
  BY <1>2, <1>3, <1>4, <1>6 DEF SerialInv, ListedOnce
<1>8. HeadIsLive'
  BY <1>1, <1>2, <1>6 DEF SerialInv, HeadIsLive
<1> QED
  BY <1>1, <1>2, <1>5, <1>7, <1>8 DEF SerialInv

LEMMA LoginAddKeeps ==
  ASSUME SerialInv, NEW t \in Threads, LoginAdd(t)
  PROVE  SerialInv'
<1>0. Alone(t) /\ Turn(t)
  BY DEF LoginAdd, Step, Goto, Alone, Turn, Quiet
<1>1. DOMAIN pc' = Threads /\ OneActive'
  BY <1>0, ActiveKept DEF SerialInv
<1>2. /\ pc[t] = "loginAdd" /\ pc' = [pc EXCEPT ![t] = "loginLink"]
      /\ userLoggedin' = userLoggedin
      /\ head' = [head EXCEPT ![t] = FirstNode(userLoggedin)]
  BY DEF LoginAdd, Step, Goto
<1>3. userLoggedin = Live
  BY <1>0, <1>2, ListIsLive
<1>4. Live' = Live
  BY <1>2 DEF Live
<1>5. \A u \in Threads : (Online(u)' <=> Online(u)) /\ (Engaged(u)' <=> Engaged(u))
  BY <1>2 DEF SerialInv, Online, Engaged
<1>6. NamesOnce'
  BY <1>5 DEF SerialInv, NamesOnce, SameName
<1>7. ListedOnce'
  BY <1>2, <1>3, <1>4, <1>5 DEF SerialInv, ListedOnce
<1>8. HeadIsLive'
  BY <1>2, <1>3, <1>4 DEF SerialInv, HeadIsLive
<1> QED
  BY <1>1, <1>2, <1>6, <1>7, <1>8 DEF SerialInv

\* Relinked() at the first live node.
LEMMA RelinkedToLive ==
  ASSUME SerialInv, NEW t \in Threads, pc[t] \in {"loginLink", "relink"},
         NEW front, front \in {<<>>, <<t>>}, Relinked(t, front)
  PROVE  userLoggedin' = front \o Live
<1> DEFINE I == {k \in 1 .. Len(userLoggedin) : userLoggedin[k] = head[t]}
           i == SelectInSeq(userLoggedin, LAMBDA u : u = head[t])
<1>1. Live \in Seq(Threads) /\ head[t] = FirstNode(Live)
  BY DEF SerialInv, ListedOnce, HeadIsLive
<1>2. Len(Live) \in Nat /\ DOMAIN Live = 1 .. Len(Live) /\ (Live # <<>> => Len(Live) # 0 /\ Head(Live) = Live[1])
  BY <1>1, LenProperties, EmptySeq
<1>3. \A k \in 1 .. Len(Live) : Live[k] \in Threads /\ Live[k] # Freed /\ Live[k] # NoThread
  BY <1>1, ServerAssumption, ElementOfSeq
<1>4. i = IF I = {} THEN 0 ELSE Min(I)
  BY DEF SelectInSeq
<1>5. userLoggedin' = front \o (IF i = 0 THEN <<>> ELSE SubSeq(userLoggedin, i, Len(userLoggedin)))
  BY DEF Relinked
<1> HIDE DEF i
<1>6. userLoggedin = Live \/ userLoggedin = <<Freed>> \o Live
  BY DEF SerialInv, ListedOnce
<1>7. /\ <<Freed>> \o Live \in Seq(Nodes) /\ Len(<<Freed>> \o Live) = Len(Live) + 1
      /\ \A k \in 1 .. Len(Live) + 1 : (<<Freed>> \o Live)[k] = IF k <= 1 THEN Freed ELSE Live[k - 1]
  <2>1. <<Freed>> \in Seq(Nodes) /\ Live \in Seq(Nodes)
    BY <1>1 DEF Nodes
  <2> QED
    BY <2>1, ConcatProperties
<1>8. CASE Live = <<>>
  <2>1. head[t] = NoThread
    BY <1>1, <1>8 DEF FirstNode
  <2>2. \A k \in 1 .. Len(userLoggedin) : userLoggedin[k] = Freed
    BY <1>2, <1>6, <1>7, <1>8
  <2>3. I = {}
    BY <2>1, <2>2, ServerAssumption
  <2> QED
    BY <1>4, <1>5, <1>8, <2>3
<1>9. CASE Live # <<>> /\ userLoggedin = Live
  <2>1. 1 \in I /\ I \in SUBSET Nat
    BY <1>1, <1>2, <1>9 DEF FirstNode
  <2> HIDE DEF I
  <2>2. Min(I) \in I /\ \A k \in I : Min(I) <= k
    BY <2>1, MinIs
  <2>3. Min(I) = 1
    <3>1. Min(I) \in 1 .. Len(userLoggedin)
      BY <2>2 DEF I
    <3> QED
      BY <2>1, <2>2, <3>1
  <2>4. SubSeq(Live, 1, Len(Live)) = Live
    BY <1>1, SubSeqFull
  <2>5. i = 1
    BY <1>4, <2>1, <2>3
  <2> QED
    BY <1>5, <1>9, <2>4, <2>5
<1>10. CASE Live # <<>> /\ userLoggedin = <<Freed>> \o Live
  <2> DEFINE r == <<Freed>> \o Live
  <2>1. r[1] = Freed /\ r[2] = Live[1] /\ head[t] = Live[1] /\ Live[1] # Freed
        /\ 2 \in 1 .. Len(r) /\ Len(r) \in Nat /\ Len(Live) \in Nat
    BY <1>1, <1>2, <1>3, <1>7, <1>10 DEF FirstNode
  <2>2. 2 \in I /\ 1 \notin I /\ I \in SUBSET Nat
    BY <1>10, <2>1
  <2> HIDE DEF I
  <2>3. Min(I) \in I /\ \A k \in I : Min(I) <= k
    BY <2>2, MinIs
  <2>4. Min(I) = 2
    <3>1. Min(I) \in 1 .. Len(userLoggedin)
      BY <2>3 DEF I
    <3> QED
      BY <2>2, <2>3, <3>1
  <2> DEFINE q == SubSeq(r, 2, Len(r))
  <2>5. q = Live
    <3>1. r \in Seq(Nodes) /\ Len(r) = Len(Live) + 1
      BY <1>7
    <3>2. \A k \in 2 .. Len(r) : r[k] \in Nodes
      BY <2>1, <3>1, ElementOfSeq
    <3>3. /\ q \in Seq(Nodes) /\ Len(q) = IF 2 <= Len(r) THEN Len(r) - 2 + 1 ELSE 0
          /\ \A k \in 1 .. Len(r) - 2 + 1 : q[k] = r[2 + k - 1]
      BY <2>1, <3>2, SubSeqProperties
    <3>4. Len(q) = Len(Live) /\ \A k \in 1 .. Len(Live) : q[k] = Live[k]
      <4> HIDE DEF q, r
      <4>1. Len(q) = Len(Live)
        BY <2>1, <3>1, <3>3
      <4>2. ASSUME NEW k \in 1 .. Len(Live) PROVE q[k] = Live[k]
        <5>1. q[k] = r[k + 1]
          BY <2>1, <3>1, <3>3
        <5>2. r[k + 1] = Live[k]
          BY <1>2, <1>7 DEF r
        <5> QED
          BY <5>1, <5>2
      <4> QED
        BY <4>1, <4>2
    <3>5. Live \in Seq(Nodes)
      BY <1>1 DEF Nodes
    <3> HIDE DEF q, r
    <3> QED
      BY <3>3, <3>4, <3>5, SeqEqual
  <2>6. i = 2
    BY <1>4, <2>2, <2>4
  <2>7. SubSeq(userLoggedin, 2, Len(userLoggedin)) = Live
    BY <1>10, <2>5
  <2> QED
    BY <1>5, <2>6, <2>7
<1> QED
  BY <1>6, <1>8, <1>9, <1>10

LEMMA LoginLinkKeeps ==
  ASSUME SerialInv, NEW t \in Threads, LoginLink(t)
  PROVE  SerialInv'
<1>0. Alone(t) /\ Turn(t)
  BY DEF LoginLink, Step, Goto, Alone, Turn, Quiet
<1>1. DOMAIN pc' = Threads /\ OneActive'
  BY <1>0, ActiveKept DEF SerialInv
<1>2. /\ pc[t] = "loginLink" /\ pc' = [pc EXCEPT ![t] = "recv"]
      /\ head' = [head EXCEPT ![t] = NoThread] /\ Relinked(t, <<t>>)
  BY DEF LoginLink, Step, Goto, Relinked
<1>3. userLoggedin' = <<t>> \o Live
  BY <1>2, RelinkedToLive
<1>4. Live \in Seq(Threads) /\ IsInjective(Live) /\ Range(Live) = {u \in Threads : Online(u)}
  BY DEF SerialInv, ListedOnce
<1>5. ~Online(t)
  BY <1>2 DEF Online
<1>6. /\ <<t>> \o Live \in Seq(Threads) /\ IsInjective(<<t>> \o Live)
      /\ Range(<<t>> \o Live) = {t} \cup Range(Live)
  BY <1>4, <1>5, Prefixed
<1>7. Live' = <<t>> \o Live
  BY <1>3, <1>6, KeptIs DEF Live
<1>8. \A u \in Threads : (Online(u)' <=> Online(u) \/ u = t) /\ (Engaged(u)' <=> Engaged(u))
  BY <1>2 DEF SerialInv, Online, Engaged
<1>9. NamesOnce'
  BY <1>8 DEF SerialInv, NamesOnce, SameName
<1>10. ListedOnce'
  BY <1>3, <1>4, <1>6, <1>7, <1>8 DEF ListedOnce
<1>11. HeadIsLive'
  <2>1. \A u \in Threads : pc'[u] \notin {"loginLink", "relink"}
    BY <1>0, <1>2, OthersQuiet DEF SerialInv, Quiet
  <2> QED
    BY <2>1 DEF HeadIsLive
<1> QED
  BY <1>1, <1>2, <1>9, <1>10, <1>11 DEF SerialInv

LEMMA RelinkKeeps ==
  ASSUME SerialInv, NEW t \in Threads, Relink(t)
  PROVE  SerialInv'
<1>0. Alone(t) /\ Turn(t)
  BY DEF Relink, Step, Goto, Alone, Turn, Quiet
<1>1. DOMAIN pc' = Threads /\ OneActive'
  BY <1>0, ActiveKept DEF SerialInv
<1>2. /\ pc[t] = "relink" /\ pc' = [pc EXCEPT ![t] = "uncount"]
      /\ head' = [head EXCEPT ![t] = NoThread] /\ Relinked(t, <<>>)
  BY DEF Relink, Step, Goto, Relinked
<1>3. Live \in Seq(Threads)
  BY DEF SerialInv, ListedOnce
<1>4. userLoggedin' = Live
  <2>1. userLoggedin' = <<>> \o Live
    BY <1>2, RelinkedToLive
  <2> QED
    BY <1>3, <2>1, ConcatEmptySeq
<1>5. Live' = Live
  BY <1>3, <1>4, KeptIs DEF Live
<1>6. \A u \in Threads : (Online(u)' <=> Online(u)) /\ (Engaged(u)' <=> Engaged(u))
  BY <1>2 DEF SerialInv, Online, Engaged
<1>7. NamesOnce'
  BY <1>6 DEF SerialInv, NamesOnce, SameName
<1>8. ListedOnce'
  BY <1>4, <1>5, <1>6 DEF SerialInv, ListedOnce
<1>9. HeadIsLive'
  <2>1. \A u \in Threads : pc'[u] \notin {"loginLink", "relink"}
    BY <1>0, <1>2, OthersQuiet DEF SerialInv, Quiet
  <2> QED
    BY <2>1 DEF HeadIsLive
<1> QED
  BY <1>1, <1>2, <1>7, <1>8, <1>9 DEF SerialInv

\* remove_user() leaves the first node where it is, unless it is the one.
LEMMA FirstNodeKept ==
  ASSUME NEW list \in Seq(Threads), NEW t \in Threads,
         ~(list # <<>> /\ SameName(Head(list), t))
  PROVE  FirstNode(remove_user(list, t)) = FirstNode(list)
<1> DEFINE I == {i \in 1 .. Len(list) : SameName(list[i], t)}
           r == remove_user(list, t)
<1>1. Len(list) \in Nat /\ (list # <<>> => Len(list) # 0 /\ Head(list) = list[1])
  BY LenProperties, EmptySeq
<1>2. CASE I = {}
  <2>1. ~\E i \in 1 .. Len(list) : SameName(list[i], t)
    BY <1>2
  <2> QED
    BY <2>1 DEF remove_user, RemoveFirstMatch
<1>3. CASE I # {}
  <2>1. r = RemoveAt(list, Min(I))
    BY <1>3 DEF remove_user, RemoveFirstMatch, SelectInSeq
  <2>2. I \in SUBSET Nat /\ 1 \notin I /\ list # <<>>
    BY <1>1, <1>3
  <2> HIDE DEF r
  <2>3. Min(I) \in 1 .. Len(list) /\ Min(I) # 1
    <3> HIDE DEF I
    <3>1. Min(I) \in I
      BY <1>3, <2>2, MinIs
    <3> QED
      BY <2>2, <3>1 DEF I
  <2> HIDE DEF I
  <2>4. /\ r \in Seq(Threads) /\ Len(r) = Len(list) - 1
        /\ \A k \in 1 .. Len(list) - 1 : r[k] = IF k < Min(I) THEN list[k] ELSE list[k + 1]
    BY <2>1, <2>3, RemoveAtIs
  <2>5. Len(r) \in Nat \ {0} /\ r[1] = list[1]
    BY <1>1, <2>3, <2>4
  <2>6. r # <<>> /\ Head(r) = r[1]
    BY <2>4, <2>5, EmptySeq
  <2> QED
    BY <1>1, <2>2, <2>5, <2>6 DEF FirstNode, r
<1> QED
  BY <1>2, <1>3

LEMMA UnlinkKeeps ==
  ASSUME SerialInv, NEW t \in Threads, Unlink(t)
  PROVE  SerialInv'
<1> DEFINE next == remove_user(Live, t)
<1>0. Alone(t) /\ Turn(t)
  BY DEF Unlink, Step, Goto, Alone, Turn, Quiet
<1>1. DOMAIN pc' = Threads /\ OneActive'
  BY <1>0, ActiveKept DEF SerialInv
<1>2. pc[t] = "leaving" /\ pc' = [pc EXCEPT ![t] = "relink"] /\ Unlinked(t)
  BY DEF Unlink, Step, Goto
<1>3. userLoggedin = Live
  BY <1>0, <1>2, ListIsLive
<1>4. Live \in Seq(Threads) /\ IsInjective(Live) /\ Range(Live) = {u \in Threads : Online(u)}
  BY DEF SerialInv, ListedOnce
<1>5. \A u \in Range(Live) : SameName(u, t) => u = t
  <2>1. Online(t)
    BY <1>2 DEF Online
  <2> QED
    BY <1>4, <2>1 DEF SerialInv, NamesOnce, Engaged
<1>6. /\ next \in Seq(Threads) /\ IsInjective(next)
      /\ Range(next) = Range(Live) \ {t}
  BY <1>4, <1>5, RemoveUserIs
<1>7. /\ userLoggedin' = next \/ userLoggedin' = <<Freed>> \o next
      /\ head' = [head EXCEPT ![t] = FirstNode(next)]
  <2>1. CASE Live # <<>> /\ SameName(Head(Live), t)
    BY <1>2, <1>3, <2>1 DEF Unlinked
  <2>2. CASE ~(Live # <<>> /\ SameName(Head(Live), t))
    <3>1. FirstNode(next) = FirstNode(Live)
      BY <1>4, <2>2, FirstNodeKept
    <3> QED
      BY <1>2, <1>3, <2>2, <3>1 DEF Unlinked
  <2> QED
    BY <2>1, <2>2
<1> HIDE DEF next
<1>8. Live' = next
  BY <1>6, <1>7, KeptIs DEF Live
<1>9. \A u \in Threads : /\ Online(u)' <=> Online(u) /\ u # t
                         /\ Engaged(u)' => Engaged(u)
  BY <1>2 DEF SerialInv, Online, Engaged
<1>10. NamesOnce'
  BY <1>9 DEF SerialInv, NamesOnce, SameName
<1>11. ListedOnce'
  <2>1. pc'[t] = "relink"
    BY <1>2 DEF SerialInv
  <2> QED
    BY <1>4, <1>6, <1>7, <1>8, <1>9, <2>1 DEF ListedOnce
<1>12. HeadIsLive'
  <2>1. \A u \in Threads \ {t} : pc'[u] \notin {"loginLink", "relink"}
    BY <1>0, <1>2, OthersQuiet DEF SerialInv, Quiet
  <2> QED
    BY <1>7, <1>8, <2>1 DEF SerialInv, HeadIsLive
<1> QED
  BY <1>1, <1>7, <1>10, <1>11, <1>12 DEF SerialInv

\* Every other step is calm, whatever else it does.
Still == pc' = pc /\ userLoggedin' = userLoggedin /\ head' = head

LEMMA StillKeeps == SerialInv /\ Still => SerialInv'
  BY DEF Still, SerialInv, OneActive, NamesOnce, ListedOnce, HeadIsLive, Live, Engaged, Online,
         SameName

LEMMA CalmRequests ==
  ASSUME Serial, NEW t \in Threads,
         \/ Accept(t) \/ HangUp(t) \/ Reset(t) \/ NewSession(t) \/ Exit(t)
         \/ \E id \in Ids : Join(t, id) \/ Leave(t, id) \/ Message(t, id)
         \/ \E u \in Threads : Invite(t, u)
         \/ LeaveAll(t) \/ MessageAll(t)
  PROVE  Turn(t) /\ Calm(t)
<1> USE DEF Turn, Alone, Calm, Changing, Away, Quiet, Begin, Goto, shared, private
<1>1. CASE Accept(t)
  BY <1>1 DEF Accept
<1>2. CASE HangUp(t)
  BY <1>2 DEF HangUp
<1>3. CASE Reset(t)
  BY <1>3 DEF Reset
<1>4. CASE NewSession(t)
  BY <1>4 DEF NewSession
<1>5. CASE Exit(t)
  BY <1>5 DEF Exit
<1>6. ASSUME NEW id \in Ids, Join(t, id) PROVE Turn(t) /\ Calm(t)
  BY <1>6 DEF Join
<1>7. ASSUME NEW id \in Ids, Leave(t, id) PROVE Turn(t) /\ Calm(t)
  BY <1>7 DEF Leave
<1>8. ASSUME NEW id \in Ids, Message(t, id) PROVE Turn(t) /\ Calm(t)
  BY <1>8 DEF Message
<1>9. ASSUME NEW u \in Threads, Invite(t, u) PROVE Turn(t) /\ Calm(t)
  BY <1>9 DEF Invite
<1>10. CASE LeaveAll(t)
  BY <1>10 DEF LeaveAll
<1>11. CASE MessageAll(t)
  BY <1>11 DEF MessageAll, Visit
<1> HIDE DEF Turn, Alone, Calm, Changing, Away, Quiet, Begin, Goto, shared, private
<1>12. QED
  BY <1>1, <1>2, <1>3, <1>4, <1>5, <1>6, <1>7, <1>8, <1>9, <1>10, <1>11

LEMMA CalmServes ==
  ASSUME NEW t \in Threads,
         \/ Reject(t) \/ JoinSession(t) \/ JoinRecord(t)
         \/ LeaveSession(t) \/ LeaveRecord(t) \/ LeaveUnlock(t)
         \/ LeaveAllSession(t) \/ LeaveAllRecord(t)
         \/ NewPrivate(t) \/ NewJoin(t) \/ NewRecord(t) \/ NewAnswer(t) \/ NewCount(t)
         \/ SendNext(t) \/ SendNextOfAll(t)
         \/ LeaveNext(t) \/ Uncount(t)
  PROVE  Turn(t) /\ Calm(t)
<1> USE DEF Turn, Alone, Calm, Changing, Away, Quiet, Step, Goto, Return, Abort, shared, private
<1>1. CASE JoinSession(t)
  BY <1>1 DEF JoinSession
<1>2. CASE JoinRecord(t)
  BY <1>2 DEF JoinRecord
<1>3. CASE LeaveSession(t)
  BY <1>3 DEF LeaveSession
<1>4. CASE LeaveRecord(t)
  BY <1>4 DEF LeaveRecord
<1>5. CASE LeaveAllSession(t)
  BY <1>5 DEF LeaveAllSession
<1>6. CASE LeaveAllRecord(t)
  BY <1>6 DEF LeaveAllRecord
<1>7. CASE NewPrivate(t)
  BY <1>7 DEF NewPrivate
<1>8. CASE NewJoin(t)
  BY <1>8 DEF NewJoin
<1>9. CASE NewRecord(t)
  BY <1>9 DEF NewRecord
<1>10. CASE NewAnswer(t)
  BY <1>10 DEF NewAnswer
<1>11. CASE NewCount(t)
  BY <1>11 DEF NewCount
<1>12. CASE SendNext(t)
  BY <1>12 DEF SendNext
<1>13. CASE SendNextOfAll(t)
  BY <1>13 DEF SendNextOfAll, Visit
<1>14. CASE LeaveNext(t)
  BY <1>14 DEF LeaveNext
<1>15. CASE LeaveUnlock(t)
  BY <1>15 DEF LeaveUnlock
<1>16. CASE Reject(t)
  BY <1>16 DEF Reject
<1>17. CASE Uncount(t)
  BY <1>17 DEF Uncount
<1> HIDE DEF Turn, Alone, Calm, Changing, Away, Quiet, Step, Goto, Return, Abort, shared, private
<1>18. QED
  BY <1>1, <1>2, <1>3, <1>4, <1>5, <1>6, <1>7, <1>8, <1>9, <1>10, <1>11,
     <1>12, <1>13, <1>14, <1>15, <1>16, <1>17

LEMMA SerialInit == Init => SerialInv
<1> SUFFICES ASSUME Init PROVE SerialInv
  OBVIOUS
<1>1. /\ pc = [t \in Threads |-> "none"] /\ DOMAIN head = Threads
      /\ userLoggedin = <<>>
  BY DEF Init
<1>2. Live = <<>> /\ <<>> \in Seq(Threads)
  BY <1>1 DEF Live, Kept
<1>3. \A t \in Threads : ~Online(t) /\ ~Engaged(t) /\ pc[t] \in Quiet
                         /\ pc[t] \notin {"loginLink", "relink"}
  BY <1>1 DEF Online, Engaged, Quiet
<1> QED
  BY <1>1, <1>2, <1>3, RangeOfNone DEF SerialInv, OneActive, NamesOnce, ListedOnce, HeadIsLive

LEMMA SerialNext == Serial /\ SerialInv /\ [Next]_vars => SerialInv'
<1> SUFFICES ASSUME Serial, SerialInv, [Next]_vars PROVE SerialInv'
  OBVIOUS
<1>1. CASE UNCHANGED vars \/ AcceptTimeout
  BY <1>1, StillKeeps DEF Still, vars, AcceptTimeout, shared, private
<1>2. ASSUME NEW t \in Threads, Accept(t) \/ Request(t) PROVE SerialInv'
  BY <1>2, LoginKeeps, CalmRequests, CalmKeeps DEF Request
<1>3. ASSUME NEW t \in Threads, Serve(t) PROVE SerialInv'
  BY <1>3, LoginAddKeeps, LoginLinkKeeps, UnlinkKeeps, RelinkKeeps, CalmServes, CalmKeeps DEF Serve
<1> QED
  BY <1>1, <1>2, <1>3 DEF Next

LEMMA SerialLab1Next == Serial /\ SerialInv /\ [Lab1Next]_vars => SerialInv'
<1> SUFFICES ASSUME Serial, SerialInv, [Lab1Next]_vars PROVE SerialInv'
  OBVIOUS
<1>1. CASE UNCHANGED vars \/ AcceptTimeout
  BY <1>1, StillKeeps DEF Still, vars, AcceptTimeout, shared, private
<1>2. ASSUME NEW t \in Threads, Accept(t) \/ LoginBranch(t) \/ JoinBranch(t) PROVE SerialInv'
  BY <1>2, LoginKeeps, LoginAddKeeps, LoginLinkKeeps, CalmRequests, CalmServes, CalmKeeps
     DEF LoginBranch, JoinBranch
<1>3. ASSUME NEW t \in Threads, LeaveBranch(t) \/ NewBranch(t) \/ MessageBranch(t)
      PROVE  SerialInv'
  BY <1>3, CalmRequests, CalmServes, CalmKeeps DEF LeaveBranch, NewBranch, MessageBranch
<1>4. ASSUME NEW t \in Threads, ExitBranch(t) PROVE SerialInv'
  BY <1>4, UnlinkKeeps, RelinkKeeps, CalmRequests, CalmServes, CalmKeeps DEF ExitBranch
<1> QED
  BY <1>1, <1>2, <1>3, <1>4 DEF Lab1Next

-----------------------------------------------------------------------------
Busy == {t \in Threads : pc[t] \notin {"none", "done"}}

\* A step of a thread that is served before and after it, at whatever label.
Serving(t) ==
  /\ status = "running" /\ status' # "terminated"
  /\ pc[t] \notin {"none", "done"}
  /\ pc' = pc \/ \E l : l \notin {"none", "done"} /\ pc' = [pc EXCEPT ![t] = l]
  /\ userConnectedCnt' = userConnectedCnt

\* A step that leaves the mutex alone and does not enter the section that
\* extends userLoggedin.
Outside(t) ==
  /\ mutex' = mutex
  /\ pc' = pc \/ \E l : l # "loginLink" /\ pc' = [pc EXCEPT ![t] = l]

-----------------------------------------------------------------------------
(***************************************************************************)
(* Every step of every request is of these kinds, except the entry into    *)
(* and the exit from the server and the sections of the mutex.             *)
(***************************************************************************)
LEMMA RequestSteps ==
  ASSUME NEW t \in Threads,
         \/ Login(t) \/ HangUp(t) \/ Reset(t) \/ NewSession(t) \/ Exit(t)
         \/ \E id \in Ids : Join(t, id) \/ Leave(t, id) \/ Message(t, id)
         \/ \E u \in Threads : Invite(t, u)
         \/ LeaveAll(t) \/ MessageAll(t)
  PROVE  Serving(t) /\ Outside(t)
<1> USE DEF Serving, Outside, Begin, Goto, shared, private
<1>1. CASE Login(t)
  BY <1>1 DEF Login
<1>2. CASE HangUp(t)
  BY <1>2 DEF HangUp
<1>3. CASE Reset(t)
  BY <1>3 DEF Reset
<1>4. CASE NewSession(t)
  BY <1>4 DEF NewSession
<1>5. CASE Exit(t)
  BY <1>5 DEF Exit
<1>6. ASSUME NEW id \in Ids, Join(t, id) PROVE Serving(t) /\ Outside(t)
  BY <1>6 DEF Join
<1>7. ASSUME NEW id \in Ids, Leave(t, id) PROVE Serving(t) /\ Outside(t)
  BY <1>7 DEF Leave
<1>8. ASSUME NEW id \in Ids, Message(t, id) PROVE Serving(t) /\ Outside(t)
  BY <1>8 DEF Message
<1>9. ASSUME NEW u \in Threads, Invite(t, u) PROVE Serving(t) /\ Outside(t)
  BY <1>9 DEF Invite
<1>10. CASE LeaveAll(t)
  BY <1>10 DEF LeaveAll
<1>11. CASE MessageAll(t)
  BY <1>11 DEF MessageAll, Visit
<1> HIDE DEF Serving, Outside, Begin, Goto, shared, private
<1>12. QED
  BY <1>1, <1>2, <1>3, <1>4, <1>5, <1>6, <1>7, <1>8, <1>9, <1>10, <1>11

LEMMA ServeSteps ==
  ASSUME NEW t \in Threads,
         \/ JoinSession(t) \/ JoinRecord(t)
         \/ LeaveSession(t) \/ LeaveRecord(t) \/ LeaveAllSession(t) \/ LeaveAllRecord(t)
         \/ NewPrivate(t) \/ NewJoin(t) \/ NewRecord(t) \/ NewAnswer(t) \/ NewCount(t)
         \/ SendNext(t) \/ SendNextOfAll(t)
         \/ LeaveNext(t) \/ Unlink(t) \/ Relink(t)
  PROVE  Serving(t) /\ Outside(t)
<1> USE DEF Serving, Outside, Step, Goto, Return, Abort, shared, private
<1>1. CASE JoinSession(t)
  BY <1>1 DEF JoinSession
<1>2. CASE JoinRecord(t)
  BY <1>2 DEF JoinRecord
<1>3. CASE LeaveSession(t)
  BY <1>3 DEF LeaveSession
<1>4. CASE LeaveRecord(t)
  BY <1>4 DEF LeaveRecord
<1>5. CASE LeaveAllSession(t)
  BY <1>5 DEF LeaveAllSession
<1>6. CASE LeaveAllRecord(t)
  BY <1>6 DEF LeaveAllRecord
<1>7. CASE NewPrivate(t)
  BY <1>7 DEF NewPrivate
<1>8. CASE NewJoin(t)
  BY <1>8 DEF NewJoin
<1>9. CASE NewRecord(t)
  BY <1>9 DEF NewRecord
<1>10. CASE NewAnswer(t)
  BY <1>10 DEF NewAnswer
<1>11. CASE NewCount(t)
  BY <1>11 DEF NewCount
<1>12. CASE SendNext(t)
  BY <1>12 DEF SendNext
<1>13. CASE SendNextOfAll(t)
  BY <1>13 DEF SendNextOfAll, Visit
<1>14. CASE LeaveNext(t)
  BY <1>14 DEF LeaveNext
<1>15. CASE Unlink(t)
  BY <1>15 DEF Unlink
<1>16. CASE Relink(t)
  BY <1>16 DEF Relink, Relinked
<1> HIDE DEF Serving, Outside, Step, Goto, Return, Abort, shared, private
<1>17. QED
  BY <1>1, <1>2, <1>3, <1>4, <1>5, <1>6, <1>7, <1>8, <1>9, <1>10, <1>11,
     <1>12, <1>13, <1>14, <1>15, <1>16

\* The sections of the mutex serve as well.
LEMMA MutexSteps ==
  ASSUME NEW t \in Threads, LoginAdd(t) \/ LoginLink(t) \/ LeaveUnlock(t)
  PROVE  Serving(t)
<1> USE DEF Serving, Step, Goto, Return
<1>1. CASE LoginAdd(t)
  BY <1>1 DEF LoginAdd
<1>2. CASE LoginLink(t)
  BY <1>2 DEF LoginLink, Relinked
<1>3. CASE LeaveUnlock(t)
  BY <1>3 DEF LeaveUnlock
<1>4. QED
  BY <1>1, <1>2, <1>3

-----------------------------------------------------------------------------
(***************************************************************************)
(* The inductive invariant behind TerminatedMeansIdle: every thread in the *)
(* server has been counted.  Threads that left without logging in may be   *)
(* counted still (server.c:423), so it is a bound and not an equation.     *)
(***************************************************************************)
CountInv ==
  /\ DOMAIN pc = Threads
  /\ userConnectedCnt \in Nat
  /\ Cardinality(Busy) <= userConnectedCnt
  /\ TerminatedMeansIdle

LEMMA CountInit == Init => CountInv
<1> SUFFICES ASSUME Init PROVE CountInv
  OBVIOUS
<1>1. Busy = {}
  BY DEF Init, Busy
<1>2. Cardinality(Busy) = 0
  BY <1>1, FS_EmptySet
<1>3. QED
  BY <1>2 DEF Init, CountInv, TerminatedMeansIdle

LEMMA BusyIsFinite == IsFiniteSet(Busy) /\ Cardinality(Busy) \in Nat
<1>1. Busy \in SUBSET Threads
  BY DEF Busy
<1>2. QED
  BY <1>1, FS_Subset, FS_CardinalityType, ServerAssumption

\* A thread that is served stays counted.
LEMMA CountServing ==
  ASSUME CountInv, NEW t \in Threads, Serving(t)
  PROVE  CountInv'
<1>1. DOMAIN pc' = Threads /\ Busy' = Busy
  BY DEF CountInv, Serving, Busy
<1>2. QED
  BY <1>1 DEF CountInv, Serving, TerminatedMeansIdle

\* main() counts a connection before its thread runs.
LEMMA CountAccept ==
  ASSUME CountInv, NEW t \in Threads, Accept(t)
  PROVE  CountInv'
<1>1. /\ DOMAIN pc' = Threads /\ Busy' = Busy \cup {t} /\ t \notin Busy
      /\ userConnectedCnt' = userConnectedCnt + 1 /\ status' # "terminated"
  BY DEF CountInv, Accept, Goto, Busy
<1>2. Cardinality(Busy') = Cardinality(Busy) + 1
  BY <1>1, BusyIsFinite, FS_AddElement
<1>3. QED
  BY <1>1, <1>2, BusyIsFinite DEF CountInv, TerminatedMeansIdle

\* A thread ends, counted off or not.
LEMMA CountEnd ==
  ASSUME CountInv, NEW t \in Threads, Reject(t) \/ Uncount(t)
  PROVE  CountInv'
<1>1. /\ DOMAIN pc' = Threads /\ Busy' = Busy \ {t} /\ t \in Busy
      /\ status' # "terminated"
      /\ userConnectedCnt' = userConnectedCnt \/ userConnectedCnt' = userConnectedCnt - 1
  <2>1. CASE Reject(t)
    BY <2>1 DEF CountInv, Reject, Step, Goto, Busy, shared
  <2>2. CASE Uncount(t)
    BY <2>2 DEF CountInv, Uncount, Step, Goto, Busy
  <2>3. QED
    BY <2>1, <2>2
<1>2. Cardinality(Busy') = Cardinality(Busy) - 1 /\ Cardinality(Busy') \in Nat
  <2>1. IsFiniteSet(Busy \ {t}) /\ Cardinality(Busy \ {t}) = Cardinality(Busy) - 1
    BY <1>1, BusyIsFinite, FS_RemoveElement
  <2>2. QED
    BY <1>1, <2>1, FS_CardinalityType
<1>3. QED
  BY <1>1, <1>2, BusyIsFinite DEF CountInv, TerminatedMeansIdle

\* accept() times out: nobody is counted, so nobody is there.
LEMMA CountTimeout ==
  ASSUME CountInv, AcceptTimeout
  PROVE  CountInv'
<1>1. Cardinality(Busy) = 0
  BY BusyIsFinite DEF CountInv, AcceptTimeout
<1>2. Busy = {}
  BY <1>1, BusyIsFinite, FS_EmptySet
<1>3. pc' = pc /\ userConnectedCnt' = userConnectedCnt
  BY DEF AcceptTimeout, shared
<1>4. Busy' = Busy
  BY <1>3 DEF Busy
<1>5. Idle'
  BY <1>2, <1>3 DEF Idle, Busy
<1>6. QED
  BY <1>3, <1>4, <1>5 DEF CountInv, TerminatedMeansIdle

LEMMA CountStutter == CountInv /\ UNCHANGED vars => CountInv'
  BY DEF CountInv, Busy, TerminatedMeansIdle, Idle, vars, shared

LEMMA CountNext == CountInv /\ [Next]_vars => CountInv'
<1> SUFFICES ASSUME CountInv, [Next]_vars PROVE CountInv'
  OBVIOUS
<1>1. CASE UNCHANGED vars
  BY <1>1, CountStutter
<1>2. CASE AcceptTimeout
  BY <1>2, CountTimeout
<1>3. ASSUME NEW t \in Threads, Accept(t) PROVE CountInv'
  BY <1>3, CountAccept
<1>4. ASSUME NEW t \in Threads, Request(t) PROVE CountInv'
  <2>1. Serving(t)
    BY <1>4, RequestSteps DEF Request
  <2>2. QED
    BY <2>1, CountServing
<1>5. ASSUME NEW t \in Threads, Serve(t) PROVE CountInv'
  <2>1. CASE Reject(t) \/ Uncount(t)
    BY <2>1, CountEnd
  <2>2. CASE LoginAdd(t) \/ LoginLink(t) \/ LeaveUnlock(t)
    BY <2>2, MutexSteps, CountServing
  <2>3. CASE ~(Reject(t) \/ Uncount(t) \/ LoginAdd(t) \/ LoginLink(t) \/ LeaveUnlock(t))
    BY <1>5, <2>3, ServeSteps, CountServing DEF Serve
  <2>4. QED
    BY <2>1, <2>2, <2>3
<1>6. QED
  BY <1>1, <1>2, <1>3, <1>4, <1>5 DEF Next

\* The second version does not go down under a client, however many there are
\* and whatever they do (server.c:573).
THEOREM GoesDownIdle == Spec => []TerminatedMeansIdle
<1>1. CountInv => TerminatedMeansIdle
  BY DEF CountInv
<1>2. QED
  BY CountInit, CountNext, <1>1, PTL DEF Spec

-----------------------------------------------------------------------------
(***************************************************************************)
(* Type correctness, whatever the threads do.  The three counters are      *)
(* bounded by who can still change them: a session number is kept for      *)
(* everyone who is creating a session, and a connection that was never     *)
(* made is not counted.                                                    *)
(***************************************************************************)
\* No two connections share a descriptor.
SocketInv ==
  /\ DOMAIN pc = Threads
  /\ sockfd \in [Threads -> 0 .. Cardinality(Threads)]
  /\ \A t, u \in Threads : IsOpen(t) /\ IsOpen(u) /\ sockfd[t] = sockfd[u] => t = u

LEMMA FreeIs ==
  ASSUME SocketInv, NEW t \in Threads, ~IsOpen(t)
  PROVE  (CHOOSE n \in Free : \A k \in Free : n <= k) \in Free
<1> DEFINE Open == {u \in Threads : IsOpen(u)}
           Held == {sockfd[u] : u \in Open}
           N == Cardinality(Threads)
           f == [u \in Open |-> sockfd[u]]
<1>1. IsFiniteSet(Threads) /\ N \in Nat
  BY ServerAssumption, FS_CardinalityType
<1>2. IsFiniteSet(Open) /\ Cardinality(Open) \in Nat /\ Cardinality(Open) < N
  <2>1. Open \in SUBSET Threads /\ t \notin Open
    OBVIOUS
  <2>2. Open # Threads
    BY <2>1
  <2> HIDE DEF Open
  <2>3. IsFiniteSet(Open) /\ Cardinality(Open) <= N /\ (N = Cardinality(Open) => Threads = Open)
    BY <1>1, <2>1, FS_Subset
  <2>4. Cardinality(Open) \in Nat
    BY <2>3, FS_CardinalityType
  <2> QED
    BY <1>1, <2>2, <2>3, <2>4
<1>3. IsFiniteSet(Held) /\ Cardinality(Held) <= Cardinality(Open)
  <2>1. f \in Surjection(Open, Held)
    BY DEF Surjection
  <2> HIDE DEF f, Open, Held
  <2> QED
    BY <1>2, <2>1, FS_Surjection
<1>4. Cardinality(Held) \in Nat
  <2> HIDE DEF Held
  <2> QED
    BY <1>3, FS_CardinalityType
<1>5. Free # {}
  <2> SUFFICES ASSUME Free = {} PROVE FALSE
    OBVIOUS
  <2>1. Free = (1 .. N) \ Held
    BY DEF Free
  <2> HIDE DEF Held, Open
  <2>2. 1 .. N \in SUBSET Held
    BY <2>1
  <2>3. Cardinality(1 .. N) <= Cardinality(Held)
    BY <1>3, <2>2, FS_Subset
  <2>4. Cardinality(1 .. N) = N
    <3> HIDE DEF N
    <3>1. N \in Int /\ 1 \in Int
      BY <1>1
    <3>2. Cardinality(1 .. N) = IF 1 > N THEN 0 ELSE N - 1 + 1
      BY <3>1, FS_Interval
    <3> QED
      BY <1>1, <3>2
  <2> HIDE DEF N
  <2> QED
    BY <1>1, <1>2, <1>3, <1>4, <2>3, <2>4
<1>6. Free \in SUBSET Nat
  BY <1>1 DEF Free
<1>7. \E n \in Free : \A k \in Free : n <= k
  <2> HIDE DEF Free
  <2> QED
    BY <1>5, <1>6, LeastNatural
<1> QED
  BY <1>7

\* Nobody opens a socket but Accept.
Shuts(t) ==
  /\ sockfd' = sockfd /\ DOMAIN todo' = DOMAIN todo
  /\ pc' = pc \/ \E l : pc' = [pc EXCEPT ![t] = l] /\ (pc[t] \in Closed => l \in Closed)

LEMMA SocketShuts ==
  ASSUME SocketInv, NEW t \in Threads, Shuts(t)
  PROVE  SocketInv'
<1>1. DOMAIN pc' = Threads /\ \A u \in Threads : IsOpen(u)' => IsOpen(u)
  BY DEF SocketInv, Shuts, IsOpen
<1> QED
  BY <1>1 DEF SocketInv, Shuts

LEMMA SocketAccept ==
  ASSUME SocketInv, NEW t \in Threads, Accept(t)
  PROVE  SocketInv'
<1> DEFINE n == CHOOSE m \in Free : \A k \in Free : m <= k
<1>1. pc[t] = "none" /\ pc' = [pc EXCEPT ![t] = "connected"] /\ sockfd' = [sockfd EXCEPT ![t] = n]
  BY DEF Accept, Goto
<1>2. ~IsOpen(t)
  BY <1>1 DEF IsOpen, Closed
<1>3. n \in Free
  BY <1>2, FreeIs
<1> HIDE DEF n
<1>4. n \in 0 .. Cardinality(Threads) /\ \A u \in Threads : IsOpen(u) => sockfd[u] # n
  <2>1. Cardinality(Threads) \in Nat
    BY ServerAssumption, FS_CardinalityType
  <2> QED
    BY <1>3, <2>1 DEF Free
<1>5. /\ DOMAIN pc' = Threads
      /\ \A u \in Threads \ {t} : (IsOpen(u)' <=> IsOpen(u)) /\ sockfd'[u] = sockfd[u]
      /\ sockfd'[t] = n
  BY <1>1 DEF SocketInv, IsOpen
<1>6. sockfd' \in [Threads -> 0 .. Cardinality(Threads)]
  BY <1>1, <1>4 DEF SocketInv
<1> QED
  BY <1>4, <1>5, <1>6 DEF SocketInv

LEMMA RequestShuts ==
  ASSUME NEW t \in Threads, Request(t)
  PROVE  Shuts(t)
<1> USE DEF Shuts, Closed, Begin, Goto, shared, private
<1>1. CASE Login(t)
  BY <1>1 DEF Login
<1>2. CASE HangUp(t)
  BY <1>2 DEF HangUp
<1>3. CASE Reset(t)
  BY <1>3 DEF Reset
<1>4. CASE NewSession(t)
  BY <1>4 DEF NewSession
<1>5. CASE Exit(t)
  BY <1>5 DEF Exit
<1>6. ASSUME NEW id \in Ids, Join(t, id) PROVE Shuts(t)
  BY <1>6 DEF Join
<1>7. ASSUME NEW id \in Ids, Leave(t, id) PROVE Shuts(t)
  BY <1>7 DEF Leave
<1>8. ASSUME NEW id \in Ids, Message(t, id) PROVE Shuts(t)
  BY <1>8 DEF Message
<1>9. ASSUME NEW u \in Threads, Invite(t, u) PROVE Shuts(t)
  BY <1>9 DEF Invite
<1> HIDE DEF Shuts, Closed, Begin, Goto, shared, private
<1>10. QED
  BY <1>1, <1>2, <1>3, <1>4, <1>5, <1>6, <1>7, <1>8, <1>9 DEF Request

LEMMA ServeShuts ==
  ASSUME NEW t \in Threads, Serve(t)
  PROVE  Shuts(t) /\ pc[t] \notin Quiet
<1> USE DEF Shuts, Closed, Quiet, Step, Goto, Return, Abort, shared, private
<1>1. CASE LoginAdd(t)
  BY <1>1 DEF LoginAdd
<1>2. CASE LoginLink(t)
  BY <1>2 DEF LoginLink
<1>3. CASE Reject(t)
  BY <1>3 DEF Reject
<1>4. CASE JoinSession(t)
  BY <1>4 DEF JoinSession
<1>5. CASE JoinRecord(t)
  BY <1>5 DEF JoinRecord
<1>6. CASE LeaveSession(t)
  BY <1>6 DEF LeaveSession
<1>7. CASE LeaveRecord(t)
  BY <1>7 DEF LeaveRecord
<1>8. CASE LeaveUnlock(t)
  BY <1>8 DEF LeaveUnlock
<1>9. CASE NewPrivate(t)
  BY <1>9 DEF NewPrivate
<1>10. CASE NewJoin(t)
  BY <1>10 DEF NewJoin
<1>11. CASE NewRecord(t)
  BY <1>11 DEF NewRecord
<1>12. CASE NewAnswer(t)
  BY <1>12 DEF NewAnswer
<1>13. CASE NewCount(t)
  BY <1>13 DEF NewCount
<1>14. CASE SendNext(t)
  BY <1>14 DEF SendNext
<1>15. CASE LeaveNext(t)
  BY <1>15 DEF LeaveNext
<1>16. CASE Unlink(t)
  BY <1>16 DEF Unlink
<1>17. CASE Relink(t)
  BY <1>17 DEF Relink
<1>18. CASE Uncount(t)
  BY <1>18 DEF Uncount
<1> HIDE DEF Shuts, Closed, Quiet, Step, Goto, Return, Abort, shared, private
<1>19. QED
  BY <1>1, <1>2, <1>3, <1>4, <1>5, <1>6, <1>7, <1>8, <1>9, <1>10, <1>11,
     <1>12, <1>13, <1>14, <1>15, <1>16, <1>17, <1>18 DEF Serve

LEMMA SocketNext == SocketInv /\ [Next]_vars => SocketInv'
<1> SUFFICES ASSUME SocketInv, [Next]_vars PROVE SocketInv'
  OBVIOUS
<1>1. CASE UNCHANGED vars \/ AcceptTimeout
  <2>1. pc' = pc /\ sockfd' = sockfd
    BY <1>1 DEF vars, AcceptTimeout
  <2> QED
    BY <2>1 DEF SocketInv, IsOpen
<1>2. ASSUME NEW t \in Threads, Accept(t) \/ Request(t) \/ Serve(t) PROVE SocketInv'
  BY <1>2, SocketAccept, RequestShuts, ServeShuts, SocketShuts
<1> QED
  BY <1>1, <1>2 DEF Next

\* Where the request in progress has a session to be about.
Numbered == {"join", "joinRecord", "new6"}

\* The elements of sessionList.
Sessions == [id : Ids, usr : Seq(Threads)]

\* The parts of TypeOK that are not counters.
Listed ==
  /\ userLoggedin \in Seq(Nodes)
  /\ nodeSess \in [Threads -> Seq(Ids)]
  /\ head \in [Threads -> Nodes \cup {NoThread}]
  /\ sessionList \in Seq(Sessions)
  /\ sessJoined \in [Threads -> Seq(Ids)]
  /\ todo \in [Threads -> Seq(Threads)]

Labels == Quiet \cup {"loginAdd", "loginLink", "reject", "join", "joinRecord",
                      "leave", "leaveRecord", "leaveUnlock", "new2", "new3", "new4",
                      "new5", "new6", "send", "leaving", "relink", "uncount"}

Placed ==
  /\ status \in {"running", "terminated", "aborted", "exited", "undefined"}
  /\ pc \in [Threads -> Labels]
  /\ arg \in [Threads -> Ids \cup {0}]
  /\ \A t \in Threads : pc[t] \in Numbered => arg[t] \in Ids
  /\ mutex \in Threads \cup {NoThread}
  /\ known \in [Threads -> SUBSET Ids]

LEMMA RequestListed ==
  ASSUME Listed, sessionCnt \in Ids, NEW t \in Threads, Request(t)
  PROVE  Listed'
<1> USE DEF Listed
<1>1. CASE Login(t) \/ HangUp(t) \/ Reset(t)
  BY <1>1 DEF Login, HangUp, Reset, shared, private
<1>2. CASE Exit(t)
  BY <1>2 DEF Exit, shared, private
<1>3. CASE NewSession(t)
  <2> DEFINE s == [id |-> sessionCnt, usr |-> <<>>]
             r == <<s>> \o sessionList
  <2>1. s \in Sessions
    BY DEF Sessions
  <2> HIDE DEF s
  <2>2. r \in Seq(Sessions)
    BY <2>1, Prefixed
  <2>3. sessionList' = r
    BY <1>3 DEF NewSession, init_session, s
  <2> HIDE DEF r
  <2> QED
    BY <1>3, <2>2, <2>3 DEF NewSession, private
<1>4. ASSUME NEW id \in Ids, Join(t, id) \/ Leave(t, id) PROVE Listed'
  BY <1>4 DEF Join, Leave, shared
<1>5. ASSUME NEW id \in Ids, Message(t, id) PROVE Listed'
  <2> DEFINE p == Find(sessionList, id)
             users == sessionList[p].usr
  <2>1. p \in 1 .. Len(sessionList)
    BY <1>5, FindIs DEF Message
  <2> HIDE DEF p
  <2>2. sessionList[p] \in Sessions
    BY <2>1, ElementOfSeq
  <2>3. users \in Seq(Threads)
    BY <2>2 DEF Sessions
  <2>4. todo' = [todo EXCEPT ![t] = users]
    BY <1>5 DEF Message, p
  <2> HIDE DEF users
  <2> QED
    BY <1>5, <2>3, <2>4 DEF Message, shared
<1>6. ASSUME NEW u \in Threads, Invite(t, u) PROVE Listed'
  BY <1>6 DEF Invite, shared, private
<1> HIDE DEF Listed
<1> QED
  BY <1>1, <1>2, <1>3, <1>4, <1>5, <1>6 DEF Request

LEMMA FirstNodeIs ==
  ASSUME NEW list \in Seq(Nodes)
  PROVE  FirstNode(list) \in Nodes \cup {NoThread}
<1>1. list # <<>> => Head(list) \in Nodes
  BY HeadTailProperties
<1> QED
  BY <1>1 DEF FirstNode

LEMMA RecordTyped ==
  ASSUME nodeSess \in [Threads -> Seq(Ids)], NEW t \in Threads, NEW id \in Ids, Record(t, id)
  PROVE  nodeSess' \in [Threads -> Seq(Ids)]
<1>1. \A u \in Threads : <<id>> \o nodeSess[u] \in Seq(Ids)
  BY Prefixed
<1> QED
  BY <1>1 DEF Record

\* The lists that a session changes hands through stay lists of sessions.
LEMMA JoinSessionTyped ==
  ASSUME NEW list \in Seq(Sessions), NEW id, isValidSession(list, id), NEW t \in Threads
  PROVE  join_session(list, id, t) \in Seq(Sessions)
<1> DEFINE p == Find(list, id)
           usr == <<t>> \o list[p].usr
           s == [list[p] EXCEPT !.usr = usr]
           r == [list EXCEPT ![p] = s]
<1>1. p \in 1 .. Len(list)
  BY FindIs
<1>2. r = join_session(list, id, t)
  BY DEF join_session
<1> HIDE DEF p
<1>3. list[p] \in Sessions
  BY <1>1, ElementOfSeq
<1>4. list[p].usr \in Seq(Threads)
  BY <1>3 DEF Sessions
<1>5. usr \in Seq(Threads)
  BY <1>4, Prefixed
<1> HIDE DEF usr
<1>6. s \in Sessions
  BY <1>3, <1>5 DEF Sessions
<1> HIDE DEF s
<1> QED
  BY <1>1, <1>2, <1>6, ExceptSeq

LEMMA LeaveSessionTyped ==
  ASSUME NEW list \in Seq(Sessions), NEW id, isValidSession(list, id), NEW t \in Threads
  PROVE  leave_session(list, id, t) \in Seq(Sessions)
<1> DEFINE p == Find(list, id)
           rest == remove_user(list[p].usr, t)
           s == [list[p] EXCEPT !.usr = rest]
           r == [list EXCEPT ![p] = s]
<1>1. p \in 1 .. Len(list)
  BY FindIs
<1>2. leave_session(list, id, t) = IF rest = <<>> THEN RemoveAt(list, p) ELSE r
  BY DEF leave_session
<1> HIDE DEF p
<1>3. list[p] \in Sessions
  BY <1>1, ElementOfSeq
<1>4. list[p].usr \in Seq(Threads)
  BY <1>3 DEF Sessions
<1>5. rest \in Seq(Threads)
  BY <1>4, RemoveUserShrinks
<1> HIDE DEF rest
<1>6. s \in Sessions
  BY <1>3, <1>5 DEF Sessions
<1> HIDE DEF s
<1>7. r \in Seq(Sessions)
  BY <1>1, <1>6, ExceptSeq
<1> HIDE DEF r
<1>8. RemoveAt(list, p) \in Seq(Sessions)
  BY <1>1, RemoveAtIs
<1> QED
  BY <1>2, <1>7, <1>8

\* What is left of a list when one entry is struck off.
LEMMA RemoveFirstTyped ==
  ASSUME NEW S, NEW s \in Seq(S), NEW e
  PROVE  RemoveFirst(s, e) \in Seq(S)
<1> DEFINE I == {k \in 1 .. Len(s) : s[k] = e}
<1>1. CASE I = {}
  <2>1. ~\E k \in 1 .. Len(s) : s[k] = e
    BY <1>1
  <2> QED
    BY <2>1 DEF RemoveFirst
<1>2. CASE I # {}
  <2>1. RemoveFirst(s, e) = RemoveAt(s, Min(I))
    BY <1>2 DEF RemoveFirst, SelectInSeq
  <2>2. Min(I) \in I
    <3>1. I \in SUBSET Nat
      BY LenProperties
    <3> HIDE DEF I
    <3> QED
      BY <1>2, <3>1, MinIs
  <2>3. Min(I) \in 1 .. Len(s)
    BY <2>2
  <2> HIDE DEF I
  <2> QED
    BY <2>1, <2>3, RemoveAtIs
<1> QED
  BY <1>1, <1>2

\* The sessions behind the one asked for.
LEMMA BehindTyped ==
  ASSUME NEW t \in Threads, sessJoined[t] \in Seq(Ids), NEW i, i # 0,
         i = SelectInSeq(sessJoined[t], LAMBDA id : id = arg[t])
  PROVE  SubSeq(sessJoined[t], i + 1, Len(sessJoined[t])) \in Seq(Ids)
<1> DEFINE s == sessJoined[t]
           I == {k \in 1 .. Len(s) : s[k] = arg[t]}
<1>1. I # {} /\ I \in SUBSET Nat
  BY LenProperties DEF SelectInSeq
<1>2. i = Min(I)
  BY <1>1 DEF SelectInSeq
<1>3. Min(I) \in I
  <2> HIDE DEF I
  <2> QED
    BY <1>1, MinIs
<1>4. i + 1 \in 1 .. Len(s) + 1
  BY <1>2, <1>3, LenProperties
<1> QED
  BY <1>4, SubSeqIs

LEMMA NextOtherIs ==
  ASSUME NEW t, todo[t] \in Seq(Threads)
  PROVE  SubSeq(todo[t], NextOther(t) + 1, Len(todo[t])) \in Seq(Threads)
<1> DEFINE s == todo[t]
           I == {i \in 1 .. Len(s) : ~SameName(s[i], t)}
<1>1. Len(s) \in Nat /\ I \in SUBSET Nat
  BY LenProperties
<1>2. NextOther(t) \in 0 .. Len(s)
  <2>1. CASE I = {}
    BY <1>1, <2>1 DEF NextOther, SelectInSeq
  <2>2. CASE I # {}
    <3>1. NextOther(t) = Min(I)
      BY <2>2 DEF NextOther, SelectInSeq
    <3>2. Min(I) \in I
      <4> HIDE DEF I
      <4> QED
        BY <1>1, <2>2, MinIs
    <3> QED
      BY <1>1, <3>1, <3>2
  <2> QED
    BY <2>1, <2>2
<1> HIDE DEF s
<1>3. NextOther(t) + 1 \in 1 .. Len(s) + 1
  BY <1>1, <1>2
<1> QED
  BY <1>3, SubSeqIs DEF s

LEMMA ServeListed ==
  ASSUME Listed, DOMAIN pc = Threads, sessionCnt \in Ids,
         \A u \in Threads : pc[u] \in Numbered => arg[u] \in Ids,
         NEW t \in Threads, Serve(t)
  PROVE  Listed'
<1> USE DEF Listed
<1>1. CASE LoginAdd(t)
  BY <1>1, FirstNodeIs DEF LoginAdd
<1>2. CASE LoginLink(t)
  BY <1>2, RelinkedIs DEF LoginLink, Relinked, NodesSame
<1>3. CASE Reject(t) \/ Uncount(t) \/ NewAnswer(t)
  BY <1>3 DEF Reject, Uncount, NewAnswer, shared, private
<1>4. CASE JoinSession(t)
  BY <1>4, JoinSessionTyped DEF JoinSession, Abort, shared, private
<1>5. CASE JoinRecord(t)
  <2>1. arg[t] \in Ids /\ Record(t, arg[t]) /\ sessJoined' = [sessJoined EXCEPT ![t] = <<arg[t]>> \o @]
        /\ UNCHANGED <<userLoggedin, sessionList, head, todo>>
    BY <1>5 DEF JoinRecord, Step, Numbered
  <2>2. <<arg[t]>> \o sessJoined[t] \in Seq(Ids)
    BY <2>1, Prefixed
  <2> QED
    BY <2>1, <2>2, RecordTyped
<1>6. CASE LeaveSession(t)
  <2> DEFINE i == SelectInSeq(sessJoined[t], LAMBDA id : id = arg[t])
             left == SubSeq(sessJoined[t], i + 1, Len(sessJoined[t]))
  <2>1. \/ sessJoined' = [sessJoined EXCEPT ![t] = <<>>] /\ sessionList' = sessionList
        \/ /\ i # 0 /\ isValidSession(sessionList, arg[t])
           /\ sessJoined' = [sessJoined EXCEPT ![t] = left]
           /\ sessionList' = leave_session(sessionList, arg[t], t)
        \/ UNCHANGED <<sessJoined, sessionList>>
    BY <1>6 DEF LeaveSession, Abort, shared, private, inSession
  <2>2. UNCHANGED <<userLoggedin, nodeSess, head, todo>>
    BY <1>6 DEF LeaveSession, Abort, shared, private
  <2>3. ASSUME i # 0 PROVE left \in Seq(Ids)
    <3> HIDE DEF i
    <3>1. i = SelectInSeq(sessJoined[t], LAMBDA id : id = arg[t])
      BY DEF i
    <3>2. sessJoined[t] \in Seq(Ids)
      OBVIOUS
    <3> QED
      BY <2>3, <3>1, <3>2, BehindTyped
  <2> HIDE DEF i, left
  <2>4. sessionList' \in Seq(Sessions)
    BY <2>1, LeaveSessionTyped
  <2>5. sessJoined' \in [Threads -> Seq(Ids)]
    <3>1. <<>> \in Seq(Ids)
      OBVIOUS
    <3> QED
      BY <2>1, <2>3, <3>1
  <2> QED
    BY <2>2, <2>4, <2>5
<1>7. CASE LeaveRecord(t)
  <2>1. UNCHANGED <<userLoggedin, sessionList, sessJoined, head, todo>>
    BY <1>7 DEF LeaveRecord
  <2>2. nodeSess' = nodeSess \/ \E u : nodeSess' = [nodeSess EXCEPT ![u] = RemoveFirst(@, arg[t])]
    BY <1>7 DEF LeaveRecord
  <2>3. ASSUME NEW u \in Threads PROVE RemoveFirst(nodeSess[u], arg[t]) \in Seq(Ids)
    BY RemoveFirstTyped
  <2>4. ASSUME NEW u, nodeSess' = [nodeSess EXCEPT ![u] = RemoveFirst(@, arg[t])]
        PROVE  nodeSess' \in [Threads -> Seq(Ids)]
    <3>1. DOMAIN nodeSess' = Threads
      BY <2>4
    <3>2. ASSUME NEW v \in Threads PROVE nodeSess'[v] \in Seq(Ids)
      BY <2>3, <2>4
    <3>3. nodeSess' = [v \in Threads |-> nodeSess'[v]]
      BY <2>4
    <3> QED
      BY <3>2, <3>3
  <2> QED
    BY <2>1, <2>2, <2>4
<1>8. CASE LeaveUnlock(t) \/ NewCount(t)
  BY <1>8 DEF LeaveUnlock, NewCount
<1>9. CASE NewPrivate(t)
  <2>1. <<sessionCnt>> \o sessJoined[t] \in Seq(Ids)
    BY Prefixed
  <2> QED
    BY <1>9, <2>1 DEF NewPrivate, shared
<1>10. CASE NewJoin(t)
  BY <1>10, JoinSessionTyped DEF NewJoin, Abort, shared, private
<1>11. CASE NewRecord(t)
  BY <1>11, RecordTyped DEF NewRecord, private
<1>12. CASE SendNext(t)
  <2> DEFINE rest == SubSeq(todo[t], NextOther(t) + 1, Len(todo[t]))
  <2>1. /\ \/ todo' = todo
           \/ todo' = [todo EXCEPT ![t] = rest]
           \/ todo' = [todo EXCEPT ![t] = <<>>]
        /\ UNCHANGED <<userLoggedin, nodeSess, head, sessionList, sessJoined>>
    BY <1>12 DEF SendNext, shared
  <2>2. rest \in Seq(Threads) /\ <<>> \in Seq(Threads)
    BY NextOtherIs
  <2> HIDE DEF rest
  <2> QED
    BY <2>1, <2>2
<1>13. CASE LeaveNext(t)
  <2>1. sessJoined[t] # <<>> /\ sessJoined[t] \in Seq(Ids)
    BY <1>13 DEF LeaveNext
  <2>2. Tail(sessJoined[t]) \in Seq(Ids)
    BY <2>1, HeadTailProperties
  <2>3. /\ sessJoined' = sessJoined \/ sessJoined' = [sessJoined EXCEPT ![t] = Tail(@)]
        /\ \/ sessionList' = sessionList
           \/ \E id : /\ isValidSession(sessionList, id)
                      /\ sessionList' = leave_session(sessionList, id, t)
        /\ UNCHANGED <<userLoggedin, nodeSess, head, todo>>
    BY <1>13 DEF LeaveNext, Abort, shared, private, inSession
  <2>4. sessionList' \in Seq(Sessions)
    BY <2>3, LeaveSessionTyped
  <2> QED
    BY <2>2, <2>3, <2>4
<1>14. CASE Unlink(t)
  <2>1. remove_user(userLoggedin, t) \in Seq(Nodes)
    BY RemoveUserShrinks
  <2>2. FirstNode(remove_user(userLoggedin, t)) \in Nodes \cup {NoThread}
        /\ FirstNode(userLoggedin) \in Nodes \cup {NoThread}
    BY <2>1, FirstNodeIs
  <2>3. head' \in [Threads -> Nodes \cup {NoThread}]
    BY <1>14, <2>2 DEF Unlink, Unlinked
  <2> QED
    BY <1>14, <2>3, UnlinkedIs DEF Unlink, NodesSame
<1>15. CASE Relink(t)
  BY <1>15, RelinkedIs DEF Relink, Relinked, NodesSame
<1> HIDE DEF Listed
<1> QED
  BY <1>1, <1>2, <1>3, <1>4, <1>5, <1>6, <1>7, <1>8, <1>9, <1>10, <1>11,
     <1>12, <1>13, <1>14, <1>15 DEF Serve

LEMMA RequestPlaced ==
  ASSUME Placed, NEW t \in Threads, Accept(t) \/ Request(t)
  PROVE  Placed'
<1> USE DEF Placed, Labels, Quiet, Numbered, Begin, Goto
<1>1. CASE Accept(t)
  BY <1>1 DEF Accept, private
<1>2. CASE Login(t)
  BY <1>2 DEF Login, shared, private
<1>3. CASE HangUp(t)
  BY <1>3 DEF HangUp, shared, private
<1>4. CASE Reset(t)
  BY <1>4 DEF Reset, shared, private
<1>5. CASE NewSession(t)
  BY <1>5 DEF NewSession, private
<1>6. CASE Exit(t)
  BY <1>6 DEF Exit, shared, private
<1>7. ASSUME NEW id \in Ids, Join(t, id) PROVE Placed'
  BY <1>7 DEF Join, shared
<1>8. ASSUME NEW id \in Ids, Leave(t, id) PROVE Placed'
  BY <1>8 DEF Leave, shared
<1>9. ASSUME NEW id \in Ids, Message(t, id) PROVE Placed'
  BY <1>9 DEF Message, shared
<1>10. ASSUME NEW u \in Threads, Invite(t, u) PROVE Placed'
  BY <1>10 DEF Invite, shared, private
<1> HIDE DEF Placed, Labels, Quiet, Numbered, Begin, Goto
<1> QED
  BY <1>1, <1>2, <1>3, <1>4, <1>5, <1>6, <1>7, <1>8, <1>9, <1>10 DEF Request

LEMMA ServePlaced ==
  ASSUME Placed, sessionCnt \in Ids, NEW t \in Threads, Serve(t)
  PROVE  Placed'
<1> USE DEF Placed, Labels, Quiet, Numbered, Step, Goto, Return, Abort, shared, private
<1>1. CASE LoginAdd(t)
  BY <1>1 DEF LoginAdd
<1>2. CASE LoginLink(t)
  BY <1>2 DEF LoginLink, Relinked
<1>3. CASE Reject(t)
  BY <1>3 DEF Reject
<1>4. CASE JoinSession(t)
  BY <1>4 DEF JoinSession
<1>5. CASE JoinRecord(t)
  BY <1>5 DEF JoinRecord
<1>6. CASE LeaveSession(t)
  BY <1>6 DEF LeaveSession
<1>7. CASE LeaveRecord(t)
  BY <1>7 DEF LeaveRecord
<1>8. CASE LeaveUnlock(t)
  BY <1>8 DEF LeaveUnlock
<1>9. CASE NewPrivate(t)
  BY <1>9 DEF NewPrivate
<1>10. CASE NewJoin(t)
  BY <1>10 DEF NewJoin
<1>11. CASE NewRecord(t)
  BY <1>11 DEF NewRecord
<1>12. CASE NewAnswer(t)
  BY <1>12 DEF NewAnswer
<1>13. CASE NewCount(t)
  BY <1>13 DEF NewCount
<1>14. CASE SendNext(t)
  BY <1>14 DEF SendNext
<1>15. CASE LeaveNext(t)
  BY <1>15 DEF LeaveNext
<1>16. CASE Unlink(t)
  BY <1>16 DEF Unlink
<1>17. CASE Relink(t)
  BY <1>17 DEF Relink, Relinked
<1>18. CASE Uncount(t)
  BY <1>18 DEF Uncount
<1> HIDE DEF Placed, Labels, Quiet, Numbered, Step, Goto, Return, Abort, shared, private
<1> QED
  BY <1>1, <1>2, <1>3, <1>4, <1>5, <1>6, <1>7, <1>8, <1>9, <1>10, <1>11,
     <1>12, <1>13, <1>14, <1>15, <1>16, <1>17, <1>18 DEF Serve

\* The session numbers that are given out or spoken for.
NumberInv ==
  /\ DOMAIN pc = Threads
  /\ sessionCnt \in Nat \ {0}
  /\ sessionCnt + Cardinality(Creating) <= MaxCreated + 1

LEMMA CreatingIsFinite == IsFiniteSet(Creating) /\ Cardinality(Creating) \in Nat
<1>1. Creating \in SUBSET Threads
  BY DEF Creating
<1> QED
  BY <1>1, FS_Subset, FS_CardinalityType, ServerAssumption

LEMMA NumberIs == NumberInv => sessionCnt \in Ids
  BY CreatingIsFinite, ServerAssumption DEF NumberInv, Ids

\* A step that creates no session.
Uncreative == DOMAIN pc' = Threads /\ Creating' = Creating /\ sessionCnt' = sessionCnt

LEMMA UncreativeRequests ==
  ASSUME DOMAIN pc = Threads, NEW t \in Threads, Accept(t) \/ Request(t), ~NewSession(t)
  PROVE  Uncreative
<1> USE DEF Uncreative, Creating, Begin, Goto
<1>1. CASE Accept(t)
  BY <1>1 DEF Accept
<1>2. CASE Login(t)
  BY <1>2 DEF Login, shared
<1>3. CASE HangUp(t)
  BY <1>3 DEF HangUp, shared
<1>4. CASE Reset(t)
  BY <1>4 DEF Reset, shared
<1>5. CASE Exit(t)
  BY <1>5 DEF Exit, shared
<1>6. ASSUME NEW id \in Ids, Join(t, id) PROVE Uncreative
  BY <1>6 DEF Join, shared
<1>7. ASSUME NEW id \in Ids, Leave(t, id) PROVE Uncreative
  BY <1>7 DEF Leave, shared
<1>8. ASSUME NEW id \in Ids, Message(t, id) PROVE Uncreative
  BY <1>8 DEF Message, shared
<1>9. ASSUME NEW u \in Threads, Invite(t, u) PROVE Uncreative
  BY <1>9 DEF Invite, shared
<1> HIDE DEF Uncreative, Creating, Begin, Goto
<1> QED
  BY <1>1, <1>2, <1>3, <1>4, <1>5, <1>6, <1>7, <1>8, <1>9 DEF Request

LEMMA UncreativeServes ==
  ASSUME DOMAIN pc = Threads, NEW t \in Threads, Serve(t), ~NewCount(t)
  PROVE  Uncreative
<1> USE DEF Uncreative, Creating, Step, Goto, Return, Abort, shared, private
<1>1. CASE LoginAdd(t)
  BY <1>1 DEF LoginAdd
<1>2. CASE LoginLink(t)
  BY <1>2 DEF LoginLink
<1>3. CASE Reject(t)
  BY <1>3 DEF Reject
<1>4. CASE JoinSession(t)
  BY <1>4 DEF JoinSession
<1>5. CASE JoinRecord(t)
  BY <1>5 DEF JoinRecord
<1>6. CASE LeaveSession(t)
  BY <1>6 DEF LeaveSession
<1>7. CASE LeaveRecord(t)
  BY <1>7 DEF LeaveRecord
<1>8. CASE LeaveUnlock(t)
  BY <1>8 DEF LeaveUnlock
<1>9. CASE NewPrivate(t)
  BY <1>9 DEF NewPrivate
<1>10. CASE NewJoin(t)
  BY <1>10 DEF NewJoin
<1>11. CASE NewRecord(t)
  BY <1>11 DEF NewRecord
<1>12. CASE NewAnswer(t)
  BY <1>12 DEF NewAnswer
<1>13. CASE SendNext(t)
  BY <1>13 DEF SendNext
<1>14. CASE LeaveNext(t)
  BY <1>14 DEF LeaveNext
<1>15. CASE Unlink(t)
  BY <1>15 DEF Unlink
<1>16. CASE Relink(t)
  BY <1>16 DEF Relink
<1>17. CASE Uncount(t)
  BY <1>17 DEF Uncount
<1> HIDE DEF Uncreative, Creating, Step, Goto, Return, Abort, shared, private
<1> QED
  BY <1>1, <1>2, <1>3, <1>4, <1>5, <1>6, <1>7, <1>8, <1>9, <1>10, <1>11,
     <1>12, <1>13, <1>14, <1>15, <1>16, <1>17 DEF Serve

LEMMA NumberNext == NumberInv /\ [Next]_vars => NumberInv'
<1> SUFFICES ASSUME NumberInv, [Next]_vars PROVE NumberInv'
  OBVIOUS
<1>1. Uncreative => NumberInv'
  BY DEF Uncreative, NumberInv
<1>2. CASE UNCHANGED vars \/ AcceptTimeout
  <2>1. Uncreative
    BY <1>2 DEF vars, AcceptTimeout, shared, Uncreative, NumberInv, Creating
  <2> QED
    BY <1>1, <2>1
<1>3. ASSUME NEW t \in Threads, NewSession(t) PROVE NumberInv'
  <2>1. /\ DOMAIN pc' = Threads /\ t \notin Creating /\ Creating' = Creating \cup {t}
        /\ sessionCnt' = sessionCnt /\ sessionCnt + Cardinality(Creating) <= MaxCreated
    BY <1>3 DEF NewSession, Begin, Goto, Creating, NumberInv
  <2>2. Cardinality(Creating') = Cardinality(Creating) + 1
    BY <2>1, CreatingIsFinite, FS_AddElement
  <2> QED
    BY <2>1, <2>2, CreatingIsFinite, ServerAssumption DEF NumberInv
<1>4. ASSUME NEW t \in Threads, NewCount(t) PROVE NumberInv'
  <2>1. /\ DOMAIN pc' = Threads /\ t \in Creating /\ Creating' = Creating \ {t}
        /\ sessionCnt' = sessionCnt + 1
    BY <1>4 DEF NewCount, Step, Goto, Return, Creating, NumberInv
  <2>2. Cardinality(Creating') = Cardinality(Creating) - 1
    BY <2>1, CreatingIsFinite, FS_RemoveElement
  <2> QED
    BY <2>1, <2>2, CreatingIsFinite, ServerAssumption DEF NumberInv
<1>5. ASSUME NEW t \in Threads, Accept(t) \/ Request(t) \/ Serve(t), ~NewSession(t), ~NewCount(t)
      PROVE  NumberInv'
  <2>1. Uncreative
    BY <1>5, UncreativeRequests, UncreativeServes DEF NumberInv
  <2> QED
    BY <1>1, <2>1
<1> QED
  BY <1>2, <1>3, <1>4, <1>5 DEF Next

\* Nobody is counted whose connection has not been made.
Absent == {t \in Threads : pc[t] = "none"}

AbsentInv ==
  /\ CountInv
  /\ userConnectedCnt + Cardinality(Absent) <= Cardinality(Threads)

LEMMA AbsentIsFinite ==
  /\ IsFiniteSet(Absent) /\ Cardinality(Absent) \in Nat
  /\ Cardinality(Threads) \in Nat
<1>1. Absent \in SUBSET Threads
  BY DEF Absent
<1> QED
  BY <1>1, FS_Subset, FS_CardinalityType, ServerAssumption

LEMMA AbsentNext == AbsentInv /\ [Next]_vars => AbsentInv'
<1> SUFFICES ASSUME AbsentInv, [Next]_vars PROVE AbsentInv'
  OBVIOUS
<1>0. CountInv /\ CountInv' /\ DOMAIN pc = Threads
  BY CountNext DEF AbsentInv, CountInv
<1>1. ASSUME Absent' = Absent,
             userConnectedCnt' = userConnectedCnt \/ userConnectedCnt' = userConnectedCnt - 1
      PROVE  AbsentInv'
  BY <1>0, <1>1, AbsentIsFinite DEF AbsentInv, CountInv
<1>2. CASE UNCHANGED vars \/ AcceptTimeout
  BY <1>1, <1>2 DEF vars, AcceptTimeout, shared, Absent
<1>3. ASSUME NEW t \in Threads, Accept(t) PROVE AbsentInv'
  <2>1. /\ t \in Absent /\ Absent' = Absent \ {t} /\ userConnectedCnt' = userConnectedCnt + 1
    BY <1>0, <1>3 DEF Accept, Goto, Absent
  <2>2. Cardinality(Absent') = Cardinality(Absent) - 1
    BY <2>1, AbsentIsFinite, FS_RemoveElement
  <2> QED
    BY <1>0, <2>1, <2>2, AbsentIsFinite DEF AbsentInv, CountInv
<1>4. ASSUME NEW t \in Threads, Serving(t) PROVE AbsentInv'
  <2>1. Absent' = Absent /\ userConnectedCnt' = userConnectedCnt
    BY <1>0, <1>4 DEF Serving, Absent
  <2> QED
    BY <1>1, <2>1
<1>5. ASSUME NEW t \in Threads, Reject(t) \/ Uncount(t) PROVE AbsentInv'
  <2>1. CASE Reject(t)
    BY <1>0, <1>1, <2>1 DEF Reject, Step, Goto, Absent, shared
  <2>2. CASE Uncount(t)
    BY <1>0, <1>1, <2>2 DEF Uncount, Step, Goto, Absent
  <2> QED
    BY <1>5, <2>1, <2>2
<1>6. ASSUME NEW t \in Threads, Request(t) PROVE AbsentInv'
  BY <1>4, <1>6, RequestSteps DEF Request
<1>7. ASSUME NEW t \in Threads, Serve(t), ~Reject(t), ~Uncount(t) PROVE AbsentInv'
  BY <1>4, <1>7, ServeSteps, MutexSteps DEF Serve
<1> QED
  BY <1>2, <1>3, <1>5, <1>6, <1>7 DEF Next

TypeInv == Listed /\ Placed /\ SocketInv /\ NumberInv /\ AbsentInv

LEMMA TypeInit == Init => TypeInv
<1> SUFFICES ASSUME Init PROVE TypeInv
  OBVIOUS
<1>1. Listed
  <2>1. <<>> \in Seq(Nodes) /\ <<>> \in Seq(Ids) /\ <<>> \in Seq(Sessions) /\ <<>> \in Seq(Threads)
    OBVIOUS
  <2> QED
    BY <2>1 DEF Init, Listed
<1>2. Placed
  BY DEF Init, Placed, Labels, Quiet, Numbered
<1>3. SocketInv
  BY AbsentIsFinite DEF Init, SocketInv, IsOpen, Closed
<1>4. NumberInv
  <2>1. Creating = {}
    BY DEF Init, Creating
  <2>2. Cardinality(Creating) = 0
    BY <2>1, FS_EmptySet
  <2> QED
    BY <2>2, ServerAssumption DEF Init, NumberInv
<1>5. AbsentInv
  <2>1. Absent = Threads
    BY DEF Init, Absent
  <2>2. userConnectedCnt = 0
    BY DEF Init
  <2> QED
    BY <2>1, <2>2, AbsentIsFinite, CountInit DEF AbsentInv
<1> QED
  BY <1>1, <1>2, <1>3, <1>4, <1>5 DEF TypeInv

LEMMA TypeNext == TypeInv /\ [Next]_vars => TypeInv'
<1> SUFFICES ASSUME TypeInv, [Next]_vars PROVE TypeInv'
  OBVIOUS
<1>1. SocketInv' /\ NumberInv' /\ AbsentInv'
  BY SocketNext, NumberNext, AbsentNext DEF TypeInv
<1>2. sessionCnt \in Ids /\ DOMAIN pc = Threads
  BY NumberIs DEF TypeInv, NumberInv
<1>3. Listed' /\ Placed'
  <2>1. CASE UNCHANGED vars \/ AcceptTimeout
    BY <2>1 DEF vars, AcceptTimeout, shared, private, TypeInv, Listed, Placed
  <2>2. ASSUME NEW t \in Threads, Accept(t) \/ Request(t) PROVE Listed' /\ Placed'
    <3>1. Accept(t) => Listed'
      BY DEF Accept, private, TypeInv, Listed
    <3> QED
      BY <1>2, <2>2, <3>1, RequestListed, RequestPlaced DEF TypeInv
  <2>3. ASSUME NEW t \in Threads, Serve(t) PROVE Listed' /\ Placed'
    BY <1>2, <2>3, ServeListed, ServePlaced DEF TypeInv, Placed
  <2> QED
    BY <2>1, <2>2, <2>3 DEF Next
<1> QED
  BY <1>1, <1>3 DEF TypeInv

\* The server's variables keep their types, however the threads interleave:
\* no session number is given out beyond the bound, a connection that leaves is
\* counted off once (server.c:446), and there is a descriptor for each.
THEOREM Types == Spec => []TypeOK
<1>1. TypeInv => TypeOK
  <2> SUFFICES ASSUME TypeInv PROVE TypeOK
    OBVIOUS
  <2>1. userConnectedCnt \in 0 .. Cardinality(Threads)
    BY AbsentIsFinite DEF TypeInv, AbsentInv, CountInv
  <2>2. Sessions = [id : Ids, usr : Seq(Threads)]
    BY DEF Sessions
  <2>3. Nodes = Threads \cup {Freed} /\ Nodes \cup {NoThread} = Threads \cup {NoThread, Freed}
    BY DEF Nodes
  <2> QED
    BY <2>1, <2>2, <2>3, NumberIs DEF TypeInv, TypeOK, Listed, Placed, Labels, SocketInv
<1> QED
  BY <1>1, TypeInit, TypeNext, PTL DEF Spec

-----------------------------------------------------------------------------
(***************************************************************************)
(* The first version.  Its steps, sorted by kind.                          *)
(***************************************************************************)
LEMMA Lab1Steps ==
  ASSUME Lab1Next
  PROVE  \/ AcceptTimeout
         \/ \E t \in Threads :
              \/ Accept(t) \/ Reject(t) \/ Uncount(t)
              \/ LoginAdd(t) \/ LoginLink(t)
              \/ Serving(t) /\ Outside(t)
<1> DEFINE Sorted(t) == \/ Accept(t) \/ Reject(t) \/ Uncount(t)
                        \/ LoginAdd(t) \/ LoginLink(t)
                        \/ Serving(t) /\ Outside(t)
<1>1. ASSUME NEW t \in Threads, LoginBranch(t) PROVE Sorted(t)
  BY <1>1, RequestSteps DEF LoginBranch
<1>2. ASSUME NEW t \in Threads, JoinBranch(t) PROVE Sorted(t)
  BY <1>2, RequestSteps, ServeSteps DEF JoinBranch
<1>3. ASSUME NEW t \in Threads, LeaveBranch(t) PROVE Sorted(t)
  BY <1>3, RequestSteps, ServeSteps DEF LeaveBranch
<1>4. ASSUME NEW t \in Threads, NewBranch(t) PROVE Sorted(t)
  BY <1>4, RequestSteps, ServeSteps DEF NewBranch
<1>5. ASSUME NEW t \in Threads, MessageBranch(t) PROVE Sorted(t)
  BY <1>5, RequestSteps, ServeSteps DEF MessageBranch
<1>6. ASSUME NEW t \in Threads, ExitBranch(t) PROVE Sorted(t)
  BY <1>6, RequestSteps, ServeSteps DEF ExitBranch
<1> HIDE DEF Sorted
<1>7. AcceptTimeout \/ \E t \in Threads : Accept(t) \/ Sorted(t)
  BY <1>1, <1>2, <1>3, <1>4, <1>5, <1>6 DEF Lab1Next
<1>8. QED
  BY <1>7 DEF Sorted

\* Nor does the first version go down under a client (LAB1/server.c:535).
THEOREM Lab1GoesDownIdle == Lab1Spec => []TerminatedMeansIdle
<1>1. CountInv /\ [Lab1Next]_vars => CountInv'
  <2> SUFFICES ASSUME CountInv, [Lab1Next]_vars PROVE CountInv'
    OBVIOUS
  <2>1. CASE UNCHANGED vars
    BY <2>1, CountStutter
  <2>2. CASE AcceptTimeout
    BY <2>2, CountTimeout
  <2>3. ASSUME NEW t \in Threads,
               \/ Accept(t) \/ Reject(t) \/ Uncount(t)
               \/ LoginAdd(t) \/ LoginLink(t) \/ Serving(t)
        PROVE  CountInv'
    BY <2>3, CountAccept, CountEnd, CountServing, MutexSteps
  <2>4. QED
    BY <2>1, <2>2, <2>3, Lab1Steps
<1>2. CountInv => TerminatedMeansIdle
  BY DEF CountInv
<1>3. QED
  BY CountInit, <1>1, <1>2, PTL DEF Lab1Spec

(***************************************************************************)
(* Logins of the first version lose nobody.  Who is about to write the     *)
(* head of userLoggedin holds the mutex, since nobody unlocks for another, *)
(* and as long as nobody has begun to take a node off the list, what it    *)
(* has read is still the head.                                             *)
(***************************************************************************)
Before == {"none", "connected", "loginAdd", "loginLink", "reject"}
After == {"relink", "uncount", "done"}

NobodyLeft == \A t \in Threads : pc[t] \notin After

LoginInv ==
  /\ DOMAIN pc = Threads /\ DOMAIN head = Threads
  /\ \A t \in Threads : pc[t] = "loginLink" => mutex = t
  /\ NobodyLeft =>
       /\ userLoggedin \in Seq(Threads)
       /\ \A t \in Threads : Online(t) => Contains(userLoggedin, t)
       /\ \A t \in Threads : pc[t] = "loginLink" => head[t] = FirstNode(userLoggedin)

\* A step that begins or goes on with a departure, or leaves the list and what
\* was read of it alone and brings nobody online.
Minding(t) ==
  /\ mutex' = mutex /\ DOMAIN head' = DOMAIN head
  /\ \/ \E l \in After : pc' = [pc EXCEPT ![t] = l]
     \/ /\ userLoggedin' = userLoggedin /\ head' = head
        /\ \/ pc' = pc
           \/ /\ pc[t] \notin After
              /\ \E l : /\ pc' = [pc EXCEPT ![t] = l]
                        /\ l # "loginLink"
                        /\ Online(t) \/ l \in Before

LEMMA LoginMinds ==
  ASSUME NEW t \in Threads, Accept(t) \/ HangUp(t) \/ Reset(t) \/ Login(t) \/ Reject(t)
  PROVE  Minding(t)
<1> USE DEF Minding, Before, After, Begin, Step, Goto, shared, private
<1>1. CASE Accept(t)
  BY <1>1 DEF Accept
<1>2. CASE HangUp(t)
  BY <1>2 DEF HangUp
<1>3. CASE Reset(t)
  BY <1>3 DEF Reset
<1>4. CASE Login(t)
  BY <1>4 DEF Login
<1>5. CASE Reject(t)
  BY <1>5 DEF Reject
<1> QED
  BY <1>1, <1>2, <1>3, <1>4, <1>5

LEMMA JoinMinds ==
  ASSUME NEW t \in Threads, JoinBranch(t)
  PROVE  Minding(t)
<1> USE DEF Minding, After, Online, Begin, Step, Goto, Return, Abort, shared, private
<1>1. ASSUME NEW id \in Ids, Join(t, id) PROVE Minding(t)
  BY <1>1 DEF Join
<1>2. CASE JoinSession(t)
  BY <1>2 DEF JoinSession
<1>3. CASE JoinRecord(t)
  BY <1>3 DEF JoinRecord
<1> QED
  BY <1>1, <1>2, <1>3 DEF JoinBranch

LEMMA LeaveMinds ==
  ASSUME NEW t \in Threads, LeaveBranch(t)
  PROVE  Minding(t)
<1> USE DEF Minding, After, Online, Begin, Step, Goto, Return, shared, private
<1>1. CASE LeaveAll(t)
  BY <1>1 DEF LeaveAll
<1>2. CASE LeaveAllSession(t)
  BY <1>2 DEF LeaveAllSession
<1>3. CASE LeaveAllRecord(t)
  BY <1>3 DEF LeaveAllRecord
<1> QED
  BY <1>1, <1>2, <1>3 DEF LeaveBranch

LEMMA NewMinds ==
  ASSUME NEW t \in Threads, NewBranch(t)
  PROVE  Minding(t)
<1> USE DEF Minding, After, Online, Begin, Step, Goto, Return, Abort, shared, private
<1>1. CASE NewSession(t)
  BY <1>1 DEF NewSession
<1>2. CASE NewPrivate(t)
  BY <1>2 DEF NewPrivate
<1>3. CASE NewJoin(t)
  BY <1>3 DEF NewJoin
<1>4. CASE NewRecord(t)
  BY <1>4 DEF NewRecord
<1>5. CASE NewAnswer(t)
  BY <1>5 DEF NewAnswer
<1>6. CASE NewCount(t)
  BY <1>6 DEF NewCount
<1> QED
  BY <1>1, <1>2, <1>3, <1>4, <1>5, <1>6 DEF NewBranch

LEMMA MessageMinds ==
  ASSUME NEW t \in Threads, MessageBranch(t)
  PROVE  Minding(t)
<1> USE DEF Minding, After, Online, Begin, Step, Goto, Return, Visit, shared, private
<1>1. CASE MessageAll(t)
  BY <1>1 DEF MessageAll
<1>2. CASE SendNextOfAll(t)
  BY <1>2 DEF SendNextOfAll
<1> QED
  BY <1>1, <1>2 DEF MessageBranch

LEMMA ExitMinds ==
  ASSUME LoginInv, NEW t \in Threads, ExitBranch(t)
  PROVE  Minding(t)
<1> USE DEF Minding, After, Online, Begin, Step, Goto, Abort, shared, private
<1>1. CASE Exit(t)
  BY <1>1 DEF Exit
<1>2. CASE LeaveNext(t)
  BY <1>2 DEF LeaveNext
<1>3. CASE Unlink(t)
  BY <1>3 DEF Unlink, Unlinked
<1>4. CASE Relink(t)
  BY <1>4 DEF Relink, Relinked
<1>5. CASE Uncount(t)
  BY <1>5 DEF Uncount
<1> QED
  BY <1>1, <1>2, <1>3, <1>4, <1>5 DEF ExitBranch

LEMMA MindingKeeps ==
  ASSUME LoginInv, NEW t \in Threads, Minding(t)
  PROVE  LoginInv'
<1>1. DOMAIN pc' = Threads /\ DOMAIN head' = Threads
  BY DEF LoginInv, Minding
<1>2. \A u \in Threads : pc'[u] = "loginLink" => pc[u] = "loginLink"
  BY DEF LoginInv, Minding, After
<1>3. \A u \in Threads : pc'[u] = "loginLink" => mutex' = u
  BY <1>2 DEF LoginInv, Minding
<1>4. CASE \E l \in After : pc' = [pc EXCEPT ![t] = l]
  <2>1. ~NobodyLeft'
    BY <1>4 DEF LoginInv, NobodyLeft
  <2> QED
    BY <1>1, <1>3, <2>1 DEF LoginInv
<1>5. CASE ~\E l \in After : pc' = [pc EXCEPT ![t] = l]
  <2>1. /\ userLoggedin' = userLoggedin /\ head' = head
        /\ \A u \in Threads : pc[u] \in After => pc'[u] = pc[u]
        /\ \A u \in Threads : Online(u)' => Online(u)
    BY <1>5 DEF LoginInv, Minding, Online, Before
  <2>2. NobodyLeft' => NobodyLeft
    BY <2>1 DEF NobodyLeft
  <2> QED
    BY <1>1, <1>2, <1>3, <2>1, <2>2 DEF LoginInv
<1> QED
  BY <1>4, <1>5

\* A login enters when nobody is inside, and reads the head.
LEMMA EnterKeeps ==
  ASSUME LoginInv, NEW t \in Threads, LoginAdd(t)
  PROVE  LoginInv'
<1>1. /\ pc[t] = "loginAdd" /\ pc' = [pc EXCEPT ![t] = "loginLink"] /\ mutex' = t
      /\ head' = [head EXCEPT ![t] = FirstNode(userLoggedin)] /\ userLoggedin' = userLoggedin
      /\ mutex = NoThread
  BY DEF LoginAdd, Step, Goto
<1>2. \A u \in Threads : pc[u] # "loginLink"
  BY <1>1, ServerAssumption DEF LoginInv
<1>3. /\ DOMAIN pc' = Threads /\ DOMAIN head' = Threads
      /\ \A u \in Threads : pc'[u] = "loginLink" => u = t
  BY <1>1, <1>2 DEF LoginInv
<1>4. NobodyLeft' => NobodyLeft
  BY <1>1 DEF LoginInv, NobodyLeft, After
<1>5. CASE NobodyLeft'
  <2>1. \A u \in Threads : Online(u)' => Online(u) \/ u = t
    BY <1>1 DEF LoginInv, Online
  <2>2. ~Online(t)'
    BY <1>1 DEF LoginInv, Online
  <2> QED
    BY <1>1, <1>3, <1>4, <1>5, <2>1, <2>2 DEF LoginInv, FirstNode
<1> QED
  BY <1>1, <1>3, <1>5 DEF LoginInv

\* The new node goes before the head, and nobody is lost.
LEMMA LinkKeeps ==
  ASSUME LoginInv, NEW t \in Threads, LoginLink(t)
  PROVE  LoginInv'
<1>1. /\ pc[t] = "loginLink" /\ pc' = [pc EXCEPT ![t] = "recv"]
      /\ Relinked(t, <<t>>)
  BY DEF LoginLink, Step, Goto
<1>2. \A u \in Threads \ {t} : pc[u] # "loginLink"
  BY <1>1 DEF LoginInv
<1>3. /\ DOMAIN pc' = Threads /\ DOMAIN head' = Threads
      /\ \A u \in Threads : pc'[u] # "loginLink"
  BY <1>1, <1>2 DEF LoginInv, Relinked
<1>4. NobodyLeft' => NobodyLeft
  BY <1>1 DEF LoginInv, NobodyLeft, After
<1>5. CASE NobodyLeft'
  <2>1. userLoggedin \in Seq(Threads) /\ head[t] = FirstNode(userLoggedin)
    BY <1>1, <1>4, <1>5 DEF LoginInv
  <2>2. userLoggedin' = <<t>> \o userLoggedin
    BY <1>1, <2>1, RelinkedToHead
  <2> DEFINE r == <<t>> \o userLoggedin
  <2>3. r \in Seq(Threads) /\ Range(r) = {t} \cup Range(userLoggedin)
    BY <2>1, Prefixed
  <2> HIDE DEF r
  <2>4. \A u \in Threads : Contains(r, u) <=> u = t \/ Contains(userLoggedin, u)
    BY <2>1, <2>3, ContainsIsRange
  <2>5. \A u \in Threads : Online(u)' => Online(u) \/ u = t
    BY <1>1 DEF LoginInv, Online
  <2>6. userLoggedin' = r
    BY <2>2 DEF r
  <2>7. \A u \in Threads : Online(u)' => Contains(userLoggedin', u)
    BY <1>4, <1>5, <2>4, <2>5, <2>6 DEF LoginInv
  <2> QED
    BY <1>3, <2>3, <2>6, <2>7 DEF LoginInv, Contains
<1> QED
  BY <1>3, <1>5 DEF LoginInv

\* However many log in at once, no node is lost while nobody departs
\* (LAB1/server.c:119-121), for any number of threads.
THEOREM LoginsKeepNodes == Lab1Spec => []LoginsLoseNobody
<1>1. Init => LoginInv
  <2> SUFFICES ASSUME Init PROVE LoginInv
    OBVIOUS
  <2>1. /\ pc = [t \in Threads |-> "none"] /\ DOMAIN head = Threads /\ userLoggedin = <<>>
    BY DEF Init
  <2>2. <<>> \in Seq(Threads)
    OBVIOUS
  <2> QED
    BY <2>1, <2>2 DEF LoginInv, Online
<1>2. LoginInv /\ [Lab1Next]_vars => LoginInv'
  <2> SUFFICES ASSUME LoginInv, [Lab1Next]_vars PROVE LoginInv'
    OBVIOUS
  <2>1. CASE UNCHANGED vars \/ AcceptTimeout
    <3>1. UNCHANGED <<pc, head, mutex, userLoggedin>>
      BY <2>1 DEF vars, AcceptTimeout, shared, private
    <3> QED
      BY <3>1 DEF LoginInv, NobodyLeft, Online, Contains, FirstNode
  <2>2. ASSUME NEW t \in Threads,
               \/ Accept(t) \/ LoginBranch(t) \/ JoinBranch(t) \/ LeaveBranch(t)
               \/ NewBranch(t) \/ MessageBranch(t) \/ ExitBranch(t)
        PROVE  LoginInv'
    <3>1. Minding(t) \/ LoginAdd(t) \/ LoginLink(t)
      BY <2>2, LoginMinds, JoinMinds, LeaveMinds, NewMinds, MessageMinds, ExitMinds DEF LoginBranch
    <3> QED
      BY <3>1, MindingKeeps, EnterKeeps, LinkKeeps
  <2> QED
    BY <2>1, <2>2 DEF Lab1Next
<1>3. LoginInv => LoginsLoseNobody
  BY DEF LoginInv, NobodyLeft, After, LoginsLoseNobody
<1> QED
  BY <1>1, <1>2, <1>3, PTL DEF Lab1Spec
=============================================================================
