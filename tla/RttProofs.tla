------------------------------ MODULE RttProofs -----------------------------
(***************************************************************************)
(* Proofs about RttEstimator, for every set of samples.                    *)
(***************************************************************************)
EXTENDS RttEstimator, TLAPS

\* What a sample makes of the two averages stays a natural number.
LEMMA AveragesAreNatural ==
  ASSUME NEW s \in Nat, estimatedRTT \in Nat, devRTT \in Nat
  PROVE  NewEstimate(s) \in Nat /\ NewDeviation(s) \in Nat
<1>1. NewEstimate(s) \in Nat
  BY DEF NewEstimate
<1>2. AbsDiff(NewEstimate(s), s) \in Nat
  BY <1>1 DEF AbsDiff
<1>3. QED
  BY <1>1, <1>2 DEF NewDeviation

\* The averages never go negative, and the timeout in force is always one
\* that setsockopt() accepted.
THEOREM RttTypes == Spec => []TypeOK
<1> USE RttAssumption
<1>1. Init => TypeOK
  BY DEF Init, TypeOK
<1>2. TypeOK /\ [Next]_vars => TypeOK'
  <2> SUFFICES ASSUME TypeOK, [Next]_vars PROVE TypeOK'
    OBVIOUS
  <2>1. ASSUME NEW s \in Samples, Update(s) PROVE TypeOK'
    <3>1. NewEstimate(s) \in Nat /\ NewDeviation(s) \in Nat
      BY AveragesAreNatural DEF TypeOK
    <3>2. QED
      BY <2>1, <3>1 DEF Update, TypeOK
  <2>2. QED
    BY <2>1 DEF Next, vars, TypeOK
<1>3. QED
  BY <1>1, <1>2, PTL DEF Spec

\* A weighted average of values up to b is at most b, also when truncated.
LEMMA AveragesBelow ==
  ASSUME NEW b \in Nat, NEW s \in Nat, s <= b,
         estimatedRTT \in Nat, devRTT \in Nat, estimatedRTT <= b, devRTT <= b
  PROVE  NewEstimate(s) <= b /\ NewDeviation(s) <= b
<1>1. NewEstimate(s) <= b
  BY DEF NewEstimate
<1>2. AbsDiff(NewEstimate(s), s) \in Nat /\ AbsDiff(NewEstimate(s), s) <= b
  BY <1>1, AveragesAreNatural DEF AbsDiff
<1>3. QED
  BY <1>1, <1>2 DEF NewDeviation

\* Neither average exceeds the largest value it was fed, so the timeout is
\* bounded by 24 times that value.
THEOREM RttBounded == Spec => []NoOvershoot
<1> USE RttAssumption
<1>1. Init => NoOvershoot
  BY DEF Init, NoOvershoot, UpperBound
<1>2. TypeOK /\ NoOvershoot /\ [Next]_vars => NoOvershoot'
  <2> SUFFICES ASSUME TypeOK, NoOvershoot, [Next]_vars PROVE NoOvershoot'
    OBVIOUS
  <2>1. ASSUME NEW s \in Samples, Update(s) PROVE NoOvershoot'
    <3> SUFFICES ASSUME NEW b \in Samples \cup {2 * r : r \in InitRTTs},
                        UpperBound(b)
                 PROVE  /\ estimatedRTT' <= b
                        /\ devRTT' <= b
                        /\ rcvtimeo' = MaxUsec - 1 \/ rcvtimeo' <= 24 * b
      BY DEF NoOvershoot, UpperBound
    <3>1. b \in Nat /\ s <= b
      BY DEF UpperBound
    <3>2. NewEstimate(s) <= b /\ NewDeviation(s) <= b
      BY <3>1, AveragesBelow DEF NoOvershoot, TypeOK
    <3>3. NewEstimate(s) \in Nat /\ NewDeviation(s) \in Nat
      BY AveragesAreNatural DEF TypeOK
    <3>4. rcvtimeo = MaxUsec - 1 \/ rcvtimeo <= 24 * b
      BY DEF NoOvershoot
    <3>5. QED
      BY <2>1, <3>1, <3>2, <3>3, <3>4 DEF Update
  <2>2. CASE UNCHANGED vars
    BY <2>2 DEF vars, NoOvershoot, UpperBound
  <2>3. QED
    BY <2>1, <2>2 DEF Next
<1>3. QED
  BY <1>1, <1>2, RttTypes, PTL DEF Spec

\* The estimate never falls below the multiple of 8 its inputs stay above,
\* although each update rounds down twice, and so the timeout does not either.
THEOREM RttDoesNotCollapse == Spec => []NoCollapse
<1> USE RttAssumption
<1>1. Init => NoCollapse
  <2> SUFFICES ASSUME Init, NEW k \in {s \div 8 : s \in Samples},
                      LowerBound(k), 160 * k < MaxUsec
               PROVE  estimatedRTT >= 8 * k /\ rcvtimeo >= 160 * k
    BY DEF NoCollapse
  <2>1. PICK s \in Samples : k = s \div 8
    OBVIOUS
  <2>2. QED
    BY <2>1 DEF Init, LowerBound
<1>2. TypeOK /\ NoCollapse /\ [Next]_vars => NoCollapse'
  <2> SUFFICES ASSUME TypeOK, NoCollapse, [Next]_vars PROVE NoCollapse'
    OBVIOUS
  <2>1. ASSUME NEW s \in Samples, Update(s) PROVE NoCollapse'
    <3> SUFFICES ASSUME NEW k \in {x \div 8 : x \in Samples},
                        LowerBound(k), 160 * k < MaxUsec
                 PROVE  estimatedRTT' >= 8 * k /\ rcvtimeo' >= 160 * k
      BY DEF NoCollapse, LowerBound
    <3>1. k \in Nat /\ 8 * k <= s
      BY DEF LowerBound
    <3>2. estimatedRTT >= 8 * k /\ rcvtimeo >= 160 * k
      BY DEF NoCollapse
    <3>3. NewEstimate(s) >= 8 * k
      BY <3>1, <3>2 DEF NewEstimate, TypeOK
    <3>4. NewEstimate(s) \in Nat /\ NewDeviation(s) \in Nat
      BY AveragesAreNatural DEF TypeOK
    <3>5. QED
      BY <2>1, <3>1, <3>2, <3>3, <3>4 DEF Update
  <2>2. CASE UNCHANGED vars
    BY <2>2 DEF vars, NoCollapse, LowerBound
  <2>3. QED
    BY <2>1, <2>2 DEF Next
<1>3. QED
  BY <1>1, <1>2, RttTypes, PTL DEF Spec

\* With samples of at least 8 clock ticks and a first measurement of at least
\* 4, the timer is never zero: the client never waits forever.
THEOREM TimerStaysArmed ==
  ASSUME \A s \in Samples : s >= 8,
         \A r \in InitRTTs : r >= 4,
         MaxUsec > 160
  PROVE  Spec => []TimeoutPositive
<1> USE RttAssumption
<1> DEFINE Armed == TypeOK /\ estimatedRTT >= 8 /\ rcvtimeo >= 160
<1>1. Init => Armed
  BY DEF Init, TypeOK
<1>2. Armed /\ [Next]_vars => Armed'
  <2> SUFFICES ASSUME Armed, [Next]_vars PROVE Armed'
    OBVIOUS
  <2>1. ASSUME NEW s \in Samples, Update(s) PROVE Armed'
    <3>1. NewEstimate(s) \in Nat /\ NewDeviation(s) \in Nat
      BY AveragesAreNatural DEF TypeOK
    <3>2. NewEstimate(s) >= 8
      BY DEF NewEstimate, TypeOK
    <3>3. QED
      BY <2>1, <3>1, <3>2 DEF Update, TypeOK
  <2>2. QED
    BY <2>1 DEF Next, vars, TypeOK
<1>3. Armed => TimeoutPositive
  BY DEF TimeoutPositive, TypeOK
<1>4. QED
  BY <1>1, <1>2, <1>3, PTL DEF Spec
=============================================================================
