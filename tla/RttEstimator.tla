---------------------------- MODULE RttEstimator ----------------------------
(***************************************************************************)
(* The retransmission timer of FileTransferLab/LAB4/deliver.c: after every *)
(* wait for an ACK, answered or not, send_file() takes a sample, updates   *)
(* estimatedRTT and devRTT, and passes 20*estimatedRTT + 4*devRTT to       *)
(* setsockopt(SO_RCVTIMEO).  All are integers (clock_t), so the products   *)
(* by 0.875 and 0.75 are truncated on assignment; a sample is a difference *)
(* of clock(), the CPU time of the process, which a blocked recvfrom()     *)
(* does not consume.                                                       *)
(***************************************************************************)
EXTENDS Integers

CONSTANTS
  Samples,    (* the values end - start can have                           *)
  InitRTTs,   (* the values of initRTT, measured on the handshake          *)
  MaxUsec     (* tv_usec from which setsockopt() fails: 1000000            *)

ASSUME RttAssumption ==
  /\ Samples \subseteq Nat
  /\ InitRTTs \subseteq Nat
  /\ MaxUsec \in Nat \ {0}

VARIABLES
  estimatedRTT,
  devRTT,
  rcvtimeo      (* the SO_RCVTIMEO in force, in microseconds               *)

vars == <<estimatedRTT, devRTT, rcvtimeo>>

AbsDiff(a, b) == IF a > b THEN a - b ELSE b - a

\* Mutants: the sample weighs a quarter; the old estimate weighs three quarters.
NewEstimateHeavySample(s) == (7 * estimatedRTT) \div 8 + s \div 4
NewEstimateLightPast(s) == (3 * estimatedRTT) \div 4 + s \div 8

\* estimatedRTT = 0.875 * ((double) estimatedRTT) + (sampleRTT >> 3)
NewEstimate(s) == (7 * estimatedRTT) \div 8 + s \div 8

\* devRTT = 0.75 * ((double) devRTT) + (dev >> 2), with the new estimate
NewDeviation(s) == (3 * devRTT) \div 4 + AbsDiff(NewEstimate(s), s) \div 4

Init ==
  \E rtt \in InitRTTs :
    /\ estimatedRTT = 2 * rtt
    /\ devRTT = rtt
    /\ rcvtimeo = MaxUsec - 1

\* Mutant: a timeout of a second and more keeps its microseconds only.
UpdateWithoutSeconds(s) ==
  LET usec == 20 * NewEstimate(s) + 4 * NewDeviation(s) IN
    /\ estimatedRTT' = NewEstimate(s)
    /\ devRTT' = NewDeviation(s)
    /\ rcvtimeo' = usec % MaxUsec

\* setsockopt() rejects tv_usec outside 0 .. 999999 and leaves the option as
\* it was; the code only prints then.
Update(s) ==
  LET usec == 20 * NewEstimate(s) + 4 * NewDeviation(s) IN
    /\ estimatedRTT' = NewEstimate(s)
    /\ devRTT' = NewDeviation(s)
    /\ rcvtimeo' = IF usec < MaxUsec THEN usec ELSE rcvtimeo

Next == \E s \in Samples : Update(s)

Spec == Init /\ [][Next]_vars

-----------------------------------------------------------------------------
(***************************************************************************)
(* Properties.                                                             *)
(***************************************************************************)

\* Types: nothing goes negative through the truncations, and the option in
\* force is one that setsockopt() accepts.
TypeOK ==
  /\ estimatedRTT \in Nat
  /\ devRTT \in Nat
  /\ rcvtimeo \in 0 .. MaxUsec - 1

\* A zero SO_RCVTIMEO means "wait forever": the client would never resend.
\* Truncation drives the estimate to zero when samples are below 8.
TimeoutPositive == rcvtimeo > 0

\* b is at least every sample and twice every initial measurement.
UpperBound(b) ==
  /\ \A s \in Samples : s <= b
  /\ \A r \in InitRTTs : 2 * r <= b

\* The estimator does not overshoot: neither average passes the largest
\* value it was fed, so the timeout stays within 24 times that value (or is
\* still the one set before the first sample).
NoOvershoot ==
  \A b \in Samples \cup {2 * r : r \in InitRTTs} :
    UpperBound(b) =>
      /\ estimatedRTT <= b
      /\ devRTT <= b
      /\ rcvtimeo = MaxUsec - 1 \/ rcvtimeo <= 24 * b

\* Every sample is at least 8k, and so is twice every initial measurement.
LowerBound(k) ==
  /\ \A s \in Samples : 8 * k <= s
  /\ \A r \in InitRTTs : 8 * k <= 2 * r

\* The estimator does not collapse: although every update rounds down twice,
\* it never falls below the multiple of 8 its inputs stay above, and the
\* timeout stays above 20 times that.
NoCollapse ==
  \A k \in {s \div 8 : s \in Samples} :
    LowerBound(k) /\ 160 * k < MaxUsec => estimatedRTT >= 8 * k /\ rcvtimeo >= 160 * k
=============================================================================
