------------------------- MODULE TokenBucketProofs -------------------------
(***************************************************************************)
(* Theorems about TokenBucket, for any callers, capacity and rate.  The    *)
(* meter alone says nothing of the next step: what is inductive is that    *)
(* the meter and what is in the bucket, once refilled, together never      *)
(* exceed a full bucket.                                                   *)
(***************************************************************************)
EXTENDS TokenBucket, TLAPS

\* What has been granted and what may still be granted without the clock moving
\* stay within the capacity.
Conserved == level + Refilled <= Full

RateInv == TypeOK /\ Conserved

\* A full bucket holds at least a unit.
LEMMA FullBucket == Full \in Nat \ {0}
  BY BucketAssumption, SMT DEF Full

\* Time passed at the rate gives a whole number of units.
LEMMA Products == ASSUME NEW n \in Nat PROVE n * Rate \in Nat /\ (n + 1) * Rate = n * Rate + Rate
  BY BucketAssumption, SMT

\* A refill leaves between nothing and a full bucket.
LEMMA RefillInBounds == ASSUME TypeOK PROVE Refilled \in 0..Full
  <1> DEFINE back == elapsed * Rate
  <1>1. back \in Nat
    BY Products DEF TypeOK
  <1>2. Refilled = AtMost(tokens + back, Full) /\ tokens \in Nat
    BY DEF Refilled, TypeOK
  <1> HIDE DEF back
  <1> QED BY <1>1, <1>2, FullBucket DEF AtMost

\* The bucket starts full, or a unit short of it, and the meter at nothing.
LEMMA RateInvInit == Init => RateInv
  <1> SUFFICES ASSUME Init PROVE RateInv
    OBVIOUS
  <1>1. TypeOK
    BY FullBucket DEF Init, TypeOK
  <1>2. Refilled \in 0..Full /\ level = 0
    BY <1>1, RefillInBounds DEF Init
  <1>3. level + Refilled <= Full
    BY <1>2, FullBucket
  <1> QED BY <1>1, <1>3 DEF RateInv, Conserved

\* The caller that gives up leaves the others in their order.
LEMMA LeavesLine ==
  ASSUME line \in Seq(Caller), NEW i \in 1..Len(line)
  PROVE  RemoveAt(line, i) \in Seq(Caller)
  <1> DEFINE before == SubSeq(line, 1, i - 1)
             after == SubSeq(line, i + 1, Len(line))
  <1>1. before \in Seq(Caller)
    OBVIOUS
  <1>2. after \in Seq(Caller)
    OBVIOUS
  <1>3. RemoveAt(line, i) = before \o after
    BY DEF RemoveAt
  <1> HIDE DEF before, after
  <1> QED BY <1>1, <1>2, <1>3

\* Every step keeps the types.
LEMMA BucketTypesStep == TypeOK /\ [Next]_vars => TypeOK'
  <1> SUFFICES ASSUME TypeOK, [Next]_vars PROVE TypeOK'
    OBVIOUS
  <1> USE FullBucket, RefillInBounds
  <1>1. ASSUME NEW c \in Caller, Acquire(c) PROVE TypeOK'
    BY <1>1 DEF TypeOK, Acquire, Joined
  <1>2. CASE Grant
    BY <1>2, BucketAssumption DEF TypeOK, Grant, Updated
  <1>3. CASE Wait
    <2>1. (Unit - Refilled + Rate - 1) \div Rate \in Nat
      <3>0. Refilled < Unit /\ Refilled \in Nat
        BY <1>3 DEF Wait
      <3>1. Unit - Refilled + Rate - 1 \in Nat
        BY <3>0, BucketAssumption
      <3>2. \A x \in Nat : x \div Rate \in Nat
        BY BucketAssumption, Z3
      <3> QED BY <3>1, <3>2
    <2> QED BY <1>3, <2>1 DEF TypeOK, Wait, Updated
  <1>4. ASSUME NEW i \in 1..Len(line), Cancel(i) PROVE TypeOK'
    <2>1. line' \in Seq(Caller)
      BY <1>4, LeavesLine DEF TypeOK, Cancel
    <2> QED BY <1>4, <2>1 DEF TypeOK, Cancel
  <1>5. CASE Tick
    BY <1>5, BucketAssumption DEF TypeOK, Tick
  <1>6. CASE UNCHANGED vars
    BY <1>6 DEF TypeOK, vars
  <1> QED BY <1>1, <1>2, <1>3, <1>4, <1>5, <1>6 DEF Next

\* Looking into the bucket puts what came back into tokens and no more: a second look
\* at once finds the same.
LEMMA LookTwice ==
  ASSUME NEW x \in 0..Full, tokens' = x, elapsed' = 0
  PROVE  Refilled' = x
  <1>1. Refilled' = AtMost(x + 0 * Rate, Full)
    BY DEF Refilled, AtMost, Full
  <1>2. 0 * Rate = 0
    BY BucketAssumption, SMT
  <1> QED BY <1>1, <1>2, FullBucket DEF AtMost

\* Every step keeps the bucket and the meter within the capacity.
LEMMA ConservedStep == RateInv /\ [Next]_vars => Conserved'
  <1> SUFFICES ASSUME TypeOK, Conserved, [Next]_vars PROVE Conserved'
    BY DEF RateInv
  <1>0. /\ Refilled \in 0..Full /\ Full \in Nat /\ Full' = Full /\ level \in Nat
        /\ Unit \in Nat \ {0} /\ Rate \in Nat \ {0}
    BY FullBucket, RefillInBounds, BucketAssumption DEF TypeOK, Full
  <1>1. CASE UNCHANGED <<tokens, elapsed, level>>
    BY <1>1 DEF Conserved, Refilled, AtMost, Full
  <1>2. CASE Grant
    <2>1. Refilled - Unit \in 0..Full
      BY <1>0, <1>2 DEF Grant
    <2>2. Refilled' = Refilled - Unit
      BY <1>2, <2>1, LookTwice DEF Grant, Updated
    <2>3. level' = level + Unit
      BY <1>2 DEF Grant
    <2> QED BY <1>0, <2>2, <2>3 DEF Conserved
  <1>3. CASE Wait
    <2>1. Refilled' = Refilled
      BY <1>0, <1>3, LookTwice DEF Wait, Updated
    <2> QED BY <1>0, <1>3, <2>1 DEF Conserved, Wait
  <1>4. CASE Tick
    <2> DEFINE back == elapsed * Rate
    <2>1. back \in Nat /\ (elapsed + 1) * Rate = back + Rate
      BY Products DEF TypeOK
    <2>2. tokens \in Nat /\ tokens' = tokens
      BY <1>4 DEF TypeOK, Tick
    <2>3. Refilled = AtMost(tokens + back, Full) /\ Refilled' = AtMost(tokens + elapsed' * Rate, Full)
      BY <2>2, <1>0 DEF Refilled, AtMost
    <2>4. level' = IF level > Rate THEN level - Rate ELSE 0
      BY <1>4 DEF Tick
    <2>5. CASE back < Full
      <3>1. elapsed' * Rate = back + Rate
        BY <1>4, <2>1, <2>5 DEF Tick
      <3> HIDE DEF back
      <3> QED BY <1>0, <2>1, <2>2, <2>3, <2>4, <3>1 DEF Conserved, AtMost
    <2>6. CASE ~(back < Full)
      <3>1. elapsed' * Rate = back
        BY <1>4, <2>6 DEF Tick
      <3> HIDE DEF back
      <3> QED BY <1>0, <2>1, <2>2, <2>3, <2>4, <2>6, <3>1 DEF Conserved, AtMost
    <2> QED BY <2>5, <2>6
  <1> QED
    BY <1>1, <1>2, <1>3, <1>4 DEF Next, Acquire, Cancel, vars

\* The types of the bucket hold in every reachable state: its tokens never exceed the
\* capacity (ratelimit.py:36-39).
THEOREM BucketTypes == Spec => []TypeOK
  <1>1. Init => TypeOK
    BY RateInvInit DEF RateInv
  <1> QED BY <1>1, BucketTypesStep, PTL DEF Spec

\* Whoever looks into the bucket, waits in its line or leaves it, and whenever, no
\* stretch of time sees more grants than the capacity and what came back in it
\* (ratelimit.py:20-40).
THEOREM RateHolds == Spec => []RateRespected
  <1>1. RateInv /\ [Next]_vars => RateInv'
    BY BucketTypesStep, ConservedStep DEF RateInv
  <1>2. RateInv => RateRespected
    BY RefillInBounds, FullBucket DEF RateInv, Conserved, RateRespected, TypeOK
  <1> QED BY RateInvInit, <1>1, <1>2, PTL DEF Spec
=============================================================================
