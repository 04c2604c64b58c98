------------------------------ MODULE LimitsProofs ------------------------------
(***************************************************************************)
(* Proofs about Limits for any limit and window: what a window may see is  *)
(* bounded, and a source, destination or pairing that is refused is not    *)
(* refused for ever.                                                       *)
(***************************************************************************)
EXTENDS Limits, TLAPS

USE DEF limitVars, burstVars, vars

Bucket == [count : 0 .. Limit, age : 0 .. Window + 1]

BucketsOK ==
    /\ bucket \in [Key -> Bucket]
    /\ since \in [Key -> 0 .. Window + 1]
    /\ seen \in [Key -> Nat]
    /\ refusedFor \in [Key -> -1 .. Window + 1]
BurstOK ==
    /\ burstCount \in 0 .. BurstLimit
    /\ lastAge \in 0 .. BurstWindow + 1
    /\ burstSince \in 0 .. BurstWindow + 1
    /\ burstSeen \in Nat
    /\ burstRefusedFor \in -1 .. BurstWindow + 1

\* A bucket is at least as old as the row of refusals it is the cause of.
BeforeRefusals(k) == refusedFor[k] <= bucket[k].age

\* What is under observation was admitted into the present bucket, or some of
\* it into the one before, and then the present one is younger than the
\* observation.
InTwoBuckets(k) ==
    since[k] <= Window =>
        \/ seen[k] <= bucket[k].count
        \/ bucket[k].age <= since[k] /\ seen[k] <= Limit + bucket[k].count

BurstBeforeRefusals == burstRefusedFor <= lastAge

\* What is under observation was let through since the count began, the last of
\* it no earlier than the observation.
InOneBurst ==
    burstSince <= BurstWindow =>
        burstSeen <= burstCount /\ (burstSeen > 0 => lastAge <= burstSince)

BucketInv == BucketsOK /\ \A k \in Key : BeforeRefusals(k) /\ InTwoBuckets(k)
BurstInv == BurstOK /\ BurstBeforeRefusals /\ InOneBurst

LEMMA InitInv == Init => BucketInv /\ BurstInv
<1> SUFFICES ASSUME Init PROVE BucketInv /\ BurstInv
  OBVIOUS
<1> USE ConstantsAssumption DEF ConstantsAssumption, Init
<1>1. BucketInv
  BY DEF BucketInv, BucketsOK, Bucket, BeforeRefusals, InTwoBuckets, NoBucket
<1>2. BurstInv
  BY DEF BurstInv, BurstOK, BurstBeforeRefusals, InOneBurst
<1>3. QED
  BY <1>1, <1>2

--------------------------------------------------------------------------------
\* Time passes for the younger of two ages as for the older.
LEMMA UptoKeepsOrder ==
    ASSUME NEW last \in Nat, NEW a \in -1 .. last + 1, NEW b \in -1 .. last + 1, a <= b
    PROVE  /\ Upto(a, last) \in -1 .. last + 1 /\ Upto(a, last) <= Upto(b, last)
           /\ a >= 0 => Upto(a, last) >= 0
BY DEF Upto

\* An admission fills the present bucket by one, or begins the next one when
\* the observation, which is no older than a window, began in the present one.
LEMMA AdmitStep ==
    ASSUME BucketInv, NEW k \in Key, Limit > 0, NEW b \in Bucket, Admit(k, b),
           UNCHANGED since,
           \/ ~Expired(k) /\ b = [bucket[k] EXCEPT !.count = @ + 1]
           \/ Expired(k) /\ b = NewBucket
    PROVE  BucketInv'
<1> USE ConstantsAssumption DEF ConstantsAssumption, BucketInv
<1>1. BucketsOK'
  BY DEF Admit, BucketsOK
<1>2. ASSUME NEW o \in Key, o # k PROVE BeforeRefusals(o)' /\ InTwoBuckets(o)'
  BY <1>2 DEF Admit, BucketsOK, BeforeRefusals, InTwoBuckets
<1>3. /\ bucket'[k] = b /\ refusedFor'[k] = -1 /\ since'[k] = since[k]
      /\ since[k] <= Window => seen'[k] = seen[k] + 1
  BY DEF Admit, BucketsOK
<1>4. BeforeRefusals(k)'
  BY <1>3 DEF BeforeRefusals, Bucket
<1>5. /\ bucket[k].count \in 0 .. Limit /\ bucket[k].age \in 0 .. Window + 1
      /\ since[k] \in 0 .. Window + 1 /\ seen[k] \in Nat /\ InTwoBuckets(k)
  BY DEF BucketsOK, Bucket
<1>6. CASE ~Expired(k) /\ b = [bucket[k] EXCEPT !.count = @ + 1]
  <2>1. b.count = bucket[k].count + 1 /\ b.age = bucket[k].age
    BY <1>6 DEF BucketsOK, Bucket
  <2>2. InTwoBuckets(k)'
    BY <1>3, <1>5, <2>1 DEF InTwoBuckets
  <2>3. QED
    BY <1>1, <1>2, <1>4, <2>2
<1>7. CASE Expired(k) /\ b = NewBucket
  <2>1. b.count = 1 /\ b.age = 0 /\ bucket[k].age > Window
    BY <1>7 DEF NewBucket, Expired
  <2>2. since[k] <= Window => seen[k] <= Limit
    BY <1>5, <2>1 DEF InTwoBuckets
  <2>3. InTwoBuckets(k)'
    BY <1>3, <1>5, <2>1, <2>2 DEF InTwoBuckets
  <2>4. QED
    BY <1>1, <1>2, <1>4, <2>3
<1>8. QED
  BY <1>6, <1>7

LEMMA CheckStep == ASSUME BucketInv, NEW k \in Key, Check(k) PROVE BucketInv'
<1> USE ConstantsAssumption DEF ConstantsAssumption, BucketInv
<1>0. Limit > 0 /\ bucket[k] \in Bucket /\ UNCHANGED since
  BY DEF Check, BucketsOK
<1>1. CASE Expired(k) /\ Admit(k, NewBucket)
  <2>1. NewBucket \in Bucket
    BY <1>0 DEF NewBucket, Bucket
  <2>2. QED
    BY <1>0, <1>1, <2>1, AdmitStep
<1>2. CASE ~Expired(k) /\ ~Full(k) /\ Admit(k, [bucket[k] EXCEPT !.count = @ + 1])
  <2>1. [bucket[k] EXCEPT !.count = @ + 1] \in Bucket
    BY <1>0, <1>2 DEF Full, Bucket
  <2>2. QED
    BY <1>0, <1>2, <2>1, AdmitStep
<1>3. CASE Refuse(k)
  <2>1. bucket' = bucket /\ UNCHANGED <<since, seen>>
    BY <1>0, <1>3 DEF Refuse, Refused, BucketsOK
  <2>2. BucketsOK'
    BY <1>3, <2>1 DEF Refuse, BucketsOK
  <2>3. ASSUME NEW o \in Key PROVE BeforeRefusals(o)' /\ InTwoBuckets(o)'
    <3>1. /\ BeforeRefusals(o) /\ InTwoBuckets(o)
          /\ bucket[o].age \in Nat /\ refusedFor'[o] \in {0, refusedFor[o]}
      BY <1>3 DEF Refuse, BucketsOK, Bucket
    <3>2. QED
      BY <2>1, <3>1 DEF BeforeRefusals, InTwoBuckets
  <2>4. QED
    BY <2>2, <2>3
<1>4. QED
  BY <1>1, <1>2, <1>3 DEF Check

LEMMA ObserveStep == ASSUME BucketInv, NEW k \in Key, Observe(k) PROVE BucketInv'
<1> USE ConstantsAssumption DEF ConstantsAssumption, BucketInv
<1>1. BucketsOK'
  BY DEF Observe, BucketsOK
<1>2. ASSUME NEW o \in Key PROVE BeforeRefusals(o)' /\ InTwoBuckets(o)'
  <2>1. BeforeRefusals(o) /\ InTwoBuckets(o) /\ bucket[o].count \in Nat
    BY DEF BucketsOK, Bucket
  <2>2. \/ o = k /\ since'[o] = 0 /\ seen'[o] = 0
        \/ since'[o] = since[o] /\ seen'[o] = seen[o]
    BY DEF Observe, BucketsOK
  <2>3. QED
    BY <2>1, <2>2 DEF Observe, BeforeRefusals, InTwoBuckets
<1>3. QED
  BY <1>1, <1>2

\* Bucket and observation grow older together.
LEMMA BucketTickStep == ASSUME BucketInv, Tick PROVE BucketInv'
<1> USE ConstantsAssumption DEF ConstantsAssumption, BucketInv
<1>1. ASSUME NEW k \in Key
      PROVE  /\ bucket'[k].count = bucket[k].count
             /\ bucket'[k].age = Upto(bucket[k].age, Window)
             /\ bucket'[k] \in Bucket
             /\ since'[k] = Upto(since[k], Window)
             /\ refusedFor'[k] = Upto(refusedFor[k], Window)
  <2>1. bucket'[k] = [bucket[k] EXCEPT !.age = Upto(@, Window)] /\ bucket[k] \in Bucket
    BY DEF Tick, BucketsOK
  <2>2. Upto(bucket[k].age, Window) \in 0 .. Window + 1
    BY <2>1 DEF Upto, Bucket
  <2>3. QED
    BY <2>1, <2>2 DEF Tick, Bucket
<1>2. BucketsOK'
  <2>1. bucket' \in [Key -> Bucket]
    BY <1>1 DEF Tick
  <2>2. since' \in [Key -> 0 .. Window + 1] /\ refusedFor' \in [Key -> -1 .. Window + 1]
    BY UptoKeepsOrder DEF Tick, BucketsOK
  <2>3. QED
    BY <2>1, <2>2 DEF Tick, BucketsOK
<1>3. ASSUME NEW k \in Key PROVE BeforeRefusals(k)' /\ InTwoBuckets(k)'
  <2>1. /\ refusedFor[k] \in -1 .. Window + 1 /\ bucket[k].age \in -1 .. Window + 1
        /\ since[k] \in -1 .. Window + 1 /\ bucket[k].count \in Nat /\ seen[k] \in Nat
        /\ BeforeRefusals(k) /\ InTwoBuckets(k) /\ seen'[k] = seen[k]
    BY DEF BucketsOK, Bucket, Tick
  <2>2. BeforeRefusals(k)'
    BY <1>1, <2>1, UptoKeepsOrder DEF BeforeRefusals
  <2>3. since[k] <= Upto(since[k], Window) /\ Upto(since[k], Window) \in Int
    BY <2>1 DEF Upto
  <2>4. bucket[k].age <= since[k] => Upto(bucket[k].age, Window) <= Upto(since[k], Window)
    BY <2>1, UptoKeepsOrder
  <2>5. InTwoBuckets(k)'
    BY <1>1, <2>1, <2>3, <2>4 DEF InTwoBuckets
  <2>6. QED
    BY <2>2, <2>5
<1>4. QED
  BY <1>2, <1>3

LEMMA BucketStep == BucketInv /\ [Next]_vars => BucketInv'
<1> SUFFICES ASSUME BucketInv, [Next]_vars PROVE BucketInv'
  OBVIOUS
<1>1. CASE UNCHANGED limitVars
  BY <1>1 DEF BucketInv, BucketsOK, BeforeRefusals, InTwoBuckets
<1>2. QED
  BY <1>1, CheckStep, ObserveStep, BucketTickStep DEF Next, EvaluateSpamRule, ObserveBurst

LEMMA BurstStep == BurstInv /\ [Next]_vars => BurstInv'
<1> SUFFICES ASSUME BurstInv, [Next]_vars PROVE BurstInv'
  OBVIOUS
<1> USE ConstantsAssumption DEF ConstantsAssumption, BurstInv, BurstOK, BurstBeforeRefusals,
                                InOneBurst
<1>1. CASE EvaluateSpamRule
  <2>0. Counted \in 0 .. BurstLimit /\ UNCHANGED burstSince
    BY <1>1 DEF EvaluateSpamRule, Counted
  <2>1. CASE Spent
    <3>1. Counted = burstCount
      BY <2>1 DEF Spent, Counted
    <3>2. QED
      BY <1>1, <2>0, <2>1, <3>1 DEF EvaluateSpamRule, LastAfterRefusal
  <2>2. CASE ~Spent
    <3>1. Counted + 1 \in 0 .. BurstLimit
      BY <2>0, <2>2 DEF Spent
    <3>2. burstSince <= BurstWindow => burstSeen <= Counted
      BY DEF Counted, Quiet
    <3>3. QED
      BY <1>1, <2>0, <2>2, <3>1, <3>2 DEF EvaluateSpamRule
  <2>3. QED
    BY <2>1, <2>2
<1>2. CASE ObserveBurst
  BY <1>2 DEF ObserveBurst
<1>3. CASE Tick
  BY <1>3 DEF Tick, Upto
<1>4. CASE UNCHANGED burstVars
  BY <1>4
<1>5. QED
  BY <1>1, <1>2, <1>3, <1>4 DEF Next, Check, Observe

LEMMA Invariance == Spec => [](BucketInv /\ BurstInv)
BY InitInv, BucketStep, BurstStep, PTL DEF Spec

--------------------------------------------------------------------------------
\* Buckets and burst counters hold what the code can put into them.
THEOREM TypeCorrect == Spec => []TypeOK
<1>1. BucketInv /\ BurstInv => TypeOK
  BY DEF BucketInv, BurstInv, BucketsOK, BurstOK, Bucket, TypeOK
<1>2. QED
  BY <1>1, Invariance, PTL

\* checkLimit admits at most twice the limit in any stretch of a window's
\* length, for any limit, window and number of keys.
THEOREM AtMostTwiceTheLimit == Spec => []TwiceTheLimit
<1>1. BucketInv => TwiceTheLimit
  <2> SUFFICES ASSUME BucketInv, NEW k \in Key, since[k] <= Window
               PROVE  seen[k] <= 2 * Limit
    BY DEF TwiceTheLimit
  <2>1. /\ Limit \in Nat /\ seen[k] \in Nat /\ bucket[k].count \in 0 .. Limit
        /\ seen[k] <= bucket[k].count \/ seen[k] <= Limit + bucket[k].count
    BY ConstantsAssumption
    DEF ConstantsAssumption, BucketInv, BucketsOK, Bucket, InTwoBuckets
  <2>2. QED
    BY <2>1
<1>2. QED
  BY <1>1, Invariance, PTL

\* EvaluateSpamRule lets at most BurstLimit messages through in any stretch of
\* BurstWindow seconds, for any burst limit and window.
THEOREM BurstsAreBounded == Spec => []BurstBounded
<1>1. BurstInv => BurstBounded
  BY ConstantsAssumption DEF ConstantsAssumption, BurstInv, BurstOK, InOneBurst, BurstBounded
<1>2. QED
  BY <1>1, Invariance, PTL

\* checkLimit admits a call that comes more than a window after the first of a
\* row of refusals, for any limit and window.
THEOREM BucketRefusalsEnd == Spec => BucketRefusalEnds
<1>1. BucketInv /\ [Next]_vars
      => [\A k \in Key : Check(k) /\ refusedFor[k] > Window => refusedFor'[k] = -1]_vars
  <2> SUFFICES ASSUME BucketInv, NEW k \in Key, Check(k), refusedFor[k] > Window
               PROVE  refusedFor'[k] = -1
    OBVIOUS
  <2>1. Expired(k)
    BY ConstantsAssumption
    DEF ConstantsAssumption, BucketInv, BucketsOK, Bucket, BeforeRefusals, Expired
  <2>2. Admit(k, NewBucket)
    BY <2>1 DEF Check
  <2>3. QED
    BY <2>2 DEF Admit, BucketInv, BucketsOK
<1>2. QED
  BY <1>1, Invariance, PTL DEF Spec, BucketRefusalEnds

\* EvaluateSpamRule lets a message through that comes more than a window after
\* the first of a row of refusals, for any burst limit and window.
THEOREM BurstRefusalsEnd == Spec => BurstRefusalEnds
<1>1. BurstInv /\ [Next]_vars
      => [EvaluateSpamRule /\ burstRefusedFor > BurstWindow => burstRefusedFor' = -1]_vars
  <2> SUFFICES ASSUME BurstInv, EvaluateSpamRule, burstRefusedFor > BurstWindow
               PROVE  burstRefusedFor' = -1
    OBVIOUS
  <2>1. Quiet
    BY ConstantsAssumption
    DEF ConstantsAssumption, BurstInv, BurstOK, BurstBeforeRefusals, Quiet
  <2>2. ~Spent
    BY <2>1, ConstantsAssumption DEF ConstantsAssumption, Spent, Counted
  <2>3. QED
    BY <2>2 DEF EvaluateSpamRule
<1>2. QED
  BY <1>1, Invariance, PTL DEF Spec, BurstRefusalEnds
================================================================================
