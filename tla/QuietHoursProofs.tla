---------------------------- MODULE QuietHoursProofs ----------------------------
(***************************************************************************)
(* Proofs about QuietHours for every day, every span of quiet hours and    *)
(* every life of a URL: a deferred message waits for the first moment      *)
(* outside the quiet hours, computed by EvaluateTimeRule in closed form.   *)
(***************************************************************************)
EXTENDS QuietHours, TLAPS

USE DEF vars

--------------------------------------------------------------------------------
(* The clock.                                                               *)

\* A moment is a number of whole days and a minute of the day.
LEMMA DayAndMinute ==
    ASSUME NEW t \in Int
    PROVE  \E q \in Int : t = Day * q + (t % Day) /\ t % Day \in Minute
<1> USE ConstantsAssumption DEF ConstantsAssumption
<1>1. t = Day * (t \div Day) + (t % Day) /\ t \div Day \in Int
  OBVIOUS
<1>2. t % Day \in Minute
  BY DEF Minute
<1>3. QED
  BY <1>1, <1>2

LEMMA MinuteType == \A t \in Int : t % Day \in Minute
BY ConstantsAssumption DEF ConstantsAssumption, Minute

\* and in one way only.
LEMMA MinuteOf ==
    ASSUME NEW q \in Int, NEW m \in Minute
    PROVE  (Day * q + m) % Day = m
<1> USE ConstantsAssumption DEF ConstantsAssumption
<1> DEFINE t == Day * q + m
<1>0. t \in Int
  BY DEF Minute
<1>1. PICK p \in Int : t = Day * p + (t % Day) /\ t % Day \in Minute
  BY <1>0, DayAndMinute
<1>2. Day * (p - q) = m - (t % Day)
  BY <1>1 DEF Minute
<1>3. m - (t % Day) < Day /\ m - (t % Day) > -Day
  BY <1>1 DEF Minute
<1>4. p = q
  <2>1. ASSUME p - q >= 1 PROVE FALSE
    <3>1. Day * (p - q) >= Day
      BY <2>1
    <3>2. QED
      BY <1>2, <1>3, <3>1
  <2>2. ASSUME p - q <= -1 PROVE FALSE
    <3>1. Day * (p - q) <= -Day
      BY <2>2
    <3>2. QED
      BY <1>2, <1>3, <3>1
  <2>3. QED
    BY <2>1, <2>2
<1>5. QED
  BY <1>1, <1>4 DEF Minute

\* The clock's arithmetic within two days of midnight.
LEMMA MinuteNear ==
    ASSUME NEW n \in -Day .. 2 * Day - 1
    PROVE  n % Day = IF n < 0 THEN n + Day ELSE IF n < Day THEN n ELSE n - Day
<1> USE ConstantsAssumption DEF ConstantsAssumption
<1>1. CASE n < 0
  <2>1. n + Day \in Minute /\ n = Day * (-1) + (n + Day)
    BY <1>1 DEF Minute
  <2>2. QED
    BY <1>1, <2>1, MinuteOf
<1>2. CASE n >= 0 /\ n < Day
  <2>1. n \in Minute /\ n = Day * 0 + n
    BY <1>2 DEF Minute
  <2>2. QED
    BY <1>2, <2>1, MinuteOf
<1>3. CASE n >= Day
  <2>1. n - Day \in Minute /\ n = Day * 1 + (n - Day)
    BY <1>3 DEF Minute
  <2>2. QED
    BY <1>3, <2>1, MinuteOf
<1>4. QED
  BY <1>1, <1>2, <1>3

\* What the clock shows i steps later.
LEMMA MinuteLater ==
    ASSUME NEW a \in Int, NEW i \in 0 .. Day
    PROVE  (a + i) % Day = IF (a % Day) + i < Day THEN (a % Day) + i
                                                ELSE (a % Day) + i - Day
<1> USE ConstantsAssumption DEF ConstantsAssumption
<1> DEFINE m == a % Day
<1>1. PICK q \in Int : a = Day * q + m /\ m \in Minute
  BY DayAndMinute
<1>2. CASE m + i < Day
  <2>1. m + i \in Minute /\ a + i = Day * q + (m + i)
    BY <1>1, <1>2 DEF Minute
  <2>2. QED
    BY <1>2, <2>1, MinuteOf
<1>3. CASE m + i >= Day
  <2>1. m + i - Day \in Minute
    BY <1>1, <1>3 DEF Minute
  <2>2. PICK p \in Int : Day * p = Day * q + Day
    <3>1. q + 1 \in Int /\ Day * (q + 1) = Day * q + Day
      OBVIOUS
    <3>2. QED
      BY <3>1
  <2>3. a + i = Day * p + (m + i - Day)
    <3>1. Day * q \in Int /\ Day * p \in Int /\ m \in Int /\ a = Day * q + m
      BY <1>1 DEF Minute
    <3>2. HIDE DEF m
    <3>3. QED
      BY <2>2, <3>1
  <2>4. \A x \in Minute : (Day * p + x) % Day = x
    BY MinuteOf
  <2>5. QED
    BY <1>1, <1>3, <2>1, <2>3, <2>4 DEF Minute
<1>4. QED
  BY <1>1, <1>2, <1>3 DEF Minute

--------------------------------------------------------------------------------
(* The quiet hours.                                                         *)

\* The length of the quiet hours, also when they pass midnight.
LEMMA QuietLength ==
    ASSUME start \in Minute, end \in Minute
    PROVE  (end - start) % Day = IF start <= end THEN end - start ELSE end - start + Day
<1>1. end - start \in -Day .. 2 * Day - 1
  BY ConstantsAssumption DEF ConstantsAssumption, Minute
<1>2. QED
  BY <1>1, MinuteNear, ConstantsAssumption DEF ConstantsAssumption, Minute

\* The test of EvaluateTimeRule finds the minutes one passes on the way from
\* start to end.
LEMMA QuietIsWalk ==
    ASSUME start \in Minute, end \in Minute, start # end, NEW m \in Minute
    PROVE  m \in Quiet <=> InQuietHours(m)
<1> USE ConstantsAssumption DEF ConstantsAssumption, Minute
<1> DEFINE L == (end - start) % Day
<1>1. L = IF start < end THEN end - start ELSE end - start + Day
  BY QuietLength
<1>2. ASSUME NEW i \in 0 .. L - 1
      PROVE  (start + i) % Day = IF start + i < Day THEN start + i ELSE start + i - Day
  <2>1. start + i \in -Day .. 2 * Day - 1 /\ start + i >= 0
    BY <1>1, <1>2
  <2>2. QED
    BY <2>1, MinuteNear
<1>3. ASSUME InQuietHours(m) PROVE m \in Quiet
  <2>1. CASE m >= start
    <3>1. m - start \in 0 .. L - 1 /\ start + (m - start) = m
      BY <1>1, <1>3, <2>1 DEF InQuietHours
    <3>2. (start + (m - start)) % Day = m
      BY <1>2, <3>1
    <3>3. QED
      BY <3>1, <3>2 DEF Quiet
  <2>2. CASE m < start
    <3>1. m - start + Day \in 0 .. L - 1 /\ start + (m - start + Day) = m + Day
      BY <1>1, <1>3, <2>2 DEF InQuietHours
    <3>2. (start + (m - start + Day)) % Day = m
      BY <1>2, <3>1
    <3>3. QED
      BY <3>1, <3>2 DEF Quiet
  <2>3. QED
    BY <2>1, <2>2
<1>4. ASSUME m \in Quiet PROVE InQuietHours(m)
  <2>1. PICK i \in 0 .. L - 1 : m = (start + i) % Day
    BY <1>4 DEF Quiet
  <2>2. m = IF start + i < Day THEN start + i ELSE start + i - Day
    BY <1>2, <2>1
  <2>3. i \in Int /\ 0 <= i /\ i < L
    BY <1>1, <2>1
  <2>4. QED
    BY <1>1, <2>2, <2>3 DEF InQuietHours
<1>5. QED
  BY <1>3, <1>4

--------------------------------------------------------------------------------
(* AvailableAt.                                                             *)

\* The moment EvaluateTimeRule computes is not quiet, every moment from the
\* message's arrival up to it is, and it is no further away than the quiet
\* hours are long.
LEMMA AvailableIsFirst ==
    ASSUME start \in Minute, end \in Minute, start # end, NEW a \in Nat
    PROVE  /\ AvailableAt(a) \in a .. a + Day
           /\ AvailableAt(a) % Day \notin Quiet
           /\ \A t \in a .. AvailableAt(a) - 1 : t % Day \in Quiet
           /\ AvailableAt(a) - a <= (end - start) % Day
<1> USE ConstantsAssumption DEF ConstantsAssumption
<1> DEFINE m == a % Day
           v == AvailableAt(a)
<1>1. a \in Int /\ m \in Minute
  BY MinuteType
<1>2. ASSUME NEW t \in a .. a + Day
      PROVE  /\ t % Day = IF m + (t - a) < Day THEN m + (t - a) ELSE m + (t - a) - Day
             /\ t % Day \in Minute
             /\ t % Day \in Quiet <=> InQuietHours(t % Day)
  <2>1. PICK i \in 0 .. Day : i = t - a /\ a + i = t
    OBVIOUS
  <2>2. (a + i) % Day = IF m + i < Day THEN m + i ELSE m + i - Day
    BY <1>1, MinuteLater
  <2>3. t % Day \in Minute
    BY MinuteType
  <2>4. QED
    BY <2>1, <2>2, <2>3, QuietIsWalk
<1>3. CASE ~InQuietHours(m)
  <2>1. v = a
    BY <1>3 DEF AvailableAt
  <2>2. m \notin Quiet
    BY <1>1, <1>3, QuietIsWalk
  <2>3. (end - start) % Day >= 0
    BY QuietLength DEF Minute
  <2>4. QED
    BY <2>1, <2>2, <2>3
<1>4. CASE InQuietHours(m)
  <2>1. v = a + (end - m) + (IF m < end THEN 0 ELSE Day)
    BY <1>1, <1>4 DEF AvailableAt, NextEnd, Minute
  <2>2. v \in a .. a + Day
    BY <1>1, <2>1 DEF Minute
  <2>3. v % Day = end
    <3>1. v % Day = IF m + (v - a) < Day THEN m + (v - a) ELSE m + (v - a) - Day
      BY <1>2, <2>2
    <3>2. QED
      BY <1>1, <2>1, <3>1 DEF Minute
  <2>4. ~InQuietHours(end)
    BY DEF InQuietHours, Minute
  <2>5. ASSUME NEW t \in a .. v - 1 PROVE t % Day \in Quiet
    <3>1. t \in a .. a + Day
      BY <2>2, <2>5
    <3>2. InQuietHours(t % Day)
      BY <1>1, <1>2, <1>4, <2>1, <2>5, <3>1 DEF InQuietHours, Minute
    <3>3. QED
      BY <1>2, <3>1, <3>2
  <2>6. v - a <= (end - start) % Day
    BY <1>1, <1>4, <2>1, QuietLength DEF InQuietHours, Minute
  <2>7. QED
    BY <1>2, <2>2, <2>3, <2>4, <2>5, <2>6
<1>5. QED
  BY <1>3, <1>4

\* Whatever is in a set of numbers and no larger than its members is its least.
LEMMA MinIs ==
    ASSUME NEW S \in SUBSET Int, NEW v \in S, \A t \in S : v <= t
    PROVE  Min(S) = v
<1>1. \A w \in S : (\A t \in S : w <= t) => w = v
  OBVIOUS
<1>2. QED
  BY <1>1 DEF Min

--------------------------------------------------------------------------------
(* The message.                                                             *)

\* Until the first failure available_at is what EvaluateTimeRule answered.
FirstAvailable ==
    state = "waiting" /\ retry = 0 => available = AvailableAt(arrived)

IInv == TypeOK /\ FirstAvailable /\ (state = "unsent" => retry = 0)

\* A deferral does not end before it begins, wherever in the day it begins and
\* although hours that are never over are allowed.
LEMMA AvailableType ==
    ASSUME start \in Minute, end \in Minute, NEW a \in Nat
    PROVE  AvailableAt(a) \in Nat /\ AvailableAt(a) >= a
<1> USE ConstantsAssumption DEF ConstantsAssumption
<1>1. a % Day \in Minute
  BY MinuteType
<1>2. QED
  BY <1>1 DEF AvailableAt, NextEnd, InQuietHours, Minute

LEMMA InitInv == Init => IInv
BY ConstantsAssumption DEF ConstantsAssumption, Init, IInv, TypeOK, FirstAvailable

LEMMA StepInv == IInv /\ [Next]_vars => IInv'
<1> SUFFICES ASSUME IInv, [Next]_vars PROVE IInv'
  OBVIOUS
<1> USE ConstantsAssumption DEF ConstantsAssumption, IInv
<1>1. CASE Arrive
  <2>1. available' \in Nat /\ available' >= clock
    BY <1>1, AvailableType DEF Arrive, TypeOK
  <2>2. TypeOK'
    BY <1>1, <2>1 DEF Arrive, TypeOK
  <2>3. FirstAvailable'
    BY <1>1 DEF Arrive, FirstAvailable, AvailableAt, InQuietHours, NextEnd
  <2>4. QED
    BY <1>1, <2>2, <2>3 DEF Arrive
<1>2. CASE Deliver
  BY <1>2 DEF Deliver, TypeOK, FirstAvailable
<1>3. CASE Fail
  <2>1. TypeOK'
    BY <1>3 DEF Fail, TypeOK
  <2>2. FirstAvailable' /\ state' # "unsent"
    BY <1>3 DEF Fail, TypeOK, FirstAvailable
  <2>3. QED
    BY <2>1, <2>2
<1>4. CASE Tick
  BY <1>4 DEF Tick, TypeOK, FirstAvailable, AvailableAt, InQuietHours, NextEnd
<1>5. CASE UNCHANGED vars
  BY <1>5 DEF TypeOK, FirstAvailable, AvailableAt, InQuietHours, NextEnd
<1>6. QED
  BY <1>1, <1>2, <1>3, <1>4, <1>5 DEF Next

LEMMA Invariance == Spec => []IInv
BY InitInv, StepInv, PTL DEF Spec

\* EvaluateTimeRule never answers a moment before the message arrived, for any
\* length of the day, and a retry never brings the message forward.
THEOREM TypeCorrect == Spec => []TypeOK
BY Invariance, PTL DEF IInv

\* EvaluateTimeRule: a message waits exactly for the first moment outside the
\* quiet hours, for every day and every span, midnight included.
THEOREM WaitsForTheFirstChance == Spec => []WaitsForFirstChance
<1>1. IInv => WaitsForFirstChance
  <2> SUFFICES ASSUME IInv, state = "waiting", retry = 0, start # end
               PROVE  available = Min({t \in arrived .. arrived + Day : t % Day \notin Quiet})
    BY DEF WaitsForFirstChance
  <2> DEFINE S == {t \in arrived .. arrived + Day : t % Day \notin Quiet}
  <2>1. start \in Minute /\ end \in Minute /\ arrived \in Nat
    BY DEF IInv, TypeOK
  <2>2. available = AvailableAt(arrived)
    BY DEF IInv, FirstAvailable
  <2>3. available \in S
    BY <2>1, <2>2, AvailableIsFirst
  <2>4. ASSUME NEW t \in S PROVE available <= t
    <3>1. t \in Int /\ arrived <= t /\ t % Day \notin Quiet /\ available \in Int
      BY <2>1, <2>3, ConstantsAssumption DEF ConstantsAssumption
    <3>2. ~(t \in arrived .. available - 1)
      BY <2>1, <2>2, <3>1, AvailableIsFirst
    <3>3. QED
      BY <2>1, <3>1, <3>2
  <2>5. S \in SUBSET Int
    BY <2>1, ConstantsAssumption DEF ConstantsAssumption
  <2>6. QED
    BY <2>3, <2>4, <2>5, MinIs
<1>2. QED
  BY <1>1, Invariance, PTL

\* The file of a deferred message can be fetched when the message is due, if
\* the quiet hours are no longer than the URL lives, whatever their length.
THEOREM DeferredCanBeFetched == Spec => []DeferredIsFetchable
<1>1. IInv => DeferredIsFetchable
  <2> SUFFICES ASSUME IInv, state = "waiting", retry = 0, clock = available,
                      start # end, (end - start) % Day <= UrlLife
               PROVE  Served
    BY DEF DeferredIsFetchable
  <2>1. start \in Minute /\ end \in Minute /\ arrived \in Nat /\ available \in Nat
    BY DEF IInv, TypeOK
  <2>2. available = AvailableAt(arrived)
    BY DEF IInv, FirstAvailable
  <2>3. available - arrived <= (end - start) % Day
    BY <2>1, <2>2, AvailableIsFirst
  <2>4. (end - start) % Day \in Int
    BY <2>1, QuietLength, ConstantsAssumption DEF Minute, ConstantsAssumption
  <2>5. QED
    BY <2>1, <2>3, <2>4, ConstantsAssumption DEF Served, ConstantsAssumption
<1>2. QED
  BY <1>1, Invariance, PTL
================================================================================
