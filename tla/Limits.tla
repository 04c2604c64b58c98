--------------------------------- MODULE Limits --------------------------------
(***************************************************************************)
(* The limits kept in memory.  checkLimit of internal/security: a bucket   *)
(* per source (asked by the Telegram loop and every Discord handler) and   *)
(* per destination (asked by the queue processor and the digest            *)
(* scheduler).  EvaluateSpamRule of internal/rules: the burst limit of a   *)
(* pairing, asked by both producers; it measures its window from the last  *)
(* message it let through.  Each call holds a mutex, so it is one step     *)
(* whoever makes it; the two share nothing but the clock.                  *)
(*                                                                         *)
(* An observer may at any moment begin to count, for a window's length,    *)
(* what is let through.  It changes nothing the code reads, and as it may  *)
(* begin anywhere, what is true of its count is true of every stretch of   *)
(* that length.                                                            *)
(***************************************************************************)
EXTENDS Integers

CONSTANTS Key,          \* "platform:id" of a source or a destination
          Limit,        \* RATE_LIMIT_*_MAX; 0 disables the limit
          Window,       \* RATE_LIMIT_*_WINDOW_SECONDS
          BurstLimit,   \* rule_config.burst_limit, positive
          BurstWindow   \* rule_config.burst_window in seconds, positive

ASSUME ConstantsAssumption ==
    /\ Limit \in Nat /\ Window \in Nat
    /\ BurstLimit \in Nat \ {0} /\ BurstWindow \in Nat \ {0}

NoBucket == [count |-> 0, age |-> Window + 1]

VARIABLES
    bucket,      \* sourceBuckets or destBuckets; a missing entry is NoBucket
    burstCount,  \* burstCounts[key] of one pairing
    lastAge,     \* time since burstLast[key], up to the first age past the window
    \* history: age and count of the observation in progress, whose age passes
    \* the window when it is over, and the time since the first of a row of
    \* refusals, -1 when there is none
    since, seen, refusedFor,
    burstSince, burstSeen, burstRefusedFor

limitVars == <<bucket, since, seen, refusedFor>>
burstVars == <<burstCount, lastAge, burstSince, burstSeen, burstRefusedFor>>
vars == <<limitVars, burstVars>>

Init == /\ bucket = [k \in Key |-> NoBucket]
        /\ burstCount = 0
        /\ lastAge = BurstWindow + 1
        /\ since = [k \in Key |-> Window + 1] /\ seen = [k \in Key |-> 0]
        /\ refusedFor = [k \in Key |-> -1]
        /\ burstSince = BurstWindow + 1 /\ burstSeen = 0
        /\ burstRefusedFor = -1

--------------------------------------------------------------------------------
\* checkLimit

\* Mutant: the count of a new window starts at zero.
NewBucket_Zero == [count |-> 0, age |-> 0]
NewBucket == [count |-> 1, age |-> 0]

\* Mutant: a refused call prolongs the window.
Refused_Prolongs(b) == [b EXCEPT !.age = 0]
Refused(b) == b

Expired(k) == bucket[k].age > Window

Full(k) == bucket[k].count >= Limit

Admit(k, b) ==
    /\ bucket' = [bucket EXCEPT ![k] = b]
    /\ seen' = [seen EXCEPT ![k] = IF since[k] <= Window THEN @ + 1 ELSE @]
    /\ refusedFor' = [refusedFor EXCEPT ![k] = -1]

Refuse(k) ==
    /\ bucket' = [bucket EXCEPT ![k] = Refused(@)]
    /\ refusedFor' = [refusedFor EXCEPT ![k] = IF @ = -1 THEN 0 ELSE @]
    /\ UNCHANGED seen

\* CheckSourceRateLimit and CheckDestinationRateLimit; with Limit = 0 they
\* return before they look at a bucket.
Check(k) ==
    /\ Limit > 0
    /\ \/ Expired(k) /\ Admit(k, NewBucket)
       \/ /\ ~Expired(k) /\ ~Full(k)
          /\ Admit(k, [bucket[k] EXCEPT !.count = @ + 1])
       \/ ~Expired(k) /\ Full(k) /\ Refuse(k)
    /\ UNCHANGED <<since, burstVars>>

\* An observation of what Check admits begins.
Observe(k) ==
    /\ since' = [since EXCEPT ![k] = 0]
    /\ seen' = [seen EXCEPT ![k] = 0]
    /\ UNCHANGED <<bucket, refusedFor, burstVars>>

--------------------------------------------------------------------------------
\* EvaluateSpamRule

\* Mutant: the count is cleared when the last message is just a window old.
Quiet_Early == lastAge >= BurstWindow
Quiet == lastAge > BurstWindow
Counted == IF Quiet THEN 0 ELSE burstCount

Spent == Counted >= BurstLimit

\* Mutant: a refused message counts as the last one.
LastAfterRefusal_Now == 0
LastAfterRefusal == lastAge

EvaluateSpamRule ==
    /\ \/ /\ Spent
          /\ burstCount' = Counted
          /\ lastAge' = LastAfterRefusal
          /\ burstRefusedFor' = IF burstRefusedFor = -1 THEN 0 ELSE burstRefusedFor
          /\ UNCHANGED burstSeen
       \/ /\ ~Spent
          /\ burstCount' = Counted + 1
          /\ lastAge' = 0
          /\ burstSeen' = IF burstSince <= BurstWindow THEN burstSeen + 1 ELSE burstSeen
          /\ burstRefusedFor' = -1
    /\ UNCHANGED <<burstSince, limitVars>>

\* An observation of what EvaluateSpamRule lets through begins.
ObserveBurst ==
    /\ burstSince' = 0 /\ burstSeen' = 0
    /\ UNCHANGED <<burstCount, lastAge, burstRefusedFor, limitVars>>

--------------------------------------------------------------------------------
Upto(n, last) == IF n \in 0 .. last THEN n + 1 ELSE n

Tick ==
    /\ bucket' = [k \in Key |-> [bucket[k] EXCEPT !.age = Upto(@, Window)]]
    /\ since' = [k \in Key |-> Upto(since[k], Window)]
    /\ refusedFor' = [k \in Key |-> Upto(refusedFor[k], Window)]
    /\ lastAge' = Upto(lastAge, BurstWindow)
    /\ burstSince' = Upto(burstSince, BurstWindow)
    /\ burstRefusedFor' = Upto(burstRefusedFor, BurstWindow)
    /\ UNCHANGED <<seen, burstCount, burstSeen>>

Next == \/ \E k \in Key : Check(k) \/ Observe(k)
        \/ EvaluateSpamRule \/ ObserveBurst
        \/ Tick

Spec == Init /\ [][Next]_vars

--------------------------------------------------------------------------------
\* Buckets and burst counters hold what the code can put into them.
TypeOK ==
    /\ bucket \in [Key -> [count : 0 .. Limit, age : 0 .. Window + 1]]
    /\ since \in [Key -> 0 .. Window + 1] /\ seen \in [Key -> Nat]
    /\ refusedFor \in [Key -> -1 .. Window + 1]
    /\ burstCount \in 0 .. BurstLimit
    /\ lastAge \in 0 .. BurstWindow + 1
    /\ burstSince \in 0 .. BurstWindow + 1 /\ burstSeen \in Nat
    /\ burstRefusedFor \in -1 .. BurstWindow + 1

\* checkLimit: whatever the timing, no stretch of Window seconds sees more
\* than twice the limit, the end of one bucket and the beginning of the next.
TwiceTheLimit == \A k \in Key : since[k] <= Window => seen[k] <= 2 * Limit

\* checkLimit: a call made more than Window seconds after the first of a row of
\* refusals is admitted: refusals do not keep the window alive, so a busy key
\* is not shut out.
BucketRefusalEnds ==
    [][\A k \in Key : Check(k) /\ refusedFor[k] > Window => refusedFor'[k] = -1]_vars

\* EvaluateSpamRule: no stretch of BurstWindow seconds lets more than
\* BurstLimit messages through, wherever the stretch begins.
BurstBounded == burstSince <= BurstWindow => burstSeen <= BurstLimit

\* EvaluateSpamRule: a message that comes more than BurstWindow seconds after
\* the first of a row of refusals is let through: refused messages do not keep
\* the burst alive.
BurstRefusalEnds ==
    [][EvaluateSpamRule /\ burstRefusedFor > BurstWindow => burstRefusedFor' = -1]_vars
================================================================================
